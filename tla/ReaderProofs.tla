---------------------------- MODULE ReaderProofs ----------------------------
(***************************************************************************)
(* Theorems about Reader: its types with the bound on what is read, that   *)
(* success is about sealed receipts only, that a printed comparison is     *)
(* true of the two runs, and that the exit code is the one the files call  *)
(* for when nobody disturbs them, for all files, documents and commands.   *)
(***************************************************************************)
EXTENDS Reader, SequenceTheorems, TLAPS

-----------------------------------------------------------------------------
(* Comparison.                                                             *)

\* In a recorder's receipt the last effect of a key is the effect its run had.
LEMMA EffectsOfRecorded ==
  ASSUME NEW d \in Documents, d.ran # None
  PROVE  /\ DOMAIN EffectMap(d.events) = Keys(d.events)
         /\ \A key \in Keys(d.events) : /\ key \in DOMAIN d.ran /\ d.ran[key] # None
                                       /\ EffectMap(d.events)[key] = d.ran[key]
<1>1. SUFFICES ASSUME NEW key \in Keys(d.events)
               PROVE  /\ key \in DOMAIN d.ran /\ d.ran[key] # None
                      /\ EffectMap(d.events)[key] = d.ran[key]
  BY DEF EffectMap
<1>2. PICK k \in DOMAIN d.events : d.events[k].key = key
  BY DEF Keys
<1>3. \A j \in DOMAIN d.events : d.events[j].key = key => j = k
  BY <1>2, RecordedAssumption
<1>4. k <= k
  BY RecordedAssumption
<1>5. (CHOOSE i \in DOMAIN d.events :
         /\ d.events[i].key = key
         /\ \A j \in DOMAIN d.events : d.events[j].key = key => j <= i) = k
  BY <1>2, <1>3, <1>4
<1>6. EffectMap(d.events)[key] = d.events[k].states
  BY <1>5 DEF EffectMap
<1>7. key \in DOMAIN d.ran /\ d.ran[key] = d.events[k].states /\ d.events[k].states # None
  BY <1>2, RecordedAssumption
<1> QED
  BY <1>6, <1>7

\* What Diff says of the receipts of two runs is true of the runs.
LEMMA DiffOfRuns ==
  ASSUME NEW b \in Documents, NEW a \in Documents, b.ran # None, a.ran # None
  PROVE  LET d == Diff(b, a) IN
         /\ \A key \in d.added : a.ran[key] # None /\ (b.ran[key] = None \/ ~Complete(b))
         /\ \A key \in d.removed : b.ran[key] # None /\ (a.ran[key] = None \/ ~Complete(a))
         /\ \A key \in d.changed : None \notin {a.ran[key], b.ran[key]} /\ a.ran[key] # b.ran[key]
         /\ \A key \in DOMAIN a.ran \ (d.added \cup d.removed \cup d.changed) :
              a.ran[key] = b.ran[key] \/ ~Complete(a) \/ ~Complete(b)
<1> DEFINE d == Diff(b, a)
<1>1. d.added = Keys(a.events) \ Keys(b.events) /\ d.removed = Keys(b.events) \ Keys(a.events)
  BY EffectsOfRecorded DEF Diff
<1>2. d.changed = {key \in Keys(a.events) \cap Keys(b.events) : b.ran[key] # a.ran[key]}
  <2>1. DOMAIN EffectMap(b.events) \cap DOMAIN EffectMap(a.events) = Keys(a.events) \cap Keys(b.events)
    BY EffectsOfRecorded
  <2>2. \A key \in Keys(a.events) \cap Keys(b.events) :
          EffectMap(b.events)[key] = b.ran[key] /\ EffectMap(a.events)[key] = a.ran[key]
    BY EffectsOfRecorded
  <2>3. d.changed = {key \in DOMAIN EffectMap(b.events) \cap DOMAIN EffectMap(a.events) :
                       EffectMap(b.events)[key] # EffectMap(a.events)[key]}
    BY DEF Diff
  <2> QED
    BY <2>1, <2>2, <2>3
<1>3. DOMAIN a.ran = DOMAIN b.ran
  BY RecordedAssumption
<1>4. \A key \in Keys(a.events) : key \in DOMAIN a.ran /\ a.ran[key] # None
  BY EffectsOfRecorded
<1>5. \A key \in Keys(b.events) : key \in DOMAIN b.ran /\ b.ran[key] # None
  BY EffectsOfRecorded
<1> QED
  BY <1>1, <1>2, <1>3, <1>4, <1>5 DEF Complete

-----------------------------------------------------------------------------
(* The inductive invariant.                                                *)

\* What was parsed for the k-th name is garbled, or something its name led to.
ReadFromName(k) ==
    \/ docs[k] = Garbled
    \/ docs[k] \in held[command.names[k]] /\ docs[k].size <= MaxBytes + 1

\* The open file, as long as it holds a document, holds one its name led to: no other
\* name leads to it, so nobody else can have changed it.
OpenFileInv ==
    pc = "read" =>
      /\ handle # None /\ store[handle] # None
      /\ handle \in Names \cup 1..changes
      /\ \A n \in Names : dir[n] = handle => n = Name
      /\ store[handle].kind = "file" => store[handle].doc \in held[Name]

TextInv ==
    pc = "parse" =>
      text.doc \in held[Name] /\ text.length \in Nat /\ text.torn \in BOOLEAN

DirInv ==
    /\ \A n \in Names : dir[n] # None => dir[n] \in Names \cup 1..changes
    /\ \A n, m \in Names : dir[n] = dir[m] /\ dir[n] # None => n = m
    /\ \A n \in Names : HeldNow(dir, store, n) \subseteq held[n]
    /\ \A i \in Ids : store[i] # None /\ store[i].kind = "file" => store[i].doc \in Documents

ProgressInv ==
    /\ pc \in {"stat", "open", "read", "parse"} => Len(docs) < Len(command.names)
    /\ pc = "report" => Len(docs) = Len(command.names)
    /\ exit = 0 => Len(docs) = Len(command.names) /\ AllVerify
    /\ \A k \in DOMAIN docs : ReadFromName(k)
    /\ (printed # None /\ printed.kind = "diff") =>
         Len(docs) = 2 /\ AllVerify /\ printed.value = Diff(docs[1], docs[2])

ReaderInv == TypeOK /\ DirInv /\ OpenFileInv /\ TextInv /\ ProgressInv

\* The plain facts about constants that the steps use.
LEMMA ConstantFacts ==
  /\ MaxBytes \in Nat /\ MaxChanges \in Nat
  /\ None \notin Documents /\ None \notin Ids /\ None \notin {0, 1, 3, 4}
  /\ Names \cap Nat = {} /\ Names \subseteq Ids
  /\ \A d \in Documents : d.size \in Nat
  /\ \A c \in Commands : c.names \in Seq(Names) /\ Len(c.names) \in {1, 2}
  /\ \A c \in Commands : c.verb = "diff" <=> Len(c.names) = 2
  /\ None \notin Files
<1>1. None \notin {0, 1, 3, 4} /\ Names \cap Nat = {} /\ Names \subseteq Ids
  BY ReaderAssumption DEF Ids
<1> QED
  BY <1>1, ReaderAssumption

LEMMA NameIsGiven ==
  ASSUME TypeOK, ProgressInv, pc \in {"stat", "open", "read", "parse"}
  PROVE  Len(docs) + 1 \in DOMAIN command.names /\ Name \in Names
<1>1. Len(docs) + 1 \in DOMAIN command.names
  BY ConstantFacts DEF TypeOK, ProgressInv
<1>2. command.names \in Seq(Names)
  BY ConstantFacts DEF TypeOK
<1> QED
  BY <1>1, <1>2 DEF Name

\* Only the reader's own variables differ.
LEMMA DirIsKept ==
  ASSUME FilesOK, DirInv, UNCHANGED dirVars
  PROVE  FilesOK' /\ DirInv'
BY DEF FilesOK, DirInv, HeldNow, dirVars

LEMMA InitInv == Init => ReaderInv
<1> SUFFICES ASSUME Init PROVE ReaderInv
  OBVIOUS
<1>0. /\ command \in Commands /\ pc = "stat" /\ handle = None /\ got = 0 /\ torn = FALSE
      /\ docs = <<>> /\ printed = None /\ exit = None /\ faulted = FALSE
  BY DEF Init
<1>1. TypeOK
  <2>1. dir \in [Names -> Ids \cup {None}] /\ store \in [Ids -> Files \cup {None}]
    BY ReaderAssumption, ConstantFacts DEF Init
  <2>2. \A n \in Names : dir[n] # None => dir[n] = n /\ store[n] # None
    BY ConstantFacts DEF Init
  <2>3. \A n \in Names : HeldNow(dir, store, n) \subseteq Documents
    <3> SUFFICES ASSUME NEW n \in Names, dir[n] # None, store[n].kind = "file"
                 PROVE store[n].doc \in Documents
      BY <2>2 DEF HeldNow
    <3>1. store[n] \in FirstFiles \ {None} /\ store[n] \in Files
      BY <2>1, <2>2, ConstantFacts DEF Init
    <3> QED
      BY <3>1, ReaderAssumption DEF Files
  <2>4. held \in [Names -> SUBSET Documents]
    BY <2>3 DEF Init
  <2>5. FilesOK
    BY <2>1, <2>2, <2>4, ConstantFacts DEF Init, FilesOK
  <2> QED
    <3>1. Len(command.names) \in {1, 2} /\ Len(docs) = 0 /\ docs \in Seq(Documents \cup {Garbled})
      BY ConstantFacts DEF Init
    <3>2. got \in 0..(MaxBytes + 1)
      BY <1>0, ConstantFacts
    <3>3. Len(docs) <= Len(command.names)
      BY <3>1
    <3> QED
      BY <1>0, <2>5, <3>1, <3>2, <3>3 DEF TypeOK
<1>2. DirInv
  BY ReaderAssumption DEF Init, DirInv, HeldNow, Ids, Files
<1>3. OpenFileInv /\ TextInv
  BY DEF Init, OpenFileInv, TextInv
<1>4. ProgressInv
  BY <1>0, ConstantFacts DEF ProgressInv
<1> QED
  BY <1>1, <1>2, <1>3, <1>4 DEF ReaderInv

LEMMA StatInv == ReaderInv /\ Stat => ReaderInv'
<1> SUFFICES ASSUME ReaderInv, Stat PROVE ReaderInv'
  OBVIOUS
<1> USE ConstantFacts
<1>1. TypeOK'
  BY NameIsGiven DEF ReaderInv, TypeOK, FilesOK, Stat, Fails, Refuses, Goes, dirVars, readVars
<1>2. DirInv'
  BY DirIsKept DEF ReaderInv, TypeOK, Stat, Fails, Refuses, Goes, dirVars, readVars
<1>3. OpenFileInv'
  BY NameIsGiven DEF ReaderInv, TypeOK, FilesOK, DirInv, OpenFileInv, HeldNow, Name, Stat, Fails, Refuses, Goes, dirVars, readVars
<1>4. TextInv'
  BY DEF ReaderInv, TypeOK, FilesOK, OpenFileInv, TextInv, Name, Stat, Fails, Refuses, Goes, dirVars, readVars
<1>5. ProgressInv'
  <2>1. /\ pc = "stat" /\ pc' \in {"open", "ended"} /\ exit' \in {exit, 1, 4}
        /\ UNCHANGED <<held, command, docs, printed>>
    BY DEF Stat, Fails, Refuses, Goes, dirVars
  <2>2. ProgressInv /\ (exit # None <=> pc = "ended")
    BY DEF ReaderInv, TypeOK
  <2>3. \A k \in DOMAIN docs' : ReadFromName(k)'
    BY <2>1, <2>2 DEF ProgressInv, ReadFromName
  <2> QED
    BY <2>1, <2>2, <2>3 DEF ProgressInv, AllVerify
<1> QED
  BY <1>1, <1>2, <1>3, <1>4, <1>5 DEF ReaderInv

LEMMA OpenInv == ReaderInv /\ Open => ReaderInv'
<1> SUFFICES ASSUME ReaderInv, Open PROVE ReaderInv'
  OBVIOUS
<1> USE ConstantFacts
<1>1. UNCHANGED <<dirVars, command, docs, printed>> /\ Len(docs) + 1 \in DOMAIN command.names /\ Name \in Names
  BY NameIsGiven DEF ReaderInv, Open, Refuses, Fails, Goes
<1>2. FilesOK' /\ DirInv' /\ Name' = Name
  BY <1>1, DirIsKept DEF ReaderInv, TypeOK, Name
<1>3. CASE dir[Name] = None
  <2>1. pc' = "ended" /\ exit' = 1 /\ UNCHANGED <<readVars, faulted>>
    BY <1>3 DEF Open, Refuses, Fails
  <2> QED
    BY <1>1, <1>2, <2>1
    DEF ReaderInv, TypeOK, OpenFileInv, TextInv, ProgressInv, ReadFromName, AllVerify, dirVars, readVars
<1>4. CASE dir[Name] # None
  <2>1. /\ pc = "open" /\ pc' = "read" /\ handle' = dir[Name] /\ got' = 0 /\ torn' = FALSE
        /\ UNCHANGED <<exit, faulted>>
    BY <1>4 DEF Open, Goes
  <2>2. handle' \in Ids /\ handle' # None /\ store[dir[Name]] # None
    BY <1>1, <1>4, <2>1 DEF ReaderInv, TypeOK, FilesOK
  <2>3. TypeOK'
    <3>1. got' \in 0..(MaxBytes + 1) /\ (exit' # None <=> pc' = "ended")
      BY <2>1 DEF ReaderInv, TypeOK
    <3> QED
      BY <1>1, <1>2, <2>1, <2>2, <3>1 DEF ReaderInv, TypeOK
  <2>4. store[dir[Name]].kind = "file" => store[dir[Name]].doc \in held[Name]
    BY <1>1, <1>4 DEF ReaderInv, DirInv, HeldNow
  <2>5. OpenFileInv'
    BY <1>1, <1>2, <1>4, <2>1, <2>2, <2>4 DEF ReaderInv, DirInv, OpenFileInv, dirVars
  <2>6. TextInv' /\ ProgressInv'
    BY <1>1, <2>1 DEF ReaderInv, TextInv, ProgressInv, ReadFromName, AllVerify, dirVars
  <2> QED
    BY <1>2, <2>3, <2>5, <2>6 DEF ReaderInv
<1> QED
  BY <1>3, <1>4

LEMMA ReadPieceInv == ReaderInv /\ ReadPiece => ReaderInv'
<1> SUFFICES ASSUME ReaderInv, ReadPiece PROVE ReaderInv'
  OBVIOUS
<1> USE ConstantFacts
<1>1. TypeOK'
  BY NameIsGiven DEF ReaderInv, TypeOK, FilesOK, ReadPiece, Goes, EndSeen, ReadLimit, dirVars, readVars
<1>2. DirInv'
  BY DirIsKept DEF ReaderInv, TypeOK, ReadPiece, Goes, EndSeen, ReadLimit, dirVars, readVars
<1>3. OpenFileInv'
  BY NameIsGiven DEF ReaderInv, TypeOK, FilesOK, DirInv, OpenFileInv, HeldNow, Name, ReadPiece, Goes, EndSeen, ReadLimit, dirVars, readVars
<1>4. TextInv'
  BY DEF ReaderInv, TypeOK, FilesOK, OpenFileInv, TextInv, Name, ReadPiece, Goes, EndSeen, ReadLimit, dirVars, readVars
<1>5. ProgressInv'
  BY DEF ReaderInv, TypeOK, FilesOK, ProgressInv, ReadFromName, AllVerify, ReadPiece, Goes, EndSeen, ReadLimit, dirVars, readVars
<1> QED
  BY <1>1, <1>2, <1>3, <1>4, <1>5 DEF ReaderInv

LEMMA ReadEndsInv == ReaderInv /\ ReadEnds => ReaderInv'
<1> SUFFICES ASSUME ReaderInv, ReadEnds PROVE ReaderInv'
  OBVIOUS
<1> USE ConstantFacts
<1>1. TypeOK'
  BY NameIsGiven DEF ReaderInv, TypeOK, FilesOK, ReadEnds, Goes, EndSeen, dirVars, readVars
<1>2. DirInv'
  BY DirIsKept DEF ReaderInv, TypeOK, ReadEnds, Goes, EndSeen, dirVars, readVars
<1>3. OpenFileInv'
  BY NameIsGiven DEF ReaderInv, TypeOK, FilesOK, DirInv, OpenFileInv, HeldNow, Name, ReadEnds, Goes, EndSeen, dirVars, readVars
<1>4. TextInv'
  BY DEF ReaderInv, TypeOK, FilesOK, OpenFileInv, TextInv, Name, ReadEnds, Goes, EndSeen, dirVars, readVars
<1>5. ProgressInv'
  BY DEF ReaderInv, TypeOK, FilesOK, ProgressInv, ReadFromName, AllVerify, ReadEnds, Goes, EndSeen, dirVars, readVars
<1> QED
  BY <1>1, <1>2, <1>3, <1>4, <1>5 DEF ReaderInv

LEMMA ReadFailsInv == ReaderInv /\ ReadFails => ReaderInv'
<1> SUFFICES ASSUME ReaderInv, ReadFails PROVE ReaderInv'
  OBVIOUS
<1> USE ConstantFacts
<1>1. TypeOK'
  BY NameIsGiven DEF ReaderInv, TypeOK, FilesOK, ReadFails, Refuses, Fails, dirVars, readVars
<1>2. DirInv'
  BY DirIsKept DEF ReaderInv, TypeOK, ReadFails, Refuses, Fails, dirVars, readVars
<1>3. OpenFileInv'
  BY NameIsGiven DEF ReaderInv, TypeOK, FilesOK, DirInv, OpenFileInv, HeldNow, Name, ReadFails, Refuses, Fails, dirVars, readVars
<1>4. TextInv'
  BY DEF ReaderInv, TypeOK, FilesOK, OpenFileInv, TextInv, Name, ReadFails, Refuses, Fails, dirVars, readVars
<1>5. ProgressInv'
  BY DEF ReaderInv, TypeOK, FilesOK, ProgressInv, ReadFromName, AllVerify, ReadFails, Refuses, Fails, dirVars, readVars
<1> QED
  BY <1>1, <1>2, <1>3, <1>4, <1>5 DEF ReaderInv

LEMMA ParseInv == ReaderInv /\ Parse => ReaderInv'
<1> SUFFICES ASSUME ReaderInv, Parse PROVE ReaderInv'
  OBVIOUS
<1> USE ConstantFacts
<1>1. /\ UNCHANGED <<dirVars, command, printed>> /\ pc = "parse"
      /\ Len(docs) + 1 \in DOMAIN command.names /\ Name \in Names
  BY NameIsGiven DEF ReaderInv, Parse, Refuses, Fails, Goes
<1>2. FilesOK' /\ DirInv'
  BY <1>1, DirIsKept DEF ReaderInv, TypeOK
<1>3. CASE pc' = "ended"
  <2>1. exit' \in {1, 4} /\ UNCHANGED <<readVars, docs, faulted>>
    BY <1>3 DEF Parse, Refuses, Fails, Goes
  <2> QED
    BY <1>1, <1>2, <1>3, <2>1
    DEF ReaderInv, TypeOK, OpenFileInv, TextInv, ProgressInv, ReadFromName, AllVerify, dirVars, readVars
<1>4. CASE pc' # "ended"
  <2>1. /\ docs' = Append(docs, text.doc) \/ docs' = Append(docs, Garbled)
        /\ UNCHANGED <<readVars, exit, faulted>>
        /\ pc' = IF Len(docs) + 1 < Len(command.names) THEN "stat" ELSE "report"
    BY <1>4 DEF Parse, Refuses, Fails, Goes
  <2>2. PICK d \in Documents \cup {Garbled} :
          /\ docs' = Append(docs, d)
          /\ d = Garbled \/ (d \in held[Name] /\ d.size <= MaxBytes + 1)
    <3>1. text.doc \in held[Name] /\ text.doc \in Documents /\ text.doc.size \in Nat /\ text.length \in Nat
      BY <1>1 DEF ReaderInv, TypeOK, FilesOK, TextInv
    <3>2. docs' = Append(docs, Garbled) \/ (docs' = Append(docs, text.doc) /\ Parses /\ ~TooLong)
      BY <1>4 DEF Parse, Refuses, Fails, Goes
    <3>3. Parses /\ ~TooLong => text.doc.size <= MaxBytes + 1
      BY <3>1 DEF Parses, TooLong
    <3> QED
      BY <3>1, <3>2, <3>3
  <2>3. /\ docs' \in Seq(Documents \cup {Garbled}) /\ Len(docs') = Len(docs) + 1
        /\ docs'[Len(docs) + 1] = d /\ \A k \in DOMAIN docs : docs'[k] = docs[k]
        /\ DOMAIN docs' = DOMAIN docs \cup {Len(docs) + 1}
    BY <2>2 DEF ReaderInv, TypeOK
  <2>4. TypeOK'
    BY <1>1, <1>2, <1>4, <2>1, <2>3 DEF ReaderInv, TypeOK, readVars
  <2>5. \A k \in DOMAIN docs' : ReadFromName(k)'
    BY <1>1, <2>2, <2>3 DEF ReaderInv, ProgressInv, ReadFromName, Name, dirVars
  <2>6. exit = None /\ (printed = None \/ printed.kind # "diff")
    <3>1. Len(docs) < Len(command.names)
      BY <1>1 DEF ReaderInv, ProgressInv
    <3>2. Len(docs) # 2
      BY <3>1 DEF ReaderInv, TypeOK
    <3> QED
      BY <1>1, <3>2 DEF ReaderInv, TypeOK, ProgressInv
  <2>7. ProgressInv'
    BY <1>1, <1>4, <2>1, <2>3, <2>5, <2>6 DEF ReaderInv, TypeOK, ProgressInv
  <2>8. OpenFileInv' /\ TextInv'
    BY <2>1 DEF OpenFileInv, TextInv
  <2> QED
    BY <1>2, <2>4, <2>7, <2>8 DEF ReaderInv
<1> QED
  BY <1>3, <1>4

LEMMA ReportInv == ReaderInv /\ Report => ReaderInv'
<1> SUFFICES ASSUME ReaderInv, Report PROVE ReaderInv'
  OBVIOUS
<1> USE ConstantFacts
<1>1. TypeOK'
  BY NameIsGiven DEF ReaderInv, TypeOK, FilesOK, Report, Refuses, Fails, Prints, dirVars, readVars
<1>2. DirInv'
  BY DirIsKept DEF ReaderInv, TypeOK, Report, Refuses, Fails, Prints, dirVars, readVars
<1>3. OpenFileInv'
  BY NameIsGiven DEF ReaderInv, TypeOK, FilesOK, DirInv, OpenFileInv, HeldNow, Name, Report, Refuses, Fails, Prints, dirVars, readVars
<1>4. TextInv'
  BY DEF ReaderInv, TypeOK, FilesOK, OpenFileInv, TextInv, Name, Report, Refuses, Fails, Prints, dirVars, readVars
<1>5. ProgressInv'
  <2>1. /\ pc = "report" /\ pc' = "ended" /\ UNCHANGED <<held, command, docs>>
        /\ exit' = 0 => AllVerify
        /\ \/ printed' = printed
           \/ printed'.kind \in {"receipt", "report"}
           \/ AllVerify /\ command.verb = "diff" /\ printed'.value = Diff(docs[1], docs[2])
    BY DEF Report, Refuses, Fails, Prints, dirVars
  <2>2. command.verb = "diff" <=> Len(command.names) = 2
    BY DEF ReaderInv, TypeOK
  <2>3. \A k \in DOMAIN docs : ReadFromName(k)'
    BY <2>1 DEF ReaderInv, ProgressInv, ReadFromName
  <2>4. AllVerify' = AllVerify
    BY <2>1 DEF AllVerify
  <2> QED
    BY <2>1, <2>2, <2>3, <2>4 DEF ReaderInv, ProgressInv
<1> QED
  BY <1>1, <1>2, <1>3, <1>4, <1>5 DEF ReaderInv

LEMMA CallFailsInv == ReaderInv /\ CallFails => ReaderInv'
<1> SUFFICES ASSUME ReaderInv, CallFails PROVE ReaderInv'
  OBVIOUS
<1> USE ConstantFacts
<1>1. TypeOK'
  BY NameIsGiven DEF ReaderInv, TypeOK, FilesOK, CallFails, Fails, dirVars, readVars
<1>2. DirInv'
  BY DirIsKept DEF ReaderInv, TypeOK, CallFails, Fails, dirVars, readVars
<1>3. OpenFileInv'
  BY NameIsGiven DEF ReaderInv, TypeOK, FilesOK, DirInv, OpenFileInv, HeldNow, Name, CallFails, Fails, dirVars, readVars
<1>4. TextInv'
  BY DEF ReaderInv, TypeOK, FilesOK, OpenFileInv, TextInv, Name, CallFails, Fails, dirVars, readVars
<1>5. ProgressInv'
  BY DEF ReaderInv, TypeOK, FilesOK, ProgressInv, ReadFromName, AllVerify, CallFails, Fails, dirVars, readVars
<1> QED
  BY <1>1, <1>2, <1>3, <1>4, <1>5 DEF ReaderInv

\* What others do leaves what the reader has in hand as it was.
LEMMA HandIsKept ==
  ASSUME ReaderInv, UNCHANGED <<command, pc, text, docs, printed, exit>>,
         \A n \in Names : held[n] \subseteq held'[n]
  PROVE  TextInv' /\ ProgressInv'
<1>1. \A k \in DOMAIN docs : k \in DOMAIN command.names
  BY ConstantFacts DEF ReaderInv, TypeOK, FilesOK
<1>2. \A k \in DOMAIN command.names : command.names[k] \in Names
  BY ConstantFacts DEF ReaderInv, TypeOK, FilesOK
<1>3. pc = "parse" => Name \in Names /\ Name' = Name
  <2>1. pc = "parse" => Len(docs) + 1 \in DOMAIN command.names
    BY ConstantFacts DEF ReaderInv, TypeOK, FilesOK, ProgressInv
  <2> QED
    BY <1>2, <2>1 DEF Name
<1>4. TextInv'
  BY <1>3 DEF ReaderInv, TextInv
<1>5. \A k \in DOMAIN docs : ReadFromName(k)'
  BY <1>1, <1>2 DEF ReaderInv, ProgressInv, ReadFromName
<1>6. ProgressInv'
  BY <1>5 DEF ReaderInv, ProgressInv, AllVerify
<1> QED
  BY <1>4, <1>6

LEMMA WriteInv == ReaderInv /\ Write => ReaderInv'
<1> SUFFICES ASSUME ReaderInv, Write PROVE ReaderInv'
  OBVIOUS
<1> USE ConstantFacts
<1>1. PICK i \in Ids :
        /\ store[i] # None /\ store[i].kind = "file" /\ store[i].length < store[i].doc.size
        /\ store' = [store EXCEPT ![i] = OnePieceMore(store[i])]
        /\ UNCHANGED <<dir, changes, torn>> /\ Touches(i)
  BY DEF Write
<1>2. store[i] \in Files /\ OnePieceMore(store[i]) \in Files
  BY <1>1 DEF ReaderInv, TypeOK, FilesOK, Files, OnePieceMore
<1>3. OnePieceMore(store[i]).kind = store[i].kind /\ OnePieceMore(store[i]).doc = store[i].doc
  BY DEF OnePieceMore
<1>4. store' \in [Ids -> Files \cup {None}]
  BY <1>1, <1>2 DEF ReaderInv, TypeOK, FilesOK
<1>5. \A j \in Ids : /\ store'[j] = None <=> store[j] = None
                     /\ store[j] # None => store'[j].kind = store[j].kind /\ store'[j].doc = store[j].doc
  BY <1>1, <1>2, <1>3 DEF ReaderInv, TypeOK, FilesOK
<1>6. \A n \in Names : HeldNow(dir', store', n) = HeldNow(dir, store, n)
  <2> SUFFICES ASSUME NEW n \in Names, dir[n] # None
               PROVE HeldNow(dir', store', n) = HeldNow(dir, store, n)
    BY <1>1 DEF HeldNow
  <2>1. dir' = dir /\ dir[n] \in Ids /\ store[dir[n]] # None
    BY <1>1 DEF ReaderInv, TypeOK, FilesOK
  <2>2. store'[dir[n]].kind = store[dir[n]].kind /\ store'[dir[n]].doc = store[dir[n]].doc
    BY <1>5, <2>1
  <2> QED
    BY <2>1, <2>2 DEF HeldNow
<1>7. held' = held
  <2>1. held' = [n \in Names |-> held[n] \cup HeldNow(dir', store', n)]
    BY <1>1 DEF Touches
  <2>2. \A n \in Names : held[n] \cup HeldNow(dir', store', n) = held[n]
    BY <1>6 DEF ReaderInv, DirInv
  <2>3. held = [n \in Names |-> held[n]]
    BY DEF ReaderInv, TypeOK, FilesOK
  <2> QED
    BY <2>1, <2>2, <2>3
<1>8. TypeOK'
  <2>1. \A n \in Names : dir'[n] # None => store'[dir'[n]] # None
    BY <1>1, <1>5 DEF ReaderInv, TypeOK, FilesOK
  <2>2. touched' \subseteq Names
    BY <1>1 DEF ReaderInv, TypeOK, FilesOK, Touches
  <2>3. FilesOK'
    BY <1>1, <1>4, <1>7, <2>1, <2>2 DEF ReaderInv, TypeOK, FilesOK
  <2> QED
    BY <1>1, <2>3 DEF ReaderInv, TypeOK, Touches
<1>9. DirInv'
  BY <1>1, <1>5, <1>6, <1>7 DEF ReaderInv, TypeOK, FilesOK, DirInv, Touches
<1>10. OpenFileInv'
  BY <1>1, <1>5, <1>7 DEF ReaderInv, TypeOK, FilesOK, OpenFileInv, Touches, Name
<1>11. TextInv' /\ ProgressInv'
  BY <1>1, <1>7, HandIsKept DEF Touches
<1> QED
  BY <1>8, <1>9, <1>10, <1>11 DEF ReaderInv

LEMMA ReplaceInv == ReaderInv /\ Replace => ReaderInv'
<1> SUFFICES ASSUME ReaderInv, Replace PROVE ReaderInv'
  OBVIOUS
<1> USE ConstantFacts
<1> DEFINE new == changes + 1
<1>1. PICK n \in Named, f \in NewFiles \cup {None} :
        /\ dir' = [dir EXCEPT ![n] = IF f = None THEN None ELSE new]
        /\ store' = [store EXCEPT ![new] = f]
        /\ touched' = touched \cup {n}
  BY DEF Replace
<1>2. /\ new \in Ids /\ new \notin Names \cup 1..changes /\ changes' = new /\ n \in Names
      /\ 1..changes \subseteq 1..changes'
  <2>1. changes \in Nat /\ changes' = new /\ new \in 1..MaxChanges
    BY DEF Replace, Changed, ReaderInv, TypeOK, FilesOK
  <2>2. n \in Names
    BY <1>1 DEF Named, ReaderInv, TypeOK, FilesOK
  <2> QED
    BY <2>1, <2>2 DEF Ids
<1>3. f # None => f \in Files
  BY ReaderAssumption
<1>4. /\ \A j \in Ids \ {new} : store'[j] = store[j]
      /\ store'[new] = f /\ store' \in [Ids -> Files \cup {None}]
  BY <1>1, <1>2, <1>3 DEF ReaderInv, TypeOK, FilesOK
<1>5. /\ \A m \in Names \ {n} : dir'[m] = dir[m]
      /\ dir'[n] = IF f = None THEN None ELSE new
      /\ dir' \in [Names -> Ids \cup {None}]
  BY <1>1, <1>2 DEF ReaderInv, TypeOK, FilesOK
<1>6. \A m \in Names : dir[m] # None => dir[m] \in Ids \ {new}
  BY <1>2 DEF ReaderInv, TypeOK, FilesOK, DirInv
<1>7. f # None /\ f.kind = "file" => f.doc \in Documents
  BY ReaderAssumption DEF Files
<1>8. \A m \in Names : HeldNow(dir', store', m) \subseteq Documents
  BY <1>4, <1>5, <1>6, <1>7 DEF HeldNow, ReaderInv, TypeOK, FilesOK, DirInv
<1>9. /\ held' = [m \in Names |-> held[m] \cup HeldNow(dir', store', m)]
      /\ \A m \in Names : held[m] \subseteq held'[m] /\ HeldNow(dir', store', m) \subseteq held'[m]
  BY DEF Replace
<1>10. UNCHANGED <<command, pc, handle, got, torn, text, docs, printed, exit, faulted>>
  BY DEF Replace, readVars
<1>11. TypeOK'
  <2>1. changes' \in 0..MaxChanges /\ touched' \subseteq Names
    BY <1>1, <1>2 DEF ReaderInv, TypeOK, FilesOK, Replace, Changed
  <2>2. \A m \in Names : dir'[m] # None => store'[dir'[m]] # None
    BY <1>4, <1>5, <1>6 DEF ReaderInv, TypeOK, FilesOK
  <2>3. held' \in [Names -> SUBSET Documents]
    BY <1>8, <1>9 DEF ReaderInv, TypeOK, FilesOK
  <2>4. FilesOK'
    BY <1>4, <1>5, <2>1, <2>2, <2>3 DEF FilesOK
  <2> QED
    BY <1>10, <2>4 DEF ReaderInv, TypeOK
<1>12. DirInv'
  <2>1. \A m \in Names : dir'[m] # None => dir'[m] \in Names \cup 1..changes'
    BY <1>2, <1>5 DEF ReaderInv, DirInv
  <2>2. \A l, m \in Names : dir'[l] = dir'[m] /\ dir'[l] # None => l = m
    BY <1>5, <1>6 DEF ReaderInv, DirInv
  <2>3. \A j \in Ids : store'[j] # None /\ store'[j].kind = "file" => store'[j].doc \in Documents
    BY <1>4, <1>7 DEF ReaderInv, DirInv
  <2> QED
    BY <1>9, <2>1, <2>2, <2>3 DEF DirInv
<1>13. OpenFileInv'
  <2>1. SUFFICES ASSUME pc = "read" PROVE OpenFileInv'
    BY <1>10 DEF OpenFileInv
  <2>2. handle \in Ids \ {new} /\ handle' = handle /\ handle \in Names \cup 1..changes'
    BY <1>2, <1>10, <2>1 DEF ReaderInv, OpenFileInv, TypeOK, FilesOK
  <2>3. Name' = Name /\ Name \in Names
    <3>1. Len(docs) + 1 \in DOMAIN command.names
      BY <2>1 DEF ReaderInv, ProgressInv, TypeOK, FilesOK
    <3> QED
      BY <1>10, <3>1 DEF Name, ReaderInv, TypeOK, FilesOK
  <2> QED
    BY <1>4, <1>5, <1>6, <1>9, <1>10, <2>1, <2>2, <2>3 DEF ReaderInv, OpenFileInv
<1>14. TextInv' /\ ProgressInv'
  BY <1>9, <1>10, HandIsKept
<1> QED
  BY <1>11, <1>12, <1>13, <1>14 DEF ReaderInv

LEMMA OverwriteInv == ReaderInv /\ Overwrite => ReaderInv'
<1> SUFFICES ASSUME ReaderInv, Overwrite PROVE ReaderInv'
  OBVIOUS
<1> USE ConstantFacts
<1>1. PICK n \in Named, f \in NewFiles :
        /\ dir[n] # None /\ store[dir[n]].kind = "file" /\ f.kind = "file"
        /\ store' = [store EXCEPT ![dir[n]] = f]
        /\ torn' = (torn \/ (handle = dir[n] /\ got > 0))
        /\ UNCHANGED dir /\ Touches(dir[n])
  BY DEF Overwrite
<1>2. n \in Names /\ dir[n] \in Ids /\ f \in Files /\ f.doc \in Documents /\ f # None
  BY <1>1, ReaderAssumption DEF Named, ReaderInv, TypeOK, FilesOK, Files
<1>3. /\ \A j \in Ids \ {dir[n]} : store'[j] = store[j]
      /\ store'[dir[n]] = f /\ store' \in [Ids -> Files \cup {None}]
  BY <1>1, <1>2 DEF ReaderInv, TypeOK, FilesOK
<1>4. \A m \in Names : HeldNow(dir', store', m) \subseteq Documents
  BY <1>1, <1>2, <1>3 DEF HeldNow, ReaderInv, TypeOK, FilesOK, DirInv
<1>5. /\ held' = [m \in Names |-> held[m] \cup HeldNow(dir', store', m)]
      /\ \A m \in Names : held[m] \subseteq held'[m] /\ HeldNow(dir', store', m) \subseteq held'[m]
  BY <1>1 DEF Touches
<1>6. UNCHANGED <<command, pc, handle, got, text, docs, printed, exit, faulted>>
  BY <1>1 DEF Touches
<1>7. changes' \in 0..MaxChanges /\ 1..changes \subseteq 1..changes' /\ torn' \in BOOLEAN
      /\ touched' \subseteq Names
  BY <1>1 DEF Overwrite, Changed, Touches, ReaderInv, TypeOK, FilesOK
<1>8. TypeOK'
  <2>1. \A m \in Names : dir'[m] # None => store'[dir'[m]] # None
    BY <1>1, <1>2, <1>3 DEF ReaderInv, TypeOK, FilesOK
  <2>2. held' \in [Names -> SUBSET Documents]
    BY <1>4, <1>5 DEF ReaderInv, TypeOK, FilesOK
  <2>3. FilesOK'
    BY <1>1, <1>3, <1>7, <2>1, <2>2 DEF FilesOK, ReaderInv, TypeOK
  <2> QED
    BY <1>6, <1>7, <2>3 DEF ReaderInv, TypeOK
<1>9. DirInv'
  <2>1. \A j \in Ids : store'[j] # None /\ store'[j].kind = "file" => store'[j].doc \in Documents
    BY <1>2, <1>3 DEF ReaderInv, DirInv
  <2> QED
    BY <1>1, <1>5, <1>7, <2>1 DEF ReaderInv, DirInv
<1>10. OpenFileInv'
  <2>1. SUFFICES ASSUME pc = "read" PROVE OpenFileInv'
    BY <1>6 DEF OpenFileInv
  <2>2. handle \in Ids /\ handle' = handle /\ handle \in Names \cup 1..changes'
    BY <1>6, <1>7, <2>1 DEF ReaderInv, OpenFileInv, TypeOK, FilesOK
  <2>3. Name' = Name /\ Name \in Names
    <3>1. Len(docs) + 1 \in DOMAIN command.names
      BY <2>1 DEF ReaderInv, ProgressInv, TypeOK, FilesOK
    <3> QED
      BY <1>6, <3>1 DEF Name, ReaderInv, TypeOK, FilesOK
  <2>4. dir[n] = handle => n = Name /\ HeldNow(dir', store', n) = {f.doc}
    BY <1>1, <1>2, <1>3, <2>1 DEF ReaderInv, OpenFileInv, HeldNow
  <2>5. store'[handle] # None /\ \A m \in Names : dir'[m] = handle => m = Name
    BY <1>1, <1>2, <1>3, <2>1, <2>2 DEF ReaderInv, OpenFileInv
  <2>6. store'[handle].kind = "file" => store'[handle].doc \in held'[Name]
    <3>1. CASE dir[n] = handle
      BY <1>2, <1>3, <1>5, <2>4, <3>1
    <3>2. CASE dir[n] # handle
      BY <1>3, <1>5, <2>1, <2>2, <2>3, <3>2 DEF ReaderInv, OpenFileInv
    <3> QED
      BY <3>1, <3>2
  <2> QED
    BY <1>6, <2>1, <2>2, <2>3, <2>5, <2>6 DEF ReaderInv, OpenFileInv
<1>11. TextInv' /\ ProgressInv'
  BY <1>5, <1>6, HandIsKept
<1> QED
  BY <1>8, <1>9, <1>10, <1>11 DEF ReaderInv

-----------------------------------------------------------------------------
(* Theorems.                                                               *)

LEMMA Inductive == Spec => []ReaderInv
<1>1. ReaderInv /\ UNCHANGED vars => ReaderInv'
  <2> SUFFICES ASSUME ReaderInv, UNCHANGED vars PROVE ReaderInv'
    OBVIOUS
  <2>1. TypeOK'
    BY DEF ReaderInv, TypeOK, FilesOK, vars, dirVars, readVars
  <2>2. DirInv' /\ OpenFileInv' /\ TextInv'
    BY DirIsKept DEF ReaderInv, TypeOK, OpenFileInv, TextInv, Name, vars, dirVars, readVars
  <2>3. ProgressInv'
    BY DEF ReaderInv, ProgressInv, ReadFromName, AllVerify, vars, dirVars, readVars
  <2> QED
    BY <2>1, <2>2, <2>3 DEF ReaderInv
<1>2. ReaderInv /\ [Next]_vars => ReaderInv'
  BY <1>1, StatInv, OpenInv, ReadPieceInv, ReadEndsInv, ReadFailsInv, ParseInv,
     ReportInv, CallFailsInv, WriteInv, ReplaceInv, OverwriteInv
  DEF Next, ReaderStep, Done, Waiting
<1> QED
  BY InitInv, <1>2, PTL DEF Spec

\* Types, and with them the bound on what a reader takes in.
THEOREM TypeCorrect == Spec => []TypeOK
<1>1. ReaderInv => TypeOK
  BY DEF ReaderInv
<1> QED
  BY Inductive, <1>1, PTL

\* A reader that succeeds reports sealed receipts of the names it was given, whole and
\* within the limit, under every interleaving with writers and replacements.
THEOREM SuccessIsAboutSealedReceipts == Spec => []SuccessIsVerified
<1>1. ReaderInv => SuccessIsVerified
  <2> SUFFICES ASSUME ReaderInv, exit = 0, NEW k \in DOMAIN command.names
               PROVE  /\ docs[k].valid /\ docs[k] \in held[command.names[k]]
                      /\ docs[k].size <= MaxBytes + 1
    BY DEF SuccessIsVerified
  <2>1. Len(docs) = Len(command.names) /\ AllVerify
    BY DEF ReaderInv, ProgressInv
  <2>2. k \in DOMAIN docs
    BY <2>1, ConstantFacts DEF ReaderInv, TypeOK
  <2>3. docs[k].valid /\ ReadFromName(k)
    BY <2>1, <2>2 DEF AllVerify, ReaderInv, ProgressInv
  <2>4. docs[k] # Garbled
    BY <2>3 DEF Garbled
  <2> QED
    BY <2>3, <2>4 DEF ReadFromName
<1> QED
  BY Inductive, <1>1, PTL

\* The two elements of a sequence of two.
LEMMA PairInSet ==
  ASSUME NEW S, NEW s \in Seq(S), Len(s) = 2
  PROVE  s[1] \in S /\ s[2] \in S
<1>1. 1 \in 1..Len(s) /\ 2 \in 1..Len(s)
  OBVIOUS
<1> QED
  BY <1>1, ElementOfSeq

\* A printed comparison is true of the two runs up to what the receipts say they dropped.
THEOREM ComparisonIsTrue == Spec => []DiffIsTrue
<1>1. ReaderInv => DiffIsTrue
  <2> SUFFICES ASSUME ReaderInv, printed # None, printed.kind = "diff",
                      docs[1].ran # None, docs[2].ran # None
               PROVE  LET d == printed.value IN
                      /\ \A key \in d.added : docs[2].ran[key] # None /\ (docs[1].ran[key] = None \/ ~Complete(docs[1]))
                      /\ \A key \in d.removed : docs[1].ran[key] # None /\ (docs[2].ran[key] = None \/ ~Complete(docs[2]))
                      /\ \A key \in d.changed : /\ None \notin {docs[2].ran[key], docs[1].ran[key]}
                                                 /\ docs[2].ran[key] # docs[1].ran[key]
                      /\ \A key \in DOMAIN docs[2].ran \ (d.added \cup d.removed \cup d.changed) :
                           docs[2].ran[key] = docs[1].ran[key] \/ ~Complete(docs[2]) \/ ~Complete(docs[1])
    BY Zenon DEF DiffIsTrue
  <2>1. Len(docs) = 2 /\ AllVerify /\ printed.value = Diff(docs[1], docs[2])
    BY DEF ReaderInv, ProgressInv
  <2>2. docs[1] \in Documents \cup {Garbled} /\ docs[2] \in Documents \cup {Garbled}
    <3>1. docs \in Seq(Documents \cup {Garbled}) /\ Len(docs) = 2
      BY <2>1 DEF ReaderInv, TypeOK
    <3> QED
      BY <3>1, PairInSet
  <2>3. docs[1] \in Documents /\ docs[2] \in Documents
    BY <2>2 DEF Garbled
  <2> QED
    BY <2>1, <2>3, DiffOfRuns
<1> QED
  BY Inductive, <1>1, PTL

-----------------------------------------------------------------------------
(* Exit codes in a quiet directory.                                        *)

\* Nobody touched the named files so far, and no call failed.
Undisturbed == ~faulted /\ Named \cap touched = {}

\* The name leads to a regular file that is not too long.
Readable(n) ==
    dir[n] # None /\ store[dir[n]].kind = "file" /\ store[dir[n]].length <= MaxBytes

\* What was parsed is what the names lead to, and there was nothing to refuse in it.
ParsedExactly ==
    \A k \in DOMAIN docs : /\ Refusal(command.names[k]) = None
                           /\ docs[k] = store[dir[command.names[k]]].doc

\* What is in hand is of the file the name leads to.
HandExact ==
    /\ pc \in {"open", "read", "parse"} => Readable(Name)
    /\ pc = "read" => handle = dir[Name] /\ ~torn /\ got <= store[handle].length
    /\ pc = "parse" => /\ text.doc = store[dir[Name]].doc /\ ~text.torn
                       /\ text.length = store[dir[Name]].length

\* The exit code is the one the files call for.
ExitExact ==
    IF FirstRefusal # None THEN exit = FirstRefusal /\ printed = None
    ELSE exit = IF \A n \in Named : store[dir[n]].doc.valid THEN 0 ELSE 3

QuietInv ==
    /\ pc # "ended" => printed = None
    /\ Undisturbed => /\ ParsedExactly /\ HandExact
                      /\ pc = "ended" => ExitExact

\* The named files are what they were.
SameFiles ==
    /\ command' = command
    /\ \A n \in Named : dir'[n] = dir[n] /\ (dir[n] # None => store'[dir[n]] = store[dir[n]])

LEMMA GivenNames ==
  ASSUME TypeOK
  PROVE  /\ \A k \in DOMAIN command.names : command.names[k] \in Named
         /\ Named \subseteq Names /\ DOMAIN command.names = 1..Len(command.names)
         /\ DOMAIN docs = 1..Len(docs) /\ DOMAIN docs \subseteq DOMAIN command.names
         /\ Len(docs) \in Nat /\ Len(command.names) \in Nat
<1>1. command.names \in Seq(Names) /\ Len(docs) <= Len(command.names)
  BY ConstantFacts DEF TypeOK
<1>2. docs \in Seq(Documents \cup {Garbled})
  BY DEF TypeOK
<1>3. /\ DOMAIN command.names = 1..Len(command.names) /\ Len(command.names) \in Nat
      /\ DOMAIN docs = 1..Len(docs) /\ Len(docs) \in Nat
  BY <1>1, <1>2
<1>4. DOMAIN docs \subseteq DOMAIN command.names
  BY <1>1, <1>3
<1> QED
  BY <1>1, <1>3, <1>4 DEF Named

Refused == {k \in DOMAIN command.names : Refusal(command.names[k]) # None}

\* The first of the refused names decides.
LEMMA FirstIsLeast ==
  ASSUME TypeOK
  PROVE  /\ FirstRefusal = None => Refused = {}
         /\ \A k \in Refused : (\A j \in Refused : k <= j) =>
              FirstRefusal = Refusal(command.names[k])
         /\ Refused # {} => (CHOOSE k \in Refused : \A j \in Refused : k <= j) \in Refused
<1>1. Refused \subseteq {1, 2}
  BY ConstantFacts, GivenNames DEF TypeOK, Refused
<1>2. ASSUME Refused # {} PROVE \E k \in Refused : \A j \in Refused : k <= j
  <2>1. CASE 1 \in Refused
    BY <1>1, <2>1
  <2>2. CASE 1 \notin Refused
    <3>1. Refused = {2}
      BY <1>1, <1>2, <2>2
    <3> QED
      BY <3>1
  <2> QED
    BY <2>1, <2>2
<1> DEFINE first == CHOOSE k \in Refused : \A j \in Refused : k <= j
<1>3. Refused # {} => first \in Refused /\ FirstRefusal = Refusal(command.names[first])
  BY <1>2 DEF FirstRefusal, Refused
<1>4. \A k \in Refused : (\A j \in Refused : k <= j) => k = first
  <2> SUFFICES ASSUME NEW k \in Refused, \A j \in Refused : k <= j PROVE k = first
    OBVIOUS
  <2>1. \A j \in Refused : (\A i \in Refused : j <= i) => j = k
    BY <1>1
  <2> QED
    BY <2>1
<1> QED
  BY <1>3, <1>4 DEF Refused

LEMMA SameRefusals ==
  ASSUME TypeOK, SameFiles
  PROVE  /\ Named' = Named /\ \A n \in Named : Refusal(n)' = Refusal(n)
         /\ FirstRefusal' = FirstRefusal
<1>1. Named' = Named /\ \A n \in Named : Refusal(n)' = Refusal(n)
  BY DEF SameFiles, Named, Refusal
<1>2. \A k \in DOMAIN command.names : Refusal(command.names[k])' = Refusal(command.names[k])
  BY <1>1, GivenNames DEF SameFiles
<1> HIDE DEF Refusal
<1>3. Refused' = Refused
  BY <1>2 DEF SameFiles, Refused
<1> DEFINE first == CHOOSE k \in Refused : \A j \in Refused : k <= j
<1>4. FirstRefusal = IF Refused = {} THEN None ELSE Refusal(command.names[first])
  BY DEF FirstRefusal, Refused
<1>5. FirstRefusal' = IF Refused' = {} THEN None ELSE Refusal(command.names[first])'
  BY DEF FirstRefusal, Refused
<1>6. Refused # {} => first \in DOMAIN command.names
  BY FirstIsLeast DEF Refused
<1>7. first' = first
  BY <1>3
<1> HIDE DEF first
<1>8. Refused # {} => Refusal(command.names[first])' = Refusal(command.names[first])
  BY <1>2, <1>6, <1>7
<1> QED
  BY <1>1, <1>3, <1>4, <1>5, <1>8

\* Without a refusal among the names before, the one at hand is the first.
LEMMA RefusedFirst ==
  ASSUME TypeOK, ParsedExactly, Len(docs) + 1 \in DOMAIN command.names, Refusal(Name) # None
  PROVE  FirstRefusal = Refusal(Name)
<1> DEFINE k == Len(docs) + 1
<1>1. \A j \in Refused : j \notin DOMAIN docs
  BY DEF ParsedExactly, Refused
<1>2. k \in Refused /\ \A j \in Refused : k <= j
  BY <1>1, GivenNames DEF Name, Refused
<1> QED
  BY <1>2, FirstIsLeast DEF Name

\* A step after which a disturbed run remains disturbed and the named files are the same.
LEMMA QuietStays ==
  ASSUME ReaderInv, SameFiles, UNCHANGED <<pc, handle, got, text, docs, printed, exit>>,
         QuietInv, Undisturbed' => Undisturbed /\ torn' = torn
  PROVE  QuietInv'
<1> SUFFICES ASSUME Undisturbed, torn' = torn
             PROVE  ParsedExactly' /\ HandExact' /\ (pc = "ended" => ExitExact')
  BY DEF QuietInv
<1>1. TypeOK /\ ParsedExactly /\ HandExact /\ (pc = "ended" => ExitExact)
  BY DEF ReaderInv, QuietInv
<1>2. ParsedExactly'
  <2> SUFFICES ASSUME NEW k \in DOMAIN docs
               PROVE  /\ Refusal(command.names[k])' = None
                      /\ docs[k] = store'[dir'[command.names[k]]].doc
    BY DEF ParsedExactly, SameFiles
  <2>1. command.names[k] \in Named
    BY <1>1, GivenNames
  <2>2. Refusal(command.names[k]) = None /\ docs[k] = store[dir[command.names[k]]].doc
    BY <1>1 DEF ParsedExactly
  <2>3. dir[command.names[k]] # None
    BY <2>2, <1>1, ConstantFacts DEF Refusal
  <2> QED
    BY <1>1, <2>1, <2>2, <2>3, SameRefusals DEF SameFiles
<1>3. HandExact'
  <2>1. pc \in {"open", "read", "parse"} => Name \in Named
    BY <1>1, NameIsGiven, GivenNames DEF ReaderInv, Name
  <2>2. Name' = Name
    BY DEF Name, SameFiles
  <2> QED
    BY <1>1, <2>1, <2>2 DEF HandExact, SameFiles, Readable
<1>4. ASSUME pc = "ended" PROVE ExitExact'
  <2>1. FirstRefusal' = FirstRefusal /\ Named' = Named
    BY <1>1, SameRefusals
  <2>2. FirstRefusal = None => \A n \in Named : dir[n] # None
    <3> SUFFICES ASSUME FirstRefusal = None, NEW k \in DOMAIN command.names
                 PROVE  dir[command.names[k]] # None
      BY DEF Named
    <3>1. Refusal(command.names[k]) = None
      BY <1>1, FirstIsLeast DEF Refused
    <3> QED
      BY <3>1, ConstantFacts DEF Refusal
  <2> QED
    BY <1>1, <1>4, <2>1, <2>2 DEF ExitExact, SameFiles
<1> QED
  BY <1>2, <1>3, <1>4

\* A refusal for what the name at hand leads to is the exit code called for.
LEMMA RefusalIsExact ==
  ASSUME ReaderInv, QuietInv, pc \in {"stat", "open", "read", "parse"}, NEW code,
         Refuses(code), Undisturbed => Refusal(Name) = code, code # None
  PROVE  QuietInv'
<1>1. /\ UNCHANGED <<dirVars, command, docs, printed, faulted>> /\ pc' = "ended" /\ exit' = code
      /\ TypeOK /\ printed = None
  BY DEF Refuses, Fails, QuietInv, ReaderInv
<1>2. SameFiles /\ (Undisturbed' => Undisturbed)
  BY <1>1 DEF SameFiles, dirVars, Undisturbed, Named
<1>3. FirstRefusal' = FirstRefusal
  BY <1>1, <1>2, SameRefusals
<1>4. ASSUME Undisturbed PROVE ParsedExactly' /\ ExitExact'
  <2>1. ParsedExactly
    BY <1>4 DEF QuietInv
  <2>2. ParsedExactly'
    BY <1>1, <2>1 DEF ParsedExactly, Refusal, dirVars
  <2>3. FirstRefusal = code
    BY <1>1, <1>4, <2>1, RefusedFirst, NameIsGiven DEF ReaderInv
  <2> QED
    BY <1>1, <1>3, <2>2, <2>3 DEF ExitExact
<1> QED
  BY <1>1, <1>2, <1>4 DEF QuietInv, HandExact

\* A step of the reader that refuses nothing.
LEMMA QuietGoes ==
  ASSUME ReaderInv, QuietInv, NEW p, Goes(p), p # "ended", pc # "ended",
         Undisturbed => ParsedExactly' /\ HandExact'
  PROVE  QuietInv'
BY DEF QuietInv, Goes, Undisturbed, Named, dirVars

LEMMA QuietStep == ReaderInv /\ QuietInv /\ ReaderStep => QuietInv'
<1> SUFFICES ASSUME ReaderInv, QuietInv, ReaderStep PROVE QuietInv'
  OBVIOUS
<1>a. TypeOK /\ (Undisturbed => ParsedExactly /\ HandExact)
  BY DEF ReaderInv, QuietInv
<1>b. None \notin {1, 3, 4}
  BY ConstantFacts
<1>1. CASE Stat
  <2>1. pc = "stat"
    BY <1>1 DEF Stat
  <2>2. CASE pc' = "open"
    <3>1. Goes("open") /\ Readable(Name) /\ UNCHANGED <<readVars, docs>>
      BY <1>1, <2>2 DEF Stat, Refuses, Fails, Readable
    <3>2. HandExact' /\ (Undisturbed => ParsedExactly')
      BY <1>a, <3>1 DEF HandExact, ParsedExactly, Goes, Readable, Name, Refusal, dirVars
    <3> QED
      BY <2>1, <3>1, <3>2, QuietGoes
  <2>3. CASE pc' # "open"
    <3>1. \/ Refusal(Name) = 1 /\ Refuses(1)
          \/ Refusal(Name) = 4 /\ Refuses(4)
      <4>1. CASE dir[Name] = None
        BY <1>1, <4>1 DEF Stat, Refusal
      <4>2. CASE dir[Name] # None /\ store[dir[Name]].kind # "file"
        BY <1>1, <4>2 DEF Stat, Refusal
      <4>3. CASE dir[Name] # None /\ store[dir[Name]].kind = "file"
        <5>1. store[dir[Name]] # None
          BY <2>1, <4>3, <1>a, NameIsGiven DEF ReaderInv, TypeOK, FilesOK
        <5> QED
          BY <1>1, <2>3, <4>3, <5>1 DEF Stat, Refusal, Goes
      <4> QED
        BY <4>1, <4>2, <4>3
    <3> QED
      BY <1>b, <2>1, <3>1, RefusalIsExact
  <2> QED
    BY <2>2, <2>3
<1>2. CASE Open
  <2>1. pc = "open"
    BY <1>2 DEF Open
  <2>2. CASE dir[Name] = None
    <3>1. Refuses(1) /\ Refusal(Name) = 1
      BY <1>2, <2>2 DEF Open, Refusal
    <3> QED
      BY <1>b, <2>1, <3>1, RefusalIsExact
  <2>3. CASE dir[Name] # None
    <3>1. Goes("read") /\ handle' = dir[Name] /\ got' = 0 /\ ~torn' /\ docs' = docs
      BY <1>2, <2>3 DEF Open
    <3>2. Name \in Names
      BY <2>1, NameIsGiven DEF ReaderInv
    <3>3. Undisturbed => store[dir[Name]].length >= 0
      <4> SUFFICES ASSUME Undisturbed PROVE store[dir[Name]].length \in Nat
        OBVIOUS
      <4>1. store[dir[Name]] \in Files
        BY <2>3, <3>2, <1>a DEF TypeOK, FilesOK
      <4> QED
        BY <4>1 DEF Files
    <3>4. Undisturbed => HandExact' /\ ParsedExactly'
      BY <1>a, <2>1, <3>1, <3>3 DEF HandExact, ParsedExactly, Goes, Readable, Name, Refusal, dirVars
    <3> QED
      BY <2>1, <3>1, <3>4, QuietGoes
  <2> QED
    BY <2>2, <2>3
<1>3. CASE ReadPiece
  <2>1. /\ pc = "read" /\ Goes("read") /\ UNCHANGED <<handle, torn, text, docs>>
        /\ got' \in (got + 1)..store[handle].length
    BY <1>3 DEF ReadPiece
  <2>2. got' <= store[handle].length
    BY <2>1
  <2>3. Undisturbed => HandExact' /\ ParsedExactly'
    BY <1>a, <2>1, <2>2 DEF HandExact, ParsedExactly, Goes, Readable, Name, Refusal, dirVars
  <2> QED
    BY <2>1, <2>3, QuietGoes
<1>4. CASE ReadEnds
  <2>1. /\ pc = "read" /\ Goes("parse") /\ UNCHANGED <<handle, docs>>
        /\ text' = [doc |-> store[handle].doc, length |-> got, torn |-> torn]
        /\ got >= MaxBytes + 1 \/ got >= store[handle].length
    BY <1>4 DEF ReadEnds, EndSeen, ReadLimit
  <2>2. text'.doc = store[handle].doc /\ text'.length = got /\ text'.torn = torn
    BY <2>1
  <2>3. Undisturbed => HandExact' /\ ParsedExactly'
    <3> SUFFICES ASSUME Undisturbed PROVE HandExact' /\ ParsedExactly'
      OBVIOUS
    <3>1. /\ Readable(Name) /\ handle = dir[Name] /\ ~torn /\ got <= store[handle].length
          /\ ParsedExactly
      BY <1>a, <2>1 DEF HandExact
    <3>2. handle \in Ids /\ handle # None
      BY <1>a, <3>1 DEF TypeOK, Readable
    <3>3. store[handle].length \in Nat
      <4>1. Name \in Names
        BY <2>1, NameIsGiven DEF ReaderInv
      <4>2. store[handle] \in Files
        BY <1>a, <3>1, <3>2, <4>1 DEF TypeOK, FilesOK
      <4> QED
        BY <4>2 DEF Files
    <3>4. store[handle].length <= MaxBytes /\ got \in Int /\ MaxBytes \in Nat
      BY <1>a, <3>1, ConstantFacts DEF Readable, TypeOK
    <3>5. got = store[handle].length
      BY <2>1, <3>1, <3>3, <3>4
    <3> QED
      BY <2>1, <2>2, <3>1, <3>5 DEF HandExact, ParsedExactly, Goes, Readable, Name, Refusal, dirVars
  <2> QED
    BY <2>1, <2>3, QuietGoes
<1>5. CASE ReadFails
  <2>1. pc = "read" /\ store[handle].kind # "file" /\ Refuses(1)
    BY <1>5 DEF ReadFails
  <2>2. ~Undisturbed
    BY <1>a, <2>1 DEF HandExact, Readable
  <2> QED
    BY <1>b, <2>1, <2>2, RefusalIsExact
<1>6. CASE Parse
  <2>1. pc = "parse"
    BY <1>6 DEF Parse
  <2>2. ASSUME Undisturbed
        PROVE  /\ ~TooLong /\ ~text.torn /\ text.doc = store[dir[Name]].doc
               /\ Refusal(Name) = IF Parses THEN None ELSE 1
    <3>1. /\ Readable(Name) /\ text.doc = store[dir[Name]].doc /\ ~text.torn
          /\ text.length = store[dir[Name]].length
      BY <1>a, <2>1, <2>2 DEF HandExact
    <3>2. Name \in Names
      BY <2>1, NameIsGiven DEF ReaderInv
    <3>3. store[dir[Name]] \in Files /\ MaxBytes \in Nat
      BY <1>a, <3>1, <3>2, ConstantFacts DEF TypeOK, FilesOK, Readable
    <3>4. store[dir[Name]].length \in Nat
      BY <3>3 DEF Files
    <3>5. ~(store[dir[Name]].length > MaxBytes)
      BY <3>1, <3>3, <3>4 DEF Readable
    <3> QED
      BY <3>1, <3>5 DEF TooLong, Parses, Refusal, Readable
  <2>3. CASE pc' = "ended"
    <3>1. PICK code \in {1, 4} : Refuses(code) /\ (Undisturbed => code = 1 /\ ~Parses)
      <4>1. TooLong => ~Undisturbed
        BY <2>2
      <4>2. text.torn => ~Undisturbed
        BY <2>2
      <4> QED
        BY <1>6, <2>3, <4>1, <4>2 DEF Parse, Goes
    <3> QED
      BY <1>b, <2>1, <2>2, <3>1, RefusalIsExact
  <2>4. CASE pc' # "ended"
    <3>1. PICK p \in {"stat", "report"} : Goes(p)
      BY <1>6, <2>4 DEF Parse, Refuses, Fails
    <3>2. Undisturbed => docs' = Append(docs, store[dir[Name]].doc) /\ Refusal(Name) = None
      BY <1>6, <2>2, <2>4 DEF Parse, Refuses, Fails
    <3>3. docs \in Seq(Documents \cup {Garbled})
      BY <1>a DEF TypeOK
    <3>4. Undisturbed => ParsedExactly'
      <4> SUFFICES ASSUME Undisturbed, NEW k \in DOMAIN docs'
                   PROVE  /\ Refusal(command.names[k]) = None
                          /\ docs'[k] = store[dir[command.names[k]]].doc
        BY <3>1 DEF ParsedExactly, Goes, Refusal, dirVars
      <4>1. \/ k \in DOMAIN docs /\ docs'[k] = docs[k]
            \/ k = Len(docs) + 1 /\ docs'[k] = store[dir[Name]].doc
        BY <3>2, <3>3
      <4> QED
        BY <1>a, <3>2, <4>1 DEF ParsedExactly, Name
    <3>5. HandExact'
      BY <3>1 DEF HandExact, Goes
    <3> QED
      BY <2>1, <3>1, <3>4, <3>5, QuietGoes
  <2> QED
    BY <2>3, <2>4
<1>7. CASE Report
  <2>1. /\ pc = "report" /\ pc' = "ended" /\ exit' = IF AllVerify THEN 0 ELSE 3
        /\ UNCHANGED <<dirVars, command, docs, faulted>>
    BY <1>7, <1>a, ConstantFacts DEF Report, Prints, Refuses, Fails, TypeOK
  <2>2. Len(docs) = Len(command.names)
    BY <2>1 DEF ReaderInv, ProgressInv
  <2>3. DOMAIN docs = DOMAIN command.names
    BY <1>a, <2>2, GivenNames
  <2>4. SameFiles /\ (Undisturbed' => Undisturbed)
    BY <2>1 DEF SameFiles, dirVars, Undisturbed, Named
  <2>5. ASSUME Undisturbed PROVE ParsedExactly' /\ ExitExact'
    <3>1. ParsedExactly'
      BY <1>a, <2>1, <2>5 DEF ParsedExactly, Refusal, dirVars
    <3>2. Refused = {}
      BY <1>a, <2>3, <2>5 DEF ParsedExactly, Refused
    <3>3. FirstRefusal' = None
      BY <1>a, <2>4, <3>2, SameRefusals DEF FirstRefusal, Refused
    <3>4. AllVerify <=> \A n \in Named : store[dir[n]].doc.valid
      BY <1>a, <2>3, <2>5 DEF AllVerify, ParsedExactly, Named
    <3>5. Named' = Named /\ dir' = dir /\ store' = store
      BY <2>1 DEF Named, dirVars
    <3> QED
      BY <2>1, <3>1, <3>3, <3>4, <3>5 DEF ExitExact
  <2> QED
    BY <2>1, <2>4, <2>5 DEF QuietInv, HandExact
<1> QED
  BY <1>1, <1>2, <1>3, <1>4, <1>5, <1>6, <1>7 DEF ReaderStep

\* Who touches no named file leaves what they hold, and who touches one is noted.
LEMMA QuietOthers == ReaderInv /\ QuietInv /\ (Write \/ Replace \/ Overwrite) => QuietInv'
<1> SUFFICES ASSUME ReaderInv, QuietInv, Write \/ Replace \/ Overwrite PROVE QuietInv'
  OBVIOUS
<1>1. ASSUME NEW i, NEW f, store' = [store EXCEPT ![i] = f], UNCHANGED dir, Touches(i),
             torn' = torn \/ i \in {dir[n] : n \in Named}
      PROVE  QuietInv'
  <2>1. /\ UNCHANGED <<command, pc, handle, got, text, docs, printed, exit, faulted>>
        /\ touched' = touched \cup {n \in Names : dir[n] = i} /\ Named' = Named
    BY <1>1 DEF Touches, Named
  <2>2. CASE \E n \in Named : dir[n] = i
    <3>1. ~Undisturbed'
      BY <2>1, <2>2, GivenNames DEF Undisturbed, ReaderInv
    <3> QED
      BY <2>1, <3>1 DEF QuietInv
  <2>3. CASE ~\E n \in Named : dir[n] = i
    <3>1. \A n \in Named : dir[n] # None => store'[dir[n]] = store[dir[n]]
      BY <1>1, <2>3, GivenNames DEF ReaderInv, TypeOK, FilesOK
    <3>2. SameFiles /\ torn' = torn /\ (Undisturbed' => Undisturbed)
      BY <1>1, <2>1, <2>3, <3>1 DEF SameFiles, Undisturbed
    <3> QED
      BY <2>1, <3>2, QuietStays
  <2> QED
    BY <2>2, <2>3
<1>2. CASE Write
  BY <1>1, <1>2 DEF Write
<1>3. CASE Overwrite
  BY <1>1, <1>3 DEF Overwrite
<1>4. CASE Replace
  <2>1. PICK n \in Named : touched' = touched \cup {n}
    BY <1>4 DEF Replace
  <2>2. UNCHANGED <<command, pc, printed>>
    BY <1>4 DEF Replace
  <2>3. ~Undisturbed'
    BY <2>1, <2>2 DEF Undisturbed, Named
  <2> QED
    BY <2>2, <2>3 DEF QuietInv
<1> QED
  BY <1>2, <1>3, <1>4

\* When nobody touches the named files and no call fails, the exit code tells what they
\* are, for every file, length and command.
THEOREM QuietReadExact == Spec => []QuietReadIsExact
<1>1. Init => QuietInv
  BY DEF Init, QuietInv, ParsedExactly, HandExact
<1>2. ReaderInv /\ QuietInv /\ [Next]_vars => QuietInv'
  <2>1. ReaderInv /\ QuietInv /\ CallFails => QuietInv'
    BY DEF CallFails, Fails, QuietInv, Undisturbed
  <2>2. ReaderInv /\ QuietInv /\ UNCHANGED vars => QuietInv'
    <3> SUFFICES ASSUME ReaderInv, QuietInv, UNCHANGED vars PROVE QuietInv'
      OBVIOUS
    <3>1. SameFiles /\ torn' = torn /\ (Undisturbed' => Undisturbed)
      BY DEF vars, dirVars, readVars, SameFiles, Undisturbed, Named
    <3> QED
      BY <3>1, QuietStays DEF vars, readVars
  <2> QED
    BY <2>1, <2>2, QuietStep, QuietOthers DEF Next, Done, Waiting
<1>3. QuietInv => QuietReadIsExact
  BY DEF QuietInv, QuietReadIsExact, Undisturbed, ExitExact
<1> QED
  BY Inductive, <1>1, <1>2, <1>3, PTL DEF Spec

=============================================================================
