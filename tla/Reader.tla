------------------------------- MODULE Reader -------------------------------
(***************************************************************************)
(* Reading receipts (src/receipt.rs, read_receipt and                      *)
(* parse_receipt_document; src/main.rs, show, verify and diff;             *)
(* src/diff.rs): a reader looks at each named file, opens it, reads it     *)
(* piece by piece, parses it and reports, while a recorder may still be    *)
(* writing the file and others replace, remove or overwrite it.            *)
(*                                                                         *)
(* A document is what a file is to hold once it is written: a receipt with *)
(* the effects its run had and the events it kept, or something that is no *)
(* receipt.  Whether a receipt verifies is Integrity's subject; here it is *)
(* a mark on the document.  Lengths are counted in pieces.                 *)
(***************************************************************************)
EXTENDS Integers, Sequences, FiniteSets

CONSTANTS
    Names,          \* paths a reader may be given
    Commands,       \* [verb, names] of show, verify and diff
    Documents,      \* [size, receipt, valid, events, ran, outcome, capabilities]
    NewFiles,       \* what others may put in the place of a file
    FirstFiles,     \* what each name may hold at first
    MaxBytes,       \* MAX_RECEIPT_BYTES
    MaxChanges,     \* bound on changes by others
    IoFaults,       \* whether calls of the reader may fail
    None

\* What a torn file may parse as: a receipt that does not verify.
Garbled == [size |-> 1, receipt |-> TRUE, valid |-> FALSE, events |-> <<>>, ran |-> None,
            outcome |-> None, capabilities |-> None]

\* Files: the first one of each name, and those others bring.
Ids == Names \cup 1..MaxChanges

Files == [kind : {"file", "directory", "pipe"}, doc : Documents \cup {None}, length : Nat]

ASSUME ReaderAssumption ==
    /\ MaxBytes \in Nat /\ MaxChanges \in Nat
    /\ \A c \in Commands : /\ c.names \in Seq(Names) /\ Len(c.names) \in {1, 2}
                           /\ c.verb = "diff" <=> Len(c.names) = 2
    /\ \A d \in Documents : d.size \in Nat /\ d.receipt \in BOOLEAN /\ d.valid \in BOOLEAN
    /\ None \notin Documents /\ None \notin Ids /\ None \notin Nat /\ None \notin Files /\ Names \cap Nat = {}
    /\ FirstFiles \subseteq Files \cup {None} /\ NewFiles \subseteq Files
    /\ \A f \in (FirstFiles \ {None}) \cup NewFiles : f.kind = "file" => f.doc # None

\* A recorder's receipt: its events are effects its run had, each key once.
ASSUME RecordedAssumption ==
    \A d \in Documents :
      /\ d.events \in Seq([key : {d.events[k].key : k \in DOMAIN d.events},
                            states : {d.events[k].states : k \in DOMAIN d.events}])
      /\ d.ran # None =>
           /\ \A k \in DOMAIN d.events : /\ d.events[k].key \in DOMAIN d.ran
                                         /\ d.ran[d.events[k].key] = d.events[k].states
                                         /\ d.events[k].states # None
           /\ \A j, k \in DOMAIN d.events : d.events[j].key = d.events[k].key => j = k
           /\ \A e \in Documents : e.ran # None => DOMAIN e.ran = DOMAIN d.ran

VARIABLES
    dir,        \* the file each name leads to, None when it leads to none
    store,      \* what each file holds: [kind, doc, length]
    changes,    \* how often others changed something
    touched,    \* history: names whose file was written, replaced or removed
    held,       \* history: the documents each name led to
    command,    \* [verb, names]
    pc,         \* where the reader is
    handle,     \* the open file
    got,        \* pieces read
    torn,       \* history: what is being read was overwritten after it was begun
    text,       \* what was read of the file, once its end was seen
    docs,       \* the receipts that were parsed
    printed,    \* [kind, value] of the document on standard output
    exit,
    faulted     \* history: a call of the reader failed

dirVars == <<dir, store, changes, touched, held>>
readVars == <<handle, got, torn, text>>
vars == <<dirVars, command, pc, readVars, docs, printed, exit, faulted>>

-----------------------------------------------------------------------------
(* src/diff.rs.                                                            *)

Keys(events) == {events[k].key : k \in DOMAIN events}

\* effects: a map from keys to effects; the last of two events with one key is kept.
EffectMap(events) ==
    [key \in Keys(events) |->
       LET last == CHOOSE k \in DOMAIN events :
                     /\ events[k].key = key
                     /\ \A j \in DOMAIN events : events[j].key = key => j <= k
       IN events[last].states]

\* Mutant: only the state after the command is compared.
DiffOfResults(b, a) ==
    LET before == EffectMap(b.events)
        after == EffectMap(a.events)
    IN [added   |-> DOMAIN after \ DOMAIN before,
        removed |-> DOMAIN before \ DOMAIN after,
        changed |-> {key \in DOMAIN before \cap DOMAIN after : before[key][2] # after[key][2]},
        outcomeChanged |-> b.outcome # a.outcome,
        capabilitiesChanged |-> b.capabilities # a.capabilities]

\* diff_receipts; a changed key comes with both effects, which the receipts hold anyway.
Diff(b, a) ==
    LET before == EffectMap(b.events)
        after == EffectMap(a.events)
    IN [added   |-> DOMAIN after \ DOMAIN before,
        removed |-> DOMAIN before \ DOMAIN after,
        changed |-> {key \in DOMAIN before \cap DOMAIN after : before[key] # after[key]},
        outcomeChanged |-> b.outcome # a.outcome,
        capabilitiesChanged |-> b.capabilities # a.capabilities]

-----------------------------------------------------------------------------
(* The reader.                                                             *)

\* The document a name leads to, if it leads to one.
HeldNow(d, f, n) == IF d[n] = None \/ f[d[n]].kind # "file" THEN {} ELSE {f[d[n]].doc}

\* Only names the reader is given matter to it.
Named == {command.names[k] : k \in DOMAIN command.names}

Name == command.names[Len(docs) + 1]

Init ==
    /\ command \in Commands
    /\ dir \in [Names -> Names \cup {None}]
    /\ \A n \in Names : dir[n] \in (IF n \in Named THEN {n, None} ELSE {None})
    /\ store \in [Ids -> FirstFiles] /\ \A i \in Ids : store[i] # None <=> i \in Names /\ dir[i] = i
    /\ touched = {} /\ held = [n \in Names |-> HeldNow(dir, store, n)]
    /\ changes = 0
    /\ pc = "stat" /\ handle = None /\ got = 0 /\ torn = FALSE /\ text = None
    /\ docs = <<>> /\ printed = None /\ exit = None /\ faulted = FALSE

Goes(p) == pc' = p /\ UNCHANGED <<dirVars, command, printed, exit, faulted>>

Fails(code) ==
    /\ pc' = "ended" /\ exit' = code
    /\ UNCHANGED <<dirVars, command, readVars, docs, printed>>

Refuses(code) == Fails(code) /\ UNCHANGED faulted

\* metadata: the name leads to a regular file that is not too long.
Stat ==
    LET file == IF dir[Name] = None THEN None ELSE store[dir[Name]] IN
    /\ pc = "stat"
    /\ \/ file = None /\ Refuses(1)
       \/ file # None /\ file.kind # "file" /\ Refuses(1)
       \/ file # None /\ file.kind = "file" /\ file.length > MaxBytes /\ Refuses(4)
       \/ /\ file # None /\ file.kind = "file" /\ file.length <= MaxBytes
          /\ Goes("open") /\ UNCHANGED <<readVars, docs>>

\* The name may lead elsewhere by now; the open of a pipe waits for its other end.
Open ==
    /\ pc = "open"
    /\ \/ dir[Name] = None /\ Refuses(1)
       \/ /\ dir[Name] # None /\ store[dir[Name]].kind # "pipe"
          /\ handle' = dir[Name] /\ got' = 0 /\ torn' = FALSE /\ text' = None
          /\ Goes("read") /\ UNCHANGED docs

\* Mutant: the file is read to its end.
Unlimited == store[handle].length + 1

\* take: one piece more than a receipt may have.
ReadLimit == MaxBytes + 1

\* Mutant: as many pieces as the file had when the reading began are waited for.
EndSeenLate == got >= ReadLimit \/ got >= store[handle].doc.size

EndSeen == got >= ReadLimit \/ got >= store[handle].length

ReadPiece ==
    /\ pc = "read" /\ store[handle].kind = "file" /\ ~EndSeen
    /\ got' \in (got + 1)..store[handle].length /\ got' <= ReadLimit
    /\ Goes("read") /\ UNCHANGED <<handle, torn, text, docs>>

ReadEnds ==
    /\ pc = "read" /\ store[handle].kind = "file" /\ EndSeen
    /\ text' = [doc |-> store[handle].doc, length |-> got, torn |-> torn]
    /\ Goes("parse") /\ UNCHANGED <<handle, got, torn, docs>>

ReadFails == pc = "read" /\ store[handle].kind # "file" /\ Refuses(1)

\* Mutant: a receipt of exactly the limit is refused.
AtLimit == text.length >= MaxBytes

TooLong == text.length > MaxBytes

\* A receipt without its last piece, a newline, is still JSON.
Parses == text.doc.receipt /\ text.length >= text.doc.size - 1

Parse ==
    /\ pc = "parse"
    /\ \/ TooLong /\ Refuses(4)
       \/ ~TooLong /\ (text.torn \/ ~Parses) /\ Refuses(1)
       \/ /\ ~TooLong
          /\ \/ ~text.torn /\ Parses /\ docs' = Append(docs, text.doc)
             \/ text.torn /\ docs' = Append(docs, Garbled)
          /\ Goes(IF Len(docs) + 1 < Len(command.names) THEN "stat" ELSE "report")
          /\ UNCHANGED readVars

Prints(kind, value, code) ==
    /\ pc' = "ended" /\ printed' = [kind |-> kind, value |-> value] /\ exit' = code
    /\ UNCHANGED <<dirVars, command, readVars, docs, faulted>>

\* Mutant: diff verifies the second receipt only.
LastVerifies == docs[Len(docs)].valid

AllVerify == \A k \in DOMAIN docs : docs[k].valid

\* show and verify print a report when a receipt does not verify; diff refuses.
Report ==
    /\ pc = "report"
    /\ \/ AllVerify /\ command.verb = "show" /\ Prints("receipt", docs[1], 0)
       \/ AllVerify /\ command.verb = "verify" /\ Prints("report", TRUE, 0)
       \/ AllVerify /\ command.verb = "diff" /\ Prints("diff", Diff(docs[1], docs[2]), 0)
       \/ ~AllVerify /\ command.verb # "diff" /\ Prints("report", FALSE, 3)
       \/ ~AllVerify /\ command.verb = "diff" /\ Refuses(3)

\* The open of a pipe nobody writes to.
Waits == pc = "open" /\ dir[Name] # None /\ store[dir[Name]].kind = "pipe"

\* Any call may fail, and so may standard output.
CallFails ==
    /\ IoFaults /\ pc \in {"stat", "open", "read", "report"}
    /\ ~Waits /\ ~(pc = "report" /\ command.verb = "diff" /\ ~AllVerify)
    /\ Fails(1) /\ faulted' = TRUE

ReaderStep == Stat \/ Open \/ ReadPiece \/ ReadEnds \/ ReadFails \/ Parse \/ Report

-----------------------------------------------------------------------------
(* Others.                                                                 *)

Touches(i) ==
    /\ touched' = touched \cup {n \in Names : dir[n] = i}
    /\ held' = [n \in Names |-> held[n] \cup HeldNow(dir', store', n)]
    /\ UNCHANGED <<command, pc, handle, got, text, docs, printed, exit, faulted>>

OnePieceMore(f) == [kind |-> f.kind, doc |-> f.doc, length |-> f.length + 1]

\* A recorder writes on; receipts are written from their first piece to their last.
Write ==
    \E i \in Ids :
      /\ pc # "ended" /\ store[i] # None /\ store[i].kind = "file"
      /\ store[i].length < store[i].doc.size
      /\ store' = [store EXCEPT ![i] = OnePieceMore(@)]
      /\ UNCHANGED <<dir, changes, torn>> /\ Touches(i)

Changed == pc # "ended" /\ changes < MaxChanges /\ changes' = changes + 1

\* Another file is put in the place of a name, or nothing is.
Replace ==
    /\ Changed
    /\ \E n \in Named, f \in NewFiles \cup {None} :
         /\ dir' = [dir EXCEPT ![n] = IF f = None THEN None ELSE changes + 1]
         /\ store' = [store EXCEPT ![changes + 1] = f]
         /\ touched' = touched \cup {n}
    /\ held' = [n \in Names |-> held[n] \cup HeldNow(dir', store', n)]
    /\ UNCHANGED <<command, pc, readVars, docs, printed, exit, faulted>>

\* A file is written anew in its place.
Overwrite ==
    /\ Changed
    /\ \E n \in Named, f \in NewFiles :
         /\ dir[n] # None /\ store[dir[n]].kind = "file" /\ f.kind = "file"
         /\ store' = [store EXCEPT ![dir[n]] = f]
         /\ torn' = (torn \/ (handle = dir[n] /\ got > 0))
         /\ UNCHANGED dir /\ Touches(dir[n])

Done == pc = "ended" /\ UNCHANGED vars

Waiting == Waits /\ UNCHANGED vars

Next == ReaderStep \/ CallFails \/ Write \/ Replace \/ Overwrite \/ Done \/ Waiting

Spec == Init /\ [][Next]_vars

\* The reader is scheduled; nobody else has to do anything.
FairSpec == Spec /\ WF_vars(ReaderStep)

-----------------------------------------------------------------------------
(* Properties.                                                             *)

\* Every variable holds a value of its kind, and a reader never takes in more than one
\* piece past the limit, however long the file is or grows.
FilesOK ==
    /\ dir \in [Names -> Ids \cup {None}] /\ store \in [Ids -> Files \cup {None}]
    /\ \A n \in Names : dir[n] # None => store[dir[n]] # None
    /\ changes \in 0..MaxChanges /\ touched \subseteq Names
    /\ held \in [Names -> SUBSET Documents]

TypeOK ==
    /\ FilesOK
    /\ command \in Commands
    /\ pc \in {"stat", "open", "read", "parse", "report", "ended"}
    /\ handle \in Ids \cup {None} /\ got \in 0..(MaxBytes + 1) /\ torn \in BOOLEAN
    /\ docs \in Seq(Documents \cup {Garbled}) /\ Len(docs) <= Len(command.names)
    /\ exit \in {0, 1, 3, 4, None} /\ (exit # None <=> pc = "ended") /\ faulted \in BOOLEAN

\* Success is about sealed receipts only: each one verified, is as its recorder wrote it
\* and not a mixture of two files, fits the limit, and was what its name led to at some
\* moment since the reader began, whoever wrote or replaced what in the meantime.
SuccessIsVerified ==
    exit = 0 => \A k \in DOMAIN command.names :
                  /\ docs[k].valid /\ docs[k] \in held[command.names[k]]
                  /\ docs[k].size <= MaxBytes + 1

\* What the exit code of one name has to be, and of the first name that is refused.
Refusal(n) ==
    IF dir[n] = None THEN 1
    ELSE LET file == store[dir[n]] IN
         IF file.kind # "file" THEN 1
         ELSE IF file.length > MaxBytes THEN 4
         ELSE IF file.doc.receipt /\ file.length >= file.doc.size - 1 THEN None ELSE 1

FirstRefusal ==
    LET refusals == {k \in DOMAIN command.names : Refusal(command.names[k]) # None} IN
    IF refusals = {} THEN None
    ELSE Refusal(command.names[CHOOSE k \in refusals : \A j \in refusals : k <= j])

\* When nobody touches the named files and no call fails, the exit code tells what they
\* are: a sealed receipt is refused for its length and for nothing else, an altered one
\* always has exit 3, and an unfinished one exit 1.
QuietReadIsExact ==
    (pc = "ended" /\ ~faulted /\ Named \cap touched = {}) =>
      IF FirstRefusal # None THEN exit = FirstRefusal /\ printed = None
      ELSE exit = IF \A n \in Named : store[dir[n]].doc.valid THEN 0 ELSE 3

\* A recorder's events are some of its run's effects, each once.
Complete(d) == Keys(d.events) = {key \in DOMAIN d.ran : d.ran[key] # None}

\* A printed comparison is true of the two runs: what it adds, removes or changes differed
\* between them, and what it is silent about did not, except for what a receipt that
\* dropped effects says nothing of.
DiffIsTrue ==
    (printed # None /\ printed.kind = "diff" /\ docs[1].ran # None /\ docs[2].ran # None) =>
      LET b == docs[1]
          a == docs[2]
          d == printed.value
      IN /\ \A key \in d.added : a.ran[key] # None /\ (b.ran[key] = None \/ ~Complete(b))
         /\ \A key \in d.removed : b.ran[key] # None /\ (a.ran[key] = None \/ ~Complete(a))
         /\ \A key \in d.changed : None \notin {a.ran[key], b.ran[key]} /\ a.ran[key] # b.ran[key]
         /\ \A key \in DOMAIN a.ran \ (d.added \cup d.removed \cup d.changed) :
              a.ran[key] = b.ran[key] \/ ~Complete(a) \/ ~Complete(b)

\* A reader ends, whatever is written, replaced or left unfinished under it, unless its
\* name was made to lead to a pipe after it had looked.
ReaderEnds == <>(pc = "ended" \/ Waits)

=============================================================================
