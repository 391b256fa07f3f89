------------------------- MODULE ReceiptStoreProofs -------------------------
(***************************************************************************)
(* Proofs about ReceiptStore, for any number of recorders, names and       *)
(* identifiers: type correctness, that exit codes and files agree, and     *)
(* that the store implements ReceiptPromise.                               *)
(*                                                                         *)
(* RecorderInv relates where a recorder is to the files it made; a step of *)
(* anybody else leaves it alone (Frame), or removes a file of the recorder *)
(* and notes it (RemoveStep).                                              *)
(***************************************************************************)
EXTENDS ReceiptStore, TLAPS

Early   == {"start", "setup", "seal"}
Writing == {"preflight", "create", "write", "sync", "report"}

Owns(r, n) == files[n] # None /\ files[n].owner = r
Gone(r, n) == <<r, n>> \in removed

\* The file being written has come this far, or somebody removed it.
Has(r, state) == files[target[r]] = File(r, id[r], state) \/ Gone(r, target[r])

\* Where the recorder is, and what it knows by then.
Position(r) ==
    /\ pc[r] \in Early => target[r] = None
    /\ pc[r] \in {"start", "setup"} => ~attempted[r]
    /\ pc[r] \in Writing => target[r] # None
    /\ target[r] # None => id[r] \in Ids /\ target[r] \in {out[r], Recovery(id[r])}

\* The files it made are the ones it meant to make.
Files(r) ==
    \A n \in Names :
      /\ Owns(r, n) \/ Gone(r, n) =>
           /\ target[r] # None
           /\ n = out[r] \/ (n = Recovery(id[r]) /\ target[r] = n)
      /\ ~(Owns(r, n) /\ Gone(r, n))

\* How far the file under the current name has come.
Progress(r) ==
    /\ pc[r] \in {"preflight", "create"} => ~Owns(r, target[r]) /\ ~Gone(r, target[r])
    /\ pc[r] = "write" => Has(r, "partial")
    /\ pc[r] = "sync" => Has(r, "whole")
    /\ pc[r] = "report" => Has(r, "synced")

\* What an exit code says.
Verdict(r) ==
    /\ exit[r] \in {2, 5} => target[r] = None /\ ~attempted[r]
    /\ exit[r] = 0 => target[r] = out[r]
    /\ exit[r] = 1 => target[r] \in {None, out[r]}
    /\ exit[r] \in {0, 1} /\ target[r] # None => Has(r, "synced")
    /\ persisted[r] =>
         exit[r] = 6 /\ target[r] # None /\ target[r] = Recovery(id[r]) /\ Has(r, "synced")

RecorderInv(r) == Position(r) /\ Files(r) /\ Progress(r) /\ Verdict(r)

StoreInv == TypeOK /\ \A r \in Recorders : RecorderInv(r)

-----------------------------------------------------------------------------
(* Names and files.                                                        *)

\* Recovery names are names, and nobody can ask for one.
LEMMA RecoveryNames ==
    ASSUME NEW i \in Ids
    PROVE  Recovery(i) \in Names /\ Recovery(i) \notin Paths
PROOF BY StoreAssumption DEF Names

\* None stands for nothing else.
LEMMA NoneIsNothing ==
    /\ \A r \in Recorders : r # None /\ r # Foreign
    /\ \A i \in Ids : i # None
    /\ \A n \in Names : n # None
    /\ \A f \in FileRecords : f # None
    /\ \A c \in Codes : c # None
PROOF BY StoreAssumption

\* What a file made by File is.
LEMMA FileFacts ==
    ASSUME NEW o \in Recorders \cup {Foreign}, NEW i \in Ids \cup {None}, NEW s \in States
    PROVE  /\ File(o, i, s) \in FileRecords /\ File(o, i, s) # None
           /\ File(o, i, s).owner = o /\ File(o, i, s).id = i /\ File(o, i, s).state = s
           /\ \A t \in States : [File(o, i, s) EXCEPT !.state = t] = File(o, i, t)
PROOF
<1>1. File(o, i, s) \in FileRecords
  BY DEF File, FileRecords
<1>2. File(o, i, s) # None
  BY <1>1, NoneIsNothing
<1> QED
  BY <1>1, <1>2 DEF File

-----------------------------------------------------------------------------
(* Type correctness.                                                       *)

\* What Reaches leaves in the directory: only the file of the recorder changes, in its state.
LEMMA ReachesSteps ==
    ASSUME TypeOK, NEW r \in Recorders, target[r] \in Names,
           NEW state \in States, Reaches(r, state)
    PROVE  /\ files' \in [Names -> {None} \cup FileRecords]
           /\ \A n \in Names : n # target[r] => files'[n] = files[n]
           /\ ~Owns(r, target[r]) => files' = files
           /\ Owns(r, target[r]) => files'[target[r]] = [files[target[r]] EXCEPT !.state = state]
PROOF
<1> DEFINE n == target[r]
<1>1. CASE Owns(r, n)
  <2>1. files' = [files EXCEPT ![n].state = state]
    BY <1>1 DEF Reaches, Owns
  <2>2. files[n] \in FileRecords
    BY <1>1 DEF TypeOK, Owns
  <2>3. [files[n] EXCEPT !.state = state] \in FileRecords
    BY <2>2 DEF FileRecords
  <2> QED
    BY <1>1, <2>1, <2>3 DEF TypeOK
<1>2. CASE ~Owns(r, n)
  BY <1>2 DEF Reaches, Owns, TypeOK
<1> QED
  BY <1>1, <1>2

LEMMA TypeInit == Init => TypeOK
PROOF
<1> SUFFICES ASSUME Init PROVE TypeOK
  OBVIOUS
<1>1. ForeignFile \in FileRecords
  BY DEF ForeignFile, File, FileRecords, States
<1>2. files \in [Names -> {None} \cup FileRecords]
  BY <1>1 DEF Init
<1> QED
  BY <1>2, StoreAssumption DEF Init, TypeOK

\* Every step of a recorder, an ending included, keeps the types.
LEMMA TypeEnds ==
    ASSUME TypeOK, NEW r \in Recorders, NEW c \in Codes, Ends(r, c)
    PROVE  TypeOK'
PROOF BY NoneIsNothing DEF TypeOK, Ends, Goes, envVars

LEMMA TypeRecorder ==
    ASSUME TypeOK, NEW r \in Recorders, RecorderStep(r) \/ Crash(r),
           pc[r] \in Writing => id[r] \in Ids /\ target[r] \in Names
    PROVE  TypeOK'
PROOF
<1> USE DEF Goes
<1>1. CASE InvalidArguments(r) \/ PreflightRefuses(r) \/ SetupFails(r) \/ SealFails(r)
            \/ ReportKept(r) \/ ReportFails(r)
  <2>1. PICK c \in Codes : Ends(r, c)
    BY <1>1 DEF InvalidArguments, PreflightRefuses, SetupFails, SealFails, ReportKept,
                ReportFails, Codes
  <2> QED
    BY <2>1, TypeEnds
<1>2. CASE Preflight(r)
  BY <1>2 DEF TypeOK, Preflight, envVars
<1>3. CASE Attempt(r)
  BY <1>3 DEF TypeOK, Attempt, envVars
<1>4. CASE InterruptedBeforeSpawn(r)
  BY <1>4 DEF TypeOK, InterruptedBeforeSpawn, envVars
<1>5. CASE Seal(r)
  BY <1>5 DEF TypeOK, Seal, envVars, Names
<1>6. CASE Repreflight(r)
  BY <1>6 DEF TypeOK, Repreflight, envVars
<1>7. CASE Create(r)
  <2>1. File(r, id[r], "partial") \in FileRecords
    BY <1>7, FileFacts DEF Create, Writing, States
  <2>2. files' \in [Names -> {None} \cup FileRecords]
    BY <1>7, <2>1 DEF Create, TypeOK
  <2> QED
    BY <1>7, <2>2 DEF TypeOK, Create, envVars
<1>8. CASE Write(r)
  <2>1. files' \in [Names -> {None} \cup FileRecords]
    BY <1>8, ReachesSteps DEF Write, Writing, States
  <2> QED
    BY <1>8, <2>1 DEF TypeOK, Write, envVars
<1>9. CASE Sync(r)
  <2>1. files' \in [Names -> {None} \cup FileRecords]
    BY <1>9, ReachesSteps DEF Sync, Writing, States
  <2> QED
    BY <1>9, <2>1 DEF TypeOK, Sync, envVars
<1>10. CASE WriteFails(r)
  <2>1. pc[r] \in Writing
    BY <1>10 DEF WriteFails, Writing
  <2>2. CASE target[r] = out[r]
    <3>1. Recovery(id[r]) \in Names
      BY <2>1, RecoveryNames
    <3> QED
      BY <1>10, <2>1, <2>2, <3>1 DEF TypeOK, WriteFails, WriteFailed, envVars, Writing
  <2>3. CASE target[r] # out[r]
    BY <1>10, <2>3, TypeEnds DEF WriteFails, WriteFailed, Codes
  <2> QED
    BY <2>2, <2>3
<1>11. CASE ReportRecovered(r)
  BY <1>11, NoneIsNothing DEF TypeOK, ReportRecovered, envVars, Codes
<1>12. CASE Crash(r)
  BY <1>12 DEF TypeOK, Crash, envVars
<1> QED
  BY <1>1, <1>2, <1>3, <1>4, <1>5, <1>6, <1>7, <1>8, <1>9, <1>10, <1>11, <1>12 DEF RecorderStep

\* So does whatever others do to the directory.
LEMMA TypeOthers ==
    ASSUME TypeOK,
           \/ \E n \in Paths : Place(n)
           \/ \E n \in Names : Remove(n)
           \/ Toggle
    PROVE  TypeOK'
PROOF
<1> USE StoreAssumption DEF Changes, recVars
<1>1. ASSUME NEW n \in Paths, Place(n) PROVE TypeOK'
  <2>1. ForeignFile \in FileRecords
    BY DEF ForeignFile, File, FileRecords, States
  <2>2. files' \in [Names -> {None} \cup FileRecords]
    BY <1>1, <2>1 DEF Place, TypeOK
  <2> QED
    BY <1>1, <2>2 DEF TypeOK, Place
<1>2. ASSUME NEW n \in Names, Remove(n) PROVE TypeOK'
  <2>1. files' \in [Names -> {None} \cup FileRecords]
    BY <1>2 DEF Remove, TypeOK
  <2>2. files[n] \in FileRecords
    BY <1>2 DEF Remove, TypeOK
  <2>3. files[n].owner \in Recorders \cup {Foreign}
    BY <2>2 DEF FileRecords
  <2>4. removed' \subseteq Recorders \X Names
    BY <1>2, <2>3 DEF Remove, TypeOK
  <2> QED
    BY <1>2, <2>1, <2>4 DEF TypeOK, Remove
<1>3. CASE Toggle
  BY <1>3 DEF TypeOK, Toggle
<1> QED
  BY <1>1, <1>2, <1>3
-----------------------------------------------------------------------------
(* The invariant of a recorder.                                            *)

LEMMA InvInit == Init => \A r \in Recorders : RecorderInv(r)
PROOF
<1> SUFFICES ASSUME Init, NEW r \in Recorders PROVE RecorderInv(r)
  OBVIOUS
<1>1. /\ pc[r] = "start" /\ target[r] = None /\ exit[r] = None
      /\ ~attempted[r] /\ ~persisted[r] /\ removed = {}
  BY DEF Init
<1>2. \A n \in Names : ~Owns(r, n)
  <2>1. \A n \in Names : files[n] \in {None, ForeignFile}
    BY DEF Init
  <2>2. ForeignFile.owner = Foreign
    BY DEF ForeignFile, File
  <2> QED
    BY <2>1, <2>2, StoreAssumption DEF Owns
<1> QED
  BY <1>1, <1>2, NoneIsNothing DEF RecorderInv, Position, Files, Progress, Verdict, Early, Writing, Gone, Codes

\* A recorder's own variables and files decide whether its invariant holds.
LEMMA Frame ==
    ASSUME TypeOK, NEW r \in Recorders, RecorderInv(r),
           pc'[r] = pc[r], out' = out, attempted'[r] = attempted[r], id'[r] = id[r],
           target'[r] = target[r], exit'[r] = exit[r], persisted'[r] = persisted[r],
           \A n \in Names : /\ Owns(r, n)' = Owns(r, n)
                            /\ Owns(r, n) => files'[n] = files[n]
                            /\ Gone(r, n)' = Gone(r, n)
    PROVE  RecorderInv(r)'
PROOF
<1>1. ASSUME NEW state \in States, Has(r, state), target[r] \in Names, id[r] \in Ids
      PROVE  Has(r, state)'
  <2>1. CASE Gone(r, target[r])
    BY <1>1, <2>1 DEF Has
  <2>2. CASE files[target[r]] = File(r, id[r], state)
    <3>1. Owns(r, target[r])
      BY <1>1, <2>2, FileFacts DEF Owns
    <3> QED
      BY <1>1, <2>2, <3>1 DEF Has
  <2> QED
    BY <1>1, <2>1, <2>2 DEF Has
<1>2. Position(r)'
  BY DEF RecorderInv, Position
<1>3. Files(r)'
  BY DEF RecorderInv, Files
<1>4. target[r] # None => target[r] \in Names /\ id[r] \in Ids
  BY RecoveryNames DEF RecorderInv, Position, TypeOK, Names
<1>5. Progress(r)'
  <2>1. pc[r] \in Writing => target[r] # None
    BY DEF RecorderInv, Position
  <2> QED
    BY <1>1, <1>4, <2>1 DEF RecorderInv, Progress, Writing, States
<1>6. Verdict(r)'
  BY <1>1, <1>4 DEF RecorderInv, Verdict, States
<1> QED
  BY <1>2, <1>3, <1>5, <1>6 DEF RecorderInv
\* Steps of the recorder that leave the directory alone keep the files part.
LEMMA FilesKept ==
    ASSUME NEW r \in Recorders, Files(r), UNCHANGED <<files, out, id, removed>>, target'[r] = target[r]
    PROVE  Files(r)'
PROOF BY DEF Files, Owns, Gone

\* An ending keeps everything; what its code says has to be true already.
LEMMA EndsInv ==
    ASSUME TypeOK, NEW r \in Recorders, RecorderInv(r), exit[r] = None, NEW c \in Codes, Ends(r, c),
           c \in {2, 5} => target[r] = None /\ ~attempted[r],
           c = 0 => target[r] = out[r],
           c = 1 => target[r] \in {None, out[r]},
           c \in {0, 1} /\ target[r] # None => Has(r, "synced")
    PROVE  RecorderInv(r)'
PROOF
<1> USE DEF Ends, Goes, envVars
<1>1. pc'[r] = "ended" /\ exit'[r] = c /\ UNCHANGED <<files, out, attempted, id, target, persisted, removed>>
  BY DEF TypeOK
<1>2. Position(r)'
  BY <1>1 DEF RecorderInv, Position, Early, Writing
<1>3. Files(r)'
  BY <1>1, FilesKept DEF RecorderInv
<1>4. Progress(r)'
  BY <1>1 DEF Progress
<1>5. ~persisted[r]
  BY NoneIsNothing DEF RecorderInv, Verdict, Codes
<1>6. Verdict(r)'
  BY <1>1, <1>5 DEF Verdict, Has, Gone
<1> QED
  BY <1>2, <1>3, <1>4, <1>6 DEF RecorderInv

\* The recorder's own steps keep its invariant.
LEMMA OwnSteps ==
    ASSUME TypeOK, NEW r \in Recorders, RecorderInv(r), RecorderStep(r) \/ Crash(r)
    PROVE  RecorderInv(r)'
PROOF
<1> USE DEF Goes, envVars
<1>1. pc[r] # "ended" /\ pc[r] # "crashed" => exit[r] = None /\ ~persisted[r]
  BY NoneIsNothing DEF TypeOK, RecorderInv, Verdict, Codes
<1>2. target[r] # None => target[r] \in Names /\ id[r] \in Ids
  BY RecoveryNames DEF RecorderInv, Position, TypeOK, Names
<1>3. out[r] # None /\ out[r] \in Names
  BY NoneIsNothing DEF TypeOK, Names
<1>4. CASE InvalidArguments(r) \/ PreflightRefuses(r) \/ SetupFails(r) \/ SealFails(r)
  <2>1. pc[r] \in Early /\ (pc[r] = "seal" => SealFails(r))
    BY <1>4 DEF InvalidArguments, PreflightRefuses, SetupFails, SealFails, Early
  <2>2. PICK c \in {1, 2, 5} : Ends(r, c) /\ (c # 1 => pc[r] \in {"start", "setup"})
    BY <1>4 DEF InvalidArguments, PreflightRefuses, SetupFails, SealFails
  <2>3. target[r] = None /\ (c # 1 => ~attempted[r])
    BY <2>1, <2>2 DEF RecorderInv, Position
  <2>4. exit[r] = None
    BY <1>1, <2>1 DEF Early
  <2> QED
    BY <2>2, <2>3, <2>4, EndsInv DEF Codes
<1>5. CASE ReportKept(r) \/ ReportFails(r)
  <2>1. PICK c \in {0, 1} : Ends(r, c)
    BY <1>5 DEF ReportKept, ReportFails
  <2>2. pc[r] = "report" /\ target[r] = out[r]
    BY <1>5 DEF ReportKept, ReportFails
  <2>3. Has(r, "synced")
    BY <2>2 DEF RecorderInv, Progress
  <2> QED
    BY <1>1, <2>1, <2>2, <2>3, EndsInv DEF Codes
<1>6. CASE Preflight(r) \/ Attempt(r) \/ InterruptedBeforeSpawn(r)
  <2>1. /\ pc[r] \in {"start", "setup"} /\ pc'[r] \in {"setup", "seal"}
        /\ pc'[r] = "setup" => attempted' = attempted
        /\ UNCHANGED <<files, out, id, target, exit, persisted, removed>>
    BY <1>6 DEF Preflight, Attempt, InterruptedBeforeSpawn, TypeOK
  <2>2. target[r] = None /\ ~attempted[r] /\ exit[r] = None /\ ~persisted[r]
    BY <1>1, <2>1 DEF RecorderInv, Position, Early
  <2>3. Position(r)'
    BY <2>1, <2>2 DEF Position, Early, Writing
  <2>4. Files(r)'
    BY <2>1, FilesKept DEF RecorderInv
  <2>5. Progress(r)' /\ Verdict(r)'
    BY <2>1, <2>2, NoneIsNothing DEF Progress, Verdict, Codes
  <2> QED
    BY <2>3, <2>4, <2>5 DEF RecorderInv
<1>7. CASE Seal(r)
  <2>1. /\ pc[r] = "seal" /\ pc'[r] = "preflight" /\ id'[r] \in Ids /\ target'[r] = out[r]
        /\ UNCHANGED <<files, out, attempted, exit, persisted, removed>>
    BY <1>7 DEF Seal, TypeOK
  <2>2. target[r] = None /\ exit[r] = None /\ ~persisted[r]
    BY <1>1, <2>1 DEF RecorderInv, Position, Early
  <2>3. \A n \in Names : ~Owns(r, n) /\ ~Gone(r, n)
    BY <2>2 DEF RecorderInv, Files
  <2>4. \A n \in Names : ~Owns(r, n)' /\ ~Gone(r, n)'
    BY <2>1, <2>3 DEF Owns, Gone
  <2>5. Position(r)' /\ Progress(r)' /\ Verdict(r)' /\ Files(r)'
    BY <1>3, <2>1, <2>2, <2>4, NoneIsNothing DEF Position, Progress, Verdict, Files, Early, Codes
  <2> QED
    BY <2>5 DEF RecorderInv
<1>8. CASE Repreflight(r)
  <2>1. /\ pc[r] = "preflight" /\ pc'[r] = "create"
        /\ UNCHANGED <<files, out, attempted, id, target, exit, persisted, removed>>
    BY <1>8 DEF Repreflight, TypeOK
  <2>2. Files(r)'
    BY <2>1, FilesKept DEF RecorderInv
  <2>3. Position(r)' /\ Progress(r)' /\ Verdict(r)'
    BY <1>1, <2>1, NoneIsNothing
    DEF RecorderInv, Position, Progress, Verdict, Owns, Gone, Early, Writing, Codes
  <2> QED
    BY <2>2, <2>3 DEF RecorderInv
<1>9. CASE Create(r)
  <2>1. /\ pc[r] = "create" /\ pc'[r] = "write"
        /\ files' = [files EXCEPT ![target[r]] = File(r, id[r], "partial")]
        /\ UNCHANGED <<out, attempted, id, target, exit, persisted, removed>>
    BY <1>9 DEF Create, TypeOK
  <2>2. target[r] # None /\ target[r] \in Names /\ id[r] \in Ids
    BY <1>2, <2>1 DEF RecorderInv, Position, Writing
  <2>3. /\ files'[target[r]] = File(r, id[r], "partial")
        /\ \A n \in Names : n # target[r] => files'[n] = files[n]
    BY <2>1, <2>2 DEF TypeOK
  <2>4. ~Gone(r, target[r])
    BY <2>1 DEF RecorderInv, Progress
  <2>5. \A n \in Names : /\ Gone(r, n)' = Gone(r, n)
                         /\ n # target[r] => Owns(r, n)' = Owns(r, n)
    BY <2>1, <2>3 DEF Owns, Gone
  <2>6. Files(r)'
    BY <2>1, <2>2, <2>4, <2>5 DEF RecorderInv, Files, Position
  <2>7. Position(r)' /\ Progress(r)' /\ Verdict(r)'
    BY <1>1, <2>1, <2>2, <2>3, NoneIsNothing
    DEF RecorderInv, Position, Progress, Verdict, Has, Early, Writing, Codes
  <2> QED
    BY <2>6, <2>7 DEF RecorderInv
<1>10. ASSUME NEW from \in {"partial", "whole"}, NEW to \in {"whole", "synced"},
              pc[r] \in {"write", "sync"}, pc'[r] \in {"sync", "report"},
              pc[r] = "write" <=> from = "partial", pc'[r] = "sync" <=> to = "whole",
              Reaches(r, to), UNCHANGED <<out, attempted, id, target, exit, persisted, envVars>>
       PROVE  RecorderInv(r)'
  <2>1. target[r] # None /\ target[r] \in Names /\ id[r] \in Ids
    BY <1>2, <1>10 DEF RecorderInv, Position, Writing
  <2>2. Has(r, from)
    BY <1>10 DEF RecorderInv, Progress
  <2>3. /\ \A n \in Names : n # target[r] => files'[n] = files[n]
        /\ ~Owns(r, target[r]) => files' = files
        /\ Owns(r, target[r]) => files'[target[r]] = [files[target[r]] EXCEPT !.state = to]
    BY <1>10, <2>1, ReachesSteps DEF States
  <2>4. /\ files'[target[r]] = File(r, id[r], to) \/ Gone(r, target[r])
        /\ Owns(r, target[r])' = Owns(r, target[r])
    <3>1. CASE Owns(r, target[r])
      <4>1. files[target[r]] = File(r, id[r], from)
        BY <2>1, <2>2, <3>1 DEF Has, RecorderInv, Files
      <4>2. [File(r, id[r], from) EXCEPT !.state = to] = File(r, id[r], to)
        BY <2>1, FileFacts DEF States
      <4>3. File(r, id[r], to) # None /\ File(r, id[r], to).owner = r
        BY <2>1, FileFacts DEF States
      <4>4. files'[target[r]] = File(r, id[r], to)
        BY <2>3, <3>1, <4>1, <4>2
      <4> QED
        BY <1>10, <3>1, <4>3, <4>4 DEF Owns
    <3>2. CASE ~Owns(r, target[r])
      <4>1. files[target[r]] # File(r, id[r], from)
        BY <2>1, <3>2, FileFacts DEF Owns, States
      <4> QED
        BY <1>10, <2>2, <2>3, <3>2, <4>1 DEF Has, Owns
    <3> QED
      BY <3>1, <3>2
  <2>5. \A n \in Names : Gone(r, n)' = Gone(r, n) /\ Owns(r, n)' = Owns(r, n)
    BY <1>10, <2>3, <2>4 DEF Owns, Gone
  <2>6. Files(r)'
    BY <1>10, <2>5 DEF RecorderInv, Files
  <2>7. Has(r, to)'
    BY <1>10, <2>1, <2>4, <2>5 DEF Has
  <2>8. Position(r)' /\ Progress(r)' /\ Verdict(r)'
    BY <1>1, <1>10, <2>1, <2>7, NoneIsNothing
    DEF RecorderInv, Position, Progress, Verdict, Early, Writing, Codes
  <2> QED
    BY <2>6, <2>8 DEF RecorderInv
<1>11. CASE Write(r)
  <2>1. pc[r] = "write" /\ pc'[r] = "sync" /\ Reaches(r, "whole")
    BY <1>11 DEF Write, TypeOK
  <2> QED
    BY <1>10, <1>11, <2>1 DEF Write
<1>12. CASE Sync(r)
  <2>1. pc[r] = "sync" /\ pc'[r] = "report" /\ Reaches(r, "synced")
    BY <1>12 DEF Sync, TypeOK
  <2> QED
    BY <1>10, <1>12, <2>1 DEF Sync
<1>13. CASE WriteFails(r)
  <2>1. pc[r] \in {"preflight", "create", "write", "sync"}
    BY <1>13 DEF WriteFails
  <2>2. target[r] # None /\ target[r] \in Names /\ id[r] \in Ids /\ exit[r] = None /\ ~persisted[r]
    BY <1>1, <1>2, <2>1 DEF RecorderInv, Position, Writing
  <2>3. CASE target[r] = out[r]
    <3>1. /\ target'[r] = Recovery(id[r]) /\ pc'[r] = "preflight"
          /\ UNCHANGED <<files, out, attempted, id, exit, persisted, removed>>
      BY <1>13, <2>3 DEF WriteFails, WriteFailed, TypeOK
    <3>2. Recovery(id[r]) # out[r] /\ Recovery(id[r]) \in Names
      BY <2>2, RecoveryNames DEF TypeOK
    <3>3. \A n \in Names : Owns(r, n) \/ Gone(r, n) => n = out[r]
      BY <2>3, <2>2 DEF RecorderInv, Files
    <3>4. \A n \in Names : Owns(r, n)' = Owns(r, n) /\ Gone(r, n)' = Gone(r, n)
      BY <3>1 DEF Owns, Gone
    <3>5. Files(r)'
      BY <3>1, <3>2, <3>3, <3>4, NoneIsNothing DEF RecorderInv, Files
    <3>6. Progress(r)'
      <4>1. target'[r] \in Names /\ target'[r] # out[r]
        BY <3>1, <3>2
      <4>2. ~Owns(r, target[r])' /\ ~Gone(r, target[r])'
        BY <3>1, <3>3, <4>1 DEF Owns, Gone
      <4> QED
        BY <3>1, <4>2 DEF Progress
    <3>7. Position(r)' /\ Verdict(r)'
      BY <2>2, <3>1, <3>2, NoneIsNothing DEF Position, Verdict, Early, Codes
    <3> QED
      BY <3>5, <3>6, <3>7 DEF RecorderInv
  <2>4. CASE target[r] # out[r]
    <3>1. Ends(r, 6)
      BY <1>13, <2>4 DEF WriteFails, WriteFailed
    <3> QED
      BY <2>2, <3>1, EndsInv DEF Codes
  <2> QED
    BY <2>3, <2>4
<1>14. CASE ReportRecovered(r)
  <2>1. /\ pc[r] = "report" /\ pc'[r] = "ended" /\ exit'[r] = 6 /\ target[r] # out[r]
        /\ UNCHANGED <<files, out, attempted, id, target, removed>>
    BY <1>14 DEF ReportRecovered, TypeOK
  <2>2. target[r] # None /\ id[r] \in Ids /\ target[r] = Recovery(id[r]) /\ Has(r, "synced")
    BY <2>1 DEF RecorderInv, Position, Progress, Writing
  <2>3. Files(r)'
    BY <2>1, FilesKept DEF RecorderInv
  <2>4. Position(r)' /\ Progress(r)' /\ Verdict(r)'
    BY <2>1, <2>2 DEF Position, Progress, Verdict, Has, Gone, Early, Writing
  <2> QED
    BY <2>3, <2>4 DEF RecorderInv
<1>15. CASE Crash(r)
  <2>1. /\ pc[r] # "ended" /\ pc[r] # "crashed" /\ pc'[r] = "crashed"
        /\ UNCHANGED <<files, out, attempted, id, target, exit, persisted, removed>>
    BY <1>15 DEF Crash, TypeOK
  <2>2. Files(r)'
    BY <2>1, FilesKept DEF RecorderInv
  <2>3. Position(r)' /\ Progress(r)' /\ Verdict(r)'
    BY <1>1, <2>1, NoneIsNothing
    DEF RecorderInv, Position, Progress, Verdict, Early, Writing, Codes
  <2> QED
    BY <2>2, <2>3 DEF RecorderInv
<1> QED
  BY <1>4, <1>5, <1>6, <1>7, <1>8, <1>9, <1>11, <1>12, <1>13, <1>14, <1>15 DEF RecorderStep
-----------------------------------------------------------------------------
(* Steps of others.                                                        *)

\* What a recorder does to the directory: it claims a free name, or its own file goes on.
LEMMA DirectorySteps ==
    ASSUME TypeOK, NEW q \in Recorders, RecorderInv(q), RecorderStep(q) \/ Crash(q)
    PROVE  /\ removed' = removed
           /\ \A n \in Names : files'[n] # files[n] =>
                /\ files'[n] # None /\ files'[n].owner = q /\ pc'[q] # pc[q]
                /\ \/ files[n] = None
                   \/ /\ Owns(q, n) /\ files'[n].id = files[n].id
                      /\ \/ files[n].state = "partial" /\ files'[n].state = "whole"
                         \/ files[n].state = "whole" /\ files'[n].state = "synced"
PROOF
<1> USE DEF Goes, envVars
<1>0. target[q] # None => target[q] \in Names /\ id[q] \in Ids
  BY RecoveryNames DEF RecorderInv, Position, TypeOK, Names
<1>1. CASE Create(q)
  <2>1. /\ files[target[q]] = None /\ removed' = removed /\ pc'[q] # pc[q]
        /\ files' = [files EXCEPT ![target[q]] = File(q, id[q], "partial")]
    BY <1>1 DEF Create, Free, TypeOK
  <2>2. target[q] \in Names /\ id[q] \in Ids
    BY <1>0, <1>1 DEF Create, RecorderInv, Position, Writing
  <2>3. File(q, id[q], "partial") # None /\ File(q, id[q], "partial").owner = q
    BY <2>2, FileFacts DEF States
  <2> QED
    BY <2>1, <2>2, <2>3 DEF TypeOK
<1>2. ASSUME NEW from \in {"partial", "whole"}, NEW to \in {"whole", "synced"},
             <<from, to>> \in {<<"partial", "whole">>, <<"whole", "synced">>},
             pc[q] \in Writing, Has(q, from), Reaches(q, to),
             removed' = removed, pc'[q] # pc[q]
      PROVE  /\ removed' = removed
             /\ \A n \in Names : files'[n] # files[n] =>
                  /\ files'[n] # None /\ files'[n].owner = q /\ pc'[q] # pc[q]
                  /\ \/ files[n] = None
                     \/ /\ Owns(q, n) /\ files'[n].id = files[n].id
                        /\ \/ files[n].state = "partial" /\ files'[n].state = "whole"
                           \/ files[n].state = "whole" /\ files'[n].state = "synced"
  <2>1. target[q] # None /\ target[q] \in Names /\ id[q] \in Ids
    BY <1>0, <1>2 DEF RecorderInv, Position
  <2>2. /\ \A n \in Names : n # target[q] => files'[n] = files[n]
        /\ ~Owns(q, target[q]) => files' = files
        /\ Owns(q, target[q]) => files'[target[q]] = [files[target[q]] EXCEPT !.state = to]
    BY <1>2, <2>1, ReachesSteps DEF States
  <2>3. CASE Owns(q, target[q])
    <3>1. files[target[q]] = File(q, id[q], from)
      BY <1>2, <2>1, <2>3 DEF Has, RecorderInv, Files
    <3>2. [File(q, id[q], from) EXCEPT !.state = to] = File(q, id[q], to)
      BY <2>1, FileFacts DEF States
    <3>3. files'[target[q]] = File(q, id[q], to)
      BY <2>2, <2>3, <3>1, <3>2
    <3>4. /\ File(q, id[q], to) # None /\ File(q, id[q], to).owner = q
          /\ File(q, id[q], to).id = id[q] /\ File(q, id[q], to).state = to
          /\ File(q, id[q], from).id = id[q] /\ File(q, id[q], from).state = from
      BY <2>1, FileFacts DEF States
    <3> QED
      BY <1>2, <2>2, <2>3, <3>1, <3>3, <3>4
  <2>4. CASE ~Owns(q, target[q])
    BY <1>2, <2>2, <2>4
  <2> QED
    BY <2>3, <2>4
<1>3. CASE Write(q)
  <2>1. pc[q] = "write" /\ Reaches(q, "whole") /\ removed' = removed /\ pc'[q] # pc[q]
    BY <1>3 DEF Write, TypeOK
  <2>2. Has(q, "partial")
    BY <2>1 DEF RecorderInv, Progress
  <2> QED
    BY <1>2, <2>1, <2>2 DEF Writing
<1>4. CASE Sync(q)
  <2>1. pc[q] = "sync" /\ Reaches(q, "synced") /\ removed' = removed /\ pc'[q] # pc[q]
    BY <1>4 DEF Sync, TypeOK
  <2>2. Has(q, "whole")
    BY <2>1 DEF RecorderInv, Progress
  <2> QED
    BY <1>2, <2>1, <2>2 DEF Writing
<1>5. CASE ~Create(q) /\ ~Write(q) /\ ~Sync(q)
  <2>1. files' = files /\ removed' = removed
    BY <1>5 DEF RecorderStep, InvalidArguments, Preflight, PreflightRefuses, SetupFails, Attempt,
                InterruptedBeforeSpawn, SealFails, Seal, Repreflight, WriteFails, WriteFailed,
                ReportKept, ReportFails, ReportRecovered, Crash, Ends
  <2> QED
    BY <2>1
<1> QED
  BY <1>1, <1>3, <1>4, <1>5

\* A step of one recorder leaves the variables of another alone.
LEMMA OtherVariables ==
    ASSUME TypeOK, NEW q \in Recorders, RecorderStep(q) \/ Crash(q), NEW r \in Recorders, r # q
    PROVE  /\ pc'[r] = pc[r] /\ out' = out /\ attempted'[r] = attempted[r] /\ id'[r] = id[r]
           /\ target'[r] = target[r] /\ exit'[r] = exit[r] /\ persisted'[r] = persisted[r]
PROOF
<1> USE DEF TypeOK, Goes
<1>1. CASE \E c \in Codes : Ends(q, c)
  BY <1>1 DEF Ends
<1>2. CASE InvalidArguments(q) \/ PreflightRefuses(q) \/ SetupFails(q) \/ SealFails(q)
            \/ ReportKept(q) \/ ReportFails(q)
  <2>1. \E c \in Codes : Ends(q, c)
    BY <1>2 DEF InvalidArguments, PreflightRefuses, SetupFails, SealFails, ReportKept,
                ReportFails, Codes
  <2> QED
    BY <1>1, <2>1
<1>3. CASE WriteFails(q)
  <2>1. CASE target[q] = out[q]
    BY <1>3, <2>1 DEF WriteFails, WriteFailed
  <2>2. CASE target[q] # out[q]
    <3>1. Ends(q, 6)
      BY <1>3, <2>2 DEF WriteFails, WriteFailed
    <3> QED
      BY <1>1, <3>1 DEF Codes
  <2> QED
    BY <2>1, <2>2
<1>4. CASE Preflight(q) \/ Attempt(q) \/ InterruptedBeforeSpawn(q) \/ Repreflight(q)
  BY <1>4 DEF Preflight, Attempt, InterruptedBeforeSpawn, Repreflight
<1>5. CASE Seal(q)
  BY <1>5 DEF Seal
<1>6. CASE Create(q) \/ Write(q) \/ Sync(q)
  BY <1>6 DEF Create, Write, Sync
<1>7. CASE ReportRecovered(q) \/ Crash(q)
  BY <1>7 DEF ReportRecovered, Crash
<1> QED
  BY <1>2, <1>3, <1>4, <1>5, <1>6, <1>7 DEF RecorderStep

\* A recorder's step keeps the invariant of every other one: it only claims free names.
LEMMA OtherSteps ==
    ASSUME TypeOK, NEW q \in Recorders, RecorderInv(q), RecorderStep(q) \/ Crash(q),
           NEW r \in Recorders, r # q, RecorderInv(r)
    PROVE  RecorderInv(r)'
PROOF
<1>1. \A n \in Names : /\ Owns(r, n)' = Owns(r, n)
                       /\ Owns(r, n) => files'[n] = files[n]
                       /\ Gone(r, n)' = Gone(r, n)
  BY DirectorySteps DEF Owns, Gone
<1>2. /\ pc'[r] = pc[r] /\ out' = out /\ attempted'[r] = attempted[r] /\ id'[r] = id[r]
      /\ target'[r] = target[r] /\ exit'[r] = exit[r] /\ persisted'[r] = persisted[r]
  BY OtherVariables
<1> QED
  BY <1>1, <1>2, Frame
\* A file somebody else puts under a free name is nobody's receipt.
LEMMA PlaceStep ==
    ASSUME TypeOK, NEW n \in Paths, Place(n), NEW r \in Recorders, RecorderInv(r)
    PROVE  RecorderInv(r)'
PROOF
<1>1. files' = [files EXCEPT ![n] = ForeignFile] /\ files[n] = None /\ n \in Names
  BY DEF Place, Free, Names
<1>2. UNCHANGED recVars /\ removed' = removed
  BY DEF Place, Changes
<1>3. ForeignFile.owner # r
  BY StoreAssumption DEF ForeignFile, File
<1>4. \A m \in Names : /\ Owns(r, m)' = Owns(r, m)
                       /\ Owns(r, m) => files'[m] = files[m]
                       /\ Gone(r, m)' = Gone(r, m)
  BY <1>1, <1>2, <1>3 DEF Owns, Gone, TypeOK
<1> QED
  BY <1>2, <1>4, Frame DEF recVars

\* A removed file is remembered, which is all the invariant of its owner needs.
LEMMA RemoveStep ==
    ASSUME TypeOK, NEW n \in Names, Remove(n), NEW r \in Recorders, RecorderInv(r)
    PROVE  RecorderInv(r)'
PROOF
<1>1. files' = [files EXCEPT ![n] = None] /\ files[n] # None
  BY DEF Remove
<1>2. UNCHANGED <<pc, out, attempted, id, target, exit, persisted>>
  BY DEF Remove, Changes, recVars
<1>3. removed' = IF files[n].owner = Foreign THEN removed ELSE removed \cup {<<files[n].owner, n>>}
  BY DEF Remove
<1>4. \A m \in Names : m # n => files'[m] = files[m]
  BY <1>1 DEF TypeOK
<1>5. files'[n] = None
  BY <1>1 DEF TypeOK
<1>6. CASE Owns(r, n)
  <2>1. removed' = removed \cup {<<r, n>>}
    BY <1>3, <1>6, NoneIsNothing DEF Owns
  <2>2. \A m \in Names : /\ Owns(r, m)' <=> Owns(r, m) /\ m # n
                         /\ Gone(r, m)' <=> Gone(r, m) \/ m = n
    BY <1>4, <1>5, <2>1 DEF Owns, Gone
  <2>3. \A state : (target[r] \in Names /\ Has(r, state)) => Has(r, state)'
    BY <1>2, <1>4, <2>1 DEF Has, Gone
  <2>4. target[r] # None => target[r] \in Names
    BY DEF TypeOK
  <2>5. Files(r)'
    BY <1>2, <1>6, <2>2 DEF RecorderInv, Files
  <2>6. Position(r)'
    BY <1>2 DEF RecorderInv, Position
  <2>7. Progress(r)'
    <3>1. pc[r] \in Writing => target[r] # None
      BY DEF RecorderInv, Position
    <3>2. pc[r] \in {"preflight", "create"} => ~Owns(r, target[r])' /\ ~Gone(r, target[r])'
      <4> SUFFICES ASSUME pc[r] \in {"preflight", "create"}
                   PROVE  ~Owns(r, target[r])' /\ ~Gone(r, target[r])'
        OBVIOUS
      <4>1. ~Owns(r, target[r]) /\ ~Gone(r, target[r]) /\ target[r] \in Names
        BY <2>4, <3>1 DEF RecorderInv, Progress, Writing
      <4>2. target[r] # n
        BY <1>6, <4>1
      <4> QED
        BY <1>2, <1>4, <2>1, <4>1, <4>2 DEF Owns, Gone
    <3> QED
      BY <1>2, <2>3, <2>4, <3>1, <3>2 DEF RecorderInv, Progress, Writing
  <2>8. Verdict(r)'
    BY <1>2, <2>3, <2>4 DEF RecorderInv, Verdict
  <2> QED
    BY <2>5, <2>6, <2>7, <2>8 DEF RecorderInv
<1>7. CASE ~Owns(r, n)
  <2>1. \A m \in Names : /\ Owns(r, m)' = Owns(r, m)
                         /\ Owns(r, m) => files'[m] = files[m]
                         /\ Gone(r, m)' = Gone(r, m)
    BY <1>1, <1>3, <1>4, <1>5, <1>7 DEF Owns, Gone
  <2> QED
    BY <1>2, <2>1, Frame
<1> QED
  BY <1>6, <1>7

-----------------------------------------------------------------------------
(* The theorems.                                                           *)

\* StoreInv is inductive.
LEMMA StoreStep == StoreInv /\ [Next]_vars => StoreInv'
PROOF
<1> SUFFICES ASSUME StoreInv, [Next]_vars PROVE StoreInv'
  OBVIOUS
<1> USE DEF StoreInv
<1>0. ASSUME NEW q \in Recorders PROVE pc[q] \in Writing => id[q] \in Ids /\ target[q] \in Names
  BY DEF RecorderInv, Position, TypeOK
<1>1. ASSUME NEW q \in Recorders, RecorderStep(q) \/ Crash(q) PROVE StoreInv'
  <2>1. TypeOK'
    BY <1>0, <1>1, TypeRecorder
  <2>2. ASSUME NEW r \in Recorders PROVE RecorderInv(r)'
    BY <1>1, OwnSteps, OtherSteps
  <2> QED
    BY <2>1, <2>2
<1>2. ASSUME NEW n \in Paths, Place(n) PROVE StoreInv'
  BY <1>2, TypeOthers, PlaceStep
<1>3. ASSUME NEW n \in Names, Remove(n) PROVE StoreInv'
  BY <1>3, TypeOthers, RemoveStep
<1>4. CASE Toggle
  <2>1. TypeOK'
    BY <1>4, TypeOthers
  <2>2. UNCHANGED <<files, removed, pc, out, attempted, id, target, exit, persisted>>
    BY <1>4 DEF Toggle, Changes, recVars
  <2>3. ASSUME NEW r \in Recorders PROVE RecorderInv(r)'
    BY <2>2, Frame DEF Owns, Gone
  <2> QED
    BY <2>1, <2>3
<1>5. CASE UNCHANGED vars
  <2>1. UNCHANGED <<files, reachable, changes, removed, pc, out, attempted, id, target, exit, persisted>>
    BY <1>5 DEF vars, recVars, envVars
  <2>2. TypeOK'
    BY <2>1 DEF TypeOK
  <2>3. ASSUME NEW r \in Recorders PROVE RecorderInv(r)'
    BY <2>1, Frame DEF Owns, Gone
  <2> QED
    BY <2>2, <2>3
<1> QED
  BY <1>1, <1>2, <1>3, <1>4, <1>5 DEF Next, Done

LEMMA StoreInvariant == Spec => []StoreInv
PROOF
<1>1. Init => StoreInv
  BY TypeInit, InvInit DEF StoreInv
<1> QED
  BY <1>1, StoreStep, PTL DEF Spec

\* Every variable of the store keeps its type, and exactly the ended recorders have an
\* exit code, for any number of recorders, names and identifiers.
THEOREM StoreTypeCorrect == Spec => []TypeOK
PROOF
<1>1. StoreInv => TypeOK
  BY DEF StoreInv
<1> QED
  BY <1>1, StoreInvariant, PTL

\* An exit code that announces a receipt is true: the whole receipt was synced under the
\* announced name and is still there unless somebody removed it.
THEOREM ReceiptIsStored == Spec => []ReportedReceiptIsStored
PROOF
<1>1. StoreInv => ReportedReceiptIsStored
  <2> SUFFICES ASSUME StoreInv, NEW r \in Recorders
               PROVE  /\ exit[r] = 0 => Stored(r, out[r])
                      /\ persisted[r] => Stored(r, Recovery(id[r]))
    BY DEF ReportedReceiptIsStored
  <2>1. out[r] # None
    BY NoneIsNothing DEF StoreInv, TypeOK, Names
  <2>2. Verdict(r)
    BY DEF StoreInv, RecorderInv
  <2>3. exit[r] = 0 => Stored(r, out[r])
    BY <2>1, <2>2 DEF Verdict, Has, Gone, Stored
  <2>4. persisted[r] => Stored(r, Recovery(id[r]))
    BY <2>2 DEF Verdict, Has, Gone, Stored
  <2> QED
    BY <2>3, <2>4
<1> QED
  BY <1>1, StoreInvariant, PTL

\* A usage or setup failure means that nothing was run and nothing was left behind.
THEOREM RefusalLeavesNothing == Spec => []RefusalIsClean
PROOF
<1>1. StoreInv => RefusalIsClean
  BY DEF StoreInv, RecorderInv, Verdict, Files, Owns, RefusalIsClean
<1> QED
  BY <1>1, StoreInvariant, PTL

\* A recorder that ended and left an incomplete receipt has said so with exit 6.
THEOREM LeftoversAreDisclosed == Spec => []LeftoverIsDisclosed
PROOF
<1>1. StoreInv => LeftoverIsDisclosed
  <2> SUFFICES ASSUME StoreInv, NEW n \in Names, files[n] # None, files[n].state # "synced",
                      files[n].owner # Foreign, pc[files[n].owner] = "ended"
               PROVE  exit[files[n].owner] = 6
    BY DEF LeftoverIsDisclosed
  <2> DEFINE r == files[n].owner
  <2>1. r \in Recorders
    BY DEF StoreInv, TypeOK, FileRecords
  <2>2. Owns(r, n) /\ ~Gone(r, n) /\ target[r] # None
        /\ (n = out[r] \/ (n = Recovery(id[r]) /\ target[r] = n))
    BY <2>1 DEF StoreInv, RecorderInv, Files, Owns
  <2>3. exit[r] \in Codes
    BY <2>1 DEF StoreInv, TypeOK
  <2>4. exit[r] \notin {2, 5}
    BY <2>1, <2>2 DEF StoreInv, RecorderInv, Verdict
  <2>5. exit[r] \in {0, 1} => target[r] = n /\ Has(r, "synced")
    BY <2>1, <2>2 DEF StoreInv, RecorderInv, Verdict
  <2>6. Has(r, "synced") /\ target[r] = n => files[n] = File(r, id[r], "synced")
    BY <2>2 DEF Has
  <2>7. files[n] # File(r, id[r], "synced")
    BY DEF File
  <2> QED
    BY <2>3, <2>4, <2>5, <2>6, <2>7 DEF Codes
<1> QED
  BY <1>1, StoreInvariant, PTL

\* No step of any recorder replaces, changes or removes what another one made; its own
\* file only goes from partial to whole to synced.
THEOREM NothingIsClobbered == Spec => NoClobber
PROOF
<1> DEFINE Kept ==
      \A n \in Names : (files[n] # None /\ files'[n] # files[n]) =>
          \/ files'[n] = None /\ UNCHANGED recVars
          \/ /\ files'[n] # None /\ files'[n].owner = files[n].owner
             /\ files'[n].id = files[n].id
             /\ <<files[n].state, files'[n].state>> \in {<<"partial", "whole">>,
                                                        <<"whole", "synced">>}
             /\ pc'[files[n].owner] # pc[files[n].owner]
<1>1. StoreInv /\ [Next]_vars => [Kept]_vars
  <2> SUFFICES ASSUME StoreInv, Next PROVE Kept
    BY DEF vars
  <2>1. ASSUME NEW q \in Recorders, RecorderStep(q) \/ Crash(q) PROVE Kept
    BY <2>1, DirectorySteps DEF StoreInv, Owns
  <2>2. ASSUME NEW n \in Paths, Place(n) PROVE Kept
    BY <2>2 DEF Place, Free, StoreInv, TypeOK
  <2>3. ASSUME NEW n \in Names, Remove(n) PROVE Kept
    BY <2>3 DEF Remove, Changes, StoreInv, TypeOK
  <2>4. CASE Toggle
    BY <2>4 DEF Toggle
  <2>5. CASE Done
    BY <2>5 DEF Done, vars
  <2> QED
    BY <2>1, <2>2, <2>3, <2>4, <2>5 DEF Next
<1> QED
  BY <1>1, StoreInvariant, PTL DEF Spec, NoClobber

-----------------------------------------------------------------------------
(* The refinement: every step keeps the promise, or is not seen outside.   *)

\* What the promise reads of the state.
HolderBar   == [n \in Names |-> IF files[n] = None THEN None ELSE files[n].owner]
FinishedBar == {n \in Names : files[n] # None /\ files[n].state = "synced"}
StageBar    == [r \in Recorders |-> StageOf(r)]

\* Both specifications name the files alike.
LEMMA PromiseNames == Promise!Names = Names /\ \A i : Promise!Recovery(i) = Recovery(i)
PROOF BY DEF Promise!Names, Promise!Recovery, Names, Recovery

\* The directory looks the same when names keep their owners and what is synced.
LEMMA DirectoryLooksSame ==
    ASSUME \A n \in Names :
             /\ files'[n] = None <=> files[n] = None
             /\ files[n] # None => /\ files'[n].owner = files[n].owner
                                   /\ files'[n].state = "synced" <=> files[n].state = "synced"
    PROVE  UNCHANGED <<HolderBar, FinishedBar>>
PROOF BY DEF HolderBar, FinishedBar

\* A name that changes hands is seen to change hands.
LEMMA HolderBecomes ==
    ASSUME NEW n \in Names, NEW o, \A m \in Names : m # n => files'[m] = files[m],
           o = IF files'[n] = None THEN None ELSE files'[n].owner
    PROVE  HolderBar' = [HolderBar EXCEPT ![n] = o]
PROOF
<1>1. HolderBar'[n] = o /\ \A m \in Names : m # n => HolderBar'[m] = HolderBar[m]
  BY DEF HolderBar
<1>2. /\ HolderBar = [m \in Names |-> HolderBar[m]]
      /\ HolderBar' = [m \in Names |-> HolderBar'[m]]
  BY DEF HolderBar
<1> QED
  BY <1>1, <1>2

\* One recorder comes to another stage and nothing else is seen.
LEMMA Becoming ==
    ASSUME NEW r \in Recorders, UNCHANGED <<HolderBar, FinishedBar, removed>>,
           \A q \in Recorders : q # r => StageOf(q)' = StageOf(q)
    PROVE  Promise!Becomes(r, StageOf(r)')
PROOF
<1>1. StageBar' = [StageBar EXCEPT ![r] = StageOf(r)']
  BY DEF StageBar
<1> QED
  BY <1>1 DEF Promise!Becomes, StageBar, HolderBar, FinishedBar

\* Nothing is seen.
LEMMA StageUnseen ==
    ASSUME UNCHANGED <<HolderBar, FinishedBar, removed>>,
           \A q \in Recorders : StageOf(q)' = StageOf(q)
    PROVE  UNCHANGED Promise!vars
PROOF BY DEF Promise!vars, HolderBar, FinishedBar

\* A running recorder is known by whether it has a target.
LEMMA RunningStage ==
    ASSUME NEW r \in Recorders, RecorderInv(r)
    PROVE  /\ pc[r] \in Early => StageOf(r) = "unsealed"
           /\ pc[r] \in Writing => StageOf(r) = "sealed"
PROOF BY DEF StageOf, RecorderInv, Position, Early, Writing

\* What the caller sees of an ending follows from the code, the target and persisted.
LEMMA EndingStage ==
    ASSUME TypeOK, NEW r \in Recorders, NEW c \in Codes, Ends(r, c)
    PROVE  /\ c = 6 => StageOf(r)' = IF persisted[r] THEN "recovered" ELSE "lost"
           /\ c # 6 => StageOf(r)' = IF target[r] = None THEN "unrecorded" ELSE "kept"
PROOF
<1>1. pc'[r] = "ended" /\ exit'[r] = c /\ target' = target /\ persisted' = persisted
  BY DEF Ends, Goes, TypeOK
<1> QED
  BY <1>1 DEF StageOf

\* A whole receipt under the current name, or one removed from there, is a finished one.
LEMMA HasFinished ==
    ASSUME NEW r \in Recorders, target[r] \in Names, id[r] \in Ids, Has(r, "synced")
    PROVE  Promise!Finished(r, target[r])
PROOF
<1>1. CASE Gone(r, target[r])
  BY <1>1 DEF Gone, Promise!Finished
<1>2. CASE files[target[r]] = File(r, id[r], "synced")
  <2>1. files[target[r]] # None /\ files[target[r]].owner = r /\ files[target[r]].state = "synced"
    BY <1>2, FileFacts DEF States
  <2> QED
    BY <2>1 DEF Promise!Finished
<1> QED
  BY <1>1, <1>2 DEF Has

\* Writing and syncing take the recorder's own file from one state to the next, or do nothing.
LEMMA ReachesSeen ==
    ASSUME TypeOK, NEW r \in Recorders, RecorderInv(r), target[r] \in Names, id[r] \in Ids,
           NEW from \in States, NEW to \in States, Has(r, from), Reaches(r, to)
    PROVE  /\ \A n \in Names : n # target[r] => files'[n] = files[n]
           /\ ~Owns(r, target[r]) => files' = files
           /\ Owns(r, target[r]) =>
                /\ files[target[r]] # None /\ files'[target[r]] # None
                /\ files[target[r]].owner = r /\ files'[target[r]].owner = r
                /\ files[target[r]].state = from /\ files'[target[r]].state = to
PROOF
<1>1. /\ \A n \in Names : n # target[r] => files'[n] = files[n]
      /\ ~Owns(r, target[r]) => files' = files
      /\ Owns(r, target[r]) => files'[target[r]] = [files[target[r]] EXCEPT !.state = to]
  BY ReachesSteps
<1>2. ASSUME Owns(r, target[r])
      PROVE  files[target[r]] = File(r, id[r], from) /\ files'[target[r]] = File(r, id[r], to)
  <2>1. files[target[r]] = File(r, id[r], from)
    BY <1>2 DEF Has, RecorderInv, Files
  <2>2. [File(r, id[r], from) EXCEPT !.state = to] = File(r, id[r], to)
    BY FileFacts
  <2> QED
    BY <1>1, <1>2, <2>1, <2>2
<1> QED
  BY <1>1, <1>2, FileFacts

\* What a recorder does is a step of the promise, or nothing the promise speaks of.
LEMMA RecorderPromise ==
    ASSUME TypeOK, NEW r \in Recorders, RecorderInv(r), RecorderStep(r) \/ Crash(r)
    PROVE  Promise!Next \/ UNCHANGED Promise!vars
PROOF
<1> USE DEF Goes, envVars
<1>0. \A q \in Recorders : q # r => StageOf(q)' = StageOf(q)
  BY OtherVariables DEF StageOf
<1>1. target[r] # None => target[r] \in Names /\ id[r] \in Ids
  BY RecoveryNames DEF RecorderInv, Position, TypeOK, Names
<1>2. out[r] # None
  BY NoneIsNothing DEF TypeOK, Names
<1>3. /\ pc[r] \in Early => StageOf(r) = "unsealed"
      /\ pc[r] \in Writing => StageOf(r) = "sealed"
  BY RunningStage
<1>4. ASSUME UNCHANGED <<files, removed>>
      PROVE  /\ Promise!Becomes(r, StageOf(r)')
             /\ StageOf(r)' = StageOf(r) => UNCHANGED Promise!vars
  <2>1. UNCHANGED <<HolderBar, FinishedBar, removed>>
    BY <1>4, DirectoryLooksSame
  <2> QED
    BY <1>0, <2>1, Becoming, StageUnseen
<1>5. CASE InvalidArguments(r) \/ PreflightRefuses(r) \/ SetupFails(r) \/ SealFails(r)
  <2>1. PICK c \in {1, 2, 5} : Ends(r, c)
    BY <1>5 DEF InvalidArguments, PreflightRefuses, SetupFails, SealFails
  <2>2. pc[r] \in Early /\ target[r] = None
    BY <1>5 DEF InvalidArguments, PreflightRefuses, SetupFails, SealFails, Early, RecorderInv, Position
  <2>3. StageOf(r)' = "unrecorded" /\ UNCHANGED <<files, removed>>
    <3>1. c \in Codes /\ c # 6
      BY <2>1 DEF Codes
    <3>2. StageOf(r)' = "unrecorded"
      BY <2>1, <2>2, <3>1, EndingStage
    <3> QED
      BY <2>1, <3>2 DEF Ends
  <2>4. Promise!Refuse(r)
    BY <1>3, <1>4, <2>2, <2>3 DEF Promise!Refuse
  <2> QED
    BY <2>4 DEF Promise!Next
<1>6. CASE Seal(r)
  <2>1. pc[r] \in Early /\ target'[r] # None /\ pc'[r] \in Writing /\ UNCHANGED <<files, removed>>
    BY <1>2, <1>6 DEF Seal, TypeOK, Early, Writing
  <2>2. StageOf(r)' = "sealed"
    BY <2>1 DEF StageOf, Writing
  <2>3. Promise!Seal(r)
    BY <1>3, <1>4, <2>1, <2>2 DEF Promise!Seal
  <2> QED
    BY <2>3 DEF Promise!Next
<1>7. CASE Preflight(r) \/ Attempt(r) \/ InterruptedBeforeSpawn(r) \/ Repreflight(r)
  <2>1. /\ pc[r] \notin {"ended", "crashed"} /\ pc'[r] \notin {"ended", "crashed"}
        /\ UNCHANGED <<files, removed, target>>
    BY <1>7 DEF Preflight, Attempt, InterruptedBeforeSpawn, Repreflight, TypeOK
  <2>2. StageOf(r)' = StageOf(r)
    BY <2>1 DEF StageOf
  <2> QED
    BY <1>4, <2>1, <2>2
<1>8. CASE Create(r)
  <2>1. /\ pc[r] \in Writing /\ pc'[r] \in Writing /\ files[target[r]] = None
        /\ files' = [files EXCEPT ![target[r]] = File(r, id[r], "partial")]
        /\ UNCHANGED <<target, removed>>
    BY <1>8 DEF Create, Free, TypeOK, Writing
  <2>2. target[r] \in Names /\ id[r] \in Ids
    BY <1>1, <2>1 DEF RecorderInv, Position
  <2>3. /\ files'[target[r]] # None /\ files'[target[r]].owner = r
        /\ files'[target[r]].state = "partial"
        /\ \A n \in Names : n # target[r] => files'[n] = files[n]
    BY <2>1, <2>2, FileFacts DEF TypeOK, States
  <2>4. HolderBar' = [HolderBar EXCEPT ![target[r]] = r] /\ FinishedBar' = FinishedBar
    <3>1. HolderBar' = [HolderBar EXCEPT ![target[r]] = r]
      BY <2>2, <2>3 DEF HolderBar
    <3>2. FinishedBar' = FinishedBar
      BY <2>1, <2>2, <2>3 DEF FinishedBar
    <3> QED
      BY <3>1, <3>2
  <2>5. StageBar' = StageBar
    BY <1>0, <2>1 DEF StageOf, Writing, StageBar
  <2>6. PICK n \in Promise!Names : n = target[r]
    BY <2>2, PromiseNames
  <2>7. Promise!Claim(r, n)
    BY <1>3, <2>1, <2>2, <2>4, <2>5, <2>6 DEF Promise!Claim, HolderBar, FinishedBar, StageBar
  <2> QED
    BY <2>6, <2>7 DEF Promise!Next
<1>9. CASE Write(r)
  <2>1. /\ pc[r] = "write" /\ pc'[r] = "sync" /\ Reaches(r, "whole")
        /\ UNCHANGED <<target, removed>>
    BY <1>9 DEF Write, TypeOK
  <2>2. target[r] \in Names /\ id[r] \in Ids /\ Has(r, "partial")
    BY <1>1, <2>1 DEF RecorderInv, Position, Progress, Writing
  <2>3. UNCHANGED <<HolderBar, FinishedBar>>
    <3>1. /\ \A n \in Names : n # target[r] => files'[n] = files[n]
          /\ ~Owns(r, target[r]) => files' = files
          /\ Owns(r, target[r]) =>
                /\ files[target[r]] # None /\ files'[target[r]] # None
                /\ files[target[r]].owner = r /\ files'[target[r]].owner = r
                /\ files[target[r]].state = "partial" /\ files'[target[r]].state = "whole"
      BY <2>1, <2>2, ReachesSeen DEF States
    <3> QED
      BY <3>1, DirectoryLooksSame
  <2>4. StageOf(r)' = StageOf(r)
    BY <2>1 DEF StageOf
  <2> QED
    BY <1>0, <2>1, <2>3, <2>4, StageUnseen
<1>10. CASE Sync(r)
  <2>1. /\ pc[r] = "sync" /\ pc'[r] = "report" /\ Reaches(r, "synced")
        /\ UNCHANGED <<target, removed>>
    BY <1>10 DEF Sync, TypeOK
  <2>2. target[r] \in Names /\ id[r] \in Ids /\ Has(r, "whole")
    BY <1>1, <2>1 DEF RecorderInv, Position, Progress, Writing
  <2>3. /\ \A n \in Names : n # target[r] => files'[n] = files[n]
        /\ ~Owns(r, target[r]) => files' = files
        /\ Owns(r, target[r]) =>
              /\ files[target[r]] # None /\ files'[target[r]] # None
              /\ files[target[r]].owner = r /\ files'[target[r]].owner = r
              /\ files[target[r]].state = "whole" /\ files'[target[r]].state = "synced"
    BY <2>1, <2>2, ReachesSeen DEF States
  <2>4. StageBar' = StageBar /\ StageOf(r)' = StageOf(r)
    BY <1>0, <2>1 DEF StageOf, StageBar
  <2>5. CASE ~Owns(r, target[r])
    BY <1>4, <2>1, <2>3, <2>4, <2>5
  <2>6. CASE Owns(r, target[r])
    <3>1. HolderBar' = HolderBar
      BY <2>2, <2>3, <2>6 DEF HolderBar
    <3>2. FinishedBar' = FinishedBar \cup {target[r]}
      BY <2>2, <2>3, <2>6 DEF FinishedBar
    <3>3. PICK n \in Promise!Names : n = target[r]
      BY <2>2, PromiseNames
    <3>4. Promise!Complete(r, n)
      BY <1>3, <2>1, <2>2, <2>3, <2>4, <2>6, <3>1, <3>2, <3>3
      DEF Promise!Complete, HolderBar, FinishedBar, StageBar, Writing
    <3> QED
      BY <3>3, <3>4 DEF Promise!Next
  <2> QED
    BY <2>5, <2>6
<1>11. CASE WriteFails(r)
  <2>1. /\ pc[r] \in Writing /\ UNCHANGED <<files, removed>>
        /\ \/ pc'[r] = "preflight" /\ target'[r] = Recovery(id[r])
           \/ Ends(r, 6)
    BY <1>11 DEF WriteFails, WriteFailed, Ends, Writing, TypeOK
  <2>2. ~persisted[r]
    BY <2>1, NoneIsNothing DEF TypeOK, RecorderInv, Verdict, Codes, Writing
  <2>3. CASE Ends(r, 6)
    <3>1. StageOf(r)' = "lost"
      BY <2>2, <2>3, EndingStage DEF Codes
    <3>2. Promise!GiveUp(r)
      BY <1>3, <1>4, <2>1, <3>1 DEF Promise!GiveUp
    <3> QED
      BY <3>2 DEF Promise!Next
  <2>4. CASE pc'[r] = "preflight" /\ target'[r] = Recovery(id[r])
    <3>1. target'[r] # None
      BY <1>1, <2>1, <2>4, RecoveryNames, NoneIsNothing DEF RecorderInv, Position
    <3>2. StageOf(r)' = "sealed"
      BY <2>4, <3>1 DEF StageOf
    <3> QED
      BY <1>3, <1>4, <2>1, <3>2
  <2> QED
    BY <2>1, <2>3, <2>4
<1>12. CASE ReportKept(r) \/ ReportFails(r)
  <2>1. PICK c \in {0, 1} : Ends(r, c)
    BY <1>12 DEF ReportKept, ReportFails
  <2>2. pc[r] = "report" /\ target[r] = out[r] /\ target[r] \in Paths
    BY <1>12 DEF ReportKept, ReportFails, TypeOK
  <2>3. Promise!Finished(r, target[r])
    BY <1>1, <1>2, <2>2, HasFinished DEF RecorderInv, Progress
  <2>4. StageOf(r)' = "kept" /\ UNCHANGED <<files, removed>>
    <3>1. c \in Codes /\ c # 6
      BY <2>1 DEF Codes
    <3>2. StageOf(r)' = "kept"
      BY <1>2, <2>1, <2>2, <3>1, EndingStage
    <3> QED
      BY <2>1, <3>2 DEF Ends
  <2>5. Promise!Keep(r)
    BY <1>3, <1>4, <2>2, <2>3, <2>4 DEF Promise!Keep, Writing
  <2> QED
    BY <2>5 DEF Promise!Next
<1>13. CASE ReportRecovered(r)
  <2>1. /\ pc[r] = "report" /\ target[r] # out[r] /\ pc'[r] = "ended" /\ exit'[r] = 6
        /\ persisted'[r] /\ UNCHANGED <<files, removed>>
    BY <1>13 DEF ReportRecovered, TypeOK
  <2>2. id[r] \in Ids /\ target[r] \in Names /\ target[r] = Recovery(id[r]) /\ Has(r, "synced")
    BY <1>1, <2>1 DEF RecorderInv, Position, Progress, Writing
  <2>3. Promise!Finished(r, Promise!Recovery(id[r]))
    BY <2>2, HasFinished, PromiseNames
  <2>4. StageOf(r)' = "recovered"
    BY <2>1 DEF StageOf
  <2>5. Promise!Recover(r)
    BY <1>3, <1>4, <2>1, <2>2, <2>3, <2>4 DEF Promise!Recover, Writing
  <2> QED
    BY <2>5 DEF Promise!Next
<1>14. CASE Crash(r)
  <2>1. pc[r] \in Early \cup Writing /\ pc'[r] = "crashed" /\ UNCHANGED <<files, removed>>
    BY <1>14 DEF Crash, TypeOK, Early, Writing
  <2>2. StageOf(r)' = "died"
    BY <2>1 DEF StageOf
  <2>3. Promise!Die(r)
    BY <1>3, <1>4, <2>1, <2>2 DEF Promise!Die
  <2> QED
    BY <2>3 DEF Promise!Next
<1> QED
  BY <1>5, <1>6, <1>7, <1>8, <1>9, <1>10, <1>11, <1>12, <1>13, <1>14 DEF RecorderStep

\* So is what others do to the directory.
LEMMA OthersPromise ==
    ASSUME TypeOK,
           \/ \E n \in Paths : Place(n)
           \/ \E n \in Names : Remove(n)
           \/ Toggle
    PROVE  Promise!Next \/ UNCHANGED Promise!vars
PROOF
<1>1. UNCHANGED recVars
  BY DEF Place, Remove, Toggle, Changes
<1>2. StageBar' = StageBar
  BY <1>1 DEF StageBar, StageOf, recVars
<1>3. ASSUME NEW n \in Paths, Place(n) PROVE Promise!Next
  <2>1. /\ files' = [files EXCEPT ![n] = ForeignFile] /\ files[n] = None /\ n \in Names
        /\ removed' = removed
    BY <1>3 DEF Place, Free, Names
  <2>2. ForeignFile # None /\ ForeignFile.owner = Foreign /\ ForeignFile.state = "whole"
    BY FileFacts DEF ForeignFile, States
  <2>3. /\ files'[n] # None /\ files'[n].owner = Foreign /\ files'[n].state = "whole"
        /\ \A m \in Names : m # n => files'[m] = files[m]
    BY <2>1, <2>2 DEF TypeOK
  <2>4. HolderBar' = [HolderBar EXCEPT ![n] = Foreign]
    BY <2>1, <2>3, HolderBecomes
  <2>5. FinishedBar' = FinishedBar
    BY <2>1, <2>3 DEF FinishedBar
  <2>6. Promise!Place(n)
    BY <1>2, <2>1, <2>4, <2>5 DEF Promise!Place, HolderBar, FinishedBar, StageBar
  <2>7. n \in Promise!Names
    BY <2>1, PromiseNames
  <2> QED
    BY <2>6, <2>7 DEF Promise!Next
<1>4. ASSUME NEW n \in Names, Remove(n) PROVE Promise!Next
  <2>1. /\ files' = [files EXCEPT ![n] = None] /\ files[n] # None
        /\ removed' = IF files[n].owner = Foreign THEN removed
                                                   ELSE removed \cup {<<files[n].owner, n>>}
    BY <1>4 DEF Remove
  <2>2. files'[n] = None /\ \A m \in Names : m # n => files'[m] = files[m]
    BY <2>1 DEF TypeOK
  <2>3. HolderBar' = [HolderBar EXCEPT ![n] = None]
    BY <2>1, <2>2, HolderBecomes
  <2>4. FinishedBar' = FinishedBar \ {n}
    BY <2>1, <2>2 DEF FinishedBar
  <2>5. HolderBar[n] = files[n].owner /\ HolderBar[n] # None
    <3>1. files[n].owner \in Recorders \cup {Foreign}
      BY <2>1 DEF TypeOK, FileRecords
    <3> QED
      BY <2>1, <3>1, NoneIsNothing, StoreAssumption DEF HolderBar
  <2>6. Promise!Remove(n)
    BY <1>2, <2>1, <2>3, <2>4, <2>5 DEF Promise!Remove, HolderBar, FinishedBar, StageBar
  <2>7. n \in Promise!Names
    BY PromiseNames
  <2> QED
    BY <2>6, <2>7 DEF Promise!Next
<1>5. CASE Toggle
  <2>1. UNCHANGED <<files, removed>>
    BY <1>5 DEF Toggle
  <2> QED
    BY <1>1, <2>1, DirectoryLooksSame, StageUnseen DEF StageOf, recVars
<1> QED
  BY <1>3, <1>4, <1>5

\* A directory no recorder has used yet is one the promise starts from.
LEMMA PromiseInit == Init => Promise!Init
PROOF
<1> SUFFICES ASSUME Init PROVE Promise!Init
  OBVIOUS
<1>1. \A n \in Names : files[n] = None \/ files[n] = ForeignFile
  BY DEF Init
<1>2. ForeignFile # None /\ ForeignFile.owner = Foreign /\ ForeignFile.state # "synced"
  BY FileFacts DEF ForeignFile, States
<1>3. HolderBar \in [Names -> {None, Foreign}]
  BY <1>1, <1>2 DEF HolderBar
<1>4. FinishedBar = {}
  BY <1>1, <1>2 DEF FinishedBar
<1>5. StageBar = [r \in Recorders |-> "unsealed"]
  BY DEF StageBar, StageOf, Init
<1> QED
  BY <1>3, <1>4, <1>5, PromiseNames DEF Promise!Init, HolderBar, FinishedBar, StageBar, Init

\* Seen from outside, the recorders and everybody else who uses the directory only ever do
\* what ReceiptPromise allows.
THEOREM PromiseIsKept == Spec => ImplementsPromise
PROOF
<1>1. StoreInv /\ [Next]_vars => [Promise!Next]_(Promise!vars)
  <2> SUFFICES ASSUME StoreInv, [Next]_vars PROVE Promise!Next \/ UNCHANGED Promise!vars
    OBVIOUS
  <2>1. ASSUME NEW r \in Recorders, RecorderStep(r) \/ Crash(r)
        PROVE  Promise!Next \/ UNCHANGED Promise!vars
    BY <2>1, RecorderPromise DEF StoreInv
  <2>2. ASSUME \/ \E n \in Paths : Place(n)
               \/ \E n \in Names : Remove(n)
               \/ Toggle
        PROVE  Promise!Next \/ UNCHANGED Promise!vars
    BY <2>2, OthersPromise DEF StoreInv
  <2>3. CASE UNCHANGED vars
    BY <2>3, DirectoryLooksSame, StageUnseen DEF vars, recVars, envVars, StageOf
  <2> QED
    BY <2>1, <2>2, <2>3 DEF Next, Done
<1> QED
  BY <1>1, PromiseInit, StoreInvariant, PTL DEF Spec, ImplementsPromise, Promise!Spec
=============================================================================
