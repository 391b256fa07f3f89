---------------------------- MODULE ReceiptStore ----------------------------
(***************************************************************************)
(* From the arguments of `cmdtrail record` to its exit code                *)
(* (src/record.rs, record and persist_receipt_with_recovery_using;     *)
(* src/receipt.rs, write_new_receipt and preflight_new_receipt;        *)
(* src/main.rs, execute): several recorders and their observed         *)
(* commands use one directory, and each recorder checks its destination    *)
(* before the command, and after it claims a name, writes and syncs the    *)
(* receipt there or under a recovery name, and reports.                    *)
(*                                                                         *)
(* The observation in between is one step here; Capture, Observation and   *)
(* Supervisor are about it.                                                *)
(***************************************************************************)
EXTENDS Naturals

CONSTANTS
    Recorders, Paths, Ids, Foreign, None,
    SetupFaults, SealFaults, CreateFaults, WriteFaults, OutputFaults, Crashes,  \* what may fail
    MaxChanges   \* bound on what others do to the directory

\* recovery_receipt_path: a name made of the receipt's identifier, in the same directory.
Recovery(i) == <<"recovery", i>>
Names == Paths \cup {Recovery(i) : i \in Ids}

States == {"partial", "whole", "synced"}
FileRecords == [owner : Recorders \cup {Foreign}, id : Ids \cup {None}, state : States]
Codes == {0, 1, 2, 5, 6}

ASSUME StoreAssumption ==
    /\ Foreign \notin Recorders /\ Foreign # None
    /\ None \notin Recorders \cup Ids \cup Names \cup FileRecords \cup Codes
    /\ \A i \in Ids : Recovery(i) \notin Paths
    /\ MaxChanges \in Nat

VARIABLES
    files,      \* the directory: name -> its file, None where there is none
    reachable,  \* whether the directory can be reached
    changes,    \* how often others changed it
    pc,         \* where each recorder is
    out,        \* the name each recorder was asked for
    attempted,  \* whether the observed command was started, or its start attempted
    id,         \* the identifier of the sealed receipt
    target,     \* the name being written
    exit,       \* the exit code, None while running and after a crash
    persisted,  \* recovery_receipt_persisted of the error document
    removed     \* history: <<owner, name>> of recorders' files others removed

recVars == <<pc, out, attempted, id, target, exit, persisted>>
envVars == <<reachable, changes, removed>>
vars == <<files, recVars, envVars>>

\* The refinement mapping: a recorder as its caller sees it, and whose file each name is.
StageOf(r) ==
    CASE pc[r] = "crashed" -> "died"
      [] pc[r] = "ended" /\ exit[r] = 6 -> IF persisted[r] THEN "recovered" ELSE "lost"
      [] pc[r] = "ended" /\ exit[r] # 6 -> IF target[r] = None THEN "unrecorded" ELSE "kept"
      [] OTHER -> IF target[r] = None THEN "unsealed" ELSE "sealed"

Promise == INSTANCE ReceiptPromise WITH
    stage    <- [r \in Recorders |-> StageOf(r)],
    holder   <- [n \in Names |-> IF files[n] = None THEN None ELSE files[n].owner],
    finished <- {n \in Names : files[n] # None /\ files[n].state = "synced"}

File(owner, i, state) == [owner |-> owner, id |-> i, state |-> state]
ForeignFile == File(Foreign, None, "whole")

Init ==
    /\ files \in {f \in [Names -> {None, ForeignFile}] : \A i \in Ids : f[Recovery(i)] = None}
    /\ reachable \in BOOLEAN /\ changes = 0 /\ removed = {}
    /\ pc = [r \in Recorders |-> "start"]
    /\ out \in [Recorders -> Paths]
    /\ attempted = [r \in Recorders |-> FALSE]
    /\ id = [r \in Recorders |-> None] /\ target = [r \in Recorders |-> None]
    /\ exit = [r \in Recorders |-> None] /\ persisted = [r \in Recorders |-> FALSE]

Goes(r, p) == pc' = [pc EXCEPT ![r] = p]

Ends(r, code) ==
    /\ Goes(r, "ended") /\ exit' = [exit EXCEPT ![r] = code]
    /\ UNCHANGED <<files, out, attempted, id, target, persisted, envVars>>

-----------------------------------------------------------------------------
(* Before the command.                                                     *)

InvalidArguments(r) == pc[r] = "start" /\ Ends(r, 2)

\* preflight_new_receipt: the directory is there and nothing, not even a link, has the name.
Free(n) == reachable /\ files[n] = None

Preflight(r) ==
    /\ pc[r] = "start" /\ Free(out[r])
    /\ Goes(r, "setup")
    /\ UNCHANGED <<files, out, attempted, id, target, exit, persisted, envVars>>

PreflightRefuses(r) == pc[r] = "start" /\ ~Free(out[r]) /\ Ends(r, 1)

\* Mutant: the interruption handler is installed once the command has ended.
SetupAfterCommand(r) ==
    /\ pc[r] \in {"setup", "seal"} /\ SetupFaults
    /\ \E code \in {2, 5} : Ends(r, code)

\* Redaction rules, working directory, roots and the Ctrl-C handler.
SetupFails(r) ==
    /\ pc[r] = "setup" /\ SetupFaults
    /\ \E code \in {2, 5} : Ends(r, code)

\* The observed command is started, or its start fails.
Attempt(r) ==
    /\ pc[r] = "setup"
    /\ attempted' = [attempted EXCEPT ![r] = TRUE] /\ Goes(r, "seal")
    /\ UNCHANGED <<files, out, id, target, exit, persisted, envVars>>

\* Ctrl-C during the first capture: the receipt is written without any attempt.
InterruptedBeforeSpawn(r) ==
    /\ pc[r] = "setup" /\ Goes(r, "seal")
    /\ UNCHANGED <<files, out, attempted, id, target, exit, persisted, envVars>>

-----------------------------------------------------------------------------
(* After the command.                                                      *)

\* Hashing an event or the receipt failed.
SealFails(r) == pc[r] = "seal" /\ SealFaults /\ Ends(r, 1)

\* Receipts of the same content have the same identifier.
Seal(r) ==
    /\ pc[r] = "seal"
    /\ \E i \in Ids : id' = [id EXCEPT ![r] = i]
    /\ target' = [target EXCEPT ![r] = out[r]] /\ Goes(r, "preflight")
    /\ UNCHANGED <<files, out, attempted, exit, persisted, envVars>>

\* Mutant: a receipt that could not be written is an ordinary I/O failure.
WriteErrorIsFinal(r) == Ends(r, 1)

\* The first failure tries the recovery name, the second one is reported.
WriteFailed(r) ==
    IF target[r] = out[r]
    THEN /\ target' = [target EXCEPT ![r] = Recovery(id[r])] /\ Goes(r, "preflight")
         /\ UNCHANGED <<files, out, attempted, id, exit, persisted, envVars>>
    ELSE Ends(r, 6)

Repreflight(r) ==
    /\ pc[r] = "preflight" /\ Free(target[r])
    /\ Goes(r, "create")
    /\ UNCHANGED <<files, out, attempted, id, target, exit, persisted, envVars>>

\* Mutant: the preflight is trusted and the file opened without create_new.
CreateTruncates(r) ==
    /\ pc[r] = "create" /\ reachable
    /\ files' = [files EXCEPT ![target[r]] = File(r, id[r], "partial")] /\ Goes(r, "write")
    /\ UNCHANGED <<out, attempted, id, target, exit, persisted, envVars>>

\* create_new: the name is claimed in one step, whatever happened since the preflight.
Create(r) ==
    /\ pc[r] = "create" /\ Free(target[r])
    /\ files' = [files EXCEPT ![target[r]] = File(r, id[r], "partial")] /\ Goes(r, "write")
    /\ UNCHANGED <<out, attempted, id, target, exit, persisted, envVars>>

\* The file may have lost its name; the bytes then go where nobody finds them.
Reaches(r, state) ==
    LET n == target[r] IN
    files' = IF files[n] # None /\ files[n].owner = r THEN [files EXCEPT ![n].state = state]
                                                     ELSE files

\* Mutant: the receipt is taken for stored without waiting for the disk.
WriteWithoutSync(r) ==
    /\ pc[r] = "write" /\ Reaches(r, "whole") /\ Goes(r, "report")
    /\ UNCHANGED <<out, attempted, id, target, exit, persisted, envVars>>

Write(r) ==
    /\ pc[r] = "write" /\ Reaches(r, "whole") /\ Goes(r, "sync")
    /\ UNCHANGED <<out, attempted, id, target, exit, persisted, envVars>>

Sync(r) ==
    /\ pc[r] = "sync" /\ Reaches(r, "synced") /\ Goes(r, "report")
    /\ UNCHANGED <<out, attempted, id, target, exit, persisted, envVars>>

WriteFails(r) ==
    /\ \/ pc[r] \in {"preflight", "create"} /\ ~Free(target[r])
       \/ pc[r] = "create" /\ CreateFaults
       \/ pc[r] \in {"write", "sync"} /\ WriteFaults
    /\ WriteFailed(r)

ReportKept(r) == pc[r] = "report" /\ target[r] = out[r] /\ Ends(r, 0)

\* The receipt is there, but the result could not be printed.
ReportFails(r) == pc[r] = "report" /\ target[r] = out[r] /\ OutputFaults /\ Ends(r, 1)

\* Mutant: the recovery is announced and the process goes on to its normal end.
ReportWithoutCode(r) ==
    /\ pc[r] = "report" /\ target[r] # out[r]
    /\ persisted' = [persisted EXCEPT ![r] = TRUE] /\ Goes(r, "ended")
    /\ UNCHANGED <<files, out, attempted, id, target, exit, envVars>>

ReportRecovered(r) ==
    /\ pc[r] = "report" /\ target[r] # out[r]
    /\ persisted' = [persisted EXCEPT ![r] = TRUE]
    /\ Goes(r, "ended") /\ exit' = [exit EXCEPT ![r] = 6]
    /\ UNCHANGED <<files, out, attempted, id, target, envVars>>

Crash(r) ==
    /\ Crashes /\ pc[r] \notin {"ended", "crashed"} /\ Goes(r, "crashed")
    /\ UNCHANGED <<files, out, attempted, id, target, exit, persisted, envVars>>

RecorderStep(r) ==
    \/ InvalidArguments(r) \/ Preflight(r) \/ PreflightRefuses(r) \/ SetupFails(r)
    \/ Attempt(r) \/ InterruptedBeforeSpawn(r) \/ SealFails(r) \/ Seal(r)
    \/ Repreflight(r) \/ Create(r) \/ Write(r) \/ Sync(r) \/ WriteFails(r)
    \/ ReportKept(r) \/ ReportFails(r) \/ ReportRecovered(r)

-----------------------------------------------------------------------------
(* Everybody else, the observed commands included.  A recovery name is not *)
(* known before its receipt is sealed, so nobody else creates it.          *)

Changes ==
    /\ changes < MaxChanges /\ changes' = changes + 1
    /\ UNCHANGED recVars

Place(n) ==
    /\ Changes /\ Free(n) /\ files' = [files EXCEPT ![n] = ForeignFile]
    /\ UNCHANGED <<reachable, removed>>

Remove(n) ==
    /\ Changes /\ reachable /\ files[n] # None /\ files' = [files EXCEPT ![n] = None]
    /\ removed' = IF files[n].owner = Foreign THEN removed
                                              ELSE removed \cup {<<files[n].owner, n>>}
    /\ UNCHANGED reachable

\* The directory is renamed, unmounted or closed to the recorder, or comes back.
Toggle == Changes /\ reachable' = ~reachable /\ UNCHANGED <<files, removed>>

Done == (\A r \in Recorders : pc[r] \in {"ended", "crashed"}) /\ UNCHANGED vars

Next ==
    \/ \E r \in Recorders : RecorderStep(r) \/ Crash(r)
    \/ \E n \in Paths : Place(n)
    \/ \E n \in Names : Remove(n)
    \/ Toggle \/ Done

Spec == Init /\ [][Next]_vars

-----------------------------------------------------------------------------
(* Properties.                                                             *)

\* Every variable holds a value of its kind, and an ended recorder has an exit code.
TypeOK ==
    /\ files \in [Names -> {None} \cup FileRecords]
    /\ reachable \in BOOLEAN /\ changes \in 0..MaxChanges
    /\ removed \subseteq Recorders \X Names
    /\ pc \in [Recorders -> {"start", "setup", "seal", "preflight", "create", "write", "sync",
                             "report", "ended", "crashed"}]
    /\ out \in [Recorders -> Paths]
    /\ attempted \in [Recorders -> BOOLEAN] /\ persisted \in [Recorders -> BOOLEAN]
    /\ id \in [Recorders -> Ids \cup {None}] /\ target \in [Recorders -> Names \cup {None}]
    /\ exit \in [Recorders -> Codes \cup {None}]
    /\ \A r \in Recorders : pc[r] = "ended" <=> exit[r] # None

Stored(r, n) == files[n] = File(r, id[r], "synced") \/ <<r, n>> \in removed

\* Exit 0 and exit 6 with a persisted recovery tell of a whole, synced receipt of that
\* identity under the announced name, unless somebody removed it since, however the
\* writes of other recorders and commands fell between preflight, create and sync.
ReportedReceiptIsStored ==
    \A r \in Recorders :
      /\ exit[r] = 0 => Stored(r, out[r])
      /\ persisted[r] => Stored(r, Recovery(id[r]))

\* Usage and setup failures come before the command and leave nothing behind.
RefusalIsClean ==
    \A r \in Recorders : exit[r] \in {2, 5} =>
        ~attempted[r] /\ \A n \in Names : files[n] # None => files[n].owner # r

\* A broken receipt never looks like an ordinary failure: what a recorder that ended left
\* incomplete is announced by exit 6, which forbids a retry.
LeftoverIsDisclosed ==
    \A n \in Names : (files[n] # None /\ files[n].state # "synced" /\ files[n].owner # Foreign) =>
        (pc[files[n].owner] = "ended" => exit[files[n].owner] = 6)

\* No recorder replaces, changes or removes a file another one, or anybody else, made;
\* its own files only ever grow towards the whole receipt.
NoClobber ==
    [][\A n \in Names : (files[n] # None /\ files'[n] # files[n]) =>
          \/ files'[n] = None /\ UNCHANGED recVars
          \/ /\ files'[n] # None /\ files'[n].owner = files[n].owner
             /\ files'[n].id = files[n].id
             /\ <<files[n].state, files'[n].state>> \in {<<"partial", "whole">>,
                                                        <<"whole", "synced">>}
             /\ pc'[files[n].owner] # pc[files[n].owner]]_vars

\* Seen from outside, the recorders keep the promise of ReceiptPromise.
ImplementsPromise == Promise!Spec

=============================================================================
