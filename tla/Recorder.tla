------------------------------ MODULE Recorder ------------------------------
(***************************************************************************)
(* One run of record from the first capture to the sealed receipt          *)
(* (src/record.rs, record): the captures and the comparison of Observation *)
(* around the supervised command of Supervisor.  They share the Ctrl-C     *)
(* flag and run one after the other; the command changes the file system   *)
(* as long as it lives, and others change it at any time.                  *)
(***************************************************************************)
EXTENDS Observation

CONSTANTS Descendants, PipeCap, MaxWrites, HasTimeout,          \* as in Supervisor
          SpawnFaults, WaitFaults, KillFaults, OutputFaults

VARIABLES
    runPc, reason, outcome, blind, failedJoin,      \* the variables of Supervisor
    child, status, forked, holders, pipe, fwd, written, forwarded, elapsed,
    late        \* history: the command changed something after the second capture began

Run == INSTANCE Supervisor WITH pc <- runPc

ASSUME RunAssumption == Run!SupervisorAssumption

runVars == <<runPc, reason, outcome, blind, failedJoin, child, status, forked, holders, pipe, fwd,
             written, forwarded, elapsed>>
recorderVars == <<allVars, runVars, late>>

-----------------------------------------------------------------------------
(* The phases of record.                                                   *)

RecorderInit == ObservationInit /\ Run!Init /\ late = FALSE

\* The run begins when the first capture has ended.
CommandStep(step) == phase = "command" /\ step

\* What Supervisor does leaves the captures alone, but for the flag they share.
CapturesRest == UNCHANGED <<fs, changes, held, captureVars, observationVars, late>>

RunStep == CommandStep(Run!RunStep) /\ CapturesRest

\* Mutant: the second capture begins while the command is being stopped.
CommandStopping == runPc \in {"wait", "join stdout", "join stderr", "done"}

CommandDone == runPc = "done"

BeginAfter == CommandDone /\ StartAfter /\ UNCHANGED <<runVars, late>>

ObserveStep == (CapturePhase \/ StartCommand \/ Seal) /\ UNCHANGED <<runVars, late>>

RecorderStep == ObserveStep \/ RunStep \/ BeginAfter

-----------------------------------------------------------------------------
(* The command, its descendants and the kernel, in any phase.              *)

ProcessStep ==
    /\ \/ \E s \in Run!Streams : Run!Writes(s)
       \/ \E d \in Descendants : Run!Fork(d)
       \/ \E p \in Run!Procs, s \in Run!Streams : Run!Closes(p, s)
       \/ Run!ChildExits \/ Run!ChildDies
    /\ CapturesRest

ForwarderStep ==
    /\ \E s \in Run!Streams : Run!Forward(s) \/ Run!ForwardEnds(s) \/ Run!ForwardFails(s)
    /\ CapturesRest

TimePasses == CommandStep(Run!Elapse) /\ CapturesRest

\* A killed process may still be finishing its last call.
CommandChanges ==
    /\ phase # "sealed" /\ child \in {"running", "dying"}
    /\ \E p \in Paths, n \in Nodes \cup {None} : Alter(p, n)
    /\ late' = (late \/ phase = "after")
    /\ UNCHANGED <<interrupted, pc, walkVars, cur, meta, tallyVars, stats, globalTruncated,
                   observationVars, runVars>>

OthersChange == ObservedChange /\ UNCHANGED <<runVars, late>>

CtrlC == ObservedInterrupt /\ UNCHANGED <<runVars, late>>

RecorderDone == phase = "sealed" /\ UNCHANGED recorderVars

RecorderNext ==
    \/ RecorderStep \/ ProcessStep \/ ForwarderStep \/ TimePasses
    \/ CommandChanges \/ OthersChange \/ CtrlC \/ RecorderDone

\* The recorder's threads keep running, whoever reads their output keeps reading, and the
\* kernel lets a killed child die; that a capture's wait at a pipe ends is not assumed.
RecorderFairness ==
    /\ WF_recorderVars(RecorderStep /\ ~Waits) /\ WF_recorderVars(ForwarderStep)
    /\ WF_recorderVars(Run!ChildDies /\ CapturesRest)

RecorderSpec == RecorderInit /\ [][RecorderNext]_recorderVars /\ RecorderFairness

-----------------------------------------------------------------------------
(* Properties.                                                             *)

\* The command has no part in the second capture: whatever it changes it changes before
\* that capture begins, unless the receipt says that its end could not be confirmed.
LateChildIsDisclosed == late => "termination not confirmed" \in blind

\* A receipt of an interrupted command never passes for a full observation: it says that a
\* capture was cut short.
InterruptionIsDisclosed == (phase = "sealed" /\ outcome = "interrupted") => receipt.truncated

\* After Ctrl-C or the time limit there is a receipt, unless a process holds a stream or a
\* capture waits at a pipe that was put at a path between its stat and its open.
StopSealsTheReceipt ==
    (interrupted \/ elapsed) ~>
      (\/ phase = "sealed"
       \/ Waits /\ ~Quiet(cur)
       \/ Run!Joining /\ \E s \in Run!Streams : holders[s] # {})

=============================================================================
