----------------------------- MODULE Supervisor -----------------------------
(***************************************************************************)
(* Running the direct command (src/record.rs, run_command to               *)
(* outcome_from_status): spawn, a polling loop that watches for the exit,  *)
(* the time limit and Ctrl-C, a kill and a wait, and two threads that copy *)
(* the command's output streams to stderr and are joined at the end.       *)
(*                                                                         *)
(* The environment is the child, the descendants it forks, which inherit   *)
(* its streams, the kernel and whoever presses Ctrl-C.                     *)
(***************************************************************************)
EXTENDS Integers, FiniteSets

CONSTANTS
    Descendants,   \* processes the child may fork
    PipeCap,       \* what a pipe holds before a writer blocks
    MaxWrites,     \* bound on writes to each stream
    HasTimeout,    \* whether a time limit was given
    SpawnFaults, WaitFaults, KillFaults, OutputFaults,   \* which calls may fail
    None

Streams == {"stdout", "stderr"}
Procs == {"child"} \cup Descendants

ASSUME SupervisorAssumption ==
    /\ PipeCap \in Nat \ {0} /\ MaxWrites \in Nat
    /\ {HasTimeout, SpawnFaults, WaitFaults, KillFaults, OutputFaults} \subseteq BOOLEAN
    /\ "child" \notin Descendants
    /\ None \notin {"exited", "signaled", "timed_out", "interrupted", "spawn_failed",
                    "observer_failed", "success", "failure", "signal", "killed"}

VARIABLES
    pc,            \* where run_command is
    reason,        \* why the child is to be killed
    outcome,       \* CommandOutcome.state, None while it runs
    blind,         \* blind spots of the run
    failedJoin,    \* forwarding_failed
    child, status, \* the direct child, and how it ended
    forked, holders,      \* descendants, and who holds the write end of each stream
    pipe, fwd,            \* bytes in each pipe; the state of each forwarder
    written, forwarded,   \* history: bytes written to and copied from each stream
    interrupted, elapsed  \* the Ctrl-C flag; whether the time limit has passed

runVars    == <<pc, reason, outcome, blind, failedJoin>>
procVars   == <<child, status, forked>>
streamVars == <<holders, pipe, fwd, written, forwarded>>
flagVars   == <<interrupted, elapsed>>
vars == <<runVars, procVars, streamVars, flagVars>>

Init ==
    /\ pc = "start" /\ reason = None /\ outcome = None /\ blind = {} /\ failedJoin = FALSE
    /\ child = "none" /\ status = None /\ forked = {}
    /\ holders = [s \in Streams |-> {}] /\ pipe = [s \in Streams |-> 0]
    /\ fwd = [s \in Streams |-> "none"]
    /\ written = [s \in Streams |-> 0] /\ forwarded = [s \in Streams |-> 0]
    /\ interrupted \in BOOLEAN /\ elapsed = FALSE

-----------------------------------------------------------------------------
(* run_command.                                                            *)

InterruptedBeforeSpawn ==
    /\ pc = "start" /\ interrupted
    /\ outcome' = "interrupted" /\ blind' = {"not spawned"} /\ pc' = "done"
    /\ UNCHANGED <<reason, failedJoin, procVars, streamVars, flagVars>>

\* Ctrl-C may still arrive between the test of the flag and the spawn.
PassInterruptTest ==
    /\ pc = "start" /\ ~interrupted
    /\ pc' = "spawn"
    /\ UNCHANGED <<reason, outcome, blind, failedJoin, procVars, streamVars, flagVars>>

SpawnFails ==
    /\ pc = "spawn" /\ SpawnFaults
    /\ outcome' = "spawn_failed" /\ pc' = "done"
    /\ UNCHANGED <<reason, blind, failedJoin, procVars, streamVars, flagVars>>

\* The child starts with both streams, and both forwarders start with it.
Spawn ==
    /\ pc = "spawn"
    /\ child' = "running"
    /\ holders' = [s \in Streams |-> {"child"}]
    /\ fwd' = [s \in Streams |-> "copying"]
    /\ pc' = "poll"
    /\ UNCHANGED <<reason, outcome, blind, failedJoin, status, forked, pipe, written, forwarded,
                   flagVars>>

OutcomeOf(st) == IF st \in {"success", "failure"} THEN "exited" ELSE "signaled"

\* try_wait returned the status: the child is reaped.
PollExited ==
    /\ pc = "poll" /\ child = "zombie"
    /\ child' = "reaped"
    /\ outcome' = OutcomeOf(status) /\ pc' = "join stdout"
    /\ UNCHANGED <<reason, blind, failedJoin, status, forked, streamVars, flagVars>>

PollRunning ==
    /\ pc = "poll" /\ child = "running"
    /\ pc' = "check"
    /\ UNCHANGED <<reason, outcome, blind, failedJoin, procVars, streamVars, flagVars>>

PollFails ==
    /\ pc = "poll" /\ WaitFaults
    /\ reason' = "observer_failed" /\ pc' = "kill"
    /\ UNCHANGED <<outcome, blind, failedJoin, procVars, streamVars, flagVars>>

\* Mutant: a run that reached its limit is always a timeout.
StopReasonTimeoutFirst == IF HasTimeout THEN "timed_out" ELSE "interrupted"

\* Ctrl-C wins over a limit that has passed as well.
StopReason == IF interrupted THEN "interrupted" ELSE "timed_out"

\* Mutant: Ctrl-C is left to the command.
StopOnLimitOnly == HasTimeout /\ elapsed

StopWanted == interrupted \/ (HasTimeout /\ elapsed)

\* Both flags only ever rise, so reading them in one step loses nothing.
CheckStops ==
    /\ pc = "check" /\ StopWanted
    /\ reason' = StopReason /\ pc' = "kill"
    /\ UNCHANGED <<outcome, blind, failedJoin, procVars, streamVars, flagVars>>

CheckSleeps ==
    /\ pc = "check" /\ ~StopWanted
    /\ pc' = "poll"
    /\ UNCHANGED <<reason, outcome, blind, failedJoin, procVars, streamVars, flagVars>>

\* Mutant: a kill that was sent is taken for a termination.
KillIsEnough ==
    /\ pc = "kill"
    /\ child' = IF child = "running" THEN "dying" ELSE child
    /\ outcome' = reason /\ pc' = "join stdout"
    /\ UNCHANGED <<reason, blind, failedJoin, status, forked, streamVars, flagVars>>

\* Killing a child that has just exited succeeds too: it has not been reaped.
Kill ==
    /\ pc = "kill"
    /\ child' = IF child = "running" THEN "dying" ELSE child
    /\ pc' = "wait"
    /\ UNCHANGED <<reason, outcome, blind, failedJoin, status, forked, streamVars, flagVars>>

\* Without a confirmed kill and wait the receipt says the child may still run.
Unconfirmed ==
    /\ \/ pc = "kill" /\ KillFaults
       \/ pc = "wait" /\ WaitFaults
    /\ outcome' = reason /\ blind' = blind \cup {"termination not confirmed"}
    /\ pc' = "join stdout"
    /\ UNCHANGED <<reason, failedJoin, procVars, streamVars, flagVars>>

Wait ==
    /\ pc = "wait" /\ child = "zombie"
    /\ child' = "reaped"
    /\ outcome' = reason /\ pc' = "join stdout"
    /\ UNCHANGED <<reason, blind, failedJoin, status, forked, streamVars, flagVars>>

\* finish_run joins the forwarders one after the other; a join waits for the thread's end.
JoinStdout ==
    /\ pc = "join stdout" /\ fwd["stdout"] \in {"eof", "failed"}
    /\ failedJoin' = (fwd["stdout"] = "failed")
    /\ pc' = "join stderr"
    /\ UNCHANGED <<reason, outcome, blind, procVars, streamVars, flagVars>>

\* Mutant: the second forwarder is not waited for.
JoinStderrEarly ==
    /\ pc = "join stderr"
    /\ blind' = IF failedJoin \/ fwd["stderr"] = "failed"
                  THEN blind \cup {"output not passed through"} ELSE blind
    /\ pc' = "done"
    /\ UNCHANGED <<reason, outcome, failedJoin, procVars, streamVars, flagVars>>

JoinStderr ==
    /\ pc = "join stderr" /\ fwd["stderr"] \in {"eof", "failed"}
    /\ blind' = IF failedJoin \/ fwd["stderr"] = "failed"
                  THEN blind \cup {"output not passed through"} ELSE blind
    /\ pc' = "done"
    /\ UNCHANGED <<reason, outcome, failedJoin, procVars, streamVars, flagVars>>

RunStep ==
    \/ InterruptedBeforeSpawn \/ PassInterruptTest \/ SpawnFails \/ Spawn
    \/ PollExited \/ PollRunning \/ PollFails \/ CheckStops \/ CheckSleeps
    \/ Kill \/ Unconfirmed \/ Wait \/ JoinStdout \/ JoinStderr

-----------------------------------------------------------------------------
(* The forwarder threads (io::copy to stderr).                             *)

\* Mutant: nothing is copied until the run is over.
ForwardAtEnd(s) ==
    /\ fwd[s] = "copying" /\ pipe[s] > 0 /\ pc \in {"join stdout", "join stderr"}
    /\ pipe' = [pipe EXCEPT ![s] = @ - 1]
    /\ forwarded' = [forwarded EXCEPT ![s] = @ + 1]
    /\ UNCHANGED <<runVars, procVars, holders, fwd, written, flagVars>>

Forward(s) ==
    /\ fwd[s] = "copying" /\ pipe[s] > 0
    /\ pipe' = [pipe EXCEPT ![s] = @ - 1]
    /\ forwarded' = [forwarded EXCEPT ![s] = @ + 1]
    /\ UNCHANGED <<runVars, procVars, holders, fwd, written, flagVars>>

\* A read returns end of file once the pipe is empty and no process holds its write end.
ForwardEnds(s) ==
    /\ fwd[s] = "copying" /\ pipe[s] = 0 /\ holders[s] = {}
    /\ fwd' = [fwd EXCEPT ![s] = "eof"]
    /\ UNCHANGED <<runVars, procVars, holders, pipe, written, forwarded, flagVars>>

\* A failed copy ends the thread and drops the read end with what is in the pipe.
ForwardFails(s) ==
    /\ fwd[s] = "copying" /\ OutputFaults
    /\ fwd' = [fwd EXCEPT ![s] = "failed"] /\ pipe' = [pipe EXCEPT ![s] = 0]
    /\ UNCHANGED <<runVars, procVars, holders, written, forwarded, flagVars>>

-----------------------------------------------------------------------------
(* The environment.                                                        *)

Writes(s) ==
    /\ holders[s] # {} /\ fwd[s] = "copying"
    /\ pipe[s] < PipeCap /\ written[s] < MaxWrites
    /\ pipe' = [pipe EXCEPT ![s] = @ + 1]
    /\ written' = [written EXCEPT ![s] = @ + 1]
    /\ UNCHANGED <<runVars, procVars, holders, fwd, forwarded, flagVars>>

\* A descendant inherits the streams the child still holds.
Fork(d) ==
    /\ child = "running" /\ d \notin forked
    /\ forked' = forked \cup {d}
    /\ holders' = [s \in Streams |-> IF "child" \in holders[s] THEN holders[s] \cup {d}
                                                               ELSE holders[s]]
    /\ UNCHANGED <<runVars, child, status, pipe, fwd, written, forwarded, flagVars>>

Closes(p, s) ==
    /\ p \in holders[s]
    /\ holders' = [holders EXCEPT ![s] = @ \ {p}]
    /\ UNCHANGED <<runVars, procVars, pipe, fwd, written, forwarded, flagVars>>

ChildEnds(st) ==
    /\ child' = "zombie" /\ status' = st
    /\ holders' = [s \in Streams |-> holders[s] \ {"child"}]
    /\ UNCHANGED <<runVars, forked, pipe, fwd, written, forwarded, flagVars>>

ChildExits == child = "running" /\ \E st \in {"success", "failure", "signal"} : ChildEnds(st)
ChildDies  == child = "dying" /\ ChildEnds("killed")

Interrupt ==
    /\ pc # "done" /\ ~interrupted /\ interrupted' = TRUE
    /\ UNCHANGED <<runVars, procVars, streamVars, elapsed>>

Elapse ==
    /\ HasTimeout /\ pc \notin {"start", "spawn", "done"} /\ ~elapsed /\ elapsed' = TRUE
    /\ UNCHANGED <<runVars, procVars, streamVars, interrupted>>

Done == pc = "done" /\ UNCHANGED vars

Next ==
    \/ RunStep
    \/ \E s \in Streams : Forward(s) \/ ForwardEnds(s) \/ ForwardFails(s) \/ Writes(s)
    \/ \E d \in Descendants : Fork(d)
    \/ \E p \in Procs, s \in Streams : Closes(p, s)
    \/ ChildExits \/ ChildDies \/ Interrupt \/ Elapse \/ Done

Spec == Init /\ [][Next]_vars

\* The recorder's threads keep running, whoever reads the recorder's own stderr keeps
\* reading, so that a write of a forwarder ends, and the kernel lets a killed child die.
Fairness ==
    /\ WF_vars(RunStep)
    /\ \A s \in Streams : WF_vars(Forward(s)) /\ WF_vars(ForwardEnds(s))
    /\ WF_vars(ChildDies)

FairSpec == Spec /\ Fairness

-----------------------------------------------------------------------------
(* Properties.                                                             *)

Outcomes == {"exited", "signaled", "timed_out", "interrupted", "spawn_failed", "observer_failed"}

StreamsOK ==
    /\ holders \in [Streams -> SUBSET Procs]
    /\ pipe \in [Streams -> 0..PipeCap]
    /\ fwd \in [Streams -> {"none", "copying", "eof", "failed"}]
    /\ written \in [Streams -> 0..MaxWrites] /\ forwarded \in [Streams -> 0..MaxWrites]

RunOK ==
    /\ pc \in {"start", "spawn", "poll", "check", "kill", "wait", "join stdout", "join stderr",
               "done"}
    /\ reason \in Outcomes \cup {None} /\ outcome \in Outcomes \cup {None}
    /\ blind \subseteq {"not spawned", "termination not confirmed", "output not passed through"}
    /\ child \in {"none", "running", "dying", "zombie", "reaped"}
    /\ status \in {"success", "failure", "signal", "killed", None}
    /\ forked \subseteq Descendants
    /\ outcome # None <=> pc \in {"join stdout", "join stderr", "done"}
    /\ pc \in {"kill", "wait"} => reason # None

FlagsOK == {failedJoin, interrupted, elapsed} \subseteq BOOLEAN

\* Every variable holds a value of its kind; the outcome is set from the joins on, and
\* nothing is killed without a reason.
TypeOK == RunOK /\ StreamsOK /\ FlagsOK

\* A child that was spawned and not reaped is never left behind in silence.
UnreapedChildIsDisclosed ==
    pc = "done" =>
      (child \in {"running", "dying", "zombie"} => "termination not confirmed" \in blind)

\* The recorded outcome is what happened: an exit status is the child's own and never
\* that of the recorder's kill, an interruption or a timeout was asked for, and a child
\* the recorder killed is reported under the reason it was killed for.
OutcomeIsTrue ==
    outcome # None =>
      /\ (outcome = "exited" => child = "reaped" /\ status \in {"success", "failure"})
      /\ (outcome = "signaled" => child = "reaped" /\ status = "signal")
      /\ (outcome = "interrupted" => interrupted)
      /\ (outcome = "timed_out" => HasTimeout /\ elapsed)
      /\ (outcome = "spawn_failed" => child = "none")
      /\ (outcome = "observer_failed" => WaitFaults)
      /\ ("not spawned" \in blind => child = "none" /\ outcome = "interrupted")

\* Unless the receipt says otherwise every byte the command or a descendant wrote reached
\* stderr, and no process is left that could write more.
PassThroughIsComplete ==
    (pc = "done" /\ "output not passed through" \notin blind) =>
      \A s \in Streams : forwarded[s] = written[s] /\ holders[s] = {}

\* Once decided, an outcome is not revised, and nothing is spawned after it.
OutcomeIsFinal ==
    [][outcome # None => outcome' = outcome /\ ~(child = "none" /\ child' # "none")]_vars

\* A full pipe is drained: the command never blocks for good on its own output, as long as
\* somebody reads the recorder's stderr.
FullPipeDrains == \A s \in Streams : (pipe[s] = PipeCap) ~> (pipe[s] < PipeCap)

Joining == pc \in {"join stdout", "join stderr"}

\* After Ctrl-C or the time limit the run ends or waits only for a process that still
\* holds one of its streams, and it ends once no process does.  As above somebody has to
\* read the recorder's stderr: a forwarder that cannot write is joined in vain.
StopEndsTheRun ==
    /\ (interrupted \/ elapsed) ~> (pc = "done" \/ (Joining /\ \E s \in Streams : holders[s] # {}))
    /\ (Joining /\ \A s \in Streams : holders[s] = {}) ~> (pc = "done")

=============================================================================
