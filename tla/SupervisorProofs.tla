-------------------------- MODULE SupervisorProofs --------------------------
(***************************************************************************)
(* Theorems about Supervisor, for every number of descendants, pipes of    *)
(* every size and every combination of faults: types, a child that was not *)
(* reaped is disclosed, the recorded outcome is what happened and is not   *)
(* revised, and a pass-through that is not disclosed as broken is complete.*)
(***************************************************************************)
EXTENDS Supervisor, TLAPS

-----------------------------------------------------------------------------
(* The inductive invariant.                                                *)

Before == {"start", "spawn"}
Watching == {"poll", "check", "kill", "wait"}
After == {"join stdout", "join stderr", "done"}

\* How far the run is, and what the child may be by then.
ChildInv ==
    /\ pc \in Before => child = "none"
    /\ pc \in {"poll", "check", "kill"} => child \in {"running", "zombie"}
    /\ pc = "wait" => child \in {"dying", "zombie"}
    /\ pc \in {"join stdout", "join stderr"} => child # "none"
    /\ child \in {"none", "running", "dying"} => status = None
    /\ child \in {"zombie", "reaped"} => status # None
    /\ status = "killed" => reason # None
    /\ child = "dying" => reason # None

\* A reason to kill the child is only given for what happened, and only once.
ReasonInv ==
    /\ pc \in Before \cup {"poll", "check"} => reason = None
    /\ reason \in {"interrupted", "timed_out", "observer_failed", None}
    /\ reason = "interrupted" => interrupted
    /\ reason = "timed_out" => HasTimeout /\ elapsed
    /\ reason = "observer_failed" => WaitFaults

\* What the receipt is told of the run.
VerdictInv ==
    /\ pc \in Before \cup Watching => blind = {}
    /\ pc \in After /\ child \in {"running", "dying", "zombie"} =>
         "termination not confirmed" \in blind
    /\ "not spawned" \in blind => pc = "done" /\ child = "none" /\ outcome = "interrupted"
    /\ OutcomeIsTrue

\* The bytes of a stream, as long as its forwarder has not failed.
StreamInv(s) ==
    /\ child = "none" <=> fwd[s] = "none"
    /\ fwd[s] = "none" => holders[s] = {} /\ pipe[s] = 0 /\ written[s] = 0 /\ forwarded[s] = 0
    /\ fwd[s] \in {"copying", "eof"} => written[s] = forwarded[s] + pipe[s]
    /\ fwd[s] = "eof" => pipe[s] = 0 /\ holders[s] = {}

\* Which forwarders were waited for.
JoinInv ==
    /\ pc = "join stderr" =>
         /\ fwd["stdout"] \in {"eof", "failed"}
         /\ fwd["stdout"] = "failed" => failedJoin
    /\ pc = "done" /\ child # "none" => \A s \in Streams :
         /\ fwd[s] \in {"eof", "failed"}
         /\ fwd[s] = "failed" => "output not passed through" \in blind

RunInv == ChildInv /\ ReasonInv /\ VerdictInv
PipeInv == (\A s \in Streams : StreamInv(s)) /\ JoinInv
SupervisorInv == TypeOK /\ RunInv /\ PipeInv

\* None is no value of the program.
LEMMA ConstantFacts ==
  /\ PipeCap \in Nat \ {0} /\ MaxWrites \in Nat /\ "child" \notin Descendants
  /\ None \notin Outcomes /\ None \notin {"success", "failure", "signal", "killed"}
BY SupervisorAssumption DEF Outcomes

LEMMA Initially == Init => SupervisorInv
<1> SUFFICES ASSUME Init PROVE SupervisorInv
  OBVIOUS
<1>1. TypeOK
  <2>1. /\ holders \in [Streams -> SUBSET Procs] /\ pipe \in [Streams -> 0..PipeCap]
        /\ fwd \in [Streams -> {"none", "copying", "eof", "failed"}]
        /\ written \in [Streams -> 0..MaxWrites] /\ forwarded \in [Streams -> 0..MaxWrites]
    BY ConstantFacts DEF Init
  <2> QED
    BY <2>1, ConstantFacts DEF Init, TypeOK, RunOK, StreamsOK, FlagsOK
<1>2. RunInv
  <2>1. ChildInv
    BY ConstantFacts DEF Init, ChildInv, Before
  <2>2. ReasonInv
    <3>1. reason = None
      BY DEF Init
    <3> QED
      BY <3>1, SupervisorAssumption DEF ReasonInv
  <2>3. VerdictInv
    BY DEF Init, VerdictInv, OutcomeIsTrue, After
  <2> QED
    BY <2>1, <2>2, <2>3 DEF RunInv
<1>3. PipeInv
  BY DEF Init, PipeInv, StreamInv, JoinInv, Streams
<1> QED
  BY <1>1, <1>2, <1>3 DEF SupervisorInv

-----------------------------------------------------------------------------
(* The recorder's own steps.                                               *)

LEMMA RunStepTypes ==
  ASSUME SupervisorInv, RunStep
  PROVE  TypeOK'
<1>1. RunOK'
  <2> USE ConstantFacts DEF SupervisorInv, TypeOK, RunOK, Outcomes, procVars
  <2>0. CASE InterruptedBeforeSpawn \/ PassInterruptTest
    BY <2>0 DEF InterruptedBeforeSpawn, PassInterruptTest
  <2>1. CASE SpawnFails \/ Spawn
    BY <2>1 DEF SpawnFails, Spawn
  <2>2. CASE PollExited \/ PollRunning \/ PollFails
    BY <2>2 DEF PollExited, OutcomeOf, PollRunning, PollFails
  <2>3. CASE CheckStops \/ CheckSleeps
    BY <2>3 DEF CheckStops, StopReason, CheckSleeps
  <2>4. CASE Kill \/ Unconfirmed \/ Wait
    BY <2>4 DEF Kill, Unconfirmed, Wait
  <2>5. CASE JoinStdout
    BY <2>5 DEF JoinStdout
  <2>6. CASE JoinStderr
    <3>1. /\ pc = "join stderr" /\ pc' = "done"
          /\ UNCHANGED <<reason, outcome, child, status, forked>>
      BY <2>6 DEF JoinStderr
    <3>2. blind' = blind \/ blind' = blind \cup {"output not passed through"}
      BY <2>6 DEF JoinStderr
    <3>3. blind' \subseteq {"not spawned", "termination not confirmed", "output not passed through"}
      BY <3>2
    <3> QED
      BY <3>1, <3>3
  <2> QED
    BY <2>0, <2>1, <2>2, <2>3, <2>4, <2>5, <2>6 DEF RunStep
<1>2. StreamsOK'
  <2>1. CASE Spawn
    BY <2>1 DEF SupervisorInv, TypeOK, StreamsOK, Spawn, Procs
  <2>2. CASE ~Spawn
    BY <2>2 DEF SupervisorInv, TypeOK, StreamsOK, RunStep, InterruptedBeforeSpawn,
       PassInterruptTest, SpawnFails, PollExited, PollRunning, PollFails, CheckStops, CheckSleeps,
       Kill, Unconfirmed, Wait, JoinStdout, JoinStderr, streamVars
  <2> QED
    BY <2>1, <2>2
<1>3. FlagsOK'
  BY DEF SupervisorInv, TypeOK, FlagsOK, RunStep, InterruptedBeforeSpawn, PassInterruptTest,
     SpawnFails, Spawn, PollExited, PollRunning, PollFails, CheckStops, CheckSleeps, Kill,
     Unconfirmed, Wait, JoinStdout, JoinStderr, flagVars
<1> QED
  BY <1>1, <1>2, <1>3 DEF TypeOK

LEMMA RunStepRun ==
  ASSUME SupervisorInv, RunStep
  PROVE  RunInv'
<1> USE ConstantFacts DEF SupervisorInv, TypeOK, RunOK, RunInv, ChildInv, ReasonInv, VerdictInv,
        OutcomeIsTrue, Before, Watching, After, Outcomes, procVars, streamVars, flagVars
<1>1. CASE InterruptedBeforeSpawn
  BY <1>1 DEF InterruptedBeforeSpawn
<1>2. CASE PassInterruptTest
  BY <1>2 DEF PassInterruptTest
<1>3. CASE SpawnFails
  BY <1>3 DEF SpawnFails
<1>4. CASE Spawn
  BY <1>4 DEF Spawn
<1>5. CASE PollExited
  BY <1>5 DEF PollExited, OutcomeOf
<1>6. CASE PollRunning
  BY <1>6 DEF PollRunning
<1>7. CASE PollFails
  BY <1>7 DEF PollFails
<1>8. CASE CheckStops
  BY <1>8 DEF CheckStops, StopReason, StopWanted
<1>9. CASE CheckSleeps
  BY <1>9 DEF CheckSleeps
<1>10. CASE Kill
  BY <1>10 DEF Kill
<1>11. CASE Unconfirmed
  BY <1>11 DEF Unconfirmed
<1>12. CASE Wait
  BY <1>12 DEF Wait
<1>13. CASE JoinStdout
  <2>1. /\ pc = "join stdout" /\ pc' = "join stderr"
        /\ UNCHANGED <<reason, outcome, blind, child, status, interrupted, elapsed>>
    BY <1>13 DEF JoinStdout
  <2>2. ChildInv' /\ ReasonInv'
    BY <2>1
  <2>3. VerdictInv'
    BY <2>1
  <2> QED
    BY <2>2, <2>3
<1>14. CASE JoinStderr
  <2>1. /\ pc = "join stderr" /\ pc' = "done"
        /\ UNCHANGED <<reason, outcome, child, status, interrupted, elapsed>>
        /\ blind' = blind \/ blind' = blind \cup {"output not passed through"}
    BY <1>14 DEF JoinStderr
  <2>2. ChildInv' /\ ReasonInv'
    BY <2>1
  <2>3. VerdictInv'
    BY <2>1
  <2> QED
    BY <2>2, <2>3
<1> QED
  BY <1>1, <1>2, <1>3, <1>4, <1>5, <1>6, <1>7, <1>8, <1>9, <1>10, <1>11, <1>12, <1>13, <1>14
  DEF RunStep

LEMMA RunStepPipes ==
  ASSUME SupervisorInv, RunStep
  PROVE  PipeInv'
<1> USE DEF SupervisorInv, RunInv, ChildInv, PipeInv, StreamInv, JoinInv, Streams, Before,
        procVars, streamVars, flagVars
<1>1. CASE InterruptedBeforeSpawn \/ PassInterruptTest \/ SpawnFails
  BY <1>1 DEF InterruptedBeforeSpawn, PassInterruptTest, SpawnFails
<1>2. CASE Spawn
  <2>1. \A s \in Streams : StreamInv(s)'
    BY <1>2 DEF Spawn
  <2> QED
    BY <1>2, <2>1 DEF Spawn
<1>3. CASE PollExited \/ PollRunning \/ PollFails \/ CheckStops \/ CheckSleeps
  BY <1>3 DEF PollExited, PollRunning, PollFails, CheckStops, CheckSleeps
<1>4. CASE Kill \/ Unconfirmed \/ Wait
  BY <1>4 DEF Kill, Unconfirmed, Wait
<1>5. CASE JoinStdout
  BY <1>5 DEF JoinStdout
<1>6. CASE JoinStderr
  BY <1>6 DEF JoinStderr
<1> QED
  BY <1>1, <1>2, <1>3, <1>4, <1>5, <1>6 DEF RunStep

-----------------------------------------------------------------------------
(* Forwarders, child, descendants, Ctrl-C and the clock.                   *)

LEMMA ForwarderSteps ==
  ASSUME SupervisorInv, NEW s \in Streams,
         Forward(s) \/ ForwardEnds(s) \/ ForwardFails(s) \/ Writes(s)
  PROVE  SupervisorInv'
<1> USE DEF runVars, procVars, flagVars
<1>1. UNCHANGED <<runVars, procVars, flagVars>>
  BY DEF Forward, ForwardEnds, ForwardFails, Writes
<1>2. RunOK' /\ FlagsOK' /\ RunInv'
  <2>1. RunOK' /\ FlagsOK'
    BY <1>1 DEF SupervisorInv, TypeOK, RunOK, FlagsOK
  <2>2. ChildInv'
    BY <1>1 DEF SupervisorInv, RunInv, ChildInv
  <2>3. ReasonInv'
    BY <1>1 DEF SupervisorInv, RunInv, ReasonInv
  <2>4. VerdictInv'
    BY <1>1 DEF SupervisorInv, RunInv, VerdictInv, OutcomeIsTrue
  <2> QED
    BY <2>1, <2>2, <2>3, <2>4 DEF RunInv
<1>3. /\ pipe[s] \in 0..PipeCap /\ forwarded[s] \in 0..MaxWrites /\ written[s] \in 0..MaxWrites
      /\ fwd[s] = "copying" => written[s] = forwarded[s] + pipe[s]
  BY DEF SupervisorInv, TypeOK, StreamsOK, PipeInv, StreamInv
<1>4. StreamsOK'
  <2> USE DEF SupervisorInv, TypeOK, StreamsOK
  <2>1. CASE Forward(s)
    <3>1. forwarded[s] + 1 \in 0..MaxWrites /\ pipe[s] - 1 \in 0..PipeCap
      BY <1>3, <2>1, ConstantFacts DEF Forward
    <3> QED
      BY <2>1, <3>1 DEF Forward
  <2>2. CASE ForwardEnds(s) \/ ForwardFails(s)
    BY <2>2, ConstantFacts DEF ForwardEnds, ForwardFails
  <2>3. CASE Writes(s)
    <3>1. written[s] + 1 \in 0..MaxWrites /\ pipe[s] + 1 \in 0..PipeCap
      BY <1>3, <2>3, ConstantFacts DEF Writes
    <3> QED
      BY <2>3, <3>1 DEF Writes
  <2> QED
    BY <2>1, <2>2, <2>3
<1>5. PipeInv'
  <2>1. ASSUME NEW t \in Streams PROVE StreamInv(t)'
    <3>1. StreamInv(t)
      BY DEF SupervisorInv, PipeInv
    <3>2. CASE t = s
      BY <1>1, <1>3, <3>1, <3>2, ConstantFacts DEF SupervisorInv, TypeOK, StreamsOK, StreamInv,
         Forward, ForwardEnds, ForwardFails, Writes
    <3>3. CASE t # s
      BY <1>1, <3>1, <3>3 DEF SupervisorInv, TypeOK, StreamsOK, StreamInv, Forward, ForwardEnds,
         ForwardFails, Writes
    <3> QED
      BY <3>2, <3>3
  <2>2. JoinInv'
    BY <1>1 DEF SupervisorInv, TypeOK, StreamsOK, PipeInv, JoinInv, Streams, Forward,
       ForwardEnds, ForwardFails, Writes
  <2> QED
    BY <2>1, <2>2 DEF PipeInv
<1> QED
  BY <1>2, <1>4, <1>5 DEF SupervisorInv, TypeOK

LEMMA ProcessSteps ==
  ASSUME SupervisorInv,
         \/ \E d \in Descendants : Fork(d)
         \/ \E p \in Procs, s \in Streams : Closes(p, s)
         \/ ChildExits \/ ChildDies
  PROVE  SupervisorInv'
<1> USE DEF Fork, Closes, ChildExits, ChildDies, ChildEnds, runVars, procVars, flagVars
<1>1. UNCHANGED <<runVars, pipe, fwd, written, forwarded, flagVars>>
  OBVIOUS
<1>2. RunOK' /\ FlagsOK'
  <2>1. /\ child' \in {"running", "zombie", child}
        /\ status' \in {"success", "failure", "signal", "killed", status}
        /\ forked' \subseteq forked \cup Descendants
    OBVIOUS
  <2> HIDE DEF Fork, Closes, ChildExits, ChildDies
  <2>2. RunOK'
    <3>1. RunOK
      BY DEF SupervisorInv, TypeOK
    <3>2. child' \in {"none", "running", "dying", "zombie", "reaped"}
      BY <2>1, <3>1 DEF RunOK
    <3>3. status' \in {"success", "failure", "signal", "killed", None}
      BY <2>1, <3>1 DEF RunOK
    <3>4. forked' \subseteq Descendants
      BY <2>1, <3>1 DEF RunOK
    <3> QED
      BY <1>1, <3>1, <3>2, <3>3, <3>4 DEF RunOK
  <2>3. FlagsOK'
    BY <1>1 DEF SupervisorInv, TypeOK, FlagsOK
  <2> QED
    BY <2>2, <2>3
<1>3. StreamsOK'
  BY <1>1 DEF SupervisorInv, TypeOK, StreamsOK, Procs
<1>4. RunInv'
  <2>1. ChildInv'
    BY <1>1, ConstantFacts DEF SupervisorInv, TypeOK, RunOK, RunInv, ChildInv, Before
  <2>2. ReasonInv'
    BY <1>1 DEF SupervisorInv, RunInv, ReasonInv
  <2>3. VerdictInv'
    BY <1>1 DEF SupervisorInv, RunInv, VerdictInv, OutcomeIsTrue
  <2> QED
    BY <2>1, <2>2, <2>3 DEF RunInv
<1>5. child' = "none" <=> child = "none"
  OBVIOUS
<1>6. \A s \in Streams : holders[s] = {} => holders'[s] = {}
  BY DEF SupervisorInv, TypeOK, StreamsOK
<1>7. PipeInv'
  <2>1. ASSUME NEW s \in Streams PROVE StreamInv(s)'
    BY <1>1, <1>5, <1>6 DEF SupervisorInv, PipeInv, StreamInv
  <2>2. JoinInv'
    BY <1>1, <1>5 DEF SupervisorInv, PipeInv, JoinInv
  <2> QED
    BY <2>1, <2>2 DEF PipeInv
<1> QED
  BY <1>2, <1>3, <1>4, <1>7 DEF SupervisorInv, TypeOK

\* The two flags may rise at any time, also when the run is over.
FlagsMayRise ==
  /\ UNCHANGED <<runVars, procVars, streamVars>>
  /\ interrupted => interrupted'
  /\ elapsed => elapsed'
  /\ FlagsOK'

LEMMA FlagSteps ==
  ASSUME SupervisorInv, FlagsMayRise
  PROVE  SupervisorInv'
<1>0. UNCHANGED <<runVars, procVars, streamVars>>
  BY DEF FlagsMayRise
<1>1. (interrupted => interrupted') /\ (elapsed => elapsed')
  BY Zenon DEF FlagsMayRise
<1> USE <1>0, <1>1 DEF runVars, procVars, streamVars
<1>2. RunOK' /\ StreamsOK'
  BY DEF SupervisorInv, TypeOK, RunOK, StreamsOK
<1>5. FlagsOK'
  BY DEF FlagsMayRise
<1>3. RunInv'
  <2>1. ChildInv'
    BY DEF SupervisorInv, RunInv, ChildInv
  <2>2. ReasonInv'
    BY DEF SupervisorInv, RunInv, ReasonInv
  <2>3. VerdictInv'
    BY DEF SupervisorInv, RunInv, VerdictInv, OutcomeIsTrue
  <2> QED
    BY <2>1, <2>2, <2>3 DEF RunInv
<1>4. PipeInv'
  BY DEF SupervisorInv, PipeInv, StreamInv, JoinInv
<1> QED
  BY <1>2, <1>3, <1>4, <1>5 DEF SupervisorInv, TypeOK

LEMMA FlagsRise ==
  ASSUME SupervisorInv, Interrupt \/ Elapse \/ UNCHANGED vars
  PROVE  FlagsMayRise
<1>1. /\ UNCHANGED <<runVars, procVars, streamVars>>
      /\ interrupted => interrupted'
      /\ elapsed => elapsed'
  BY DEF Interrupt, Elapse, vars, flagVars
<1>2. failedJoin' = failedJoin /\ {interrupted', elapsed'} \subseteq {TRUE, interrupted, elapsed}
  BY DEF Interrupt, Elapse, vars, runVars, flagVars
<1>3. FlagsOK'
  BY <1>2 DEF SupervisorInv, TypeOK, FlagsOK
<1> QED
  BY <1>1, <1>3 DEF FlagsMayRise

LEMMA Inductive == Spec => []SupervisorInv
<1>1. SupervisorInv /\ [Next]_vars => SupervisorInv'
  <2> SUFFICES ASSUME SupervisorInv, [Next]_vars PROVE SupervisorInv'
    OBVIOUS
  <2>1. CASE RunStep
    BY <2>1, RunStepTypes, RunStepRun, RunStepPipes DEF SupervisorInv
  <2>2. CASE \E s \in Streams : Forward(s) \/ ForwardEnds(s) \/ ForwardFails(s) \/ Writes(s)
    BY <2>2, ForwarderSteps
  <2>3. CASE \/ \E d \in Descendants : Fork(d)
             \/ \E p \in Procs, s \in Streams : Closes(p, s)
             \/ ChildExits \/ ChildDies
    BY <2>3, ProcessSteps
  <2>4. CASE Interrupt \/ Elapse \/ UNCHANGED vars
    BY <2>4, FlagsRise, FlagSteps
  <2> QED
    BY <2>1, <2>2, <2>3, <2>4 DEF Next, Done
<1> QED
  BY <1>1, Initially, PTL DEF Spec

-----------------------------------------------------------------------------
(* The theorems.                                                           *)

\* Every variable of Supervisor keeps its type; the outcome is set from the joins on, and
\* nothing is killed without a reason.
THEOREM TypeCorrect == Spec => []TypeOK
<1>1. SupervisorInv => TypeOK
  BY DEF SupervisorInv
<1> QED
  BY <1>1, Inductive, PTL

\* A child that was spawned and not reaped is disclosed, whichever call failed.
THEOREM ChildIsDisclosed == Spec => []UnreapedChildIsDisclosed
<1>1. SupervisorInv => UnreapedChildIsDisclosed
  BY DEF SupervisorInv, RunInv, VerdictInv, After, UnreapedChildIsDisclosed
<1> QED
  BY <1>1, Inductive, PTL

\* The recorded outcome is what happened to the child, and why.
THEOREM OutcomeTrue == Spec => []OutcomeIsTrue
<1>1. SupervisorInv => OutcomeIsTrue
  BY DEF SupervisorInv, RunInv, VerdictInv
<1> QED
  BY <1>1, Inductive, PTL

LEMMA EndedIsForwarded ==
  ASSUME StreamsOK, NEW s \in Streams, StreamInv(s), fwd[s] = "eof"
  PROVE  forwarded[s] = written[s] /\ holders[s] = {}
<1>1. MaxWrites \in Nat
  BY ConstantFacts
<1>2. forwarded[s] \in Nat
  BY <1>1 DEF StreamsOK
<1>3. written[s] = forwarded[s] + pipe[s] /\ pipe[s] = 0 /\ holders[s] = {}
  BY DEF StreamInv
<1>4. forwarded[s] + pipe[s] = forwarded[s]
  BY <1>2, <1>3
<1> QED
  BY <1>3, <1>4

\* Every byte of the command reached stderr, or the receipt says otherwise.
THEOREM PassThrough == Spec => []PassThroughIsComplete
<1>1. SupervisorInv => PassThroughIsComplete
  <2> SUFFICES ASSUME SupervisorInv, pc = "done", "output not passed through" \notin blind,
                      NEW s \in Streams
               PROVE  forwarded[s] = written[s] /\ holders[s] = {}
    BY DEF PassThroughIsComplete
  <2>1. StreamsOK /\ StreamInv(s) /\ JoinInv
    BY DEF SupervisorInv, TypeOK, PipeInv
  <2>2. CASE child = "none"
    BY <2>1, <2>2 DEF StreamInv
  <2>3. CASE child # "none"
    <3>1. fwd[s] = "eof"
      BY <2>1, <2>3 DEF JoinInv
    <3> QED
      BY <2>1, <3>1, EndedIsForwarded
  <2> QED
    BY <2>2, <2>3
<1> QED
  BY <1>1, Inductive, PTL

\* Once decided, an outcome is not revised, and nothing is spawned after it.
THEOREM OutcomeFinal == Spec => OutcomeIsFinal
<1>1. SupervisorInv /\ [Next]_vars =>
        [outcome # None => outcome' = outcome /\ ~(child = "none" /\ child' # "none")]_vars
  <2> SUFFICES ASSUME SupervisorInv, [Next]_vars, outcome # None
               PROVE  outcome' = outcome /\ ~(child = "none" /\ child' # "none")
    OBVIOUS
  <2>1. pc \in After
    BY DEF SupervisorInv, TypeOK, RunOK, After
  <2>2. CASE RunStep
    BY <2>1, <2>2 DEF After, RunStep, InterruptedBeforeSpawn, PassInterruptTest, SpawnFails, Spawn,
       PollExited, PollRunning, PollFails, CheckStops, CheckSleeps, Kill, Unconfirmed, Wait,
       JoinStdout, JoinStderr, procVars
  <2>3. CASE ~RunStep
    BY <2>3 DEF Next, Done, Forward, ForwardEnds, ForwardFails, Writes, Fork, Closes, ChildExits,
       ChildDies, ChildEnds, Interrupt, Elapse, vars, runVars, procVars
  <2> QED
    BY <2>2, <2>3
<1> QED
  BY <1>1, Inductive, PTL DEF Spec, OutcomeIsFinal

=============================================================================
