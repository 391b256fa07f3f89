---------------------------- MODULE Observation ----------------------------
(***************************************************************************)
(* One observed run (src/record.rs, record): a capture before the command, *)
(* the command, a capture after it, and the comparison of the two that     *)
(* becomes the receipt's file effects, event list, summary and blind       *)
(* spots.  Both captures are those of Capture.  The command is any change  *)
(* of the file system; how it runs and ends is Supervisor's subject.       *)
(***************************************************************************)
EXTENDS Capture, FiniteSetsExt

CONSTANT MaxEvents      \* events kept in a receipt, the two command events included

ASSUME EventAssumption == MaxEvents \in Nat /\ MaxEvents >= 2

VARIABLES
    phase,      \* "before", "command", "after", "sealed"
    before,     \* the first capture, once it ended
    mid,        \* history: what each path held until the second capture began
    receipt     \* what the receipt says of the file system

observationVars == <<phase, before, mid, receipt>>
allVars == <<vars, observationVars>>

-----------------------------------------------------------------------------
(* Comparing two captures.                                                 *)

\* Mutant: entry states are compared without their digests.
EffectsBySize(b, a) ==
    LET SizeOnly(e) == IF e = None THEN None ELSE [e EXCEPT !.digest = None]
        changed == {p \in Paths : SizeOnly(b[p]) # SizeOnly(a[p])}
    IN [p \in changed |-> IF b[p] = None THEN "created"
                          ELSE IF a[p] = None THEN "deleted"
                          ELSE IF b[p].kind # a[p].kind THEN "type_changed" ELSE "modified"]

\* Mutant: a path missing from either capture is reported as deleted.
EffectsMissingIsDeleted(b, a) ==
    [p \in {p \in Paths : b[p] # a[p]} |->
       IF b[p] = None \/ a[p] = None THEN "deleted"
       ELSE IF b[p].kind # a[p].kind THEN "type_changed" ELSE "modified"]

\* compare: one effect for each path whose entry differs.
Effects(b, a) ==
    [p \in {p \in Paths : b[p] # a[p]} |->
       IF b[p] = None THEN "created"
       ELSE IF a[p] = None THEN "deleted"
       ELSE IF b[p].kind # a[p].kind THEN "type_changed" ELSE "modified"]

FileSlots == MaxEvents - 2

Smaller(i, j) == IF i < j THEN i ELSE j

\* Mutants: only one capture's marks reach the summary.
TruncatedAfterOnly(b, a) == \E r \in 1..NRoots : a[r].truncated
TruncatedBeforeOnly(b, a) == \E r \in 1..NRoots : b[r].truncated
ErrorsAfterOnly(b, a) == \E r \in 1..NRoots : a[r].errors > 0

SnapshotTruncated(b, a) == \E r \in 1..NRoots : b[r].truncated \/ a[r].truncated

\* The sum traversal_errors is positive.
HasTraversalErrors(b, a) == \E r \in 1..NRoots : b[r].errors + a[r].errors > 0

\* Events beyond the slots are dropped in digest order, which the model leaves open.
ReceiptOf(effects, kept) ==
    LET truncated == SnapshotTruncated(before.stats, stats)
        errors == HasTraversalErrors(before.stats, stats)
        dropped == Cardinality(DOMAIN effects) - Cardinality(kept)
    IN [effects |-> effects, kept |-> kept, dropped |-> dropped,
        truncated |-> truncated, sensitiveSkipped |-> before.sensitiveSkipped + sensitiveSkipped,
        blindSpots |-> (IF truncated THEN {"entry limit hit"} ELSE {})
                         \cup (IF errors THEN {"path not read"} ELSE {})
                         \cup (IF dropped > 0 THEN {"events dropped"} ELSE {})]

-----------------------------------------------------------------------------
(* The phases of record.                                                   *)

CapturePhase ==
    /\ phase \in {"before", "after"}
    /\ CaptureStep
    /\ UNCHANGED observationVars

StartCommand ==
    /\ phase = "before" /\ pc = "done"
    /\ before' = [entries |-> entries, stats |-> stats, retainedTotal |-> retainedTotal,
                  sensitiveSkipped |-> sensitiveSkipped, held |-> held]
    /\ phase' = "command"
    /\ UNCHANGED <<vars, mid, receipt>>

\* The command returned, was killed or was never started; the second capture begins.
StartAfter ==
    /\ phase = "command"
    /\ phase' = "after"
    /\ mid' = held
    /\ held' = [p \in Paths |-> {fs[p]}]
    /\ pc' = "roots" /\ root' = 1
    /\ entries' = [p \in Paths |-> None]
    /\ stats' = [r \in 1..NRoots |-> ZeroStats]
    /\ retainedTotal' = 0 /\ hashedTotal' = 0 /\ sensitiveSkipped' = 0
    /\ globalTruncated' = FALSE
    /\ UNCHANGED <<fs, changes, interrupted, pending, dirs, walkErrs, handVars, before, receipt>>

Seal ==
    /\ phase = "after" /\ pc = "done"
    /\ LET effects == Effects(before.entries, entries) IN
       \E kept \in kSubset(Smaller(Cardinality(DOMAIN effects), FileSlots), DOMAIN effects) :
         receipt' = ReceiptOf(effects, kept)
    /\ phase' = "sealed"
    /\ UNCHANGED <<vars, before, mid>>

-----------------------------------------------------------------------------
(* The environment: other processes, the command, and Ctrl-C.              *)

ObservedChange ==
    /\ phase # "sealed"
    /\ \E p \in Paths, n \in Nodes \cup {None} : Alter(p, n)
    /\ UNCHANGED <<interrupted, pc, walkVars, cur, meta, tallyVars, stats, globalTruncated,
                   observationVars>>

ObservedInterrupt ==
    /\ phase # "sealed" /\ ~interrupted
    /\ interrupted' = TRUE
    /\ UNCHANGED <<fs, changes, held, captureVars, observationVars>>

ObservationInit ==
    /\ Init
    /\ phase = "before" /\ before = None /\ mid = None /\ receipt = None

Sealed == phase = "sealed" /\ UNCHANGED allVars

ObservationNext ==
    \/ CapturePhase \/ StartCommand \/ StartAfter \/ Seal
    \/ ObservedChange \/ ObservedInterrupt \/ Sealed

ObservationSpec == ObservationInit /\ [][ObservationNext]_allVars

-----------------------------------------------------------------------------
(* Properties of the receipt.                                              *)

Reported(kind) == {p \in DOMAIN receipt.effects : receipt.effects[p] = kind}
Disclosed == "entry limit hit" \in receipt.blindSpots \/ "path not read" \in receipt.blindSpots

\* What p held from the start of the first capture to the end of the second.
HeldThroughout(p) == mid[p] \cup held[p]

HeldOne(nodes) == \E n \in nodes : nodes = {n}

\* A path reported as deleted was absent at some moment of the second capture, and one
\* reported as created at some moment of the first, or the receipt discloses a gap.
AbsenceIsDisclosed ==
    phase = "sealed" =>
      /\ \A p \in Reported("deleted") : None \in held[p] \/ Disclosed
      /\ \A p \in Reported("created") : None \in before.held[p] \/ Disclosed

\* Each reported path was really there: before the command for a deletion, at some
\* moment of the second capture for a creation, of both kinds for a type change.
EffectsHaveWitnesses ==
    phase = "sealed" =>
      /\ \A p \in Reported("deleted") : before.held[p] # {None}
      /\ \A p \in Reported("created") : held[p] # {None}
      /\ \A p \in Reported("type_changed") :
           \E m \in before.held[p] \ {None}, n \in held[p] \ {None} : m.kind # n.kind

\* A lasting change is not silent: when a path holds one thing throughout the first
\* capture and another throughout the second, the receipt reports it, or discloses a gap,
\* or the two differ only in a content the limits kept from being hashed.
LastingChangeIsReported ==
    phase = "sealed" =>
      \A p \in Paths :
        (HeldOne(before.held[p]) /\ HeldOne(held[p]) /\ before.held[p] # held[p])
          => \/ p \in DOMAIN receipt.effects
             \/ Disclosed
             \/ /\ entries[p] # None /\ entries[p].kind = "file"
                /\ entries[p].hash # "hashed" /\ before.entries[p].hash # "hashed"
             \/ /\ entries[p] # None /\ entries[p].kind = "symlink" /\ IoFaults

\* A path nobody touched is reported at most as modified, and only because the limits or
\* a failed read left its digest in one capture and not in the other; any other effect
\* comes with a disclosed gap.
UntouchedIsNotReported ==
    phase = "sealed" =>
      \A p \in DOMAIN receipt.effects :
        (HeldOne(HeldThroughout(p)) /\ ~Disclosed) =>
          /\ receipt.effects[p] = "modified"
          /\ \/ before.entries[p].hash # entries[p].hash
             \/ entries[p].kind = "symlink" /\ IoFaults

\* The event list never passes its limit, and effects that did not fit are counted and
\* announced, so that kept and dropped together are all effects.
EventsAreBounded ==
    phase = "sealed" =>
      /\ Cardinality(receipt.kept) + 2 <= MaxEvents
      /\ Cardinality(receipt.kept) + receipt.dropped = Cardinality(DOMAIN receipt.effects)
      /\ receipt.dropped > 0 <=> "events dropped" \in receipt.blindSpots
      /\ receipt.dropped > 0 => Cardinality(receipt.kept) + 2 = MaxEvents

\* Nothing in the report is made up, and nothing is dropped from it in silence.
ReportIsTrue == EffectsHaveWitnesses /\ EventsAreBounded

\* CONCEPT.md's second principle, read strictly: a reported deletion is a fact.
DeletionIsFact ==
    phase = "sealed" => \A p \in Reported("deleted") : None \in held[p]

\* The blind spot's own words: a snapshot hit the entry limit.
EntryLimitSpotIsTrue ==
    phase = "sealed" =>
      ("entry limit hit" \in receipt.blindSpots =>
         before.retainedTotal = MaxEntries \/ retainedTotal = MaxEntries)

=============================================================================
