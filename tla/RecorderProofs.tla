--------------------------- MODULE RecorderProofs ---------------------------
(***************************************************************************)
(* Proofs about an observed run, for every tree, limit, number of changes, *)
(* fault and moment of Ctrl-C: what the receipt says of the file system is *)
(* true of the two captures it compares, and what the supervised command   *)
(* adds to that in the whole of record.                                    *)
(*                                                                         *)
(* The captures keep the invariants of CaptureProofs; what a finished one  *)
(* says (Outcome) no longer depends on the file system, so it outlives the *)
(* command and the second capture.                                         *)
(***************************************************************************)
EXTENDS Recorder, CaptureProofs

-----------------------------------------------------------------------------
(* The capture at hand, and a finished one.                                *)

CaptureInv == AbsenceInv /\ EntryInv /\ IsFiniteSet(Retained)

\* An entry changes only when the path in hand is kept.
LEMMA EntryMoves ==
    Move => UNCHANGED entries \/ \E e : entries' = [entries EXCEPT ![cur] = e]
<1> SUFFICES ASSUME Move, entries' # entries
             PROVE  \E n, target, digest, hash : Retain(n, target, digest, hash)
  BY DEF Retain
<1>1. StatKeeps \/ ReadLink \/ OpenFails \/ FinishRead \/ ReadFails
  BY DEF Move, Change, FlagRises, CaptureStep, SkipRoot, OpenRoot, CloseRoot, StopOnInterrupt,
         CountWalkError, StopOnLimit, BreakWalk, VisitEntry, StatFails, StatGoesOn, OpenContent,
         OpenWaits, WaitEnds, Finish, vars, captureVars, tallyVars
<1> QED BY <1>1 DEF StatKeeps, ReadLink, OpenFails, FinishRead, ReadFails

LEMMA CaptureMoves == CaptureInv /\ Move => CaptureInv'
<1> SUFFICES ASSUME CaptureInv, Move PROVE CaptureInv' OBVIOUS
<1>1. AbsenceInv' BY AbsenceStep DEF CaptureInv
<1>2. EntryInv' BY EntryStep DEF CaptureInv
<1>3. IsFiniteSet(Retained)'
  <2>1. Retained' \subseteq Retained \cup {cur}
    BY EntryMoves DEF CaptureInv, AbsenceInv, TypeInv, TypeOK, Retained
  <2>2. IsFiniteSet(Retained \cup {cur}) BY FS_AddElement DEF CaptureInv
  <2> QED BY <2>1, <2>2, FS_Subset
<1> QED BY <1>1, <1>2, <1>3 DEF CaptureInv

\* What an entry, or its absence, says of a path that held these nodes in the capture.
Says(e, nodes, s) ==
    /\ e = None /\ None \notin nodes => s.truncated \/ s.errors > 0
    /\ e # None =>
         /\ \E n \in nodes : n # None /\ FromNode(e, n)
         /\ Shape(e)
         /\ \A n : nodes = {n} => Exact(e, n)

\* A finished capture: its entries, its counters and what the paths held during it.
Outcome(es, ss, hs) ==
    /\ es \in [Paths -> EntryStates \cup {None}] /\ ss \in [1..NRoots -> Stats]
    /\ hs \in [Paths -> SUBSET (Nodes \cup {None})]
    /\ IsFiniteSet({p \in Paths : es[p] # None})
    /\ \A p \in Paths : hs[p] # {} /\ Says(es[p], hs[p], ss[RootOf[p]])

LEMMA FinishedCapture == CaptureInv /\ pc = "done" => Outcome(entries, stats, held)
<1> SUFFICES ASSUME CaptureInv, pc = "done" PROVE Outcome(entries, stats, held) OBVIOUS
<1>1. /\ entries \in [Paths -> EntryStates \cup {None}] /\ stats \in [1..NRoots -> Stats]
      /\ held \in [Paths -> SUBSET (Nodes \cup {None})]
  BY DEF CaptureInv, EntryInv, TypeInv, TypeOK
<1>2. IsFiniteSet({p \in Paths : entries[p] # None}) BY DEF CaptureInv, Retained
<1>3. ASSUME NEW p \in Paths PROVE held[p] # {} /\ Says(entries[p], held[p], stats[RootOf[p]])
  <2>1. fs[p] \in held[p] BY DEF CaptureInv, EntryInv
  <2>2. ASSUME entries[p] = None, None \notin held[p]
        PROVE  stats[RootOf[p]].truncated \/ stats[RootOf[p]].errors > 0
    <3>1. RootOf[p] \in 1..NRoots BY TreeAssumption DEF TreeAssumption
    <3>2. root > NRoots /\ root \in Nat /\ NRoots \in Nat
      BY Bounds DEF CaptureInv, AbsenceInv, TypeInv, TypeOK, HandOK
    <3>3. Covered(p) BY <2>2 DEF CaptureInv, AbsenceInv, CoverInv, Steady
    <3>4. ~RootIsClean(RootOf[p]) BY <2>2, <3>1, <3>2, <3>3 DEF Covered, InHand
    <3>5. stats[RootOf[p]].errors \in Nat BY <1>1, <3>1 DEF Stats
    <3> QED BY <3>4, <3>5 DEF RootIsClean
  <2>3. ASSUME entries[p] # None
        PROVE  /\ \E n \in held[p] : n # None /\ FromNode(entries[p], n)
               /\ Shape(entries[p])
               /\ \A n : held[p] = {n} => Exact(entries[p], n)
    <3>1. EntryOK(p) BY <2>3 DEF CaptureInv, EntryInv
    <3> QED BY <2>1, <3>1 DEF EntryOK, Quiet
  <2> QED BY <2>1, <2>2, <2>3 DEF Says
<1> QED BY <1>1, <1>2, <1>3 DEF Outcome

\* The second capture starts in a state that satisfies what the first one kept true.
LEMMA SecondCapture == CaptureInv /\ pc = "done" /\ StartAfter => CaptureInv'
<1> SUFFICES ASSUME CaptureInv, pc = "done", StartAfter PROVE CaptureInv' OBVIOUS
<1>a. /\ UNCHANGED <<fs, changes, interrupted, pending, dirs, walkErrs, cur, meta, buf>>
      /\ held' = [p \in Paths |-> {fs[p]}] /\ pc' = "roots" /\ root' = 1
      /\ entries' = [p \in Paths |-> None] /\ stats' = [r \in 1..NRoots |-> ZeroStats]
      /\ retainedTotal' = 0 /\ hashedTotal' = 0 /\ sensitiveSkipped' = 0
      /\ globalTruncated' = FALSE
  BY DEF StartAfter, handVars
<1>b. pending = {} /\ fs \in [Paths -> Nodes \cup {None}]
  BY DEF CaptureInv, EntryInv, TypeInv, TypeOK, HandOK
<1>1. TypeInv'
  <2>1. ZeroStats \in Stats BY DEF ZeroStats, Stats
  <2>2. /\ held' \in [Paths -> SUBSET (Nodes \cup {None})]
        /\ entries' \in [Paths -> EntryStates \cup {None}]
        /\ stats' \in [1..NRoots -> Stats]
    BY <1>a, <1>b, <2>1
  <2>3. root' \in 1..(NRoots + 1) /\ retainedTotal' \in 0..MaxEntries BY <1>a, Bounds
  <2>4. HandOK' BY <1>a, <1>b DEF HandOK, InHand
  <2> QED BY <1>a, <2>2, <2>3, <2>4 DEF CaptureInv, EntryInv, TypeInv, TypeOK
<1>2. TreeInv' BY <1>a DEF CaptureInv, AbsenceInv, TreeInv, TreeConsistent
<1>3. SteadyInv'
  <2> SUFFICES ASSUME NEW d \in Paths, NEW p \in Below[d], Steady(p)', NEW n \in held'[d]
               PROVE  IsDir(n)
    BY DEF SteadyInv
  <2>1. p \in Paths BY TreeFacts
  <2>2. fs[p] # None /\ n = fs[d] BY <1>a, <2>1 DEF Steady
  <2> QED BY <2>2 DEF CaptureInv, AbsenceInv, TreeInv, TreeConsistent
<1>4. DirsInv' BY <1>a, <1>b DEF DirsInv
<1>5. CoverInv'
  <2> SUFFICES ASSUME NEW p \in Paths PROVE Covered(p)' BY DEF CoverInv
  <2>1. RootOf[p] \in 1..NRoots BY TreeAssumption DEF TreeAssumption
  <2> QED BY <1>a, <2>1, Bounds DEF Covered
<1>6. EntryInv'
  <2>1. HandInv' BY <1>a DEF HandInv
  <2> QED BY <1>1, <1>a, <2>1 DEF EntryInv
<1>7. IsFiniteSet(Retained)'
  <2>1. Retained' = {} BY <1>a DEF Retained
  <2> QED BY <2>1, FS_EmptySet
<1> QED BY <1>1, <1>2, <1>3, <1>4, <1>5, <1>6, <1>7 DEF CaptureInv, AbsenceInv

-----------------------------------------------------------------------------
(* The phases of an observation.                                           *)

EffectsNow == Effects(before.entries, entries)

\* The receipt is the comparison of the two captures, with as many events as fit.
ReceiptInv ==
    \E kept \in kSubset(Smaller(Cardinality(DOMAIN EffectsNow), FileSlots), DOMAIN EffectsNow) :
      receipt = ReceiptOf(EffectsNow, kept)

\* What the first capture saw is part of what the paths held up to the second.
HistoryInv ==
    /\ phase = "command" => \A p \in Paths : before.held[p] \subseteq held[p]
    /\ phase \in {"after", "sealed"} => \A p \in Paths : before.held[p] \subseteq mid[p]

PhaseInv ==
    /\ phase \in {"before", "command", "after", "sealed"}
    /\ phase \in {"command", "sealed"} => pc = "done"

ObservationInv ==
    /\ PhaseInv /\ CaptureInv /\ HistoryInv
    /\ phase # "before" => Outcome(before.entries, before.stats, before.held)
    /\ phase = "sealed" => ReceiptInv

\* The receipt is computed from the two captures alone.
LEMMA SameReceipt ==
    ASSUME UNCHANGED <<entries, stats, sensitiveSkipped, before>>
    PROVE  EffectsNow' = EffectsNow /\ \A k : ReceiptOf(EffectsNow, k)' = ReceiptOf(EffectsNow, k)
<1>1. EffectsNow' = EffectsNow BY DEF EffectsNow
<1> QED BY <1>1 DEF ReceiptOf

LEMMA InitObservation == ObservationInit => ObservationInv
<1> SUFFICES ASSUME ObservationInit PROVE ObservationInv OBVIOUS
<1>1. Init /\ phase = "before" BY DEF ObservationInit
<1>2. IsFiniteSet(Retained)
  <2>1. Retained = {} BY <1>1 DEF Init, Fresh, Retained
  <2> QED BY <2>1, FS_EmptySet
<1>3. CaptureInv BY <1>1, <1>2, InitAbsence, InitEntry DEF CaptureInv
<1> QED BY <1>1, <1>3 DEF ObservationInv, PhaseInv, HistoryInv

LEMMA ObservationStep == ObservationInv /\ [ObservationNext]_allVars => ObservationInv'
<1> SUFFICES ASSUME ObservationInv, [ObservationNext]_allVars PROVE ObservationInv' OBVIOUS
\* A move of the capture at hand in a phase that allows it leaves the rest alone.
<1>a. ASSUME Move, UNCHANGED observationVars, phase # "sealed", phase = "command" => pc' = pc,
             phase = "command" => \A p \in Paths : held[p] \subseteq held'[p]
      PROVE  ObservationInv'
  <2>1. CaptureInv' BY <1>a, CaptureMoves DEF ObservationInv
  <2>2. UNCHANGED <<phase, before, mid, receipt>> BY <1>a DEF observationVars
  <2>3. PhaseInv' BY <1>a, <2>2 DEF ObservationInv, PhaseInv
  <2>4. HistoryInv' BY <1>a, <2>2 DEF ObservationInv, HistoryInv
  <2> QED BY <1>a, <2>1, <2>2, <2>3, <2>4 DEF ObservationInv
<1>1. CASE CapturePhase
  BY <1>1, <1>a DEF CapturePhase, Move
<1>2. CASE StartCommand
  <2>1. /\ phase = "before" /\ pc = "done" /\ phase' = "command" /\ UNCHANGED vars
        /\ before'.entries = entries /\ before'.stats = stats /\ before'.held = held
    BY <1>2 DEF StartCommand
  <2>2. UNCHANGED <<pc, entries, stats, held>> BY <2>1 DEF vars, envVars, captureVars, tallyVars
  <2>3. CaptureInv' BY <2>1, CaptureMoves DEF ObservationInv, Move
  <2>4. Outcome(before.entries, before.stats, before.held)'
    BY <2>1, FinishedCapture DEF ObservationInv
  <2>5. PhaseInv' /\ HistoryInv' BY <2>1, <2>2 DEF PhaseInv, HistoryInv
  <2> QED BY <2>1, <2>3, <2>4, <2>5 DEF ObservationInv
<1>3. CASE StartAfter
  <2>1. phase = "command" /\ phase' = "after" /\ mid' = held /\ before' = before
    BY <1>3 DEF StartAfter
  <2>2. CaptureInv' BY <1>3, <2>1, SecondCapture DEF ObservationInv, PhaseInv
  <2>3. PhaseInv' /\ HistoryInv' BY <2>1 DEF ObservationInv, PhaseInv, HistoryInv
  <2> QED BY <2>1, <2>2, <2>3 DEF ObservationInv
<1>4. CASE Seal
  <2>1. /\ phase = "after" /\ pc = "done" /\ phase' = "sealed"
        /\ UNCHANGED <<vars, before, mid>>
        /\ \E kept \in kSubset(Smaller(Cardinality(DOMAIN EffectsNow), FileSlots),
                               DOMAIN EffectsNow) : receipt' = ReceiptOf(EffectsNow, kept)
    BY <1>4 DEF Seal, EffectsNow
  <2>2. UNCHANGED <<pc, entries, stats, held, sensitiveSkipped>>
    BY <2>1 DEF vars, envVars, captureVars, tallyVars
  <2>3. CaptureInv' BY <2>1, CaptureMoves DEF ObservationInv, Move
  <2>4. ReceiptInv' BY <2>1, <2>2, SameReceipt DEF ReceiptInv
  <2>5. PhaseInv' /\ HistoryInv' BY <2>1, <2>2 DEF ObservationInv, PhaseInv, HistoryInv
  <2> QED BY <2>1, <2>3, <2>4, <2>5 DEF ObservationInv
<1>5. CASE ObservedChange
  <2>1. /\ Change /\ phase # "sealed" /\ UNCHANGED <<pc, observationVars>>
        /\ \A p \in Paths : held[p] \subseteq held'[p]
    BY <1>5 DEF ObservedChange, Change, Alter
  <2> QED BY <2>1, <1>a DEF Move
<1>6. CASE ObservedInterrupt
  <2>1. FlagRises /\ phase # "sealed" /\ UNCHANGED <<pc, held, observationVars>>
    BY <1>6 DEF ObservedInterrupt, FlagRises, captureVars
  <2> QED BY <2>1, <1>a DEF Move
<1>7. CASE UNCHANGED allVars
  <2>1. UNCHANGED <<vars, phase, before, mid, receipt>> BY <1>7 DEF allVars, observationVars
  <2>2. UNCHANGED <<pc, entries, stats, held, sensitiveSkipped>>
    BY <2>1 DEF vars, envVars, captureVars, tallyVars
  <2>3. CaptureInv' BY <2>1, CaptureMoves DEF ObservationInv, Move
  <2>4. ReceiptInv => ReceiptInv' BY <2>1, <2>2, SameReceipt DEF ReceiptInv
  <2>5. PhaseInv' /\ HistoryInv' BY <2>1, <2>2 DEF ObservationInv, PhaseInv, HistoryInv
  <2> QED BY <2>1, <2>3, <2>4, <2>5 DEF ObservationInv
<1> QED
  BY <1>1, <1>2, <1>3, <1>4, <1>5, <1>6, <1>7 DEF ObservationNext, Sealed

LEMMA Observed == ObservationSpec => []ObservationInv
BY InitObservation, ObservationStep, PTL DEF ObservationSpec

-----------------------------------------------------------------------------
(* What the receipt says.                                                  *)

\* The receipt of a finished observation, by its parts.
Sealing ==
    /\ Outcome(before.entries, before.stats, before.held) /\ Outcome(entries, stats, held)
    /\ \A p \in Paths : before.held[p] \subseteq mid[p]
    /\ receipt.effects = EffectsNow
    /\ "entry limit hit" \in receipt.blindSpots <=> SnapshotTruncated(before.stats, stats)
    /\ "path not read" \in receipt.blindSpots <=> HasTraversalErrors(before.stats, stats)
    /\ receipt.truncated = SnapshotTruncated(before.stats, stats)

LEMMA SealedReceipt == ObservationInv /\ phase = "sealed" => Sealing
<1> SUFFICES ASSUME ObservationInv, phase = "sealed" PROVE Sealing OBVIOUS
<1>1. Outcome(before.entries, before.stats, before.held) /\ Outcome(entries, stats, held)
  BY FinishedCapture DEF ObservationInv, PhaseInv
<1>2. PICK kept : receipt = ReceiptOf(EffectsNow, kept) BY DEF ObservationInv, ReceiptInv
<1>3. /\ receipt.effects = EffectsNow
      /\ receipt.truncated = SnapshotTruncated(before.stats, stats)
      /\ receipt.blindSpots =
           (IF SnapshotTruncated(before.stats, stats) THEN {"entry limit hit"} ELSE {})
             \cup (IF HasTraversalErrors(before.stats, stats) THEN {"path not read"} ELSE {})
             \cup (IF receipt.dropped > 0 THEN {"events dropped"} ELSE {})
  BY <1>2 DEF ReceiptOf
<1>4. \A p \in Paths : before.held[p] \subseteq mid[p] BY DEF ObservationInv, HistoryInv
<1> QED BY <1>1, <1>3, <1>4 DEF Sealing

\* Without a disclosed gap neither capture has an error or a truncation, so that a path
\* held throughout either of them has an entry in it.
LEMMA NoGap ==
    ASSUME Sealing, ~Disclosed, NEW p \in Paths
    PROVE  /\ before.entries[p] = None => None \in before.held[p]
           /\ entries[p] = None => None \in held[p]
<1> DEFINE r == RootOf[p]
<1>1. r \in 1..NRoots BY TreeAssumption DEF TreeAssumption
<1>2. before.stats[r].errors \in Nat /\ stats[r].errors \in Nat
  BY <1>1 DEF Sealing, Outcome, Stats
<1>3. ~before.stats[r].truncated /\ ~stats[r].truncated
  BY <1>1 DEF Sealing, Disclosed, SnapshotTruncated
<1>4. ~(before.stats[r].errors + stats[r].errors > 0)
  BY <1>1 DEF Sealing, Disclosed, HasTraversalErrors
<1>5. ~(before.stats[r].errors > 0) /\ ~(stats[r].errors > 0) BY <1>2, <1>4
<1> QED BY <1>3, <1>5 DEF Sealing, Outcome, Says

\* The kinds of effects.
LEMMA EffectFacts ==
    ASSUME Sealing
    PROVE  /\ \A p : p \in DOMAIN receipt.effects <=> p \in Paths /\ before.entries[p] # entries[p]
           /\ \A p \in Reported("deleted") : p \in Paths /\ entries[p] = None
                                             /\ before.entries[p] # None
           /\ \A p \in Reported("created") : p \in Paths /\ before.entries[p] = None
                                             /\ entries[p] # None
           /\ \A p \in Reported("type_changed") :
                p \in Paths /\ before.entries[p] # None /\ entries[p] # None
                /\ before.entries[p].kind # entries[p].kind
           /\ \A p \in DOMAIN receipt.effects :
                before.entries[p] # None /\ entries[p] # None
                  /\ before.entries[p].kind = entries[p].kind => receipt.effects[p] = "modified"
BY DEF Sealing, EffectsNow, Effects, Reported

\* A reported deletion or creation is an absence, or the receipt discloses a gap.
THEOREM AbsenceDisclosed == ObservationSpec => []AbsenceIsDisclosed
<1>1. ObservationInv => AbsenceIsDisclosed
  <2> SUFFICES ASSUME ObservationInv, phase = "sealed", ~Disclosed
               PROVE  /\ \A p \in Reported("deleted") : None \in held[p]
                      /\ \A p \in Reported("created") : None \in before.held[p]
    BY DEF AbsenceIsDisclosed
  <2>1. Sealing BY SealedReceipt
  <2> QED BY <2>1, NoGap, EffectFacts
<1> QED BY <1>1, Observed, PTL

\* The nodes of an entry and of a path that held one node throughout the capture.
LEMMA EntryOfOne ==
    ASSUME NEW e, NEW n, NEW nodes, NEW s, Says(e, nodes, s), nodes = {n}, e # None
    PROVE  n # None /\ FromNode(e, n) /\ Shape(e) /\ Exact(e, n)
BY DEF Says

\* Each reported path was really there, and of both kinds for a change of type.
LEMMA Witnesses == ObservationInv => EffectsHaveWitnesses
<1> SUFFICES ASSUME ObservationInv, phase = "sealed"
             PROVE  /\ \A p \in Reported("deleted") : before.held[p] # {None}
                    /\ \A p \in Reported("created") : held[p] # {None}
                    /\ \A p \in Reported("type_changed") :
                         \E m \in before.held[p] \ {None}, n \in held[p] \ {None} :
                           m.kind # n.kind
  BY DEF EffectsHaveWitnesses
<1>1. Sealing BY SealedReceipt
<1>2. ASSUME NEW p \in Paths
      PROVE  /\ before.entries[p] # None =>
                  \E m \in before.held[p] : m # None /\ before.entries[p].kind = m.kind
             /\ entries[p] # None => \E n \in held[p] : n # None /\ entries[p].kind = n.kind
  BY <1>1 DEF Sealing, Outcome, Says, FromNode
<1> QED BY <1>1, <1>2, EffectFacts

\* The list of events is cut to its limit, and what is cut is counted.
LEMMA Bounded == ObservationInv => EventsAreBounded
<1> SUFFICES ASSUME ObservationInv, phase = "sealed"
             PROVE  /\ Cardinality(receipt.kept) + 2 <= MaxEvents
                    /\ Cardinality(receipt.kept) + receipt.dropped
                         = Cardinality(DOMAIN receipt.effects)
                    /\ receipt.dropped > 0 <=> "events dropped" \in receipt.blindSpots
                    /\ receipt.dropped > 0 => Cardinality(receipt.kept) + 2 = MaxEvents
  BY DEF EventsAreBounded
<1> DEFINE D == DOMAIN EffectsNow
<1>1. PICK kept \in kSubset(Smaller(Cardinality(D), FileSlots), D) :
        receipt = ReceiptOf(EffectsNow, kept)
  BY DEF ObservationInv, ReceiptInv
<1>2. /\ receipt.kept = kept /\ receipt.effects = EffectsNow
      /\ receipt.dropped = Cardinality(D) - Cardinality(kept)
      /\ receipt.dropped > 0 <=> "events dropped" \in receipt.blindSpots
  BY <1>1 DEF ReceiptOf
<1>3. Cardinality(kept) = Smaller(Cardinality(D), FileSlots) BY DEF kSubset
<1>4. Cardinality(D) \in Nat
  <2> DEFINE B == {p \in Paths : before.entries[p] # None}
             A == {p \in Paths : entries[p] # None}
  <2>1. Sealing BY SealedReceipt
  <2>2. IsFiniteSet(B \cup A) BY <2>1, FS_Union DEF Sealing, Outcome
  <2>3. D \subseteq B \cup A BY DEF EffectsNow, Effects
  <2>4. IsFiniteSet(D) BY <2>2, <2>3, FS_Subset
  <2> QED BY <2>4, FS_CardinalityType
<1>5. FileSlots \in Nat /\ FileSlots + 2 = MaxEvents BY EventAssumption DEF FileSlots
<1> HIDE DEF D
<1>6. /\ Cardinality(kept) \in Nat /\ Cardinality(kept) <= FileSlots
      /\ Cardinality(kept) < Cardinality(D) => Cardinality(kept) = FileSlots
  BY <1>3, <1>4, <1>5 DEF Smaller
<1>7. MaxEvents \in Nat BY EventAssumption
<1>8. DOMAIN receipt.effects = D BY <1>2 DEF D
<1>9. receipt.dropped = Cardinality(D) - Cardinality(kept) BY <1>2
<1>10. Cardinality(kept) + receipt.dropped = Cardinality(D) BY <1>4, <1>6, <1>9
<1>11. Cardinality(kept) + 2 <= MaxEvents BY <1>5, <1>6, <1>7
<1>12. receipt.dropped > 0 => Cardinality(kept) + 2 = MaxEvents
  <2>1. receipt.dropped > 0 => Cardinality(kept) < Cardinality(D) BY <1>4, <1>6, <1>9
  <2> QED BY <1>5, <1>6, <2>1
<1> QED BY <1>2, <1>8, <1>10, <1>11, <1>12

\* Nothing in the report is made up, and nothing is dropped from it in silence.
THEOREM ReportTrue == ObservationSpec => []ReportIsTrue
BY Observed, Witnesses, Bounded, PTL DEF ReportIsTrue

\* Two nodes of one kind and stamp that hold the same data are the same node.
LEMMA SameNode ==
    ASSUME NEW m \in Nodes, NEW n \in Nodes, m.kind = n.kind, m.stamp = n.stamp, m.data = n.data
    PROVE  m = n
BY ValueAssumption DEF ValueAssumption

\* A directory, or anything that is neither file nor symlink, holds no data.
LEMMA NoData ==
    ASSUME NEW n \in Nodes, n.kind \notin {"file", "symlink"}
    PROVE  n.data = None
BY ValueAssumption DEF ValueAssumption, Kinds

\* A change that lasts is reported, unless the receipt discloses a gap or the limits kept
\* the content from being compared.
THEOREM LastingChangeReported == ObservationSpec => []LastingChangeIsReported
<1>1. ObservationInv => LastingChangeIsReported
  <2> SUFFICES ASSUME ObservationInv, phase = "sealed", NEW p \in Paths,
                      HeldOne(before.held[p]), HeldOne(held[p]), before.held[p] # held[p],
                      p \notin DOMAIN receipt.effects, ~Disclosed,
                      ~(entries[p] # None /\ entries[p].kind = "symlink" /\ IoFaults)
               PROVE  /\ entries[p] # None /\ entries[p].kind = "file"
                      /\ entries[p].hash # "hashed" /\ before.entries[p].hash # "hashed"
    BY DEF LastingChangeIsReported
  <2>1. Sealing BY SealedReceipt
  <2>2. before.entries[p] = entries[p] BY <2>1, EffectFacts
  <2>3. PICK m \in before.held[p] : before.held[p] = {m} BY DEF HeldOne
  <2>4. PICK n \in held[p] : held[p] = {n} BY DEF HeldOne
  <2>5. /\ m # n /\ m \in Nodes \cup {None} /\ n \in Nodes \cup {None}
        /\ Says(entries[p], {m}, before.stats[RootOf[p]]) /\ Says(entries[p], {n}, stats[RootOf[p]])
    BY <2>1, <2>2, <2>3, <2>4 DEF Sealing, Outcome
  <2>6. entries[p] # None BY <2>1, <2>2, <2>3, <2>4, <2>5, NoGap
  <2>7. /\ m \in Nodes /\ FromNode(entries[p], m) /\ Exact(entries[p], m)
        /\ n \in Nodes /\ FromNode(entries[p], n) /\ Exact(entries[p], n)
    BY <2>5, <2>6, EntryOfOne
  <2>8. m.kind = n.kind /\ m.stamp = n.stamp /\ entries[p].kind = n.kind BY <2>7 DEF FromNode
  <2>9. m.data # n.data BY <2>5, <2>7, <2>8, SameNode
  <2>10. n.kind \in {"file", "symlink"} BY <2>7, <2>8, <2>9, NoData
  <2>11. n.kind # "symlink" BY <2>6, <2>7, <2>8, <2>9 DEF Exact
  <2>12. entries[p].hash # "hashed" BY <2>7, <2>9 DEF Exact
  <2> QED BY <2>2, <2>6, <2>8, <2>10, <2>11, <2>12
<1> QED BY <1>1, Observed, PTL

\* Entries with the same fields are the same entry.
LEMMA SameEntry ==
    ASSUME NEW e \in EntryStates, NEW f \in EntryStates, e.kind = f.kind, e.stamp = f.stamp,
           e.size = f.size, e.target = f.target, e.digest = f.digest, e.hash = f.hash
    PROVE  e = f
BY DEF EntryStates

\* Two exact entries of one node differ at most in the way its content was hashed.
LEMMA ExactTwice ==
    ASSUME NEW e \in EntryStates, NEW f \in EntryStates, NEW n, Shape(e), Shape(f),
           FromNode(e, n), FromNode(f, n), Exact(e, n), Exact(f, n), e # f
    PROVE  e.hash # f.hash \/ (f.kind = "symlink" /\ IoFaults)
<1> SUFFICES ASSUME e.hash = f.hash, ~(f.kind = "symlink" /\ IoFaults) PROVE FALSE OBVIOUS
<1>1. e.kind = f.kind /\ e.stamp = f.stamp /\ e.size = f.size BY DEF FromNode
<1>2. e.target = f.target BY <1>1 DEF Shape, Exact
<1>3. e.digest = f.digest BY DEF Shape, Exact
<1> QED BY <1>1, <1>2, <1>3, SameEntry

\* What nobody touched is reported at most as modified, for a digest only one capture has.
LEMMA Untouched == ObservationInv => UntouchedIsNotReported
<1> SUFFICES ASSUME ObservationInv, phase = "sealed", NEW p \in DOMAIN receipt.effects,
                    HeldOne(HeldThroughout(p)), ~Disclosed
             PROVE  /\ receipt.effects[p] = "modified"
                    /\ \/ before.entries[p].hash # entries[p].hash
                       \/ entries[p].kind = "symlink" /\ IoFaults
  BY DEF UntouchedIsNotReported
<1>1. Sealing BY SealedReceipt
<1>2. p \in Paths /\ before.entries[p] # entries[p] BY <1>1, EffectFacts
<1>3. PICK n : mid[p] \cup held[p] = {n} BY DEF HeldOne, HeldThroughout
<1>4. before.held[p] = {n} /\ held[p] = {n}
  <2>1. before.held[p] # {} /\ held[p] # {} BY <1>1, <1>2 DEF Sealing, Outcome
  <2>2. before.held[p] \subseteq mid[p] BY <1>1, <1>2 DEF Sealing
  <2> QED BY <1>3, <2>1, <2>2
<1>5. /\ Says(before.entries[p], {n}, before.stats[RootOf[p]])
      /\ Says(entries[p], {n}, stats[RootOf[p]])
  BY <1>1, <1>2, <1>4 DEF Sealing, Outcome
<1>6. n # None
  <2>1. before.entries[p] # None => n # None BY <1>5, EntryOfOne
  <2>2. entries[p] # None => n # None BY <1>5, EntryOfOne
  <2> QED BY <1>2, <2>1, <2>2
<1>7. before.entries[p] # None /\ entries[p] # None BY <1>1, <1>2, <1>4, <1>6, NoGap
<1>8. /\ FromNode(before.entries[p], n) /\ Shape(before.entries[p]) /\ Exact(before.entries[p], n)
      /\ FromNode(entries[p], n) /\ Shape(entries[p]) /\ Exact(entries[p], n)
  BY <1>5, <1>7, EntryOfOne
<1>9. before.entries[p] \in EntryStates /\ entries[p] \in EntryStates
  BY <1>1, <1>2, <1>7 DEF Sealing, Outcome
<1>10. receipt.effects[p] = "modified"
  BY <1>1, <1>7, <1>8, EffectFacts DEF FromNode
<1> QED BY <1>2, <1>8, <1>9, <1>10, ExactTwice

THEOREM UntouchedUnreported == ObservationSpec => []UntouchedIsNotReported
BY Observed, Untouched, PTL

-----------------------------------------------------------------------------
(* The supervised command in the observed run.                             *)

\* The proofs about the supervisor, with its variables as record has them.
RunProofs == INSTANCE SupervisorProofs WITH pc <- runPc


Processes ==
    \/ \E s \in RunProofs!Streams : RunProofs!Writes(s)
    \/ \E d \in Descendants : RunProofs!Fork(d)
    \/ \E p \in RunProofs!Procs, s \in RunProofs!Streams : RunProofs!Closes(p, s)
    \/ RunProofs!ChildExits \/ RunProofs!ChildDies

Forwarders ==
    \E s \in RunProofs!Streams :
      RunProofs!Forward(s) \/ RunProofs!ForwardEnds(s) \/ RunProofs!ForwardFails(s)

\* Both instances of Supervisor are the same; what each kind of step leaves alone.
LEMMA RunSteps == Run!RunStep => RunProofs!RunStep /\ UNCHANGED interrupted
BY DEF
  Run!InterruptedBeforeSpawn, RunProofs!InterruptedBeforeSpawn, Run!PassInterruptTest,
  RunProofs!PassInterruptTest, Run!SpawnFails, RunProofs!SpawnFails, Run!Spawn,
  RunProofs!Spawn, Run!OutcomeOf, RunProofs!OutcomeOf, Run!PollExited, RunProofs!PollExited,
  Run!PollRunning, RunProofs!PollRunning, Run!PollFails, RunProofs!PollFails,
  Run!StopReason, RunProofs!StopReason, Run!StopWanted, RunProofs!StopWanted,
  Run!CheckStops, RunProofs!CheckStops, Run!CheckSleeps, RunProofs!CheckSleeps, Run!Kill,
  RunProofs!Kill, Run!Unconfirmed, RunProofs!Unconfirmed, Run!Wait, RunProofs!Wait,
  Run!JoinStdout, RunProofs!JoinStdout, Run!JoinStderr, RunProofs!JoinStderr, Run!RunStep,
  RunProofs!RunStep, Run!Streams, RunProofs!Streams, Run!procVars, RunProofs!procVars,
  Run!streamVars, RunProofs!streamVars, Run!flagVars, RunProofs!flagVars, Run!runVars,
  RunProofs!runVars

LEMMA ProcessMoves ==
    ProcessStep => Processes /\ CapturesRest
                   /\ UNCHANGED <<runPc, reason, outcome, blind, failedJoin, interrupted>>
BY DEF ProcessStep, Processes,
  Run!Writes, RunProofs!Writes, Run!Fork, RunProofs!Fork, Run!Closes, RunProofs!Closes,
  Run!Procs, RunProofs!Procs, Run!ChildEnds, RunProofs!ChildEnds, Run!ChildExits,
  RunProofs!ChildExits, Run!ChildDies, RunProofs!ChildDies, Run!Streams, RunProofs!Streams,
  Run!procVars, RunProofs!procVars, Run!streamVars, RunProofs!streamVars, Run!flagVars,
  RunProofs!flagVars, Run!runVars, RunProofs!runVars

LEMMA ForwarderMoves ==
    ForwarderStep => Forwarders /\ CapturesRest
                     /\ UNCHANGED <<runPc, reason, outcome, blind, failedJoin, interrupted>>
BY DEF ForwarderStep, Forwarders,
  Run!Forward, RunProofs!Forward, Run!ForwardEnds, RunProofs!ForwardEnds, Run!ForwardFails,
  RunProofs!ForwardFails, Run!Streams, RunProofs!Streams, Run!procVars, RunProofs!procVars,
  Run!streamVars, RunProofs!streamVars, Run!flagVars, RunProofs!flagVars, Run!runVars,
  RunProofs!runVars

LEMMA ClockMoves ==
    TimePasses => /\ CapturesRest /\ elapsed' = TRUE
                  /\ UNCHANGED <<runPc, reason, outcome, blind, failedJoin, interrupted,
                                 child, status, forked, holders, pipe, fwd, written, forwarded>>
BY DEF TimePasses, CommandStep, Run!Elapse, Run!runVars, Run!procVars, Run!streamVars

LEMMA SameInit == Run!Init => RunProofs!Init
BY DEF Run!Init, RunProofs!Init, Run!Streams, RunProofs!Streams

\* Every step of record is a step of the observation or leaves it alone.
LEMMA RecorderObserves == [RecorderNext]_recorderVars => [ObservationNext]_allVars
<1> SUFFICES ASSUME [RecorderNext]_recorderVars PROVE [ObservationNext]_allVars OBVIOUS
<1>a. CapturesRest /\ UNCHANGED interrupted => UNCHANGED allVars
  BY DEF CapturesRest, allVars, vars, envVars
<1>1. CASE ObserveStep \/ BeginAfter
  BY <1>1 DEF ObserveStep, BeginAfter, ObservationNext
<1>2. CASE RunStep BY <1>2, <1>a, RunSteps DEF RunStep, CommandStep
<1>3. CASE ProcessStep BY <1>3, <1>a, ProcessMoves
<1>4. CASE ForwarderStep BY <1>4, <1>a, ForwarderMoves
<1>5. CASE TimePasses BY <1>5, <1>a, ClockMoves
<1>6. CASE CommandChanges
  BY <1>6 DEF CommandChanges, ObservedChange, ObservationNext
<1>7. CASE OthersChange \/ CtrlC BY <1>7 DEF OthersChange, CtrlC, ObservationNext
<1>8. CASE UNCHANGED recorderVars BY <1>8 DEF recorderVars
<1> QED
  BY <1>1, <1>2, <1>3, <1>4, <1>5, <1>6, <1>7, <1>8 DEF RecorderNext, RecorderStep, RecorderDone

\* Every step of record keeps what the supervisor knows, also those outside of the command.
LEMMA RecorderSupervises ==
    RunProofs!SupervisorInv /\ [RecorderNext]_recorderVars => RunProofs!SupervisorInv'
<1> SUFFICES ASSUME RunProofs!SupervisorInv, [RecorderNext]_recorderVars
             PROVE  RunProofs!SupervisorInv'
  OBVIOUS
<1> DEFINE R == UNCHANGED <<runPc, reason, outcome, blind, failedJoin, child, status, forked,
                            holders, pipe, fwd, written, forwarded>>
\* Steps that leave the run alone but for its two flags.
<1>a. ASSUME R, interrupted => interrupted', elapsed => elapsed', RunProofs!FlagsOK'
      PROVE  RunProofs!SupervisorInv'
  <2>1. RunProofs!FlagsMayRise
    BY <1>a DEF RunProofs!FlagsMayRise, RunProofs!runVars, RunProofs!procVars,
                RunProofs!streamVars
  <2> QED BY <2>1, RunProofs!FlagSteps, RunAssumption
<1>b. RunProofs!FlagsOK BY DEF RunProofs!SupervisorInv, RunProofs!TypeOK
<1>c. ASSUME R, UNCHANGED <<interrupted, elapsed>> PROVE RunProofs!SupervisorInv'
  <2>1. RunProofs!FlagsOK' BY <1>b, <1>c DEF RunProofs!FlagsOK
  <2> QED BY <1>a, <1>c, <2>1
<1>1. CASE ObserveStep \/ BeginAfter \/ CommandChanges \/ OthersChange \/ UNCHANGED recorderVars
  <2>1. UNCHANGED <<runVars, interrupted>>
    BY <1>1
    DEF ObserveStep, BeginAfter, CommandChanges, OthersChange, recorderVars, CapturePhase,
        StartCommand, Seal, StartAfter, ObservedChange, allVars, vars, envVars, CaptureStep,
        SkipRoot, OpenRoot, CloseRoot, StopOnInterrupt, CountWalkError, StopOnLimit, BreakWalk,
        VisitEntry, StatFails, StatKeeps, StatGoesOn, ReadLink, OpenContent, OpenWaits,
        WaitEnds, OpenFails, FinishRead, ReadFails, Finish, Retain
  <2> QED BY <1>c, <2>1 DEF runVars
<1>2. CASE RunStep
  <2>1. RunProofs!RunStep BY <1>2, RunSteps DEF RunStep, CommandStep
  <2> QED
    BY <2>1, RunProofs!RunStepTypes, RunProofs!RunStepRun, RunProofs!RunStepPipes, RunAssumption
    DEF RunProofs!SupervisorInv
<1>3. CASE ProcessStep
  <2>1. CASE \E s \in RunProofs!Streams : RunProofs!Writes(s)
    BY <2>1, RunProofs!ForwarderSteps, RunAssumption
  <2>2. CASE ~ \E s \in RunProofs!Streams : RunProofs!Writes(s)
    BY <1>3, <2>2, ProcessMoves, RunProofs!ProcessSteps, RunAssumption DEF Processes
  <2> QED BY <2>1, <2>2
<1>4. CASE ForwarderStep
  BY <1>4, ForwarderMoves, RunProofs!ForwarderSteps, RunAssumption DEF Forwarders
<1>5. CASE TimePasses
  <2>1. R /\ elapsed' = TRUE /\ interrupted' = interrupted BY <1>5, ClockMoves
  <2>2. RunProofs!FlagsOK' BY <1>b, <2>1 DEF RunProofs!FlagsOK
  <2> QED BY <1>a, <2>1, <2>2
<1>6. CASE CtrlC
  <2>1. R /\ interrupted' = TRUE /\ elapsed' = elapsed
    BY <1>6 DEF CtrlC, ObservedInterrupt, runVars
  <2>2. RunProofs!FlagsOK' BY <1>b, <2>1 DEF RunProofs!FlagsOK
  <2> QED BY <1>a, <2>1, <2>2
<1> QED
  BY <1>1, <1>2, <1>3, <1>4, <1>5, <1>6 DEF RecorderNext, RecorderStep, RecorderDone

-----------------------------------------------------------------------------
(* The run and the second capture.                                         *)

Late == {"after", "sealed"}

\* An interrupted command leaves the flag up, and a second capture that looks at nothing:
\* it skips every root.
SkippedInv ==
    /\ interrupted /\ pc \in {"roots", "done"}
    /\ (pc = "roots" /\ root = 1) \/ stats[1].truncated

RecorderInv ==
    /\ ObservationInv /\ RunProofs!SupervisorInv
    /\ phase \in Late => runPc = "done"
    /\ late => phase \in Late /\ "termination not confirmed" \in blind
    /\ phase \in Late /\ outcome = "interrupted" => SkippedInv

\* Once the run is over, a command that is still there is disclosed, and an interrupted
\* one was interrupted.
LEMMA RunIsOver ==
    ASSUME RunProofs!SupervisorInv, runPc = "done"
    PROVE  /\ child \in {"running", "dying"} => "termination not confirmed" \in blind
           /\ outcome = "interrupted" => interrupted
<1>1. RunProofs!VerdictInv /\ RunProofs!RunOK
  BY DEF RunProofs!SupervisorInv, RunProofs!RunInv, RunProofs!TypeOK
<1>2. outcome # None BY <1>1 DEF RunProofs!RunOK
<1>3. RunProofs!OutcomeIsTrue BY <1>1 DEF RunProofs!VerdictInv
<1>4. child \in {"running", "dying"} => "termination not confirmed" \in blind
  BY <1>1 DEF RunProofs!VerdictInv, RunProofs!After
<1> QED BY <1>2, <1>3, <1>4 DEF RunProofs!OutcomeIsTrue

\* While the flag is up a capture that walks no root skips the next one or ends.
LEMMA SkippedStays ==
    ASSUME TypeInv, SkippedInv, Move
    PROVE  SkippedInv'
<1>1. CASE SkipRoot
  <2>1. /\ UNCHANGED <<interrupted, pc>> /\ root \in 1..NRoots
        /\ stats' = [stats EXCEPT ![root] = Truncated(@)]
    BY <1>1, Bounds DEF SkipRoot, envVars, TypeInv, TypeOK
  <2>2. stats \in [1..NRoots -> Stats] /\ 1 \in 1..NRoots BY Bounds DEF TypeInv, TypeOK
  <2>3. Truncated(stats[root]).truncated BY <2>1, <2>2, StatsSteps
  <2>4. stats'[1].truncated
    <3>1. CASE root = 1 BY <2>1, <2>2, <2>3, <3>1
    <3>2. CASE root # 1
      <4>1. stats[1].truncated BY <3>2 DEF SkippedInv
      <4> QED BY <2>1, <2>2, <3>2, <4>1
    <3> QED BY <3>1, <3>2
  <2> QED BY <2>1, <2>4 DEF SkippedInv
<1>2. CASE Finish
  <2>1. UNCHANGED <<interrupted, stats>> /\ pc = "roots" /\ pc' = "done" /\ root # 1
    BY <1>2, Bounds DEF Finish, envVars
  <2> QED BY <2>1 DEF SkippedInv
<1>3. CASE CaptureStep /\ ~SkipRoot /\ ~Finish
  BY <1>3
  DEF CaptureStep, SkippedInv, OpenRoot, CloseRoot, StopOnInterrupt, CountWalkError, StopOnLimit,
      VisitEntry, StatFails, StatKeeps, StatGoesOn, ReadLink, OpenContent, OpenWaits, WaitEnds,
      Waits, OpenFails, FinishRead, ReadFails
<1>4. CASE Change \/ UNCHANGED vars
  <2>1. UNCHANGED <<interrupted, pc, root, stats>>
    BY <1>4 DEF Change, vars, envVars, captureVars, walkVars
  <2> QED BY <2>1 DEF SkippedInv
<1>5. CASE FlagRises
  <2>1. interrupted' /\ UNCHANGED <<pc, root, stats>>
    BY <1>5 DEF FlagRises, captureVars, walkVars
  <2> QED BY <2>1 DEF SkippedInv
<1> QED BY <1>1, <1>2, <1>3, <1>4, <1>5 DEF Move

\* A step of record seen from the observation: what it does to the capture and the phase.
LEMMA RecorderPhases ==
    ASSUME ObservationInv, [RecorderNext]_recorderVars, phase \in Late
    PROVE  /\ Move /\ phase' \in Late
           /\ UNCHANGED <<runPc, outcome, blind>>
           /\ late' => late \/ child \in {"running", "dying"}
<1> USE DEF Late
<1>a. ASSUME CapturesRest, UNCHANGED interrupted PROVE UNCHANGED <<vars, phase, late>>
  BY <1>a DEF CapturesRest, vars, envVars, observationVars
<1>1. CASE ObserveStep
  <2>1. Move /\ phase' \in Late
    BY <1>1 DEF ObserveStep, CapturePhase, StartCommand, Seal, Move, observationVars
  <2> QED BY <1>1, <2>1 DEF ObserveStep, runVars
<1>2. CASE RunStep \/ TimePasses \/ BeginAfter
  BY <1>2 DEF RunStep, TimePasses, BeginAfter, CommandStep, StartAfter
<1>3. CASE ProcessStep \/ ForwarderStep
  BY <1>3, <1>a, ProcessMoves, ForwarderMoves DEF Move
<1>4. CASE CommandChanges
  <2>1. Change /\ child \in {"running", "dying"} /\ UNCHANGED <<phase, runVars>>
    BY <1>4 DEF CommandChanges, Change, observationVars
  <2> QED BY <2>1 DEF Move, runVars
<1>5. CASE OthersChange
  <2>1. Change /\ UNCHANGED <<phase, runVars, late>>
    BY <1>5 DEF OthersChange, ObservedChange, Change, observationVars
  <2> QED BY <2>1 DEF Move, runVars
<1>6. CASE CtrlC
  <2>1. FlagRises /\ UNCHANGED <<phase, runVars, late>>
    BY <1>6 DEF CtrlC, ObservedInterrupt, FlagRises, observationVars
  <2> QED BY <2>1 DEF Move, runVars
<1>7. CASE UNCHANGED recorderVars
  BY <1>7 DEF recorderVars, allVars, observationVars, runVars, Move
<1> QED
  BY <1>1, <1>2, <1>3, <1>4, <1>5, <1>6, <1>7 DEF RecorderNext, RecorderStep, RecorderDone

\* Before the second capture nothing counts as late, and only its beginning makes it begin.
LEMMA RecorderEarly ==
    ASSUME ObservationInv, [RecorderNext]_recorderVars, phase \notin Late, ~late
    PROVE  /\ ~late'
           /\ phase' \in Late => /\ runPc = "done" /\ UNCHANGED <<runPc, outcome, interrupted>>
                                 /\ pc' = "roots" /\ root' = 1
<1> USE DEF Late
<1>1. phase \in {"before", "command"} BY DEF ObservationInv, PhaseInv
<1>2. CASE BeginAfter
  BY <1>2 DEF BeginAfter, StartAfter, CommandDone, runVars
<1>3. CASE ObserveStep
  BY <1>1, <1>3 DEF ObserveStep, CapturePhase, StartCommand, Seal, observationVars
<1>4. CASE RunStep \/ TimePasses \/ ProcessStep \/ ForwarderStep
  <2>1. CapturesRest BY <1>4, ProcessMoves, ForwarderMoves DEF RunStep, TimePasses
  <2> QED BY <1>1, <2>1 DEF CapturesRest, observationVars
<1>5. CASE OthersChange \/ CtrlC
  <2>1. UNCHANGED <<phase, late>>
    BY <1>5 DEF OthersChange, CtrlC, ObservedChange, ObservedInterrupt, observationVars
  <2> QED BY <1>1, <2>1
<1>7. CASE CommandChanges
  <2>1. phase' = phase /\ late' = (late \/ phase = "after")
    BY <1>7 DEF CommandChanges, observationVars
  <2>2. phase # "after" BY <1>1
  <2> QED BY <2>1, <2>2
<1>6. CASE UNCHANGED recorderVars
  BY <1>1, <1>6 DEF recorderVars, allVars, observationVars
<1> QED
  BY <1>2, <1>3, <1>4, <1>5, <1>6, <1>7 DEF RecorderNext, RecorderStep, RecorderDone

LEMMA RecorderInductive ==
    RecorderInv /\ [RecorderNext]_recorderVars => RecorderInv'
<1> SUFFICES ASSUME RecorderInv, [RecorderNext]_recorderVars PROVE RecorderInv' OBVIOUS
<1>1. ObservationInv' BY ObservationStep, RecorderObserves DEF RecorderInv
<1>2. RunProofs!SupervisorInv' BY RecorderSupervises DEF RecorderInv
<1>3. CASE phase \in Late
  <2>1. /\ Move /\ phase' \in Late /\ UNCHANGED <<runPc, outcome, blind>>
        /\ late' => late \/ child \in {"running", "dying"}
    BY <1>3, RecorderPhases DEF RecorderInv
  <2>2. runPc = "done" BY <1>3 DEF RecorderInv
  <2>3. late' => "termination not confirmed" \in blind'
    BY <2>1, <2>2, RunIsOver DEF RecorderInv
  <2>4. outcome' = "interrupted" => SkippedInv'
    BY <1>3, <2>1, SkippedStays DEF RecorderInv, ObservationInv, CaptureInv, EntryInv
  <2> QED BY <1>1, <1>2, <2>1, <2>2, <2>3, <2>4 DEF RecorderInv
<1>4. CASE phase \notin Late
  <2>1. ~late BY <1>4 DEF RecorderInv
  <2>2. /\ ~late'
        /\ phase' \in Late => /\ runPc = "done" /\ UNCHANGED <<runPc, outcome, interrupted>>
                              /\ pc' = "roots" /\ root' = 1
    BY <1>4, <2>1, RecorderEarly DEF RecorderInv
  <2>3. ASSUME phase' \in Late, outcome' = "interrupted" PROVE SkippedInv'
    <3>1. interrupted BY <2>2, <2>3, RunIsOver DEF RecorderInv
    <3>2. interrupted' /\ pc' = "roots" /\ root' = 1 BY <2>2, <2>3, <3>1
    <3> QED BY <3>2 DEF SkippedInv
  <2> QED BY <1>1, <1>2, <2>2, <2>3 DEF RecorderInv
<1> QED BY <1>3, <1>4

LEMMA Recorded == RecorderSpec => []RecorderInv
<1>1. RecorderInit => RecorderInv
  <2> SUFFICES ASSUME RecorderInit PROVE RecorderInv OBVIOUS
  <2>1. ObservationInit /\ Run!Init /\ late = FALSE /\ phase = "before"
    BY DEF RecorderInit, ObservationInit
  <2>2. RunProofs!SupervisorInv BY <2>1, SameInit, RunProofs!Initially, RunAssumption
  <2> QED BY <2>1, <2>2, InitObservation DEF RecorderInv, Late
<1> QED BY <1>1, RecorderInductive, PTL DEF RecorderSpec

-----------------------------------------------------------------------------
(* The theorems about record.                                              *)

\* The whole of record is an observation: everything proved of ObservationSpec holds of it.
THEOREM RecorderIsObservation == RecorderSpec => ObservationSpec
<1>1. RecorderInit => ObservationInit BY DEF RecorderInit
<1> QED BY <1>1, RecorderObserves, PTL DEF RecorderSpec, ObservationSpec

\* What the command changes it changes before the second capture begins, or the receipt
\* says that its end could not be confirmed.
THEOREM LateChildDisclosed == RecorderSpec => []LateChildIsDisclosed
<1>1. RecorderInv => LateChildIsDisclosed BY DEF RecorderInv, LateChildIsDisclosed
<1> QED BY <1>1, Recorded, PTL

\* The receipt of an interrupted command says that a capture was cut short.
THEOREM InterruptionDisclosed == RecorderSpec => []InterruptionIsDisclosed
<1>1. RecorderInv => InterruptionIsDisclosed
  <2> SUFFICES ASSUME RecorderInv, phase = "sealed", outcome = "interrupted"
               PROVE  receipt.truncated
    BY DEF InterruptionIsDisclosed
  <2>1. Sealing /\ pc = "done" BY SealedReceipt DEF RecorderInv, ObservationInv, PhaseInv
  <2>2. stats[1].truncated BY <2>1 DEF RecorderInv, SkippedInv, Late
  <2>3. 1 \in 1..NRoots BY Bounds
  <2>4. SnapshotTruncated(before.stats, stats) BY <2>2, <2>3 DEF SnapshotTruncated
  <2> QED BY <2>1, <2>4 DEF Sealing
<1> QED BY <1>1, Recorded, PTL

\* Of a path nobody touched, the receipt of record reports at most a missing digest.
THEOREM RecorderUntouched == RecorderSpec => []UntouchedIsNotReported
BY RecorderIsObservation, UntouchedUnreported, PTL

\* What the supervisor promises holds within record, where Ctrl-C may come before the run
\* begins and after it ended: a child left behind is disclosed, the outcome is what happened.
THEOREM RecorderSupervised ==
    RecorderSpec => [](Run!UnreapedChildIsDisclosed /\ Run!OutcomeIsTrue)
<1>1. RecorderInv => Run!UnreapedChildIsDisclosed /\ Run!OutcomeIsTrue
  <2> SUFFICES ASSUME RunProofs!SupervisorInv
               PROVE  Run!UnreapedChildIsDisclosed /\ Run!OutcomeIsTrue
    BY DEF RecorderInv
  <2>1. RunProofs!VerdictInv BY DEF RunProofs!SupervisorInv, RunProofs!RunInv
  <2>2. Run!UnreapedChildIsDisclosed
    BY <2>1 DEF RunProofs!VerdictInv, RunProofs!After, Run!UnreapedChildIsDisclosed
  <2>3. Run!OutcomeIsTrue
    BY <2>1 DEF RunProofs!VerdictInv, RunProofs!OutcomeIsTrue, Run!OutcomeIsTrue
  <2> QED BY <2>2, <2>3
<1> QED BY <1>1, Recorded, PTL

=============================================================================
