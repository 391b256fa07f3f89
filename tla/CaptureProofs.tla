--------------------------- MODULE CaptureProofs ---------------------------
(***************************************************************************)
(* Proofs about one capture, for every tree of paths, every limit, any     *)
(* number of file-system changes and with or without failing I/O.          *)
(*                                                                         *)
(* The invariant behind AbsenceIsEvidence follows a path that is never     *)
(* absent: until it is kept, or its root records an error or a truncation, *)
(* the walk still has it, or an ancestor of it that is a directory, to     *)
(* yield (OnTheWay).                                                       *)
(*                                                                         *)
(* The counters are compared with cardinalities and sums over the entries, *)
(* which first need that SumFunctionOnSet adds up in any order.  A path is *)
(* counted once because the walk only moves forward: everything pending    *)
(* comes after everything kept (AheadInv).                                 *)
(***************************************************************************)
EXTENDS Capture, FiniteSetTheorems, TLAPS

\* What can happen to a capture, whether it runs alone or between two commands: a step of
\* its own, a change of the file system (a finished one does not stop those), or Ctrl-C.
Change ==
    /\ \E p \in Paths, n \in Nodes \cup {None} : Alter(p, n)
    /\ UNCHANGED <<interrupted, pc, walkVars, cur, meta, tallyVars, stats, globalTruncated>>

FlagRises == interrupted' = TRUE /\ UNCHANGED <<fs, changes, held, captureVars>>

Move == CaptureStep \/ Change \/ FlagRises \/ UNCHANGED vars

LEMMA NextMoves == [Next]_vars => Move
BY DEF Next, Move, FsChange, Change, Interrupt, FlagRises, Done

InHand == {"stat", "readlink", "open", "waiting", "hash"}

\* The ways the content of a file comes to be open.
Opens == OpenContent \/ OpenWaits \/ WaitEnds

\* What the steps of the entry in hand rely on.
HandOK ==
    /\ pc \in {"walk"} \cup InHand => root <= NRoots
    /\ pc = "done" => root > NRoots
    /\ pc \in {"roots", "done"} => pending = {}
    /\ pc \in InHand => cur \in Paths /\ retainedTotal < MaxEntries
    /\ pc \in {"readlink", "open", "waiting", "hash"} => meta \in Nodes
    /\ pc \in {"open", "waiting", "hash"} => meta.kind = "file"
    /\ pc = "hash" => /\ buf \in [data : Data \cup {None}, torn : BOOLEAN]
                      /\ ~buf.torn => buf.data \in Data

TypeInv == TypeOK /\ HandOK

LEMMA Bounds == NRoots \in Nat \ {0} /\ MaxEntries \in Nat \ {0} /\ MaxChanges \in Nat
BY TreeAssumption, ValueAssumption DEF TreeAssumption, ValueAssumption

\* A directory's listing: all its children, or an error.
LEMMA ListingFacts ==
    ASSUME NEW opens \in BOOLEAN, NEW children, NEW l \in Listings(opens, children)
    PROVE  /\ l.seen \subseteq children
           /\ l.errs \in {0, 1}
           /\ l.errs = 0 => opens /\ l.seen = children
<1> QED BY DEF Listings, ValueAssumption

\* The entry state built from a node has the type of an entry state.
LEMMA EntryStateType ==
    ASSUME NEW n \in Nodes, NEW target \in Data \cup {None},
           NEW digest \in Data \cup {Torn, None},
           NEW hash \in HashStates
    PROVE  /\ EntryState(n, target, digest, hash) \in EntryStates
           /\ EntryState(n, target, digest, hash) # None
           /\ NodeSize(n) \in Nat
<1>1. NodeSize(n) \in Sizes \cup {0} /\ NodeSize(n) \in Nat
  BY ValueAssumption DEF ValueAssumption, NodeSize, Sizes
<1>2. n.kind \in Kinds /\ n.stamp \in {m.stamp : m \in Nodes}
  BY ValueAssumption DEF ValueAssumption
<1>3. EntryState(n, target, digest, hash) \in EntryStates
  BY <1>1, <1>2 DEF EntryState, EntryStates
<1> QED BY <1>1, <1>3, ValueAssumption DEF ValueAssumption

\* Each way of updating a root's counters keeps their type; only a walk error and a
\* truncation change what RootIsClean reads.
LEMMA StatsSteps ==
    ASSUME NEW s \in Stats
    PROVE  /\ Truncated(s) \in Stats /\ Truncated(s).truncated /\ Truncated(s).errors = s.errors
           /\ WalkErrorCounted(s) \in Stats /\ WalkErrorCounted(s).errors = s.errors + 1
           /\ WalkErrorCounted(s).truncated = s.truncated
           /\ \A n \in Nodes, hash \in HashStates : CountEntry(s, n, hash) \in Stats
                /\ CountEntry(s, n, hash).truncated = s.truncated
                /\ CountEntry(s, n, hash).errors = s.errors
<1>1. Truncated(s) \in Stats /\ Truncated(s).truncated /\ Truncated(s).errors = s.errors
  <2> DEFINE s1 == [s EXCEPT !.truncated = TRUE]
  <2>1. s1 \in Stats /\ s1.truncated /\ s1.errors = s.errors BY DEF Stats
  <2>2. Truncated(s) = [s1 EXCEPT !.omittedKnown = FALSE] BY Zenon DEF Truncated, s1
  <2> HIDE DEF s1
  <2> QED BY <2>1, <2>2 DEF Stats
<1>2. WalkErrorCounted(s) \in Stats /\ WalkErrorCounted(s).errors = s.errors + 1
      /\ WalkErrorCounted(s).truncated = s.truncated
  <2> DEFINE s1 == [s EXCEPT !.scanned = s.scanned + 1]
  <2>1. s1 \in Stats /\ s1.errors = s.errors /\ s1.truncated = s.truncated BY DEF Stats
  <2>2. WalkErrorCounted(s) = [s1 EXCEPT !.errors = s.errors + 1]
    BY Zenon DEF WalkErrorCounted, s1
  <2> HIDE DEF s1
  <2> QED BY <2>1, <2>2 DEF Stats
<1>3. ASSUME NEW n \in Nodes, NEW hash \in HashStates
      PROVE  /\ CountEntry(s, n, hash) \in Stats
             /\ CountEntry(s, n, hash).truncated = s.truncated
             /\ CountEntry(s, n, hash).errors = s.errors
  <2> DEFINE b1 == s.hashedFiles + (IF hash = "hashed" THEN 1 ELSE 0)
             b2 == s.hashedBytes + (IF hash = "hashed" THEN NodeSize(n) ELSE 0)
             b3 == s.skipped + (IF HashSkipped(n, hash) THEN 1 ELSE 0)
             s1 == [s EXCEPT !.retained = s.retained + 1]
             s2 == [s1 EXCEPT !.hashedFiles = b1]
             s3 == [s2 EXCEPT !.hashedBytes = b2]
             s4 == [s3 EXCEPT !.skipped = b3]
  <2>1. NodeSize(n) \in Nat
    BY ValueAssumption DEF ValueAssumption, NodeSize
  <2>2. b1 \in Nat /\ b2 \in Nat /\ b3 \in Nat BY <2>1 DEF Stats, HashSkipped
  <2>3. CountEntry(s, n, hash) = s4 BY Zenon DEF CountEntry, s1, s2, s3, s4
  <2> HIDE DEF b1, b2, b3
  <2>4. s1 \in Stats /\ s1.truncated = s.truncated /\ s1.errors = s.errors BY DEF Stats
  <2> HIDE DEF s1
  <2>5. s2 \in Stats /\ s2.truncated = s.truncated /\ s2.errors = s.errors
    BY <2>2, <2>4 DEF Stats
  <2> HIDE DEF s2
  <2>6. s3 \in Stats /\ s3.truncated = s.truncated /\ s3.errors = s.errors
    BY <2>2, <2>5 DEF Stats
  <2> HIDE DEF s3
  <2>7. s4 \in Stats /\ s4.truncated = s.truncated /\ s4.errors = s.errors
    BY <2>2, <2>6 DEF Stats
  <2> HIDE DEF s4
  <2> QED BY <2>3, <2>7
<1> QED BY <1>1, <1>2, <1>3

LEMMA InitType == Init => TypeInv
<1> SUFFICES ASSUME Init PROVE TypeInv OBVIOUS
<1>1. fs \in FileSystems /\ Fresh BY DEF Init
<1>2. fs \in [Paths -> Nodes \cup {None}] BY <1>1 DEF FileSystems
<1>3. ZeroStats \in Stats BY DEF ZeroStats, Stats
<1>4. fs \in [Paths -> Nodes \cup {None}] /\ held \in [Paths -> SUBSET (Nodes \cup {None})]
  BY <1>1, <1>2 DEF Fresh
<1>5. /\ entries \in [Paths -> EntryStates \cup {None}]
      /\ stats \in [1..NRoots -> Stats]
  BY <1>1, <1>3 DEF Fresh
<1>6. root \in 1..(NRoots + 1) /\ retainedTotal \in 0..MaxEntries
  BY <1>1, Bounds DEF Fresh
<1>7. changes \in 0..MaxChanges BY Bounds DEF Init
<1>8. interrupted \in BOOLEAN BY DEF Init
<1> QED
  BY <1>1, <1>4, <1>5, <1>6, <1>7, <1>8 DEF Fresh, TypeOK, TypeInv, HandOK, InHand

\* Keeping the entry in hand preserves the types.
LEMMA RetainType ==
    ASSUME TypeInv, pc \in InHand,
           NEW n \in Nodes, NEW target \in Data \cup {None},
           NEW digest \in Data \cup {Torn, None},
           NEW hash \in HashStates,
           Retain(n, target, digest, hash)
    PROVE  TypeInv'
<1> DEFINE st == EntryState(n, target, digest, hash)
<1>1. st \in EntryStates /\ NodeSize(n) \in Nat BY EntryStateType
<1>2. root \in 1..NRoots BY TreeAssumption DEF TypeInv, TypeOK, HandOK, InHand, TreeAssumption
<1>3. entries' \in [Paths -> EntryStates \cup {None}]
  BY <1>1 DEF Retain, TypeInv, TypeOK
<1>4. retainedTotal' \in 0..MaxEntries
  BY ValueAssumption DEF Retain, TypeInv, TypeOK, HandOK, ValueAssumption
<1>5. hashedTotal' \in Nat /\ sensitiveSkipped' \in Nat
  BY <1>1 DEF Retain, TypeInv, TypeOK
<1>6. stats' \in [1..NRoots -> Stats]
  <2>1. stats[root] \in Stats BY <1>2 DEF TypeInv, TypeOK
  <2>2. CountEntry(stats[root], n, hash) \in Stats BY <1>1, <2>1, StatsSteps
  <2> QED BY <2>2 DEF Retain, TypeInv, TypeOK
<1>7. cur' = 0 /\ meta' = None /\ buf' = None /\ pc' = "walk"
  BY DEF Retain
<1>8. UNCHANGED <<envVars, walkVars, globalTruncated>> BY DEF Retain
<1> QED
  BY <1>2, <1>3, <1>4, <1>5, <1>6, <1>7, <1>8
  DEF TypeInv, TypeOK, HandOK, InHand, envVars, walkVars

\* Updating the counters of the root at hand keeps the type of all of them.
LEMMA StatsUpdate ==
    ASSUME TypeOK, root \in 1..NRoots, NEW s \in Stats, stats' = [stats EXCEPT ![root] = s]
    PROVE  stats' \in [1..NRoots -> Stats] /\ stats'[root] = s
BY DEF TypeOK

\* Leaving the walk early preserves the types.
LEMMA BreakType ==
    ASSUME TypeInv, pc = "walk", NEW counted \in {0, 1}, BreakWalk(counted)
    PROVE  TypeInv'
<1>1. root \in 1..NRoots BY Bounds DEF TypeInv, TypeOK, HandOK
<1>2. stats[root] \in Stats BY <1>1 DEF TypeInv, TypeOK
<1>3. [Truncated(stats[root]) EXCEPT !.scanned = stats[root].scanned + counted] \in Stats
  <2>1. Truncated(stats[root]) \in Stats BY <1>2, StatsSteps
  <2>2. stats[root].scanned + counted \in Nat BY <1>2 DEF Stats
  <2> QED BY <2>1, <2>2 DEF Stats
<1>4. stats' \in [1..NRoots -> Stats] BY <1>1, <1>3, StatsUpdate DEF BreakWalk, TypeInv
<1>5. root' \in 1..(NRoots + 1) BY <1>1, Bounds DEF BreakWalk
<1> QED
  BY <1>4, <1>5 DEF BreakWalk, TypeInv, TypeOK, HandOK, InHand, envVars, handVars, tallyVars

\* A change of the file system preserves the types.
LEMMA AlterType ==
    ASSUME TypeInv, Change
    PROVE  TypeInv'
<1>1. PICK p \in Paths, n \in Nodes \cup {None} : Alter(p, n) BY DEF Change
<1>2. fs' \in [Paths -> Nodes \cup {None}]
  BY <1>1 DEF Alter, TypeInv, TypeOK
<1>3. held' \in [Paths -> SUBSET (Nodes \cup {None})]
  BY <1>1, <1>2 DEF Alter, TypeInv, TypeOK
<1>4. changes' \in 0..MaxChanges BY <1>1, Bounds DEF Alter, TypeInv, TypeOK
<1>5. CASE pc = "hash"
  <2>1. buf' \in [data : Data \cup {None}, torn : BOOLEAN] /\ (~buf'.torn => buf'.data \in Data)
    BY <1>1, <1>5 DEF Alter, TypeInv, HandOK
  <2> QED
    BY <1>2, <1>3, <1>4, <1>5, <2>1
    DEF Change, TypeInv, TypeOK, HandOK, InHand, walkVars, tallyVars
<1>6. CASE pc # "hash"
  <2>1. buf' = buf BY <1>1, <1>6 DEF Alter
  <2> QED
    BY <1>2, <1>3, <1>4, <1>6, <2>1
    DEF Change, TypeInv, TypeOK, HandOK, InHand, walkVars, tallyVars
<1> QED BY <1>5, <1>6

LEMMA TypeStep == TypeInv /\ Move => TypeInv'
<1> SUFFICES ASSUME TypeInv, Move PROVE TypeInv' OBVIOUS
<1> USE DEF TypeInv, InHand
<1>a. NRoots \in Nat \ {0} /\ MaxEntries \in Nat \ {0} BY Bounds
<1>b. pc \in {"walk"} \cup InHand => root \in 1..NRoots /\ stats[root] \in Stats
  BY <1>a DEF TypeOK, HandOK
<1>c. None \notin Nodes BY ValueAssumption DEF ValueAssumption
<1>1. CASE SkipRoot
  <2>1. root \in 1..NRoots /\ stats[root] \in Stats BY <1>1, <1>a DEF SkipRoot, TypeOK
  <2>2. stats' \in [1..NRoots -> Stats]
    BY <1>1, <2>1, StatsSteps, StatsUpdate DEF SkipRoot
  <2> QED BY <1>1, <2>1, <2>2, <1>a
    DEF SkipRoot, TypeOK, HandOK, envVars, handVars, tallyVars
<1>2. CASE OpenRoot
  <2>1. PICK l \in Listings(TRUE, TopLevelOf(root)) :
          pending' = l.seen /\ dirs' = ListedAsDir(l.seen) /\ walkErrs' = l.errs
    BY <1>2 DEF OpenRoot
  <2>2. pending' \subseteq Paths /\ dirs' \subseteq pending' /\ walkErrs' \in Nat
    <3>1. l.seen \subseteq TopLevelOf(root) /\ l.errs \in {0, 1} BY <2>1, ListingFacts, Zenon
    <3> QED BY <2>1, <3>1 DEF TopLevelOf, ListedAsDir
  <2> QED BY <1>2, <2>2, <1>a DEF OpenRoot, TypeOK, HandOK, envVars, handVars, tallyVars
<1>3. CASE CloseRoot
  BY <1>3, <1>a, <1>b DEF CloseRoot, TypeOK, HandOK, envVars, handVars, tallyVars
<1>4. CASE StopOnInterrupt
  BY <1>4, BreakType DEF StopOnInterrupt
<1>5. CASE StopOnLimit
  BY <1>5, BreakType DEF StopOnLimit
<1>6. CASE CountWalkError
  <2>1. stats' \in [1..NRoots -> Stats]
    BY <1>6, <1>b, StatsSteps, StatsUpdate DEF CountWalkError
  <2> QED BY <1>6, <2>1 DEF CountWalkError, TypeOK, HandOK, envVars, handVars, tallyVars
<1>7. ASSUME NEW p \in Paths, VisitEntry(p) PROVE TypeInv'
  <2>1. pending' \subseteq Paths /\ dirs' \subseteq pending' /\ walkErrs' \in Nat
    <3>1. CASE p \in dirs
      <4>1. PICK l \in Listings(IsDir(fs[p]), ChildrenOf(p)) :
              /\ pending' = (pending \ {p}) \cup l.seen
              /\ dirs' = (dirs \ {p}) \cup ListedAsDir(l.seen)
              /\ walkErrs' = l.errs
        BY <1>7, <3>1 DEF VisitEntry
      <4>2. l.seen \subseteq Paths /\ l.errs \in Nat
        <5>1. IsDir(fs[p]) \in BOOLEAN BY DEF IsDir
        <5>2. l.seen \subseteq ChildrenOf(p) /\ l.errs \in {0, 1}
          BY <4>1, <5>1, ListingFacts, Zenon
        <5> QED BY <5>2 DEF ChildrenOf
      <4> QED BY <4>1, <4>2 DEF TypeOK, ListedAsDir
    <3>2. CASE p \notin dirs
      BY <1>7, <3>2 DEF VisitEntry, TypeOK
    <3> QED BY <3>1, <3>2
  <2>2. [stats[root] EXCEPT !.scanned = @ + 1] \in Stats BY <1>7, <1>b DEF VisitEntry, Stats
  <2>3. stats' \in [1..NRoots -> Stats]
    BY <1>7, <1>b, <2>2, StatsUpdate DEF VisitEntry
  <2>4. retainedTotal < MaxEntries BY <1>7, <1>a DEF VisitEntry, AtEntryLimit, TypeOK
  <2> QED BY <1>7, <1>b, <2>1, <2>3, <2>4 DEF VisitEntry, TypeOK, HandOK, envVars, tallyVars
<1>8. CASE StatFails
  <2>1. [stats[root] EXCEPT !.errors = @ + 1] \in Stats BY <1>8, <1>b DEF StatFails, Stats
  <2>2. stats' \in [1..NRoots -> Stats]
    BY <1>8, <1>b, <2>1, StatsUpdate DEF StatFails
  <2> QED BY <1>8, <2>2 DEF StatFails, TypeOK, HandOK, envVars, walkVars, tallyVars
<1>9. CASE StatKeeps
  <2>1. fs[cur] \in Nodes BY <1>9 DEF StatKeeps, TypeOK, HandOK, Kind
  <2>2. HashDecision(cur, fs[cur]) \in
          {"hashed", "not_regular_file", "skipped_sensitive_path",
           "skipped_file_too_large", "skipped_total_budget"}
    BY DEF HashDecision
  <2> QED BY <1>9, <2>1, <2>2, RetainType DEF StatKeeps, HashStates
<1>10. CASE StatGoesOn
  <2>1. fs[cur] \in Nodes BY <1>10 DEF StatGoesOn, TypeOK, HandOK
  <2>2. Kind(fs[cur]) = fs[cur].kind BY <1>c, <2>1 DEF Kind
  <2>3. fs[cur].kind # "symlink" => fs[cur].kind = "file"
    BY <1>10, <2>2 DEF StatGoesOn, HashDecision
  <2> QED
    BY <1>10, <2>1, <2>3 DEF StatGoesOn, TypeOK, HandOK, envVars, walkVars, tallyVars
<1>11. CASE ReadLink
  <2>1. PICK target \in (IF Kind(fs[cur]) = "symlink" THEN {fs[cur].data} ELSE {None})
                          \cup (IF IoFaults THEN {None} ELSE {}) :
          Retain(meta, target, None, "not_regular_file")
    BY <1>11 DEF ReadLink
  <2>2. target \in Data \cup {None}
    <3>1. fs[cur] \in Nodes \cup {None} BY <1>11 DEF ReadLink, TypeOK, HandOK
    <3>2. Kind(fs[cur]) = "symlink" => fs[cur].data \in Data \cup {None}
      BY <3>1, ValueAssumption DEF Kind, ValueAssumption
    <3> QED BY <3>2, <2>1
  <2>3. meta \in Nodes BY <1>11 DEF ReadLink, TypeOK, HandOK
  <2> QED BY <1>11, <2>1, <2>2, <2>3, RetainType DEF ReadLink, HashStates
<1>12. CASE OpenContent
  <2>1. fs[cur] \in Nodes BY <1>12 DEF OpenContent, TypeOK, HandOK, Kind
  <2>2. Kind(fs[cur]) = fs[cur].kind BY <1>c, <2>1 DEF Kind
  <2>3. fs[cur].data \in Data \cup {None} /\ (fs[cur].kind = "file" => fs[cur].data \in Data)
    BY <2>1, ValueAssumption DEF ValueAssumption
  <2>4. buf' = [data |-> fs[cur].data, torn |-> fs[cur].kind # "file"]
    BY <1>12, <2>2 DEF OpenContent
  <2>5. buf'.torn = (fs[cur].kind # "file") /\ buf'.data = fs[cur].data
    BY <2>4
  <2>6. /\ buf' \in [data : Data \cup {None}, torn : BOOLEAN]
        /\ ~buf'.torn => buf'.data \in Data
    BY <2>3, <2>4, <2>5
  <2> QED BY <1>12, <2>6 DEF OpenContent, TypeOK, HandOK, envVars, walkVars, tallyVars
<1>20. CASE OpenWaits
  BY <1>20 DEF OpenWaits, TypeOK, HandOK, envVars, walkVars, handVars, tallyVars, InHand
<1>21. CASE WaitEnds
  <2>1. buf' = [data |-> None, torn |-> TRUE] /\ buf' \in [data : Data \cup {None}, torn : BOOLEAN]
    BY <1>21 DEF WaitEnds
  <2>2. buf'.torn BY <2>1
  <2> QED
    BY <1>21, <2>1, <2>2 DEF WaitEnds, Waits, TypeOK, HandOK, envVars, walkVars, tallyVars, InHand
<1>13. CASE OpenFails
  <2>1. meta \in Nodes BY <1>13 DEF OpenFails, TypeOK, HandOK
  <2> QED BY <1>13, <2>1, RetainType DEF OpenFails, HashStates
<1>14. CASE FinishRead
  <2>1. PICK r \in Reads :
          IF ReadIsWhole(r) THEN Retain(meta, None, r.digest, "hashed")
                            ELSE Retain(meta, None, None, "changed_during_read")
    BY <1>14 DEF FinishRead
  <2>2. r.size \in Nat /\ r.digest \in Data \cup {Torn, None}
    BY <1>14, <2>1, ValueAssumption DEF FinishRead, Reads, Sizes, HandOK, ValueAssumption
  <2>3. meta \in Nodes
    BY <1>14, <2>1, <2>2 DEF FinishRead, TypeOK, HandOK
  <2>4. CASE ReadIsWhole(r) BY <1>14, <2>1, <2>2, <2>3, <2>4, RetainType DEF FinishRead, HashStates
  <2>5. CASE ~ReadIsWhole(r) BY <1>14, <2>1, <2>2, <2>3, <2>5, RetainType DEF FinishRead, HashStates
  <2> QED BY <2>4, <2>5
<1>15. CASE ReadFails
  <2>1. meta \in Nodes BY <1>15 DEF ReadFails, TypeOK, HandOK
  <2> QED BY <1>15, <2>1, RetainType DEF ReadFails, HashStates
<1>16. CASE Finish
  BY <1>16 DEF Finish, TypeOK, HandOK, envVars, walkVars, handVars, tallyVars
<1>17. CASE FlagRises
  BY <1>17 DEF FlagRises, TypeOK, HandOK, captureVars, walkVars, handVars, tallyVars
<1>18. CASE Change
  BY <1>18, AlterType
<1>19. CASE UNCHANGED vars
  BY <1>19
  DEF TypeOK, HandOK, vars, envVars, captureVars, walkVars, handVars, tallyVars
<1> QED
  BY <1>1, <1>2, <1>3, <1>4, <1>5, <1>6, <1>7, <1>8, <1>9, <1>10, <1>11, <1>12, <1>13,
     <1>14, <1>15, <1>16, <1>17, <1>18, <1>19, <1>20, <1>21 DEF Move, CaptureStep, Opens

\* Every variable of a capture keeps its type and the entry limit is never exceeded.
THEOREM TypeCorrect == Spec => []TypeOK
<1>1. Init => TypeInv BY InitType
<1>2. TypeInv /\ [Next]_vars => TypeInv' BY TypeStep, NextMoves
<1>3. TypeInv => TypeOK BY DEF TypeInv
<1> QED BY <1>1, <1>2, <1>3, PTL DEF Spec

-----------------------------------------------------------------------------
(* A missing entry is evidence of absence.                                 *)

\* The tree stays a tree, and its history holds what each path holds now.
TreeInv == TreeConsistent(fs) /\ \A p \in Paths : fs[p] \in held[p]

\* Above a path that was never absent there were only directories.
SteadyInv ==
    \A d \in Paths : \A p \in Below[d] : Steady(p) => \A n \in held[d] : IsDir(n)

\* A listed path above a steady one was listed as a directory.
DirsInv == \A d \in pending : \A p \in Below[d] : Steady(p) => d \in dirs

\* The walk of the root at hand has yet to yield p, a directory above p, or an error.
OnTheWay(p) ==
    \/ walkErrs > 0
    \/ p \in pending
    \/ pc \in InHand /\ cur = p
    \/ \E d \in pending : p \in Below[d]

Covered(p) ==
    \/ RootOf[p] > root
    \/ RootOf[p] = root /\ pc = "roots"
    \/ ~RootIsClean(RootOf[p])
    \/ entries[p] # None
    \/ RootOf[p] = root /\ pc \in {"walk"} \cup InHand /\ OnTheWay(p)

CoverInv == \A p \in Paths : Steady(p) => Covered(p)

AbsenceInv == TypeInv /\ TreeInv /\ SteadyInv /\ DirsInv /\ CoverInv

LEMMA TreeFacts ==
    ASSUME NEW d \in Paths, NEW p \in Below[d]
    PROVE  p \in Paths /\ p > d /\ p \in Nat /\ d \in Nat /\ RootOf[p] = RootOf[d]
           /\ Below[p] \subseteq Below[d]
BY TreeAssumption DEF TreeAssumption

\* A step that leaves the file system alone keeps the invariants about it.
LEMMA QuietEnv ==
    ASSUME TreeInv, SteadyInv, UNCHANGED <<fs, held>>
    PROVE  TreeInv' /\ SteadyInv' /\ \A p \in Paths : Steady(p)' <=> Steady(p)
BY DEF TreeInv, SteadyInv, TreeConsistent, Steady

LEMMA InitAbsence == Init => AbsenceInv
<1> SUFFICES ASSUME Init PROVE AbsenceInv OBVIOUS
<1>1. TypeInv BY InitType
<1>2. fs \in FileSystems /\ Fresh BY DEF Init
<1>3. TreeConsistent(fs) BY <1>2 DEF FileSystems, Fresh
<1>4. \A p \in Paths : held[p] = {fs[p]} BY <1>2 DEF Fresh
<1>5. TreeInv BY <1>3, <1>4 DEF TreeInv
<1>6. SteadyInv
  <2> SUFFICES ASSUME NEW d \in Paths, NEW p \in Below[d], Steady(p), NEW n \in held[d]
               PROVE  IsDir(n)
    BY DEF SteadyInv
  <2>1. p \in Paths BY TreeFacts
  <2>2. fs[p] # None BY <1>4, <2>1 DEF Steady
  <2> QED BY <1>3, <1>4, <2>1, <2>2 DEF TreeConsistent
<1>7. DirsInv BY <1>2 DEF Fresh, DirsInv
<1>8. CoverInv
  <2> SUFFICES ASSUME NEW p \in Paths PROVE Covered(p) BY DEF CoverInv
  <2>1. RootOf[p] \in 1..NRoots /\ root = 1 /\ pc = "roots"
    BY <1>2, TreeAssumption DEF Fresh, TreeAssumption
  <2> QED BY <2>1, Bounds DEF Covered
<1> QED BY <1>1, <1>5, <1>6, <1>7, <1>8 DEF AbsenceInv

\* A change of the file system keeps the tree a tree and removes nothing from history.
LEMMA AlterAbsence ==
    ASSUME AbsenceInv, Change
    PROVE  AbsenceInv'
<1>1. PICK x \in Paths, n \in Nodes \cup {None} : Alter(x, n) BY DEF Change
<1>2. TypeInv' BY AlterType DEF AbsenceInv
<1>3. UNCHANGED <<pc, root, pending, dirs, walkErrs, cur, entries, stats>>
  BY DEF Change, walkVars, tallyVars
<1>4. \A q \in Paths : fs'[q] = IF q = x THEN n
                                ELSE IF q \in Below[x] /\ ~IsDir(n) THEN None ELSE fs[q]
  BY <1>1 DEF Alter
<1>5. \A q \in Paths : held'[q] = held[q] \cup {fs'[q]} BY <1>1 DEF Alter
<1>6. TreeConsistent(fs')
  <2> SUFFICES ASSUME NEW d \in Paths, NEW q \in Below[d], fs'[q] # None
               PROVE  IsDir(fs'[d])
    BY DEF TreeConsistent
  <2>1. q \in Paths /\ q # d BY TreeFacts
  <2>2. CASE d = x BY <1>4, <2>1, <2>2
  <2>3. CASE d # x /\ q = x
    <3>1. IsDir(fs[d]) BY <1>1, <1>4, <2>3 DEF Alter
    <3>2. d \notin Below[x] BY <2>3, TreeFacts
    <3> QED BY <1>4, <2>3, <3>1, <3>2
  <2>4. CASE d # x /\ q # x
    <3>1. fs[q] # None /\ fs'[q] = fs[q] BY <1>4, <2>1, <2>4
    <3>2. IsDir(fs[d]) BY <2>1, <3>1 DEF AbsenceInv, TreeInv, TreeConsistent
    <3>3. ~(d \in Below[x] /\ ~IsDir(n))
      <4> SUFFICES ASSUME d \in Below[x], ~IsDir(n) PROVE FALSE OBVIOUS
      <4>1. q \in Below[x] BY TreeFacts
      <4> QED BY <1>4, <2>1, <2>4, <4>1
    <3> QED BY <1>4, <2>4, <3>2, <3>3
  <2> QED BY <2>2, <2>3, <2>4
<1>7. TreeInv' BY <1>5, <1>6 DEF TreeInv, TreeConsistent
<1>8. \A p \in Paths : Steady(p)' => Steady(p) /\ fs'[p] # None
  BY <1>5 DEF Steady
<1>9. SteadyInv'
  <2> SUFFICES ASSUME NEW d \in Paths, NEW p \in Below[d], Steady(p)', NEW m \in held'[d]
               PROVE  IsDir(m)
    BY DEF SteadyInv
  <2>1. p \in Paths BY TreeFacts
  <2>2. IsDir(fs'[d]) BY <1>6, <1>8, <2>1 DEF TreeConsistent
  <2>3. \A k \in held[d] : IsDir(k) BY <1>8, <2>1 DEF AbsenceInv, SteadyInv
  <2> QED BY <1>5, <2>2, <2>3
<1>10. DirsInv'
  <2> SUFFICES ASSUME NEW d \in pending', NEW p \in Below[d], Steady(p)' PROVE d \in dirs'
    BY DEF DirsInv
  <2>1. d \in Paths /\ d \in pending BY <1>3 DEF AbsenceInv, TypeInv, TypeOK
  <2>2. p \in Paths BY <2>1, TreeFacts
  <2> QED BY <1>3, <1>8, <2>1, <2>2 DEF AbsenceInv, DirsInv
<1>11. CoverInv'
  BY <1>3, <1>8 DEF AbsenceInv, CoverInv, Covered, RootIsClean, OnTheWay
<1> QED BY <1>2, <1>7, <1>9, <1>10, <1>11 DEF AbsenceInv

\* Errors and truncations already recorded for a root stay recorded.
LEMMA UncleanStays ==
    ASSUME AbsenceInv, root \in 1..NRoots, NEW s \in Stats,
           stats' = [stats EXCEPT ![root] = s],
           s.errors >= stats[root].errors, stats[root].truncated => s.truncated
    PROVE  \A p \in Paths : ~RootIsClean(RootOf[p]) => ~RootIsClean(RootOf[p])'
<1> SUFFICES ASSUME NEW p \in Paths, ~RootIsClean(RootOf[p]) PROVE ~RootIsClean(RootOf[p])'
  OBVIOUS
<1>1. RootOf[p] \in 1..NRoots BY TreeAssumption DEF TreeAssumption
<1>2. stats[root] \in Stats /\ stats[RootOf[p]] \in Stats
  BY <1>1 DEF AbsenceInv, TypeInv, TypeOK
<1>3. CASE RootOf[p] = root
  <2>1. stats'[root] = s BY DEF AbsenceInv, TypeInv, TypeOK
  <2> QED BY <1>2, <1>3, <2>1 DEF RootIsClean, Stats
<1>4. CASE RootOf[p] # root
  <2>1. stats'[RootOf[p]] = stats[RootOf[p]] BY <1>1, <1>4 DEF AbsenceInv, TypeInv, TypeOK
  <2> QED BY <2>1 DEF RootIsClean
<1> QED BY <1>3, <1>4

\* Keeping the entry in hand preserves the invariant.
LEMMA RetainAbsence ==
    ASSUME AbsenceInv, TypeInv', pc \in InHand, NEW n \in Nodes,
           NEW target \in Data \cup {None}, NEW digest \in Data \cup {Torn, None},
           NEW hash \in HashStates, Retain(n, target, digest, hash)
    PROVE  AbsenceInv'
<1>1. UNCHANGED <<fs, held, root, pending, dirs, walkErrs>> /\ pc' = "walk"
  BY DEF Retain, envVars, walkVars
<1>2. TreeInv' /\ SteadyInv' /\ \A p \in Paths : Steady(p)' <=> Steady(p)
  BY <1>1, QuietEnv DEF AbsenceInv
<1>3. root \in 1..NRoots /\ stats[root] \in Stats
  BY Bounds DEF AbsenceInv, TypeInv, TypeOK, HandOK, InHand
<1>4. \A p \in Paths : ~RootIsClean(RootOf[p]) => ~RootIsClean(RootOf[p])'
  <2> DEFINE s == CountEntry(stats[root], n, hash)
  <2>1. s \in Stats /\ s.errors = stats[root].errors /\ s.truncated = stats[root].truncated
    BY <1>3, StatsSteps, Zenon
  <2>2. s.errors >= stats[root].errors BY <1>3, <2>1 DEF Stats
  <2>3. stats' = [stats EXCEPT ![root] = s] BY DEF Retain
  <2> HIDE DEF s
  <2> QED BY <1>3, <2>1, <2>2, <2>3, UncleanStays
<1>5. entries'[cur] # None /\ \A p \in Paths : entries[p] # None => entries'[p] # None
  <2>1. entries' = [entries EXCEPT ![cur] = EntryState(n, target, digest, hash)]
    BY DEF Retain
  <2>2. cur \in Paths BY DEF AbsenceInv, TypeInv, HandOK
  <2>3. EntryState(n, target, digest, hash) # None BY EntryStateType
  <2> QED BY <2>1, <2>2, <2>3 DEF AbsenceInv, TypeInv, TypeOK
<1>6. DirsInv'
  BY <1>1, <1>2, TreeFacts DEF AbsenceInv, DirsInv, TypeInv, TypeOK
<1>7. CoverInv'
  BY <1>1, <1>2, <1>4, <1>5 DEF AbsenceInv, CoverInv, Covered, OnTheWay, InHand
<1> QED BY <1>2, <1>6, <1>7 DEF AbsenceInv

\* Leaving the walk early preserves the invariant: the root is marked.
LEMMA BreakAbsence ==
    ASSUME AbsenceInv, pc = "walk", NEW counted \in {0, 1}, BreakWalk(counted)
    PROVE  AbsenceInv'
<1>1. UNCHANGED <<fs, held, entries>> /\ pending' = {} /\ root' = root + 1 /\ pc' = "roots"
  BY DEF BreakWalk, envVars, tallyVars
<1>2. TreeInv' /\ SteadyInv' /\ \A p \in Paths : Steady(p)' <=> Steady(p)
  BY <1>1, QuietEnv DEF AbsenceInv
<1>3. root \in 1..NRoots /\ stats[root] \in Stats
  BY Bounds DEF AbsenceInv, TypeInv, TypeOK, HandOK, InHand
<1>4. (\A p \in Paths : ~RootIsClean(RootOf[p]) => ~RootIsClean(RootOf[p])')
      /\ stats'[root].truncated
  <2> DEFINE t == Truncated(stats[root])
             s == [t EXCEPT !.scanned = stats[root].scanned + counted]
  <2>1. t \in Stats /\ t.truncated /\ t.errors = stats[root].errors BY <1>3, StatsSteps
  <2>2. stats' = [stats EXCEPT ![root] = s] BY DEF BreakWalk
  <2>3. stats[root].scanned + counted \in Nat BY <1>3 DEF Stats
  <2> HIDE DEF t
  <2>4. s \in Stats /\ s.truncated /\ s.errors = stats[root].errors
    BY <2>1, <2>3 DEF Stats
  <2> HIDE DEF s
  <2>5. s.errors >= stats[root].errors BY <1>3, <2>4 DEF Stats
  <2>6. \A p \in Paths : ~RootIsClean(RootOf[p]) => ~RootIsClean(RootOf[p])'
    BY <1>3, <2>2, <2>4, <2>5, UncleanStays
  <2>7. stats'[root] = s BY <1>3, <2>2 DEF AbsenceInv, TypeInv, TypeOK
  <2> QED BY <2>4, <2>6, <2>7
<1>5. TypeInv' BY BreakType DEF AbsenceInv
<1>6. DirsInv' BY <1>1 DEF DirsInv
<1>7. CoverInv'
  <2> SUFFICES ASSUME NEW p \in Paths, Steady(p) PROVE Covered(p)'
    BY <1>2 DEF CoverInv
  <2>1. Covered(p) BY DEF AbsenceInv, CoverInv
  <2>2. RootOf[p] \in 1..NRoots BY TreeAssumption DEF TreeAssumption
  <2>3. CASE RootOf[p] = root BY <1>1, <1>4, <2>3 DEF Covered, RootIsClean
  <2>4. CASE RootOf[p] > root BY <1>1, <1>3, <2>2, <2>4 DEF Covered
  <2>5. CASE RootOf[p] < root BY <1>1, <1>3, <1>4, <2>1, <2>2, <2>5 DEF Covered
  <2> QED BY <1>3, <2>2, <2>3, <2>4, <2>5
<1> QED BY <1>2, <1>5, <1>6, <1>7 DEF AbsenceInv

\* A listing without an error holds every child that is above or at a steady path.
LEMMA SteadyChild ==
    ASSUME AbsenceInv, NEW c \in Paths, NEW p \in Paths, Steady(p), p = c \/ p \in Below[c]
    PROVE  /\ fs[c] # None
           /\ p \in Below[c] => IsDir(fs[c])
<1>1. fs[c] \in held[c] BY DEF AbsenceInv, TreeInv
<1>2. CASE p = c
  <2>1. p \notin Below[c] BY <1>2, TreeFacts
  <2> QED BY <1>1, <1>2, <2>1 DEF Steady
<1>3. CASE p \in Below[c]
  <2>1. IsDir(fs[c]) BY <1>1, <1>3 DEF AbsenceInv, SteadyInv
  <2> QED BY <2>1 DEF IsDir, Kind
<1> QED BY <1>2, <1>3

LEMMA OpenRootAbsence ==
    ASSUME AbsenceInv, TypeInv', OpenRoot
    PROVE  AbsenceInv'
<1>1. UNCHANGED <<fs, held, root, entries, stats>> /\ pc = "roots" /\ pc' = "walk"
  BY DEF OpenRoot, envVars, tallyVars
<1>2. PICK l \in Listings(TRUE, TopLevelOf(root)) :
        pending' = l.seen /\ dirs' = ListedAsDir(l.seen) /\ walkErrs' = l.errs
  BY DEF OpenRoot
<1>3. /\ l.seen \subseteq TopLevelOf(root) /\ l.errs \in {0, 1}
      /\ l.errs = 0 => l.seen = TopLevelOf(root)
  BY <1>2, ListingFacts, Zenon
<1>4. TreeInv' /\ SteadyInv' /\ \A p \in Paths : Steady(p)' <=> Steady(p)
  BY <1>1, QuietEnv DEF AbsenceInv
<1>5. DirsInv'
  <2> SUFFICES ASSUME NEW d \in pending', NEW p \in Below[d], Steady(p)' PROVE d \in dirs'
    BY DEF DirsInv
  <2>1. d \in l.seen /\ d \in Paths BY <1>2, <1>3 DEF TopLevelOf
  <2>2. p \in Paths BY <2>1, TreeFacts
  <2>3. IsDir(fs[d]) BY <1>4, <2>1, <2>2, SteadyChild
  <2> QED BY <1>2, <2>1, <2>3 DEF ListedAsDir
<1>6. CoverInv'
  <2> SUFFICES ASSUME NEW p \in Paths, Steady(p) PROVE Covered(p)'
    BY <1>4 DEF CoverInv
  <2>1. Covered(p) BY DEF AbsenceInv, CoverInv
  <2>2. CASE RootOf[p] = root
    <3>1. PICK c \in Paths : ParentOf[c] = 0 /\ RootOf[c] = RootOf[p] /\ (p = c \/ p \in Below[c])
      BY TreeAssumption DEF TreeAssumption
    <3>2. fs[c] # None BY <3>1, SteadyChild
    <3>3. c \in TopLevelOf(root) BY <2>2, <3>1, <3>2 DEF TopLevelOf
    <3>4. walkErrs' > 0 \/ c \in pending' BY <1>2, <1>3, <3>3
    <3>5. OnTheWay(p)' BY <3>1, <3>4 DEF OnTheWay
    <3> QED BY <1>1, <2>2, <3>5 DEF Covered
  <2>3. CASE RootOf[p] # root
    BY <1>1, <2>1, <2>3 DEF Covered, RootIsClean
  <2> QED BY <2>2, <2>3
<1> QED BY <1>4, <1>5, <1>6 DEF AbsenceInv

LEMMA VisitAbsence ==
    ASSUME AbsenceInv, TypeInv', NEW v \in Paths, VisitEntry(v)
    PROVE  AbsenceInv'
<1>1. UNCHANGED <<fs, held, root, entries>> /\ pc = "walk" /\ pc' = "stat" /\ cur' = v
  BY DEF VisitEntry, envVars, tallyVars
<1>2. TreeInv' /\ SteadyInv' /\ \A p \in Paths : Steady(p)' <=> Steady(p)
  BY <1>1, QuietEnv DEF AbsenceInv
<1>3. root \in 1..NRoots /\ stats[root] \in Stats
  BY <1>1, Bounds DEF AbsenceInv, TypeInv, TypeOK, HandOK
<1>4. \A p \in Paths : ~RootIsClean(RootOf[p]) => ~RootIsClean(RootOf[p])'
  <2> DEFINE s == [stats[root] EXCEPT !.scanned = @ + 1]
  <2>1. s \in Stats /\ s.errors >= stats[root].errors /\ s.truncated = stats[root].truncated
    BY <1>3 DEF Stats
  <2>2. stats' = [stats EXCEPT ![root] = s]
    BY <1>3 DEF VisitEntry, AbsenceInv, TypeInv, TypeOK
  <2> HIDE DEF s
  <2> QED BY <1>3, <2>1, <2>2, UncleanStays
<1>5. /\ pending \ {v} \subseteq pending' /\ dirs \ {v} \subseteq dirs'
      /\ pending' \subseteq Paths /\ walkErrs = 0
  BY DEF VisitEntry, TypeInv, TypeOK
\* Every steady path below v is on the way through a child of v, or an error is.
<1>6. ASSUME NEW p \in Below[v], Steady(p)
      PROVE  walkErrs' > 0 \/ p \in pending' \/ \E d \in pending' : p \in Below[d]
  <2>1. p \in Paths /\ v \in pending BY TreeFacts DEF VisitEntry
  <2>2. v \in dirs BY <1>6, <2>1 DEF AbsenceInv, DirsInv
  <2>3. PICK l \in Listings(IsDir(fs[v]), ChildrenOf(v)) :
          pending' = (pending \ {v}) \cup l.seen /\ walkErrs' = l.errs
    BY <2>2 DEF VisitEntry
  <2>4. IsDir(fs[v]) \in BOOLEAN BY DEF IsDir
  <2>5. l.errs \in {0, 1} /\ (l.errs = 0 => l.seen = ChildrenOf(v))
    BY <2>3, <2>4, ListingFacts, Zenon
  <2>6. PICK c \in Paths : ParentOf[c] = v /\ (p = c \/ p \in Below[c])
    BY <2>1, TreeAssumption DEF TreeAssumption
  <2>7. c \in ChildrenOf(v) BY <1>6, <2>1, <2>6, SteadyChild DEF ChildrenOf
  <2> QED BY <2>3, <2>5, <2>6, <2>7
<1>7. DirsInv'
  <2> SUFFICES ASSUME NEW d \in pending', NEW p \in Below[d], Steady(p)' PROVE d \in dirs'
    BY DEF DirsInv
  <2>1. d \in Paths BY <1>5
  <2>2. p \in Paths /\ Steady(p) BY <1>2, <2>1, TreeFacts
  <2>3. CASE d \in pending /\ d # v
    BY <1>5, <2>2, <2>3 DEF AbsenceInv, DirsInv
  <2>4. CASE ~(d \in pending /\ d # v)
    <3>1. CASE v \in dirs
      <4>1. PICK l \in Listings(IsDir(fs[v]), ChildrenOf(v)) :
              /\ pending' = (pending \ {v}) \cup l.seen
              /\ dirs' = (dirs \ {v}) \cup ListedAsDir(l.seen)
        BY <3>1 DEF VisitEntry
      <4>2. d \in l.seen BY <2>4, <4>1
      <4>3. IsDir(fs[d]) BY <2>1, <2>2, SteadyChild
      <4> QED BY <4>1, <4>2, <4>3 DEF ListedAsDir
    <3>2. CASE v \notin dirs BY <2>4, <3>2 DEF VisitEntry
    <3> QED BY <3>1, <3>2
  <2> QED BY <2>3, <2>4
<1>8. CoverInv'
  <2> SUFFICES ASSUME NEW p \in Paths, Steady(p) PROVE Covered(p)'
    BY <1>2 DEF CoverInv
  <2>1. Covered(p) BY DEF AbsenceInv, CoverInv
  <2>2. CASE RootOf[p] = root /\ OnTheWay(p)
    <3>1. p \in pending \/ \E d \in pending : p \in Below[d]
      BY <1>1, <1>5, <2>2 DEF OnTheWay, InHand
    <3>2. OnTheWay(p)'
      <4>1. CASE p = v BY <1>1, <4>1 DEF OnTheWay, InHand
      <4>2. CASE p # v /\ p \in pending BY <1>5, <4>2 DEF OnTheWay
      <4>3. CASE \E d \in pending : p \in Below[d]
        BY <1>5, <1>6, <4>3 DEF OnTheWay
      <4> QED BY <3>1, <4>1, <4>2, <4>3
    <3> QED BY <1>1, <2>2, <3>2 DEF Covered, InHand
  <2>3. CASE ~(RootOf[p] = root /\ OnTheWay(p))
    BY <1>1, <1>4, <2>1, <2>3 DEF Covered
  <2> QED BY <2>2, <2>3
<1> QED BY <1>2, <1>7, <1>8 DEF AbsenceInv

LEMMA AbsenceStep == AbsenceInv /\ Move => AbsenceInv'
<1> SUFFICES ASSUME AbsenceInv, Move PROVE AbsenceInv' OBVIOUS
<1>a. TypeInv' BY TypeStep DEF AbsenceInv
<1>b. root \in 1..(NRoots + 1) /\ NRoots \in Nat BY Bounds DEF AbsenceInv, TypeInv, TypeOK
<1>c. \A p \in Paths : RootOf[p] \in 1..NRoots BY TreeAssumption DEF TreeAssumption
<1>d. pc \in {"walk"} \cup InHand => root \in 1..NRoots /\ stats[root] \in Stats
  BY Bounds DEF AbsenceInv, TypeInv, TypeOK, HandOK
<1>e. pc \in {"readlink", "open", "waiting", "hash"} => meta \in Nodes
  BY DEF AbsenceInv, TypeInv, HandOK
<1>1. CASE SkipRoot
  <2>1. UNCHANGED <<fs, held, pc, pending, dirs, entries>> /\ root' = root + 1 /\ pc = "roots"
    BY <1>1 DEF SkipRoot, envVars, tallyVars
  <2>2. TreeInv' /\ SteadyInv' /\ \A p \in Paths : Steady(p)' <=> Steady(p)
    BY <2>1, QuietEnv DEF AbsenceInv
  <2>3. root \in 1..NRoots /\ stats[root] \in Stats
    BY <1>1, <1>b DEF SkipRoot, AbsenceInv, TypeInv, TypeOK
  <2>4. (\A p \in Paths : ~RootIsClean(RootOf[p]) => ~RootIsClean(RootOf[p])')
        /\ stats'[root].truncated
    <3> DEFINE s == Truncated(stats[root])
    <3>1. s \in Stats /\ s.truncated /\ s.errors = stats[root].errors BY <2>3, StatsSteps
    <3>2. stats' = [stats EXCEPT ![root] = s] BY <1>1 DEF SkipRoot
    <3> HIDE DEF s
    <3>3. s.errors >= stats[root].errors BY <3>1 DEF Stats
    <3>4. stats'[root] = s BY <2>3, <3>2 DEF AbsenceInv, TypeInv, TypeOK
    <3> QED BY <2>3, <3>1, <3>2, <3>3, <3>4, UncleanStays
  <2>5. DirsInv' BY <2>1, <2>2, TreeFacts DEF AbsenceInv, DirsInv, TypeInv, TypeOK
  <2>6. CoverInv'
    <3> SUFFICES ASSUME NEW p \in Paths, Steady(p) PROVE Covered(p)'
      BY <2>2 DEF CoverInv
    <3>1. Covered(p) BY DEF AbsenceInv, CoverInv
    <3>2. CASE RootOf[p] = root BY <2>1, <2>4, <3>2 DEF Covered, RootIsClean
    <3>3. CASE RootOf[p] > root BY <2>1, <2>3, <1>c, <3>3 DEF Covered
    <3>4. CASE RootOf[p] < root BY <2>1, <2>3, <2>4, <1>c, <3>1, <3>4 DEF Covered
    <3> QED BY <1>b, <1>c, <3>2, <3>3, <3>4
  <2> QED BY <1>a, <2>2, <2>5, <2>6 DEF AbsenceInv
<1>2. CASE OpenRoot BY <1>a, <1>2, OpenRootAbsence
<1>3. CASE CloseRoot
  <2>1. /\ UNCHANGED <<fs, held, pending, dirs, entries, stats>> /\ pc = "walk" /\ pc' = "roots"
        /\ root' = root + 1 /\ walkErrs = 0 /\ pending = {}
    BY <1>3 DEF CloseRoot, envVars, tallyVars
  <2>2. TreeInv' /\ SteadyInv' /\ \A p \in Paths : Steady(p)' <=> Steady(p)
    BY <2>1, QuietEnv DEF AbsenceInv
  <2>3. DirsInv' BY <2>1 DEF DirsInv
  <2>4. CoverInv'
    <3> SUFFICES ASSUME NEW p \in Paths, Steady(p) PROVE Covered(p)'
      BY <2>2 DEF CoverInv
    <3>1. Covered(p) BY DEF AbsenceInv, CoverInv
    <3>2. CASE RootOf[p] > root BY <2>1, <1>b, <1>c, <3>2 DEF Covered
    <3>3. CASE RootOf[p] <= root
      BY <2>1, <1>b, <1>c, <3>1, <3>3 DEF Covered, OnTheWay, InHand, RootIsClean
    <3> QED BY <1>b, <1>c, <3>2, <3>3
  <2> QED BY <1>a, <2>2, <2>3, <2>4 DEF AbsenceInv
<1>4. CASE StopOnInterrupt BY <1>4, BreakAbsence DEF StopOnInterrupt
<1>5. CASE StopOnLimit BY <1>5, BreakAbsence DEF StopOnLimit
<1>6. CASE CountWalkError
  <2>1. UNCHANGED <<fs, held, pc, root, pending, dirs, cur, entries>> /\ pc = "walk"
    BY <1>6 DEF CountWalkError, envVars, handVars, tallyVars
  <2>2. TreeInv' /\ SteadyInv' /\ \A p \in Paths : Steady(p)' <=> Steady(p)
    BY <2>1, QuietEnv DEF AbsenceInv
  <2>3. /\ \A p \in Paths : ~RootIsClean(RootOf[p]) => ~RootIsClean(RootOf[p])'
        /\ stats'[root].errors > 0
    <3> DEFINE s == WalkErrorCounted(stats[root])
    <3>1. s \in Stats /\ s.errors = stats[root].errors + 1 /\ s.truncated = stats[root].truncated
      BY <1>d, <2>1, StatsSteps
    <3>2. stats' = [stats EXCEPT ![root] = s] BY <1>6 DEF CountWalkError
    <3> HIDE DEF s
    <3>3. s.errors >= stats[root].errors /\ s.errors > 0 BY <1>d, <2>1, <3>1 DEF Stats
    <3>4. stats'[root] = s BY <1>d, <2>1, <3>2 DEF AbsenceInv, TypeInv, TypeOK
    <3> QED BY <1>d, <2>1, <3>1, <3>2, <3>3, <3>4, UncleanStays
  <2>4. DirsInv' BY <2>1, <2>2, TreeFacts DEF AbsenceInv, DirsInv, TypeInv, TypeOK
  <2>5. CoverInv'
    <3> SUFFICES ASSUME NEW p \in Paths, Steady(p) PROVE Covered(p)'
      BY <2>2 DEF CoverInv
    <3>1. Covered(p) BY DEF AbsenceInv, CoverInv
    <3>2. CASE RootOf[p] = root BY <2>1, <2>3, <3>2 DEF Covered, RootIsClean
    <3>3. CASE RootOf[p] # root BY <2>1, <2>3, <3>1, <3>3 DEF Covered
    <3> QED BY <3>2, <3>3
  <2> QED BY <1>a, <2>2, <2>4, <2>5 DEF AbsenceInv
<1>7. ASSUME NEW v \in Paths, VisitEntry(v) PROVE AbsenceInv' BY <1>a, <1>7, VisitAbsence
<1>8. CASE StatFails
  <2>1. UNCHANGED <<fs, held, root, pending, dirs, walkErrs, entries>>
        /\ pc = "stat" /\ pc' = "walk"
    BY <1>8 DEF StatFails, envVars, walkVars, tallyVars
  <2>2. TreeInv' /\ SteadyInv' /\ \A p \in Paths : Steady(p)' <=> Steady(p)
    BY <2>1, QuietEnv DEF AbsenceInv
  <2>3. root \in 1..NRoots /\ stats[root] \in Stats BY <1>d, <2>1 DEF InHand
  <2>4. /\ \A p \in Paths : ~RootIsClean(RootOf[p]) => ~RootIsClean(RootOf[p])'
        /\ stats'[root].errors > 0
    <3> DEFINE s == [stats[root] EXCEPT !.errors = @ + 1]
    <3>1. s \in Stats /\ s.errors >= stats[root].errors /\ s.errors > 0
          /\ s.truncated = stats[root].truncated
      BY <2>3 DEF Stats
    <3>2. stats' = [stats EXCEPT ![root] = s]
      BY <1>8, <2>3 DEF StatFails, AbsenceInv, TypeInv, TypeOK
    <3> HIDE DEF s
    <3>3. stats'[root] = s BY <2>3, <3>2 DEF AbsenceInv, TypeInv, TypeOK
    <3> QED BY <2>3, <3>1, <3>2, <3>3, UncleanStays
  <2>5. DirsInv' BY <2>1, <2>2, TreeFacts DEF AbsenceInv, DirsInv, TypeInv, TypeOK
  <2>6. CoverInv'
    <3> SUFFICES ASSUME NEW p \in Paths, Steady(p) PROVE Covered(p)'
      BY <2>2 DEF CoverInv
    <3>1. Covered(p) BY DEF AbsenceInv, CoverInv
    <3>2. CASE RootOf[p] = root BY <2>1, <2>4, <3>2 DEF Covered, RootIsClean
    <3>3. CASE RootOf[p] # root BY <2>1, <2>4, <3>1, <3>3 DEF Covered
    <3> QED BY <3>2, <3>3
  <2> QED BY <1>a, <2>2, <2>5, <2>6 DEF AbsenceInv
<1>9. CASE StatKeeps
  <2>1. pc \in InHand /\ fs[cur] \in Nodes
    BY <1>9 DEF StatKeeps, AbsenceInv, TypeInv, TypeOK, HandOK, Kind, InHand
  <2>2. HashDecision(cur, fs[cur]) \in HashStates BY DEF HashDecision, HashStates
  <2> QED BY <1>a, <1>9, <2>1, <2>2, RetainAbsence DEF StatKeeps
<1>10. CASE StatGoesOn \/ Opens
  <2>1. UNCHANGED <<fs, held, root, pending, dirs, walkErrs, cur, entries, stats>>
        /\ pc \in InHand /\ pc' \in InHand
    BY <1>10
    DEF StatGoesOn, Opens, OpenContent, OpenWaits, WaitEnds, Waits, envVars, walkVars, handVars,
        tallyVars, InHand
  <2>2. TreeInv' /\ SteadyInv' /\ \A p \in Paths : Steady(p)' <=> Steady(p)
    BY <2>1, QuietEnv DEF AbsenceInv
  <2>3. DirsInv' BY <2>1, <2>2, TreeFacts DEF AbsenceInv, DirsInv, TypeInv, TypeOK
  <2>4. CoverInv'
    BY <2>1, <2>2 DEF AbsenceInv, CoverInv, Covered, OnTheWay, RootIsClean, InHand
  <2> QED BY <1>a, <2>2, <2>3, <2>4 DEF AbsenceInv
<1>11. CASE ReadLink
  <2>1. PICK target \in (IF Kind(fs[cur]) = "symlink" THEN {fs[cur].data} ELSE {None})
                          \cup (IF IoFaults THEN {None} ELSE {}) :
          Retain(meta, target, None, "not_regular_file")
    BY <1>11 DEF ReadLink
  <2>2. fs[cur] \in Nodes \cup {None}
    BY <1>11 DEF ReadLink, AbsenceInv, TypeInv, TypeOK, HandOK, InHand
  <2>3. target \in Data \cup {None}
    BY <2>1, <2>2, ValueAssumption DEF Kind, ValueAssumption
  <2> QED BY <1>a, <1>e, <1>11, <2>1, <2>3, RetainAbsence DEF ReadLink, HashStates, InHand
<1>12. CASE OpenFails
  BY <1>a, <1>e, <1>12, RetainAbsence DEF OpenFails, HashStates, InHand
<1>13. CASE FinishRead
  <2>1. PICK r \in Reads :
          IF ReadIsWhole(r) THEN Retain(meta, None, r.digest, "hashed")
                            ELSE Retain(meta, None, None, "changed_during_read")
    BY <1>13 DEF FinishRead
  <2>2. r.digest \in Data \cup {Torn, None}
    BY <1>13, <2>1 DEF FinishRead, Reads, AbsenceInv, TypeInv, HandOK
  <2> QED BY <1>a, <1>e, <1>13, <2>1, <2>2, RetainAbsence DEF FinishRead, HashStates, InHand
<1>14. CASE ReadFails
  BY <1>a, <1>e, <1>14, RetainAbsence DEF ReadFails, HashStates, InHand
<1>15. CASE Finish
  <2>1. UNCHANGED <<fs, held, root, pending, dirs, entries, stats>>
        /\ pc = "roots" /\ pc' = "done" /\ root > NRoots
    BY <1>15 DEF Finish, envVars, walkVars, tallyVars
  <2>2. TreeInv' /\ SteadyInv' /\ \A p \in Paths : Steady(p)' <=> Steady(p)
    BY <2>1, QuietEnv DEF AbsenceInv
  <2>3. DirsInv' BY <2>1, <2>2, TreeFacts DEF AbsenceInv, DirsInv, TypeInv, TypeOK
  <2>4. CoverInv'
    BY <2>1, <2>2, <1>b, <1>c DEF AbsenceInv, CoverInv, Covered, RootIsClean, InHand
  <2> QED BY <1>a, <2>2, <2>3, <2>4 DEF AbsenceInv
<1>16. CASE FlagRises \/ UNCHANGED vars
  <2>1. UNCHANGED <<fs, held, pc, root, pending, dirs, walkErrs, cur, entries, stats>>
    BY <1>16 DEF FlagRises, vars, envVars, captureVars, walkVars, handVars, tallyVars
  <2>2. TreeInv' /\ SteadyInv' /\ \A p \in Paths : Steady(p)' <=> Steady(p)
    BY <2>1, QuietEnv DEF AbsenceInv
  <2>3. DirsInv' BY <2>1, <2>2, TreeFacts DEF AbsenceInv, DirsInv, TypeInv, TypeOK
  <2>4. CoverInv'
    BY <2>1, <2>2 DEF AbsenceInv, CoverInv, Covered, OnTheWay, RootIsClean
  <2> QED BY <1>a, <2>2, <2>3, <2>4 DEF AbsenceInv
<1>17. CASE Change BY <1>17, AlterAbsence
<1> QED
  BY <1>1, <1>2, <1>3, <1>4, <1>5, <1>6, <1>7, <1>8, <1>9, <1>10, <1>11, <1>12, <1>13,
     <1>14, <1>15, <1>16, <1>17 DEF Move, CaptureStep, Opens

\* A path missing from a finished capture was absent at some moment of it, or its root
\* records an error or a truncation: for every tree, limit, interruption and fault.
THEOREM MissingEntryIsEvidence == Spec => []AbsenceIsEvidence
<1>1. Init => AbsenceInv BY InitAbsence
<1>2. AbsenceInv /\ [Next]_vars => AbsenceInv' BY AbsenceStep, NextMoves
<1>3. AbsenceInv => AbsenceIsEvidence
  <2> SUFFICES ASSUME AbsenceInv, pc = "done", NEW p \in Paths, entries[p] = None, Steady(p)
               PROVE  ~RootIsClean(RootOf[p])
    BY DEF AbsenceIsEvidence
  <2>1. Covered(p) BY DEF AbsenceInv, CoverInv
  <2>2. RootOf[p] \in 1..NRoots BY TreeAssumption DEF TreeAssumption
  <2>3. root > NRoots /\ root \in Nat /\ NRoots \in Nat
    BY Bounds DEF AbsenceInv, TypeInv, TypeOK, HandOK
  <2> QED BY <2>1, <2>2, <2>3 DEF Covered, InHand
<1> QED BY <1>1, <1>2, <1>3, PTL DEF Spec

-----------------------------------------------------------------------------
(* A truncation has a cause.                                               *)

Cause == interrupted \/ retainedTotal = MaxEntries

CauseInv ==
    /\ TypeInv
    /\ globalTruncated => Cause
    /\ \A r \in 1..NRoots : stats[r].truncated => Cause

\* A step that keeps the cause and truncates no root without one preserves CauseInv.
LEMMA CauseKept ==
    ASSUME CauseInv, TypeInv', Cause => Cause', globalTruncated' => globalTruncated \/ Cause',
           \A r \in 1..NRoots : stats'[r].truncated => stats[r].truncated \/ Cause'
    PROVE  CauseInv'
BY DEF CauseInv, Cause

\* Counting in the root at hand without marking it truncates no root.
LEMMA CountTruncatesNothing ==
    ASSUME TypeInv, root \in 1..NRoots, NEW s, stats' = [stats EXCEPT ![root] = s],
           s.truncated = stats[root].truncated
    PROVE  \A r \in 1..NRoots : stats'[r].truncated => stats[r].truncated
BY DEF TypeInv, TypeOK

\* Keeping an entry uses the limit up at most, it never passes it.
LEMMA RetainCause ==
    ASSUME CauseInv, TypeInv', pc \in InHand, NEW n \in Nodes, NEW target, NEW digest,
           NEW hash \in HashStates, Retain(n, target, digest, hash)
    PROVE  CauseInv'
<1>1. root \in 1..NRoots /\ stats[root] \in Stats
  BY Bounds DEF CauseInv, TypeInv, TypeOK, HandOK, InHand
<1>2. Cause => Cause'
  <2>1. retainedTotal < MaxEntries /\ interrupted' = interrupted
    BY DEF CauseInv, TypeInv, HandOK, Retain, envVars
  <2> QED BY <2>1, Bounds DEF Cause, CauseInv, TypeInv, TypeOK
<1>3. CountEntry(stats[root], n, hash).truncated = stats[root].truncated
  BY <1>1, StatsSteps, Zenon
<1>4. \A r \in 1..NRoots : stats'[r].truncated => stats[r].truncated
  BY <1>1, <1>3, CountTruncatesNothing DEF Retain, CauseInv
<1> QED BY <1>2, <1>4, CauseKept DEF Retain

\* Leaving the walk marks the root, with the cause at hand.
LEMMA BreakCause ==
    ASSUME CauseInv, TypeInv', NEW counted, BreakWalk(counted), Cause
    PROVE  CauseInv'
BY DEF BreakWalk, CauseInv, Cause, envVars, tallyVars

LEMMA CauseStep == CauseInv /\ Move => CauseInv'
<1> SUFFICES ASSUME CauseInv, Move PROVE CauseInv' OBVIOUS
<1>a. TypeInv' BY TypeStep DEF CauseInv
<1>b. pc \in {"walk"} \cup InHand => root \in 1..NRoots /\ stats[root] \in Stats
  BY Bounds DEF CauseInv, TypeInv, TypeOK, HandOK
<1>c. pc \in {"readlink", "open", "waiting", "hash"} => meta \in Nodes
  BY DEF CauseInv, TypeInv, HandOK
<1>1. CASE SkipRoot
  <2>1. Cause /\ Cause' BY <1>1 DEF SkipRoot, CauseInv, Cause, envVars, tallyVars
  <2> QED BY <1>a, <2>1, CauseKept
<1>2. CASE \/ OpenRoot \/ CloseRoot \/ StatGoesOn \/ Opens \/ Finish \/ Change
            \/ UNCHANGED vars
  <2>1. UNCHANGED <<interrupted, retainedTotal, stats, globalTruncated>>
    BY <1>2
    DEF OpenRoot, CloseRoot, StatGoesOn, Opens, OpenContent, OpenWaits, WaitEnds, Finish, Change,
        envVars, tallyVars, vars, captureVars
  <2> QED BY <1>a, <2>1 DEF CauseInv, Cause
<1>3. CASE StopOnInterrupt
  BY <1>a, <1>3, BreakCause DEF StopOnInterrupt, Cause
<1>4. CASE StopOnLimit
  <2>1. Cause BY <1>4, Bounds DEF StopOnLimit, AtEntryLimit, Cause, CauseInv, TypeInv, TypeOK
  <2> QED BY <1>a, <1>4, <2>1, BreakCause DEF StopOnLimit
<1>5. CASE CountWalkError
  <2>1. WalkErrorCounted(stats[root]).truncated = stats[root].truncated
    BY <1>5, <1>b, StatsSteps DEF CountWalkError
  <2>2. \A r \in 1..NRoots : stats'[r].truncated => stats[r].truncated
    BY <1>5, <1>b, <2>1, CountTruncatesNothing DEF CountWalkError, CauseInv
  <2> QED BY <1>a, <1>5, <2>2 DEF CountWalkError, CauseInv, Cause, envVars, tallyVars
<1>6. ASSUME NEW v \in Paths, VisitEntry(v) PROVE CauseInv'
  <2>1. root \in 1..NRoots /\ stats[root] \in Stats BY <1>6, <1>b DEF VisitEntry
  <2>2. \A r \in 1..NRoots : stats'[r].truncated => stats[r].truncated
    BY <1>6, <2>1 DEF VisitEntry, CauseInv, TypeInv, TypeOK, Stats
  <2> QED BY <1>a, <1>6, <2>2 DEF VisitEntry, CauseInv, Cause, envVars, tallyVars
<1>7. CASE StatFails
  <2>1. root \in 1..NRoots /\ stats[root] \in Stats BY <1>7, <1>b DEF StatFails, InHand
  <2>2. \A r \in 1..NRoots : stats'[r].truncated => stats[r].truncated
    BY <1>7, <2>1 DEF StatFails, CauseInv, TypeInv, TypeOK, Stats
  <2> QED BY <1>a, <1>7, <2>2 DEF StatFails, CauseInv, Cause, envVars, tallyVars
<1>8. CASE StatKeeps
  <2>1. pc \in InHand /\ fs[cur] \in Nodes
    BY <1>8 DEF StatKeeps, CauseInv, TypeInv, TypeOK, HandOK, Kind, InHand
  <2>2. HashDecision(cur, fs[cur]) \in HashStates BY DEF HashDecision, HashStates
  <2> QED BY <1>a, <1>8, <2>1, <2>2, RetainCause DEF StatKeeps
<1>9. CASE ReadLink
  BY <1>a, <1>c, <1>9, RetainCause DEF ReadLink, HashStates, InHand
<1>10. CASE OpenFails \/ ReadFails
  BY <1>a, <1>c, <1>10, RetainCause DEF OpenFails, ReadFails, HashStates, InHand
<1>11. CASE FinishRead
  BY <1>a, <1>c, <1>11, RetainCause DEF FinishRead, HashStates, InHand
<1>12. CASE FlagRises
  BY <1>a, <1>12 DEF FlagRises, CauseInv, Cause, captureVars, tallyVars
<1> QED
  BY <1>1, <1>2, <1>3, <1>4, <1>5, <1>6, <1>7, <1>8, <1>9, <1>10, <1>11, <1>12
  DEF Move, CaptureStep, Opens

\* No capture is truncated except by an interruption or with its entry limit used up.
THEOREM TruncationCaused == Spec => []TruncationHasCause
<1>1. Init => CauseInv
  <2> SUFFICES ASSUME Init PROVE CauseInv OBVIOUS
  <2>1. Fresh BY DEF Init
  <2>2. ~globalTruncated /\ \A r \in 1..NRoots : ~stats[r].truncated
    BY <2>1 DEF Fresh, ZeroStats
  <2> QED BY <2>2, InitType DEF CauseInv
<1>2. CauseInv /\ [Next]_vars => CauseInv' BY CauseStep, NextMoves
<1>3. CauseInv => TruncationHasCause BY DEF CauseInv, TruncationHasCause, Cause
<1> QED BY <1>1, <1>2, <1>3, PTL DEF Spec

-----------------------------------------------------------------------------
(* What an entry says.                                                     *)

\* Kind, stamp and size of an entry are those of a node.
FromNode(e, n) == e.kind = n.kind /\ e.stamp = n.stamp /\ e.size = NodeSize(n)

\* Nothing happened to the node while its entry was read.
Exact(e, n) ==
    /\ e.hash # "changed_during_read"
    /\ e.hash = "hashed" => e.digest = n.data
    /\ e.hash = "read_error" => IoFaults
    /\ e.kind = "symlink" => e.target = n.data \/ IoFaults

\* Only a file is hashed, only a hashed one has a digest, only a symlink has a target.
Shape(e) ==
    /\ e.hash # "hashed" => e.digest = None
    /\ e.kind # "symlink" => e.target = None
    /\ e.kind # "file" => e.hash = "not_regular_file"

EntryOK(p) ==
    /\ \E n \in held[p] : n # None /\ FromNode(entries[p], n)
    /\ Shape(entries[p])
    /\ Quiet(p) => Exact(entries[p], fs[p])

\* What the steps of the entry in hand know of the path.
HandInv ==
    /\ pc \in {"readlink", "open", "waiting", "hash"} =>
         meta \in held[cur] /\ (Quiet(cur) => meta = fs[cur])
    /\ pc = "readlink" => meta.kind = "symlink"
    /\ pc \in {"open", "waiting", "hash"} => NodeSize(meta) <= MaxFileHash
    /\ pc = "waiting" => ~Quiet(cur)
    /\ pc = "hash" /\ Quiet(cur) => ~buf.torn /\ buf.data = meta.data

EntryInv ==
    /\ TypeInv /\ HandInv
    /\ \A p \in Paths : fs[p] \in held[p]
    /\ \A p \in Paths : entries[p] # None => EntryOK(p)

\* The fields of an entry state.
LEMMA EntryStateFields ==
    ASSUME NEW n, NEW target, NEW digest, NEW hash
    PROVE  LET e == EntryState(n, target, digest, hash) IN
           /\ FromNode(e, n)
           /\ e.target = target /\ e.digest = digest /\ e.hash = hash /\ e.kind = n.kind
BY DEF EntryState, FromNode

\* Keeping an entry with a source, of the right shape, and exact if nothing happened.
LEMMA RetainEntry ==
    ASSUME EntryInv, TypeInv', pc \in InHand, NEW n \in Nodes, n \in held[cur],
           NEW target, NEW digest, NEW hash, Retain(n, target, digest, hash),
           Shape(EntryState(n, target, digest, hash)),
           Quiet(cur) => Exact(EntryState(n, target, digest, hash), fs[cur])
    PROVE  EntryInv'
<1> DEFINE e == EntryState(n, target, digest, hash)
<1>1. /\ UNCHANGED <<fs, held>> /\ pc' = "walk" /\ cur \in Paths
      /\ entries' = [entries EXCEPT ![cur] = e]
  BY DEF Retain, envVars, EntryInv, TypeInv, HandOK
<1>2. n # None BY ValueAssumption DEF ValueAssumption
<1>3. FromNode(e, n) BY EntryStateFields
<1>4. HandInv' BY <1>1 DEF HandInv
<1> HIDE DEF e
<1>5. entries'[cur] = e /\ \A p \in Paths : p # cur => entries'[p] = entries[p]
  BY <1>1 DEF EntryInv, TypeInv, TypeOK
<1>6. ASSUME NEW p \in Paths, entries'[p] # None PROVE EntryOK(p)'
  <2>1. CASE p = cur BY <1>1, <1>2, <1>3, <1>5, <2>1 DEF EntryOK, Quiet, e
  <2>2. CASE p # cur BY <1>1, <1>5, <1>6, <2>2 DEF EntryOK, Quiet, EntryInv
  <2> QED BY <2>1, <2>2
<1> QED BY <1>1, <1>4, <1>6 DEF EntryInv

LEMMA EntryStep == EntryInv /\ Move => EntryInv'
<1> SUFFICES ASSUME EntryInv, Move PROVE EntryInv' OBVIOUS
<1>a. TypeInv' BY TypeStep DEF EntryInv
<1>b. pc \in InHand => cur \in Paths BY DEF EntryInv, TypeInv, HandOK
<1>c. None \notin Nodes BY ValueAssumption DEF ValueAssumption
\* Steps that touch neither the file system nor the entries nor the entry in hand.
<1>d. ASSUME UNCHANGED <<fs, held, entries>>, HandInv' PROVE EntryInv'
  BY <1>a, <1>d DEF EntryInv, EntryOK, Quiet
<1>1. CASE SkipRoot \/ OpenRoot \/ CloseRoot \/ CountWalkError \/ Finish \/ StatFails
            \/ StopOnInterrupt \/ StopOnLimit \/ \E p \in Paths : VisitEntry(p)
  <2>1. UNCHANGED <<fs, held, entries>> /\ pc' \notin {"readlink", "open", "waiting", "hash"}
    BY <1>1 DEF SkipRoot, OpenRoot, CloseRoot, CountWalkError, Finish, StatFails, StopOnInterrupt,
                StopOnLimit, BreakWalk, VisitEntry, envVars, tallyVars
  <2>2. HandInv' BY <2>1 DEF HandInv
  <2> QED BY <1>d, <2>1, <2>2
<1>2. CASE StatKeeps
  <2> DEFINE h == HashDecision(cur, fs[cur])
  <2>1. /\ pc \in InHand /\ fs[cur] \in Nodes /\ fs[cur] \in held[cur]
        /\ fs[cur].kind # "symlink" /\ h # "hashed" /\ Retain(fs[cur], None, None, h)
    BY <1>2, <1>b DEF StatKeeps, EntryInv, TypeInv, TypeOK, Kind, InHand
  <2>2. /\ h \in {"not_regular_file", "skipped_sensitive_path", "skipped_file_too_large",
                  "skipped_total_budget", "hashed"}
        /\ fs[cur].kind # "file" => h = "not_regular_file"
    BY DEF HashDecision
  <2> HIDE DEF h
  <2>3. Shape(EntryState(fs[cur], None, None, h))
    BY <2>1, <2>2, EntryStateFields DEF Shape
  <2>4. Exact(EntryState(fs[cur], None, None, h), fs[cur])
    BY <2>1, <2>2, EntryStateFields DEF Exact
  <2> QED BY <1>a, <2>1, <2>3, <2>4, RetainEntry
<1>3. CASE StatGoesOn
  <2>1. /\ pc = "stat" /\ fs[cur] \in Nodes /\ meta' = fs[cur] /\ cur' = cur
        /\ pc' = IF fs[cur].kind = "symlink" THEN "readlink" ELSE "open"
        /\ fs[cur].kind # "symlink" => HashDecision(cur, fs[cur]) = "hashed"
        /\ UNCHANGED <<fs, held, entries>>
    BY <1>3, <1>b, <1>c DEF StatGoesOn, EntryInv, TypeInv, TypeOK, Kind, InHand, envVars, tallyVars
  <2>2. fs[cur].kind # "symlink" => NodeSize(fs[cur]) <= MaxFileHash
    <3>1. NodeSize(fs[cur]) \in Nat /\ MaxFileHash \in Nat
      BY <2>1, ValueAssumption DEF ValueAssumption, NodeSize
    <3> QED BY <2>1, <3>1 DEF HashDecision
  <2>3. HandInv' BY <1>b, <2>1, <2>2 DEF HandInv, Quiet, EntryInv, InHand
  <2> QED BY <1>d, <2>1, <2>3
<1>4. CASE ReadLink
  <2>1. PICK target \in (IF Kind(fs[cur]) = "symlink" THEN {fs[cur].data} ELSE {None})
                          \cup (IF IoFaults THEN {None} ELSE {}) :
          Retain(meta, target, None, "not_regular_file")
    BY <1>4 DEF ReadLink
  <2>2. /\ pc \in InHand /\ meta \in Nodes /\ meta \in held[cur] /\ meta.kind = "symlink"
        /\ Quiet(cur) => meta = fs[cur]
    BY <1>4 DEF ReadLink, EntryInv, TypeInv, HandOK, HandInv, InHand
  <2>3. Shape(EntryState(meta, target, None, "not_regular_file"))
    BY <2>2, EntryStateFields DEF Shape
  <2>4. Quiet(cur) => Exact(EntryState(meta, target, None, "not_regular_file"), fs[cur])
    <3>1. Quiet(cur) => Kind(fs[cur]) = "symlink" BY <1>c, <2>2 DEF Kind
    <3>2. Quiet(cur) => target = fs[cur].data \/ IoFaults
      BY <2>1, <3>1, ValueAssumption DEF ValueAssumption
    <3> QED BY <2>2, <3>2, EntryStateFields DEF Exact
  <2> QED BY <1>a, <2>1, <2>2, <2>3, <2>4, RetainEntry
<1>5. CASE OpenContent
  <2>1. /\ pc = "open" /\ pc' = "hash" /\ UNCHANGED <<fs, held, entries, cur, meta>>
        /\ buf' = [data |-> fs[cur].data, torn |-> fs[cur].kind # "file"]
    BY <1>5 DEF OpenContent, envVars, tallyVars
  <2>2. meta.kind = "file" BY <2>1 DEF EntryInv, TypeInv, HandOK
  <2>3. HandInv' BY <2>1, <2>2 DEF EntryInv, HandInv, Quiet
  <2> QED BY <1>d, <2>1, <2>3
<1>10. CASE OpenWaits
  <2>1. /\ pc = "open" /\ pc' = "waiting" /\ UNCHANGED <<fs, held, entries, cur, meta>>
        /\ Kind(fs[cur]) \in {"symlink", "other"}
    BY <1>10 DEF OpenWaits, envVars, tallyVars, handVars
  <2>2. meta.kind = "file" /\ meta \in Nodes BY <2>1 DEF EntryInv, TypeInv, HandOK
  <2>3. ~Quiet(cur) BY <1>c, <2>1, <2>2 DEF EntryInv, HandInv, Kind
  <2>4. HandInv' BY <2>1, <2>3 DEF EntryInv, HandInv, Quiet
  <2> QED BY <1>d, <2>1, <2>4
<1>11. CASE WaitEnds
  <2>1. /\ pc = "waiting" /\ pc' = "hash" /\ UNCHANGED <<fs, held, entries, cur, meta>>
    BY <1>11 DEF WaitEnds, Waits, envVars, tallyVars
  <2>2. HandInv' BY <2>1 DEF EntryInv, HandInv, Quiet
  <2> QED BY <1>d, <2>1, <2>2
<1>6. CASE OpenFails \/ ReadFails
  <2>1. /\ pc \in {"open", "waiting", "hash"} /\ Retain(meta, None, None, "read_error")
        /\ IoFaults \/ Kind(fs[cur]) # "file"
    BY <1>6 DEF OpenFails, ReadFails
  <2>2. /\ pc \in InHand /\ meta \in Nodes /\ meta \in held[cur] /\ meta.kind = "file"
        /\ Quiet(cur) => meta = fs[cur]
    BY <2>1 DEF EntryInv, TypeInv, HandOK, HandInv, InHand
  <2>3. Shape(EntryState(meta, None, None, "read_error"))
    BY <2>2, EntryStateFields DEF Shape
  <2>4. Quiet(cur) => Exact(EntryState(meta, None, None, "read_error"), fs[cur])
    <3>1. Quiet(cur) => IoFaults BY <1>c, <2>1, <2>2 DEF Kind
    <3> QED BY <2>2, <3>1, EntryStateFields DEF Exact
  <2> QED BY <1>a, <2>1, <2>2, <2>3, <2>4, RetainEntry
<1>7. CASE FinishRead
  <2>1. PICK r \in Reads :
          IF ReadIsWhole(r) THEN Retain(meta, None, r.digest, "hashed")
                            ELSE Retain(meta, None, None, "changed_during_read")
    BY <1>7 DEF FinishRead
  <2>2. /\ pc \in InHand /\ meta \in Nodes /\ meta \in held[cur] /\ meta.kind = "file"
        /\ NodeSize(meta) <= MaxFileHash
        /\ Quiet(cur) => meta = fs[cur] /\ ~buf.torn /\ buf.data = meta.data
    BY <1>7 DEF FinishRead, EntryInv, TypeInv, HandOK, HandInv, InHand
  <2>3. Quiet(cur) => r.size = NodeSize(meta) /\ r.digest = meta.data
    BY <2>1, <2>2 DEF Reads, NodeSize
  <2>4. CASE ReadIsWhole(r)
    <3>1. Shape(EntryState(meta, None, r.digest, "hashed"))
      BY <2>2, EntryStateFields DEF Shape
    <3>2. Quiet(cur) => Exact(EntryState(meta, None, r.digest, "hashed"), fs[cur])
      BY <2>2, <2>3, EntryStateFields DEF Exact
    <3> QED BY <1>a, <2>1, <2>2, <2>4, <3>1, <3>2, RetainEntry
  <2>5. CASE ~ReadIsWhole(r)
    <3>1. Shape(EntryState(meta, None, None, "changed_during_read"))
      BY <2>2, EntryStateFields DEF Shape
    <3>2. ~Quiet(cur) BY <2>2, <2>3, <2>5 DEF ReadIsWhole
    <3> QED BY <1>a, <2>1, <2>2, <2>5, <3>1, <3>2, RetainEntry
  <2> QED BY <2>4, <2>5
<1>8. CASE Change
  <2>1. PICK x \in Paths, n \in Nodes \cup {None} : Alter(x, n) BY <1>8 DEF Change
  <2>2. UNCHANGED <<pc, cur, meta, entries>> BY <1>8 DEF Change, tallyVars
  <2>3. \A q \in Paths : held'[q] = held[q] \cup {fs'[q]} BY <2>1 DEF Alter
  <2>4. \A q \in Paths : Quiet(q)' => Quiet(q) /\ fs'[q] = fs[q]
    BY <2>3 DEF Quiet, EntryInv
  <2>5. fs'[x] # fs[x] BY <2>1 DEF Alter
  <2>6. HandInv'
    <3>1. ASSUME pc = "hash", Quiet(cur)' PROVE buf' = buf
      <4>1. cur \in Paths BY <1>b, <3>1 DEF InHand
      <4>2. fs'[cur] = fs[cur] BY <2>2, <2>4, <3>1, <4>1
      <4>3. cur # x BY <2>5, <4>2
      <4> QED BY <2>1, <4>3 DEF Alter
    <3> QED BY <1>b, <2>2, <2>3, <2>4, <3>1 DEF HandInv, EntryInv, InHand
  <2>7. ASSUME NEW p \in Paths, entries'[p] # None PROVE EntryOK(p)'
    BY <2>2, <2>3, <2>4, <2>7 DEF EntryOK, EntryInv
  <2> QED BY <1>a, <2>3, <2>6, <2>7 DEF EntryInv
<1>9. CASE FlagRises \/ UNCHANGED vars
  <2>1. UNCHANGED <<fs, held, entries, pc, cur, meta, buf>>
    BY <1>9 DEF FlagRises, vars, envVars, captureVars, handVars, tallyVars
  <2>2. HandInv' BY <2>1 DEF HandInv, Quiet, EntryInv
  <2> QED BY <1>d, <2>1, <2>2
<1> QED
  BY <1>1, <1>2, <1>3, <1>4, <1>5, <1>6, <1>7, <1>8, <1>9, <1>10, <1>11
  DEF Move, CaptureStep, Opens

LEMMA InitEntry == Init => EntryInv
<1> SUFFICES ASSUME Init PROVE EntryInv OBVIOUS
<1>1. TypeInv BY InitType
<1>2. /\ pc = "roots" /\ \A p \in Paths : held[p] = {fs[p]} /\ entries[p] = None
  BY DEF Init, Fresh
<1> QED BY <1>1, <1>2 DEF EntryInv, HandInv

\* The entry of a path nobody touched states exactly what the path holds, for every tree,
\* every limit and every interleaving of changes elsewhere.
THEOREM QuietEntryExact == Spec => []QuietEntryIsExact
<1>1. EntryInv /\ [Next]_vars => EntryInv' BY EntryStep, NextMoves
<1>2. EntryInv => QuietEntryIsExact
  <2> SUFFICES ASSUME EntryInv, NEW p \in Retained, Quiet(p)
               PROVE  /\ fs[p] # None /\ FromNode(entries[p], fs[p]) /\ Exact(entries[p], fs[p])
    BY DEF QuietEntryIsExact, FromNode, Exact
  <2>1. EntryOK(p) BY DEF EntryInv, Retained
  <2> QED BY <2>1 DEF EntryOK, Quiet
<1> QED BY <1>1, <1>2, InitEntry, PTL DEF Spec

\* A capture waits only at a path that was changed during it: a named pipe that was there
\* when the capture began is never opened.
THEOREM WaitsOnlyAtChangedPaths == Spec => [](Waits => ~Quiet(cur))
<1>1. EntryInv /\ [Next]_vars => EntryInv' BY EntryStep, NextMoves
<1>2. EntryInv => (Waits => ~Quiet(cur)) BY DEF EntryInv, HandInv, Waits
<1> QED BY <1>1, <1>2, InitEntry, PTL DEF Spec

-----------------------------------------------------------------------------
(* Truncation loses a tail.                                                *)

Walking == {"walk"} \cup InHand

\* A truncated root was left for good, and all roots after it are skipped.
MarkInv ==
    /\ pc \in Walking => \A r \in 1..NRoots : ~stats[r].truncated
    /\ \A r \in 1..NRoots : stats[r].truncated =>
         /\ globalTruncated \/ interrupted
         /\ r < root
         /\ \A s \in 1..NRoots : r < s /\ s < root => stats[s].truncated
         /\ \A p \in Retained : RootOf[p] <= r

\* What was kept, what is pending and what is in hand belongs to the root at hand, or was
\* kept in a root before it.
PlaceInv ==
    /\ \A p \in Retained : RootOf[p] < root \/ (RootOf[p] = root /\ pc \in Walking)
    /\ \A d \in pending : RootOf[d] = root
    /\ pc \in InHand => RootOf[cur] = root

\* No steady path before q is missing from its root, unless an error was counted there.
NoneMissingBefore(q) ==
    \A p \in Paths : p < q /\ RootOf[p] = RootOf[q] /\ Steady(p) /\ stats[RootOf[p]].errors = 0
                       => p \in Retained

OrderInv ==
    /\ \A q \in Retained : NoneMissingBefore(q)
    /\ pc \in InHand => NoneMissingBefore(cur)

TailInv == AbsenceInv /\ MarkInv /\ PlaceInv /\ OrderInv

LEMMA RootFacts ==
    /\ \A p \in Paths : RootOf[p] \in 1..NRoots
    /\ NRoots \in Nat \ {0} /\ Paths \subseteq Nat
    /\ TailInv => /\ root \in 1..(NRoots + 1)
                  /\ pc \in Walking => root \in 1..NRoots
                  /\ pc \in InHand => cur \in Paths
                  /\ \A r \in 1..NRoots : stats[r] \in Stats
<1>1. \A p \in Paths : RootOf[p] \in 1..NRoots BY TreeAssumption DEF TreeAssumption
<1>2. Paths \subseteq Nat BY TreeAssumption DEF TreeAssumption
<1>3. ASSUME TailInv
      PROVE  /\ root \in 1..(NRoots + 1)
             /\ pc \in Walking => root \in 1..NRoots
             /\ pc \in InHand => cur \in Paths
             /\ \A r \in 1..NRoots : stats[r] \in Stats
  BY <1>3, Bounds DEF TailInv, AbsenceInv, TypeInv, TypeOK, HandOK, Walking
<1> QED BY <1>1, <1>2, <1>3, Bounds

\* The next path the walk yields comes after everything it has lost.
LEMMA NextInOrder ==
    ASSUME TailInv, NEW v \in Paths, VisitEntry(v)
    PROVE  NoneMissingBefore(v)
<1> SUFFICES ASSUME NEW p \in Paths, p < v, RootOf[p] = RootOf[v], Steady(p),
                    stats[RootOf[p]].errors = 0
             PROVE  p \in Retained
  BY DEF NoneMissingBefore
<1>1. /\ pc = "walk" /\ walkErrs = 0 /\ v \in pending /\ \A q \in pending : v <= q
  BY DEF VisitEntry
<1>2. RootOf[p] = root /\ ~stats[RootOf[p]].truncated
  BY <1>1, RootFacts DEF TailInv, PlaceInv, MarkInv, Walking
<1>3. Covered(p) BY DEF TailInv, AbsenceInv, CoverInv
<1>4. entries[p] # None \/ OnTheWay(p)
  BY <1>1, <1>2, <1>3, RootFacts DEF Covered, RootIsClean
<1>5. ~OnTheWay(p)
  <2>1. p \notin pending BY <1>1, RootFacts
  <2>2. ASSUME NEW d \in pending, p \in Below[d] PROVE FALSE
    <3>1. d \in Paths BY DEF TailInv, AbsenceInv, TypeInv, TypeOK
    <3>2. v <= d /\ d < p BY <1>1, <2>2, <3>1, TreeFacts
    <3> QED BY <3>1, <3>2, RootFacts
  <2> QED BY <1>1, <2>1, <2>2 DEF OnTheWay, InHand
<1> QED BY <1>4, <1>5 DEF Retained

\* A step that keeps the entries and the root and marks no root.
LEMMA TailKept ==
    ASSUME TailInv, AbsenceInv', UNCHANGED <<entries, root>>,
           \A p \in Paths : Steady(p)' => Steady(p),
           \A r \in 1..NRoots : /\ stats'[r].truncated => stats[r].truncated
                                /\ stats[r].truncated => stats'[r].truncated
                                /\ stats'[r].errors = 0 => stats[r].errors = 0,
           globalTruncated \/ interrupted => globalTruncated' \/ interrupted',
           pc \in Walking => pc' \in Walking,
           pc' \in Walking => pc \in Walking \/ ~(globalTruncated \/ interrupted),
           \A d \in pending' : RootOf[d] = root,
           pc' \in InHand => RootOf[cur'] = root /\ cur' \in Paths /\ NoneMissingBefore(cur')
    PROVE  TailInv'
<1>1. Retained' = Retained BY DEF Retained
<1>2. \A q \in Paths : NoneMissingBefore(q) => NoneMissingBefore(q)'
  BY <1>1, RootFacts DEF NoneMissingBefore
<1>3. MarkInv'
  <2>1. ASSUME pc' \in Walking, NEW r \in 1..NRoots PROVE ~stats'[r].truncated
    BY <2>1 DEF TailInv, MarkInv
  <2>2. ASSUME NEW r \in 1..NRoots, stats'[r].truncated
        PROVE  /\ globalTruncated' \/ interrupted'
               /\ r < root
               /\ \A s \in 1..NRoots : r < s /\ s < root => stats'[s].truncated
               /\ \A p \in Retained : RootOf[p] <= r
    BY <2>2 DEF TailInv, MarkInv
  <2> QED BY <1>1, <2>1, <2>2 DEF MarkInv
<1>4. PlaceInv' BY <1>1 DEF TailInv, PlaceInv
<1>5. OrderInv'
  <2>1. \A q \in Retained : NoneMissingBefore(q)'
    BY <1>2 DEF TailInv, OrderInv, Retained
  <2>2. pc' \in InHand => NoneMissingBefore(cur)'
    <3> SUFFICES ASSUME pc' \in InHand PROVE NoneMissingBefore(cur)'
      OBVIOUS
    <3> QED BY <1>1, RootFacts DEF NoneMissingBefore
  <2> QED BY <1>1, <2>1, <2>2 DEF OrderInv
<1> QED BY <1>3, <1>4, <1>5 DEF TailInv

\* Keeping the entry in hand: nothing steady before it is missing.
LEMMA RetainTail ==
    ASSUME TailInv, AbsenceInv', pc \in InHand, NEW n \in Nodes,
           NEW target \in Data \cup {None}, NEW digest \in Data \cup {Torn, None},
           NEW hash \in HashStates, Retain(n, target, digest, hash)
    PROVE  TailInv'
<1>1. /\ UNCHANGED <<fs, held, interrupted, root, pending, globalTruncated>> /\ pc' = "walk"
      /\ cur \in Paths /\ root \in 1..NRoots
  BY RootFacts DEF Retain, envVars, walkVars, Walking
<1>2. Retained' \subseteq Retained \cup {cur} /\ Retained \subseteq Retained'
  <2>1. entries' = [entries EXCEPT ![cur] = EntryState(n, target, digest, hash)]
    BY DEF Retain
  <2>2. entries \in [Paths -> EntryStates \cup {None}] /\ entries' \in [Paths -> EntryStates \cup {None}]
    BY DEF TailInv, AbsenceInv, TypeInv, TypeOK
  <2>3. EntryState(n, target, digest, hash) # None BY EntryStateType
  <2> QED BY <1>1, <2>1, <2>2, <2>3 DEF Retained
<1>3. \A r \in 1..NRoots : /\ stats'[r].truncated => stats[r].truncated
                           /\ stats'[r].errors = 0 => stats[r].errors = 0
  <2> DEFINE s == CountEntry(stats[root], n, hash)
  <2>1. s.errors = stats[root].errors /\ s.truncated = stats[root].truncated
    <3>1. stats[root] \in Stats BY <1>1, RootFacts
    <3> QED BY <3>1, StatsSteps, Zenon
  <2>2. stats' = [stats EXCEPT ![root] = s] BY DEF Retain
  <2> HIDE DEF s
  <2> QED BY <1>1, <2>1, <2>2 DEF TailInv, AbsenceInv, TypeInv, TypeOK
<1>4. MarkInv' BY <1>1, <1>3 DEF TailInv, MarkInv, Walking
<1>5. PlaceInv' BY <1>1, <1>2 DEF TailInv, PlaceInv, Walking, InHand
<1>6. OrderInv'
  <2>1. \A q \in Retained \cup {cur} : NoneMissingBefore(q) BY DEF TailInv, OrderInv
  <2>2. ASSUME NEW q \in Retained \cup {cur} PROVE NoneMissingBefore(q)'
    <3> SUFFICES ASSUME NEW p \in Paths, p < q, RootOf[p] = RootOf[q], Steady(p),
                        stats'[RootOf[p]].errors = 0
                 PROVE  p \in Retained'
      BY <1>1 DEF NoneMissingBefore, Steady
    <3>1. stats[RootOf[p]].errors = 0 BY <1>3, RootFacts
    <3> QED BY <1>2, <2>1, <3>1 DEF NoneMissingBefore
  <2> QED BY <1>1, <1>2, <2>2 DEF OrderInv, InHand
<1> QED BY <1>4, <1>5, <1>6 DEF TailInv

\* Leaving a root for the next one, with a mark or without.
LEMMA RootLeft ==
    ASSUME TailInv, AbsenceInv', UNCHANGED <<entries, fs, held, interrupted>>, root \in 1..NRoots,
           root' = root + 1, pending' = {}, pc' = "roots",
           NEW marked \in BOOLEAN,
           \A r \in 1..NRoots : /\ r # root => stats'[r] = stats[r]
                                /\ stats'[r].errors = stats[r].errors,
           stats'[root].truncated => marked,
           globalTruncated => globalTruncated',
           marked => stats'[root].truncated /\ (globalTruncated' \/ interrupted'),
           ~marked => pc \in Walking
    PROVE  TailInv'
<1>1. Retained' = Retained /\ pc' \notin Walking
  BY DEF Retained, Walking, InHand
<1>2. ASSUME NEW p \in Retained PROVE RootOf[p] <= root
  <2>1. p \in Paths BY DEF Retained
  <2>2. RootOf[p] \in Nat /\ root \in Nat BY <2>1, RootFacts
  <2>3. RootOf[p] < root \/ RootOf[p] = root BY DEF TailInv, PlaceInv
  <2> QED BY <2>2, <2>3
<1>3. PlaceInv' BY <1>1, <1>2, RootFacts DEF PlaceInv, Walking, InHand, Retained
<1>4. MarkInv'
  <2> SUFFICES ASSUME NEW r \in 1..NRoots, stats'[r].truncated
               PROVE  /\ globalTruncated' \/ interrupted'
                      /\ r < root'
                      /\ \A s \in 1..NRoots : r < s /\ s < root' => stats'[s].truncated
                      /\ \A p \in Retained : RootOf[p] <= r
    BY <1>1 DEF MarkInv
  <2>1. CASE r = root BY <1>2, <2>1
  <2>2. CASE r # root
    <3>1. stats[r].truncated BY <2>2
    <3>2. pc \notin Walking BY <3>1 DEF TailInv, MarkInv
    <3>3. marked BY <3>2
    <3>4. /\ globalTruncated \/ interrupted
          /\ r < root
          /\ \A s \in 1..NRoots : r < s /\ s < root => stats[s].truncated
          /\ \A p \in Retained : RootOf[p] <= r
      BY <3>1 DEF TailInv, MarkInv
    <3>5. \A s \in 1..NRoots : r < s /\ s < root' => stats'[s].truncated
      <4> SUFFICES ASSUME NEW s \in 1..NRoots, r < s, s < root' PROVE stats'[s].truncated
        OBVIOUS
      <4>1. s = root \/ s < root OBVIOUS
      <4>2. CASE s = root BY <3>3, <4>2
      <4>3. CASE s < root /\ s # root BY <3>4, <4>3
      <4> QED BY <4>1, <4>2, <4>3
    <3>6. r < root' BY <3>4
    <3> QED BY <3>4, <3>5, <3>6
  <2> QED BY <2>1, <2>2
<1>5. OrderInv'
  <2>1. ASSUME NEW q \in Retained PROVE NoneMissingBefore(q)'
    <3>1. NoneMissingBefore(q) BY DEF TailInv, OrderInv
    <3> QED BY <1>1, <3>1, RootFacts DEF NoneMissingBefore, Steady
  <2> QED BY <1>1, <2>1 DEF OrderInv, Walking
<1> QED BY <1>3, <1>4, <1>5 DEF TailInv

LEMMA BreakTail ==
    ASSUME TailInv, AbsenceInv', pc = "walk", NEW counted \in {0, 1}, BreakWalk(counted)
    PROVE  TailInv'
<1>1. /\ UNCHANGED <<entries, fs, held, interrupted>> /\ root' = root + 1 /\ pending' = {}
      /\ pc' = "roots" /\ globalTruncated'
  BY DEF BreakWalk, envVars, tallyVars
<1>2. root \in 1..NRoots /\ stats[root] \in Stats BY RootFacts DEF Walking
<1> DEFINE t == Truncated(stats[root])
           s == [t EXCEPT !.scanned = stats[root].scanned + counted]
<1>3. t \in Stats /\ t.truncated /\ t.errors = stats[root].errors BY <1>2, StatsSteps
<1>4. stats' = [stats EXCEPT ![root] = s] BY DEF BreakWalk
<1>5. stats[root].scanned + counted \in Nat BY <1>2 DEF Stats
<1> HIDE DEF t
<1>6. s.truncated /\ s.errors = stats[root].errors BY <1>3, <1>5 DEF Stats
<1> HIDE DEF s
<1>7. stats \in [1..NRoots -> Stats] BY DEF TailInv, AbsenceInv, TypeInv, TypeOK
<1>8. stats'[root] = s /\ \A r \in 1..NRoots : r # root => stats'[r] = stats[r]
  BY <1>2, <1>4, <1>7
<1>9. \A r \in 1..NRoots : stats'[r].errors = stats[r].errors BY <1>6, <1>8
<1> QED BY <1>1, <1>2, <1>6, <1>8, <1>9, RootLeft

\* Counting in the root at hand changes no mark and takes no error back.
LEMMA CountKeepsMarks ==
    ASSUME TailInv, root \in 1..NRoots, NEW s, stats' = [stats EXCEPT ![root] = s],
           s.truncated = stats[root].truncated, s.errors = 0 => stats[root].errors = 0
    PROVE  \A r \in 1..NRoots : /\ stats'[r].truncated => stats[r].truncated
                                /\ stats[r].truncated => stats'[r].truncated
                                /\ stats'[r].errors = 0 => stats[r].errors = 0
BY DEF TailInv, AbsenceInv, TypeInv, TypeOK

LEMMA TailStep == TailInv /\ Move => TailInv'
<1> SUFFICES ASSUME TailInv, Move PROVE TailInv' OBVIOUS
<1>a. AbsenceInv' BY AbsenceStep DEF TailInv
<1>b. /\ pc \in Walking => root \in 1..NRoots /\ stats[root] \in Stats
      /\ pc \in InHand => /\ pc \in Walking /\ cur \in Paths /\ RootOf[cur] = root
                          /\ NoneMissingBefore(cur)
      /\ \A d \in pending : RootOf[d] = root
  BY RootFacts DEF TailInv, PlaceInv, OrderInv, Walking
<1>c. pc \in {"readlink", "open", "waiting", "hash"} => meta \in Nodes
  BY DEF TailInv, AbsenceInv, TypeInv, HandOK
<1>1. CASE SkipRoot
  <2>1. /\ UNCHANGED <<entries, fs, held, interrupted, globalTruncated>> /\ root' = root + 1
        /\ pc = "roots" /\ pc' = "roots" /\ pending' = pending
        /\ globalTruncated \/ interrupted
        /\ root <= NRoots /\ stats' = [stats EXCEPT ![root] = Truncated(stats[root])]
    BY <1>1 DEF SkipRoot, envVars, tallyVars
  <2>2. root \in 1..NRoots /\ stats[root] \in Stats /\ pending = {}
    BY <2>1, RootFacts DEF TailInv, AbsenceInv, TypeInv, HandOK
  <2>3. Truncated(stats[root]).truncated /\ Truncated(stats[root]).errors = stats[root].errors
    BY <2>2, StatsSteps
  <2>4. stats'[root] = Truncated(stats[root]) /\ \A r \in 1..NRoots : r # root => stats'[r] = stats[r]
    BY <2>1, <2>2 DEF TailInv, AbsenceInv, TypeInv, TypeOK
  <2>5. \A r \in 1..NRoots : stats'[r].errors = stats[r].errors BY <2>3, <2>4
  <2> QED BY <1>a, <2>1, <2>2, <2>3, <2>4, <2>5, RootLeft
<1>2. CASE CloseRoot
  <2>1. /\ UNCHANGED <<entries, fs, held, interrupted, globalTruncated, stats>>
        /\ root' = root + 1 /\ pc = "walk" /\ pc' = "roots" /\ pending' = {}
    BY <1>2 DEF CloseRoot, envVars, tallyVars
  <2>2. pc \in Walking /\ root \in 1..NRoots /\ ~stats[root].truncated
    BY <2>1, <1>b DEF TailInv, MarkInv, Walking
  <2> QED BY <1>a, <2>1, <2>2, RootLeft
<1>3. CASE StopOnInterrupt BY <1>a, <1>3, BreakTail DEF StopOnInterrupt
<1>4. CASE StopOnLimit BY <1>a, <1>4, BreakTail DEF StopOnLimit
<1>5. CASE OpenRoot
  <2>1. /\ UNCHANGED <<entries, root, held, stats, interrupted, globalTruncated>>
        /\ pc = "roots" /\ pc' = "walk" /\ ~(globalTruncated \/ interrupted)
    BY <1>5 DEF OpenRoot, envVars, tallyVars
  <2>2. PICK l \in Listings(TRUE, TopLevelOf(root)) : pending' = l.seen
    BY <1>5 DEF OpenRoot
  <2>3. l.seen \subseteq TopLevelOf(root) BY <2>2, ListingFacts, Zenon
  <2>4. \A d \in pending' : RootOf[d] = root BY <2>2, <2>3 DEF TopLevelOf
  <2> QED BY <1>a, <2>1, <2>4, TailKept DEF Walking, InHand, Steady
<1>6. CASE CountWalkError
  <2>1. /\ UNCHANGED <<entries, root, held, interrupted, globalTruncated, pending, pc>>
        /\ pc = "walk" /\ stats' = [stats EXCEPT ![root] = WalkErrorCounted(stats[root])]
    BY <1>6 DEF CountWalkError, envVars, tallyVars
  <2>2. root \in 1..NRoots /\ stats[root] \in Stats BY <1>b, <2>1 DEF Walking
  <2>3. /\ WalkErrorCounted(stats[root]).truncated = stats[root].truncated
        /\ WalkErrorCounted(stats[root]).errors # 0
    <3>1. stats[root].errors \in Nat BY <2>2 DEF Stats
    <3>2. WalkErrorCounted(stats[root]).truncated = stats[root].truncated
      BY <2>2, StatsSteps
    <3>3. WalkErrorCounted(stats[root]).errors = stats[root].errors + 1
      BY <2>2, StatsSteps
    <3>4. stats[root].errors + 1 # 0 BY <3>1
    <3> QED BY <3>2, <3>3, <3>4
  <2>4. \A r \in 1..NRoots : /\ stats'[r].truncated => stats[r].truncated
                             /\ stats[r].truncated => stats'[r].truncated
                             /\ stats'[r].errors = 0 => stats[r].errors = 0
    BY <2>1, <2>2, <2>3, CountKeepsMarks
  <2> QED BY <1>a, <1>b, <2>1, <2>4, TailKept DEF InHand, Steady
<1>7. ASSUME NEW v \in Paths, VisitEntry(v) PROVE TailInv'
  <2>1. /\ UNCHANGED <<entries, root, held, interrupted, globalTruncated>>
        /\ pc = "walk" /\ pc' = "stat" /\ cur' = v /\ v \in pending
        /\ stats' = [stats EXCEPT ![root].scanned = @ + 1]
    BY <1>7 DEF VisitEntry, envVars, tallyVars
  <2>2. root \in 1..NRoots /\ stats[root] \in Stats BY <1>b, <2>1 DEF Walking
  <2>3. \A r \in 1..NRoots : /\ stats'[r].truncated => stats[r].truncated
                             /\ stats[r].truncated => stats'[r].truncated
                             /\ stats'[r].errors = 0 => stats[r].errors = 0
    <3> DEFINE s == [stats[root] EXCEPT !.scanned = @ + 1]
    <3>1. s.truncated = stats[root].truncated /\ s.errors = stats[root].errors
      BY <2>2 DEF Stats
    <3>2. stats' = [stats EXCEPT ![root] = s]
      BY <2>1, <2>2 DEF TailInv, AbsenceInv, TypeInv, TypeOK
    <3> HIDE DEF s
    <3> QED BY <2>2, <3>1, <3>2, CountKeepsMarks
  <2>4. ASSUME NEW d \in pending' PROVE RootOf[d] = root
    <3>1. CASE d \in pending BY <1>b, <3>1
    <3>2. CASE d \notin pending
      <4>1. v \in dirs BY <1>7, <3>2 DEF VisitEntry
      <4>2. PICK l \in Listings(IsDir(fs[v]), ChildrenOf(v)) : pending' = (pending \ {v}) \cup l.seen
        BY <1>7, <4>1 DEF VisitEntry
      <4>3. IsDir(fs[v]) \in BOOLEAN BY DEF IsDir
      <4>4. l.seen \subseteq ChildrenOf(v) BY <4>2, <4>3, ListingFacts, Zenon
      <4>5. d \in Paths /\ ParentOf[d] = v BY <3>2, <4>2, <4>4 DEF ChildrenOf
      <4>6. d \in Below[v] BY <4>5, TreeAssumption DEF TreeAssumption
      <4> QED BY <1>b, <2>1, <4>6, TreeFacts
    <3> QED BY <3>1, <3>2
  <2>5. NoneMissingBefore(v) BY <1>7, NextInOrder
  <2> QED BY <1>a, <1>b, <2>1, <2>3, <2>4, <2>5, TailKept DEF Walking, InHand, Steady
<1>8. CASE StatFails
  <2>1. /\ UNCHANGED <<entries, root, held, interrupted, globalTruncated, pending>>
        /\ pc = "stat" /\ pc' = "walk" /\ stats' = [stats EXCEPT ![root].errors = @ + 1]
    BY <1>8 DEF StatFails, envVars, walkVars, tallyVars
  <2>2. root \in 1..NRoots /\ stats[root] \in Stats BY <1>b, <2>1 DEF Walking, InHand
  <2>3. \A r \in 1..NRoots : /\ stats'[r].truncated => stats[r].truncated
                             /\ stats[r].truncated => stats'[r].truncated
                             /\ stats'[r].errors = 0 => stats[r].errors = 0
    <3> DEFINE s == [stats[root] EXCEPT !.errors = @ + 1]
    <3>1. s.truncated = stats[root].truncated /\ s.errors # 0
      BY <2>2 DEF Stats
    <3>2. stats' = [stats EXCEPT ![root] = s]
      BY <2>1, <2>2 DEF TailInv, AbsenceInv, TypeInv, TypeOK
    <3> HIDE DEF s
    <3> QED BY <2>2, <3>1, <3>2, CountKeepsMarks
  <2> QED BY <1>a, <1>b, <2>1, <2>3, TailKept DEF Walking, InHand, Steady
<1>9. CASE StatKeeps
  <2>1. pc \in InHand /\ fs[cur] \in Nodes
    BY <1>9, <1>b DEF StatKeeps, TailInv, AbsenceInv, TypeInv, TypeOK, Kind, InHand
  <2>2. HashDecision(cur, fs[cur]) \in HashStates BY DEF HashDecision, HashStates
  <2> QED BY <1>a, <1>9, <2>1, <2>2, RetainTail DEF StatKeeps
<1>10. CASE StatGoesOn \/ Opens
  <2>1. /\ UNCHANGED <<entries, root, held, interrupted, globalTruncated, pending, stats, cur>>
        /\ pc \in InHand /\ pc' \in InHand
    BY <1>10
    DEF StatGoesOn, Opens, OpenContent, OpenWaits, WaitEnds, Waits, envVars, walkVars, handVars,
        tallyVars, InHand
  <2> QED BY <1>a, <1>b, <2>1, TailKept DEF Walking, Steady
<1>11. CASE ReadLink
  <2>1. PICK target \in (IF Kind(fs[cur]) = "symlink" THEN {fs[cur].data} ELSE {None})
                          \cup (IF IoFaults THEN {None} ELSE {}) :
          Retain(meta, target, None, "not_regular_file")
    BY <1>11 DEF ReadLink
  <2>2. fs[cur] \in Nodes \cup {None}
    BY <1>11, <1>b DEF ReadLink, TailInv, AbsenceInv, TypeInv, TypeOK, InHand
  <2>3. target \in Data \cup {None}
    BY <2>1, <2>2, ValueAssumption DEF Kind, ValueAssumption
  <2> QED BY <1>a, <1>c, <1>11, <2>1, <2>3, RetainTail DEF ReadLink, HashStates, InHand
<1>12. CASE OpenFails \/ ReadFails
  BY <1>a, <1>c, <1>12, RetainTail DEF OpenFails, ReadFails, HashStates, InHand
<1>13. CASE FinishRead
  <2>1. PICK r \in Reads :
          IF ReadIsWhole(r) THEN Retain(meta, None, r.digest, "hashed")
                            ELSE Retain(meta, None, None, "changed_during_read")
    BY <1>13 DEF FinishRead
  <2>2. r.digest \in Data \cup {Torn, None}
    BY <1>13, <2>1 DEF FinishRead, Reads, TailInv, AbsenceInv, TypeInv, HandOK
  <2> QED BY <1>a, <1>c, <1>13, <2>1, <2>2, RetainTail DEF FinishRead, HashStates, InHand
<1>14. CASE Finish
  <2>1. /\ UNCHANGED <<entries, root, held, interrupted, globalTruncated, pending, stats>>
        /\ pc = "roots" /\ pc' = "done"
    BY <1>14 DEF Finish, envVars, walkVars, tallyVars
  <2> QED BY <1>a, <1>b, <2>1, TailKept DEF Walking, InHand, Steady
<1>15. CASE FlagRises \/ UNCHANGED vars
  <2>1. /\ UNCHANGED <<entries, root, held, globalTruncated, pending, stats, cur, pc>>
        /\ interrupted => interrupted'
    BY <1>15 DEF FlagRises, vars, envVars, captureVars, walkVars, handVars, tallyVars
  <2> QED BY <1>a, <1>b, <2>1, TailKept DEF Steady
<1>16. CASE Change
  <2>1. /\ UNCHANGED <<entries, root, interrupted, globalTruncated, pending, stats, cur, pc>>
        /\ \A p \in Paths : held[p] \subseteq held'[p]
    BY <1>16 DEF Change, Alter, walkVars, tallyVars
  <2> QED BY <1>a, <1>b, <2>1, TailKept DEF Steady
<1> QED
  BY <1>1, <1>2, <1>3, <1>4, <1>5, <1>6, <1>7, <1>8, <1>9, <1>10, <1>11, <1>12, <1>13,
     <1>14, <1>15, <1>16 DEF Move, CaptureStep, Opens

LEMMA InitTail == Init => TailInv
<1> SUFFICES ASSUME Init PROVE TailInv OBVIOUS
<1>1. AbsenceInv BY InitAbsence
<1>2. /\ Retained = {} /\ pending = {} /\ pc = "roots"
      /\ \A r \in 1..NRoots : ~stats[r].truncated
  BY DEF Init, Fresh, Retained, ZeroStats
<1> QED BY <1>1, <1>2 DEF TailInv, MarkInv, PlaceInv, OrderInv, Walking, InHand

\* Truncation only ever loses a tail of the walk, for every tree, limit and change.
THEOREM TruncationTail == Spec => []TruncationLosesATail
<1>1. TailInv /\ [Next]_vars => TailInv' BY TailStep, NextMoves
<1>2. TailInv => TruncationLosesATail
  <2> SUFFICES ASSUME TailInv, pc = "done" PROVE TruncationLosesATail
    BY DEF TruncationLosesATail
  <2>1. root > NRoots /\ root \in Nat BY RootFacts DEF TailInv, AbsenceInv, TypeInv, HandOK
  <2>2. ASSUME NEW r \in 1..NRoots, stats[r].truncated, NEW s \in (r + 1)..NRoots
        PROVE  stats[s].truncated /\ RetainedIn(s) = {}
    <3>1. s \in 1..NRoots /\ r < s /\ s < root BY <2>1, RootFacts
    <3>2. stats[s].truncated /\ \A p \in Retained : RootOf[p] <= r
      BY <2>2, <3>1 DEF TailInv, MarkInv
    <3>3. ASSUME NEW p \in Paths, entries[p] # None, RootOf[p] = s PROVE FALSE
      <4>1. p \in Retained BY <3>3 DEF Retained
      <4>2. s <= r BY <3>2, <3>3, <4>1
      <4>3. r < s /\ r \in Nat /\ s \in Nat BY <2>2, <3>1, RootFacts
      <4> QED BY <4>2, <4>3
    <3>4. RetainedIn(s) = {} BY <3>3 DEF RetainedIn, Retained
    <3> QED BY <3>2, <3>4
  <2>3. \A q \in Retained : NoneMissingBefore(q) BY DEF TailInv, OrderInv
  <2> QED BY <2>2, <2>3 DEF TruncationLosesATail, NoneMissingBefore
<1> QED BY <1>1, <1>2, InitTail, PTL DEF Spec

-----------------------------------------------------------------------------
(* Sums and cardinalities of finite sets.                                   *)

\* g adds up f over the subsets of S, in the order SumFunctionOnSet does.
Chosen(s) == CHOOSE x \in s : TRUE
Adds(g, f, S) == g = [s \in SUBSET S |-> IF s = {} THEN 0 ELSE f[Chosen(s)] + g[s \ {Chosen(s)}]]

LEMMA SumIs ==
    ASSUME NEW f, NEW S
    PROVE  SumFunctionOnSet(f, S) = (CHOOSE g : Adds(g, f, S))[S]
BY Zenon DEF SumFunctionOnSet, FoldFunctionOnSet, MapThenFoldSet, Adds, Chosen

LEMMA ChosenIn == \A s : s # {} => Chosen(s) \in s
BY DEF Chosen

LEMMA AddsAt ==
    ASSUME NEW g, NEW f, NEW S, Adds(g, f, S)
    PROVE  /\ g[{}] = 0
           /\ \A s \in SUBSET S : s # {} => g[s] = f[Chosen(s)] + g[s \ {Chosen(s)}]
<1>1. \A s \in SUBSET S : g[s] = IF s = {} THEN 0 ELSE f[Chosen(s)] + g[s \ {Chosen(s)}]
  BY Zenon DEF Adds
<1> QED BY <1>1

LEMMA LeastNat ==
    ASSUME NEW N \in SUBSET Nat, N # {}
    PROVE  \E n \in N : \A m \in N : ~(m < n)
<1>1. PICK n \in N : \A m \in N : ~(<<m, n>> \in OpToRel(<, Nat))
  BY NatLessThanWellFounded, WFMin
<1>2. \A m \in N : m < n => <<m, n>> \in OpToRel(<, Nat) BY DEF OpToRel
<1> QED BY <1>1, <1>2

\* A nonempty family of subsets of a finite set has a member without a smaller one in it.
LEMMA SmallestMember ==
    ASSUME NEW S, IsFiniteSet(S), NEW B \in SUBSET (SUBSET S), B # {}
    PROVE  \E s \in B : \A t \in B : t \subseteq s => t = s
<1> DEFINE N == {n \in Nat : \E s \in B : Cardinality(s) = n}
<1>1. \A s \in B : IsFiniteSet(s) /\ Cardinality(s) \in Nat BY FS_Subset, FS_CardinalityType
<1>2. N # {} BY <1>1
<1>3. PICK n \in N : \A m \in N : ~(m < n)
  <2>1. N \in SUBSET Nat OBVIOUS
  <2> HIDE DEF N
  <2> QED BY <1>2, <2>1, LeastNat
<1>4. PICK s \in B : Cardinality(s) = n OBVIOUS
<1>5. ASSUME NEW t \in B, t \subseteq s PROVE t = s
  <2>1. IsFiniteSet(s) /\ Cardinality(t) \in Nat BY <1>1
  <2>2. Cardinality(t) <= Cardinality(s) /\ (Cardinality(s) = Cardinality(t) => t = s)
    BY <1>5, <2>1, FS_Subset
  <2>3. ~(Cardinality(t) < n) BY <1>3, <2>1
  <2> QED BY <1>1, <1>4, <2>1, <2>2, <2>3
<1> QED BY <1>5

LEMMA AddsAgree ==
    ASSUME NEW g, NEW f, NEW S, Adds(g, f, S), NEW h, NEW k, NEW T, Adds(h, k, T),
           T \subseteq S, IsFiniteSet(T), \A x \in T : f[x] = k[x]
    PROVE  \A s \in SUBSET T : g[s] = h[s]
<1>a. /\ g[{}] = 0
      /\ \A s \in SUBSET S : s # {} => g[s] = f[Chosen(s)] + g[s \ {Chosen(s)}]
  <2>1. Adds(g, f, S) OBVIOUS
  <2> QED BY ONLY <2>1, AddsAt, Zenon
<1>b. /\ h[{}] = 0
      /\ \A s \in SUBSET T : s # {} => h[s] = k[Chosen(s)] + h[s \ {Chosen(s)}]
  <2>1. Adds(h, k, T) OBVIOUS
  <2> QED BY ONLY <2>1, AddsAt, Zenon
<1> DEFINE B == {s \in SUBSET T : g[s] # h[s]}
<1> SUFFICES ASSUME B # {} PROVE FALSE OBVIOUS
<1>1. PICK s \in B : \A t \in B : t \subseteq s => t = s
  <2>1. B \in SUBSET (SUBSET T) OBVIOUS
  <2> HIDE DEF B
  <2> QED BY <2>1, SmallestMember
<1>2. s # {} BY <1>1, <1>a, <1>b
<1>3. Chosen(s) \in s /\ s \ {Chosen(s)} \notin B BY <1>1, <1>2, ChosenIn
<1>4. g[s \ {Chosen(s)}] = h[s \ {Chosen(s)}] BY <1>3
<1>5. f[Chosen(s)] = k[Chosen(s)] BY <1>3
<1>6. g[s] = f[Chosen(s)] + g[s \ {Chosen(s)}] BY <1>1, <1>2, <1>a
<1>7. h[s] = k[Chosen(s)] + h[s \ {Chosen(s)}] BY <1>1, <1>2, <1>b
<1> QED BY <1>4, <1>5, <1>6, <1>7

LEMMA AddsExists ==
    ASSUME NEW f, NEW S, IsFiniteSet(S)
    PROVE  \E g : Adds(g, f, S)
<1> DEFINE B == {s \in SUBSET S : ~ \E g : Adds(g, f, s)}
           G(s) == CHOOSE g : Adds(g, f, s)
<1> SUFFICES ASSUME B # {} PROVE FALSE OBVIOUS
<1>1. PICK s \in B : \A t \in B : t \subseteq s => t = s
  <2>1. B \in SUBSET (SUBSET S) OBVIOUS
  <2> HIDE DEF B
  <2> QED BY <2>1, SmallestMember
<1>2. ASSUME NEW t \in SUBSET s, t # s PROVE Adds(G(t), f, t) /\ IsFiniteSet(t)
  <2>1. t \notin B BY <1>1, <1>2
  <2>2. \E g : Adds(g, f, t) BY <2>1
  <2>3. Adds(G(t), f, t) BY <2>2, Zenon
  <2>4. IsFiniteSet(t) BY FS_Subset
  <2> QED BY <2>3, <2>4
<1> HIDE DEF G, B
<1> DEFINE g == [u \in SUBSET s |-> IF u = {} THEN 0 ELSE f[Chosen(u)] + G(u \ {Chosen(u)})[u \ {Chosen(u)}]]
<1>3. ASSUME NEW w \in SUBSET s, w # s PROVE g[w] = G(w)[w]
  <2>1. CASE w = {} BY <2>1, <1>2, <1>3, AddsAt
  <2>2. CASE w # {}
    <3> DEFINE y == w \ {Chosen(w)}
    <3>1. y \in SUBSET s /\ y # s /\ y \subseteq w BY <1>3
    <3>2. g[w] = f[Chosen(w)] + G(y)[y] BY <2>2
    <3>3. G(w)[w] = f[Chosen(w)] + G(w)[y] BY <1>2, <1>3, <2>2, AddsAt
    <3>4. G(w)[y] = G(y)[y] 
      <4>1. Adds(G(w), f, w) /\ Adds(G(y), f, y) /\ IsFiniteSet(y) BY <1>2, <1>3, <3>1
      <4> HIDE DEF y
      <4> QED BY <3>1, <4>1, AddsAgree
    <3> QED BY <3>2, <3>3, <3>4
  <2> QED BY <2>1, <2>2
<1>4. Adds(g, f, s)
  <2>1. ASSUME NEW u \in SUBSET s, u # {}
        PROVE G(u \ {Chosen(u)})[u \ {Chosen(u)}] = g[u \ {Chosen(u)}]
    <3>1. u \ {Chosen(u)} \in SUBSET s /\ u \ {Chosen(u)} # s BY <2>1, ChosenIn
    <3> HIDE DEF g
    <3> QED BY <1>3, <3>1
  <2>2. [u \in SUBSET s |-> IF u = {} THEN 0 ELSE f[Chosen(u)] + G(u \ {Chosen(u)})[u \ {Chosen(u)}]]
          = [u \in SUBSET s |-> IF u = {} THEN 0 ELSE f[Chosen(u)] + g[u \ {Chosen(u)}]]
    <3> HIDE DEF g
    <3> QED BY <2>1
  <2> QED BY <2>2 DEF Adds
<1> QED BY <1>1, <1>4 DEF B

LEMMA SumAt ==
    ASSUME NEW f, NEW S, IsFiniteSet(S)
    PROVE  \E g : Adds(g, f, S) /\ SumFunctionOnSet(f, S) = g[S]
BY SumIs, AddsExists, Zenon

LEMMA SumEmpty == \A f : SumFunctionOnSet(f, {}) = 0
BY SumAt, AddsAt, FS_EmptySet

LEMMA SumSame ==
    ASSUME NEW f, NEW k, NEW S, IsFiniteSet(S), \A x \in S : f[x] = k[x]
    PROVE  SumFunctionOnSet(f, S) = SumFunctionOnSet(k, S)
<1>1. PICK g : Adds(g, f, S) /\ SumFunctionOnSet(f, S) = g[S] BY SumAt
<1>2. PICK h : Adds(h, k, S) /\ SumFunctionOnSet(k, S) = h[S] BY SumAt
<1> QED BY <1>1, <1>2, AddsAgree

LEMMA AddsType ==
    ASSUME NEW g, NEW f, NEW S, Adds(g, f, S), IsFiniteSet(S), \A x \in S : f[x] \in Nat
    PROVE  \A s \in SUBSET S : g[s] \in Nat
<1>a. /\ g[{}] = 0
      /\ \A s \in SUBSET S : s # {} => g[s] = f[Chosen(s)] + g[s \ {Chosen(s)}]
  BY AddsAt, Zenon
<1> DEFINE B == {s \in SUBSET S : g[s] \notin Nat}
<1> SUFFICES ASSUME B # {} PROVE FALSE OBVIOUS
<1>1. PICK s \in B : \A t \in B : t \subseteq s => t = s
  <2>1. B \in SUBSET (SUBSET S) OBVIOUS
  <2> HIDE DEF B
  <2> QED BY <2>1, SmallestMember
<1>2. s # {}
  <2>1. g[s] \notin Nat BY <1>1
  <2>2. g[{}] \in Nat BY <1>a
  <2> QED BY <2>1, <2>2
<1>3. Chosen(s) \in s /\ s \ {Chosen(s)} \notin B BY <1>1, <1>2, ChosenIn
<1>4. g[s \ {Chosen(s)}] \in Nat /\ f[Chosen(s)] \in Nat BY <1>3
<1>5. g[s] = f[Chosen(s)] + g[s \ {Chosen(s)}] BY <1>1, <1>2, <1>a
<1> QED BY <1>4, <1>5

\* The order of the additions does not matter.
LEMMA AddsAnyOrder ==
    ASSUME NEW g, NEW f, NEW S, Adds(g, f, S), IsFiniteSet(S), \A x \in S : f[x] \in Nat
    PROVE  \A s \in SUBSET S : \A y \in s : g[s] = f[y] + g[s \ {y}]
<1>a. /\ g[{}] = 0
      /\ \A s \in SUBSET S : s # {} => g[s] = f[Chosen(s)] + g[s \ {Chosen(s)}]
  BY AddsAt, Zenon
<1> DEFINE B == {s \in SUBSET S : \E y \in s : g[s] # f[y] + g[s \ {y}]}
<1> SUFFICES ASSUME B # {} PROVE FALSE OBVIOUS
<1>1. PICK s \in B : \A t \in B : t \subseteq s => t = s
  <2>1. B \in SUBSET (SUBSET S) OBVIOUS
  <2> HIDE DEF B
  <2> QED BY <2>1, SmallestMember
<1>2. PICK y \in s : g[s] # f[y] + g[s \ {y}] OBVIOUS
<1> DEFINE z == Chosen(s)
           w == (s \ {z}) \ {y}
<1>3. z \in s /\ g[s] = f[z] + g[s \ {z}]
  <2>1. s # {} /\ s \in SUBSET S BY <1>2
  <2>2. z \in s BY <2>1, ChosenIn
  <2> QED BY <2>1, <2>2, <1>a
<1> HIDE DEF z
<1>4. y # z BY <1>2, <1>3
<1>5. s \ {z} \notin B /\ s \ {y} \notin B BY <1>1, <1>2, <1>3
<1>6. g[s \ {z}] = f[y] + g[w] BY <1>2, <1>4, <1>5
<1>7. g[s \ {y}] = f[z] + g[w]
  <2>1. (s \ {y}) \ {z} = w OBVIOUS
  <2> QED BY <1>3, <1>4, <1>5, <2>1
<1>8. f[y] \in Nat /\ f[z] \in Nat /\ g[w] \in Nat BY <1>3, AddsType
<1> QED BY <1>2, <1>3, <1>6, <1>7, <1>8

LEMMA SumType ==
    ASSUME NEW f, NEW S, IsFiniteSet(S), \A x \in S : f[x] \in Nat
    PROVE  SumFunctionOnSet(f, S) \in Nat
BY SumAt, AddsType

LEMMA SumAdd ==
    ASSUME NEW f, NEW S, IsFiniteSet(S), NEW x, x \notin S, \A y \in S \cup {x} : f[y] \in Nat
    PROVE  SumFunctionOnSet(f, S \cup {x}) = SumFunctionOnSet(f, S) + f[x]
<1>1. IsFiniteSet(S \cup {x}) BY FS_AddElement
<1>2. PICK g : Adds(g, f, S \cup {x}) /\ SumFunctionOnSet(f, S \cup {x}) = g[S \cup {x}]
  BY <1>1, SumAt
<1>3. PICK h : Adds(h, f, S) /\ SumFunctionOnSet(f, S) = h[S] BY SumAt, Zenon
<1>4. g[S \cup {x}] = f[x] + g[(S \cup {x}) \ {x}]
  <2> DEFINE T == S \cup {x}
  <2>1. Adds(g, f, T) /\ IsFiniteSet(T) /\ \A y \in T : f[y] \in Nat BY <1>1, <1>2
  <2>2. T \in SUBSET T /\ x \in T OBVIOUS
  <2> HIDE DEF T
  <2>3. g[T] = f[x] + g[T \ {x}] BY <2>1, <2>2, AddsAnyOrder
  <2> QED BY <2>3 DEF T
<1>5. (S \cup {x}) \ {x} = S OBVIOUS
<1>6. g[S] = h[S] BY <1>2, <1>3, AddsAgree
<1>7. f[x] \in Nat /\ h[S] \in Nat
  <2>1. \A y \in S : f[y] \in Nat OBVIOUS
  <2> QED BY <2>1, <1>3, SumType
<1>8. SumFunctionOnSet(f, S \cup {x}) = f[x] + h[S] BY <1>2, <1>4, <1>5, <1>6
<1>9. f[x] + h[S] = h[S] + f[x] BY <1>7
<1> QED BY <1>3, <1>8, <1>9

LEMMA SumZero ==
    ASSUME NEW f, NEW S, IsFiniteSet(S), \A x \in S : f[x] = 0
    PROVE  SumFunctionOnSet(f, S) = 0
<1>1. PICK g : Adds(g, f, S) /\ SumFunctionOnSet(f, S) = g[S] BY SumAt
<1> DEFINE B == {s \in SUBSET S : g[s] # 0}
<1> SUFFICES ASSUME B # {} PROVE FALSE BY <1>1
<1>a. /\ g[{}] = 0
      /\ \A s \in SUBSET S : s # {} => g[s] = f[Chosen(s)] + g[s \ {Chosen(s)}]
  BY <1>1, AddsAt, Zenon
<1>2. PICK s \in B : \A t \in B : t \subseteq s => t = s
  <2>1. B \in SUBSET (SUBSET S) OBVIOUS
  <2> HIDE DEF B
  <2> QED BY <2>1, SmallestMember
<1>3. s # {} BY <1>2, <1>a
<1>4. Chosen(s) \in s BY <1>3, ChosenIn
<1>5. s \ {Chosen(s)} \notin B BY <1>2, <1>4
<1>6. g[s \ {Chosen(s)}] = 0 /\ f[Chosen(s)] = 0 BY <1>4, <1>5
<1>7. g[s] = f[Chosen(s)] + g[s \ {Chosen(s)}] BY <1>3, <1>a
<1> QED BY <1>6, <1>7

LEMMA SumRaised ==
    ASSUME NEW f, NEW k, NEW S, IsFiniteSet(S), NEW x \in S, NEW b \in Nat,
           \A y \in S : f[y] \in Nat,
           \A y \in S : y # x => k[y] = f[y], k[x] = f[x] + b
    PROVE  SumFunctionOnSet(k, S) = SumFunctionOnSet(f, S) + b
<1> DEFINE R == S \ {x}
<1>1. IsFiniteSet(R) /\ x \notin R /\ S = R \cup {x} BY FS_RemoveElement
<1>2. /\ \A y \in R \cup {x} : f[y] \in Nat
      /\ \A y \in R \cup {x} : k[y] \in Nat
  OBVIOUS
<1>3. \A y \in R : f[y] = k[y] OBVIOUS
<1>4. \A y \in R : f[y] \in Nat OBVIOUS
<1> HIDE DEF R
<1>5. SumFunctionOnSet(f, S) = SumFunctionOnSet(f, R) + f[x] BY <1>1, <1>2, SumAdd
<1>6. SumFunctionOnSet(k, S) = SumFunctionOnSet(k, R) + k[x] BY <1>1, <1>2, SumAdd
<1>7. SumFunctionOnSet(f, R) = SumFunctionOnSet(k, R) BY <1>1, <1>3, SumSame
<1>8. SumFunctionOnSet(f, R) \in Nat BY <1>1, <1>4, SumType
<1>9. f[x] \in Nat OBVIOUS
<1>10. SumFunctionOnSet(k, S) = SumFunctionOnSet(f, R) + (f[x] + b) BY <1>6, <1>7
<1>11. SumFunctionOnSet(f, R) + (f[x] + b) = (SumFunctionOnSet(f, R) + f[x]) + b BY <1>8, <1>9
<1> QED BY <1>5, <1>10, <1>11

\* A set that takes up one more element, or none.
LEMMA SetGrown ==
    ASSUME NEW S, IsFiniteSet(S), NEW x, x \notin S, NEW T, NEW b \in BOOLEAN,
           T = IF b THEN S \cup {x} ELSE S
    PROVE  /\ IsFiniteSet(T)
           /\ Cardinality(S) \in Nat
           /\ Cardinality(T) = Cardinality(S) + (IF b THEN 1 ELSE 0)
<1>1. Cardinality(S) \in Nat BY FS_CardinalityType
<1>2. CASE b BY <1>1, <1>2, FS_AddElement
<1>3. CASE ~b BY <1>1, <1>3
<1> QED BY <1>1, <1>2, <1>3

LEMMA SumGrown ==
    ASSUME NEW S, IsFiniteSet(S), NEW x, x \notin S, NEW T, NEW b \in BOOLEAN,
           T = IF b THEN S \cup {x} ELSE S, NEW f, NEW k,
           \A y \in S : f[y] \in Nat /\ k[y] = f[y],
           b => k[x] \in Nat
    PROVE  /\ SumFunctionOnSet(f, S) \in Nat
           /\ SumFunctionOnSet(k, T) = SumFunctionOnSet(f, S) + (IF b THEN k[x] ELSE 0)
<1>1. SumFunctionOnSet(f, S) \in Nat BY SumType
<1>2. SumFunctionOnSet(k, S) = SumFunctionOnSet(f, S) BY SumSame
<1>3. CASE b
  <2>1. \A y \in S \cup {x} : k[y] \in Nat BY <1>3
  <2>2. SumFunctionOnSet(k, S \cup {x}) = SumFunctionOnSet(k, S) + k[x] BY <2>1, SumAdd
  <2> QED BY <1>1, <1>2, <1>3, <2>2
<1>4. CASE ~b BY <1>1, <1>2, <1>4
<1> QED BY <1>1, <1>3, <1>4

-----------------------------------------------------------------------------
(* The counters.                                                           *)

\* The walk has not reached what is still pending, nor the path in hand.
AheadInv ==
    /\ \A q \in Retained : RootOf[q] = root =>
         /\ pc = "walk" => \A d \in pending : q < d
         /\ pc \in InHand => q < cur
    /\ pc \in InHand => \A d \in pending : cur < d

ExtentInv == TailInv /\ AheadInv /\ IsFiniteSet(Retained)

\* The path in hand has no entry yet.
LEMMA NotKeptYet == ExtentInv /\ pc \in InHand => cur \in Paths \ Retained
<1> SUFFICES ASSUME ExtentInv, pc \in InHand PROVE cur \in Paths \ Retained OBVIOUS
<1>1. cur \in Paths /\ RootOf[cur] = root /\ cur \in Nat
  BY RootFacts DEF ExtentInv, TailInv, PlaceInv
<1>2. cur \in Retained => cur < cur BY <1>1 DEF ExtentInv, AheadInv
<1> QED BY <1>1, <1>2

LEMMA ExtentStep == ExtentInv /\ Move => ExtentInv'
<1> SUFFICES ASSUME ExtentInv, Move PROVE ExtentInv' OBVIOUS
<1>a. TailInv' BY TailStep DEF ExtentInv
<1>b. Paths \subseteq Nat /\ pending \subseteq Paths /\ Retained \subseteq Paths
      /\ \A q \in Retained : RootOf[q] \in Nat
      /\ root \in Nat
  BY RootFacts DEF ExtentInv, TailInv, AbsenceInv, TypeInv, TypeOK, Retained
\* Steps that keep no entry.
<1>c. ASSUME UNCHANGED entries, AheadInv' PROVE ExtentInv'
  BY <1>a, <1>c DEF ExtentInv, Retained
\* Steps that take up no other path.
<1>d. ASSUME UNCHANGED <<entries, cur, root, pending>>, pc' \in InHand => pc \in InHand,
             pc' = "walk" => pc = "walk"
      PROVE  ExtentInv'
  <2>1. AheadInv' BY <1>d DEF ExtentInv, AheadInv, Retained
  <2> QED BY <1>c, <1>d, <2>1
\* Keeping the path in hand.
<1>e. ASSUME pc \in InHand, NEW n, NEW target, NEW digest, NEW hash,
             Retain(n, target, digest, hash)
      PROVE  ExtentInv'
  <2>1. /\ UNCHANGED <<root, pending>> /\ pc' = "walk"
        /\ entries' = [entries EXCEPT ![cur] = EntryState(n, target, digest, hash)]
    BY <1>e DEF Retain, walkVars
  <2>2. Retained' \subseteq Retained \cup {cur}
    BY <2>1 DEF ExtentInv, TailInv, AbsenceInv, TypeInv, TypeOK, Retained
  <2>3. IsFiniteSet(Retained)' BY <2>2, FS_AddElement, FS_Subset DEF ExtentInv
  <2>4. pc' \notin InHand BY <2>1 DEF InHand
  <2>5. ASSUME NEW q \in Retained', RootOf[q] = root, NEW d \in pending PROVE q < d
    <3>1. cur < d BY <1>e DEF ExtentInv, AheadInv
    <3>2. CASE q = cur BY <3>1, <3>2
    <3>3. CASE q # cur
      <4>1. q \in Retained /\ q < cur BY <1>e, <2>2, <2>5, <3>3 DEF ExtentInv, AheadInv
      <4>2. q \in Nat /\ d \in Nat /\ cur \in Nat BY <1>b, <1>e, <4>1, NotKeptYet
      <4> QED BY <3>1, <4>1, <4>2
    <3> QED BY <3>2, <3>3
  <2> QED BY <1>a, <2>1, <2>3, <2>4, <2>5 DEF ExtentInv, AheadInv
<1>1. CASE SkipRoot \/ CloseRoot \/ StopOnInterrupt \/ StopOnLimit \/ Finish
  <2>1. UNCHANGED entries /\ pc' \notin InHand /\ pc' # "walk"
    BY <1>1 DEF SkipRoot, CloseRoot, StopOnInterrupt, StopOnLimit, Finish, BreakWalk, tallyVars, InHand
  <2> QED BY <1>c, <2>1 DEF AheadInv
<1>2. CASE OpenRoot
  <2>1. UNCHANGED <<entries, root>> /\ pc = "roots" /\ pc' = "walk"
    BY <1>2 DEF OpenRoot, tallyVars
  <2>2. \A q \in Retained : RootOf[q] # root
    BY <1>b, <2>1 DEF ExtentInv, TailInv, PlaceInv, Walking, InHand
  <2>3. AheadInv' BY <2>1, <2>2 DEF AheadInv, Retained, InHand
  <2> QED BY <1>c, <2>1, <2>3
<1>3. CASE CountWalkError
  <2>1. UNCHANGED <<entries, cur, root, pending, pc>>
    BY <1>3 DEF CountWalkError, tallyVars, handVars
  <2> QED BY <1>d, <2>1
<1>4. ASSUME NEW v \in Paths, VisitEntry(v) PROVE ExtentInv'
  <2>1. /\ UNCHANGED <<entries, root>> /\ pc = "walk" /\ pc' = "stat" /\ cur' = v
        /\ v \in pending /\ \A q \in pending : v <= q
    BY <1>4 DEF VisitEntry, tallyVars
  <2>2. \A q \in Retained : RootOf[q] = root => q < v
    BY <2>1 DEF ExtentInv, AheadInv
  <2>3. ASSUME NEW d \in pending' PROVE v < d
    <3>1. CASE d \in pending /\ d # v
      <4>1. v <= d /\ v \in Nat /\ d \in Nat BY <1>b, <2>1, <3>1
      <4> QED BY <3>1, <4>1
    <3>2. CASE ~(d \in pending /\ d # v)
      <4>1. CASE v \in dirs
        <5>1. PICK l \in Listings(IsDir(fs[v]), ChildrenOf(v)) : pending' = (pending \ {v}) \cup l.seen
          BY <1>4, <4>1 DEF VisitEntry
        <5>2. IsDir(fs[v]) \in BOOLEAN BY DEF IsDir
        <5>3. l.seen \subseteq ChildrenOf(v) BY <5>1, <5>2, ListingFacts, Zenon
        <5>4. d \in ChildrenOf(v) BY <2>3, <3>2, <5>1, <5>3
        <5>5. d \in Paths /\ ParentOf[d] = v BY <5>4 DEF ChildrenOf
        <5>6. d \in Below[v] BY <5>5, TreeAssumption DEF TreeAssumption
        <5> QED BY <5>5, <5>6, TreeFacts
      <4>2. CASE v \notin dirs
        <5>1. pending' = pending \ {v} BY <1>4, <4>2 DEF VisitEntry
        <5> QED BY <2>3, <3>2, <5>1
      <4> QED BY <4>1, <4>2
    <3> QED BY <3>1, <3>2
  <2>4. AheadInv' BY <2>1, <2>2, <2>3 DEF AheadInv, Retained
  <2> QED BY <1>c, <2>1, <2>4
<1>5. CASE StatFails
  <2>1. UNCHANGED <<entries, root, pending>> /\ pc = "stat" /\ pc' = "walk"
    BY <1>5 DEF StatFails, tallyVars, walkVars
  <2>2. ASSUME NEW q \in Retained, RootOf[q] = root, NEW d \in pending PROVE q < d
    <3>1. q < cur /\ cur < d /\ cur \in Paths
      BY <2>1, <2>2, NotKeptYet DEF ExtentInv, AheadInv, InHand
    <3>2. q \in Nat /\ cur \in Nat /\ d \in Nat BY <1>b, <3>1
    <3> QED BY <3>1, <3>2
  <2>3. AheadInv' BY <2>1, <2>2 DEF AheadInv, Retained, InHand
  <2> QED BY <1>c, <2>1, <2>3
<1>6. CASE StatKeeps \/ ReadLink \/ OpenFails \/ FinishRead \/ ReadFails
  <2>1. pc \in InHand /\ \E n, target, digest, hash : Retain(n, target, digest, hash)
    BY <1>6 DEF StatKeeps, ReadLink, OpenFails, FinishRead, ReadFails, InHand
  <2> QED BY <1>e, <2>1
<1>7. CASE StatGoesOn
  <2>1. UNCHANGED <<entries, cur, root, pending>> /\ pc = "stat" /\ pc' # "walk"
    BY <1>7 DEF StatGoesOn, tallyVars, walkVars
  <2> QED BY <1>d, <2>1 DEF InHand
<1>8. CASE Opens
  <2>1. UNCHANGED <<entries, cur, root, pending>> /\ pc \in {"open", "waiting"} /\ pc' # "walk"
    BY <1>8
    DEF Opens, OpenContent, OpenWaits, WaitEnds, Waits, tallyVars, walkVars, handVars
  <2> QED BY <1>d, <2>1 DEF InHand
<1>9. CASE Change \/ FlagRises \/ UNCHANGED vars
  <2>1. UNCHANGED <<entries, cur, root, pending, pc>>
    BY <1>9 DEF Change, FlagRises, vars, captureVars, walkVars, tallyVars, handVars
  <2> QED BY <1>d, <2>1
<1> QED
  BY <1>1, <1>2, <1>3, <1>4, <1>5, <1>6, <1>7, <1>8, <1>9 DEF Move, CaptureStep, Opens

LEMMA InitExtent == Init => ExtentInv
<1> SUFFICES ASSUME Init PROVE ExtentInv OBVIOUS
<1>1. TailInv BY InitTail
<1>2. Retained = {} /\ pc = "roots" BY DEF Init, Fresh, Retained
<1> QED BY <1>1, <1>2, FS_EmptySet DEF ExtentInv, AheadInv, InHand

LEMMA CountFields ==
    ASSUME NEW s \in Stats, NEW n \in Nodes, NEW hash \in HashStates
    PROVE  LET c == CountEntry(s, n, hash) IN
           /\ c.scanned = s.scanned /\ c.errors = s.errors /\ c.truncated = s.truncated
           /\ c.retained = s.retained + 1
           /\ c.hashedFiles = s.hashedFiles + (IF hash = "hashed" THEN 1 ELSE 0)
           /\ c.hashedBytes = s.hashedBytes + (IF hash = "hashed" THEN NodeSize(n) ELSE 0)
           /\ c.skipped = s.skipped + (IF HashSkipped(n, hash) THEN 1 ELSE 0)
<1> DEFINE b0 == s.retained + 1
           b1 == s.hashedFiles + (IF hash = "hashed" THEN 1 ELSE 0)
           b2 == s.hashedBytes + (IF hash = "hashed" THEN NodeSize(n) ELSE 0)
           b3 == s.skipped + (IF HashSkipped(n, hash) THEN 1 ELSE 0)
           s1 == [s EXCEPT !.retained = b0]
           s2 == [s1 EXCEPT !.hashedFiles = b1]
           s3 == [s2 EXCEPT !.hashedBytes = b2]
           s4 == [s3 EXCEPT !.skipped = b3]
           Same(c) == c.scanned = s.scanned /\ c.errors = s.errors /\ c.truncated = s.truncated
<1>1. NodeSize(n) \in Nat BY ValueAssumption DEF ValueAssumption, NodeSize
<1>2. b0 \in Nat /\ b1 \in Nat /\ b2 \in Nat /\ b3 \in Nat BY <1>1 DEF Stats, HashSkipped
<1>3. CountEntry(s, n, hash) = s4 BY Zenon DEF CountEntry, s1, s2, s3, s4
<1> HIDE DEF b0, b1, b2, b3
<1>4. s1 \in Stats /\ Same(s1) /\ s1.retained = b0 BY <1>2 DEF Stats
<1> HIDE DEF s1
<1>5. s2 \in Stats /\ Same(s2) /\ s2.retained = b0 /\ s2.hashedFiles = b1 BY <1>2, <1>4 DEF Stats
<1> HIDE DEF s2
<1>6. /\ s3 \in Stats /\ Same(s3) /\ s3.retained = b0 /\ s3.hashedFiles = b1
      /\ s3.hashedBytes = b2
  BY <1>2, <1>5 DEF Stats
<1> HIDE DEF s3
<1>7. /\ s4 \in Stats /\ Same(s4) /\ s4.retained = b0 /\ s4.hashedFiles = b1
      /\ s4.hashedBytes = b2 /\ s4.skipped = b3
  BY <1>2, <1>6 DEF Stats
<1> HIDE DEF s4
<1> QED BY <1>3, <1>7 DEF b0, b1, b2, b3

Skipped == {p \in Retained : entries[p].hash = "skipped_sensitive_path"}
HashedIn(r) == RetainedIn(r) \cap HashedPaths
FilesIn(r) == {p \in RetainedIn(r) : entries[p].kind = "file"}

\* What the counters of one root say.
Tallied(r) ==
    /\ stats[r].retained = Cardinality(RetainedIn(r))
    /\ stats[r].hashedFiles = Cardinality(HashedIn(r))
    /\ stats[r].hashedBytes = SumFunctionOnSet(HashedSizes, HashedIn(r))
    /\ stats[r].hashedFiles + stats[r].skipped = Cardinality(FilesIn(r))

CountersInv == ExtentInv /\ CountersMatchEntries

LEMMA CountersAre ==
    CountersMatchEntries <=>
      /\ retainedTotal = Cardinality(Retained)
      /\ hashedTotal = SumFunctionOnSet([r \in 1..NRoots |-> stats[r].hashedBytes], 1..NRoots)
      /\ sensitiveSkipped = Cardinality(Skipped)
      /\ \A r \in 1..NRoots : Tallied(r)
<1>1. DOMAIN [r \in 1..NRoots |-> stats[r].hashedBytes] = 1..NRoots OBVIOUS
<1>2. SumFunction([r \in 1..NRoots |-> stats[r].hashedBytes])
        = SumFunctionOnSet([r \in 1..NRoots |-> stats[r].hashedBytes], 1..NRoots)
  BY <1>1, Zenon DEF SumFunction
<1> QED BY <1>2, Zenon DEF CountersMatchEntries, Tallied, HashedIn, FilesIn, Skipped

\* What keeping an entry does to the sets the counters count.
LEMMA SetsGrow ==
    ASSUME ExtentInv, pc \in InHand, NEW n \in Nodes, NEW target \in Data \cup {None},
           NEW digest \in Data \cup {Torn, None}, NEW hash \in HashStates,
           Retain(n, target, digest, hash)
    PROVE  /\ cur \notin Retained /\ cur \in Paths /\ RootOf[cur] = root
           /\ entries'[cur] = EntryState(n, target, digest, hash)
           /\ \A p \in Retained : entries'[p] = entries[p]
           /\ Retained' = Retained \cup {cur}
           /\ HashedPaths' = IF hash = "hashed" THEN HashedPaths \cup {cur} ELSE HashedPaths
           /\ Skipped' = IF hash = "skipped_sensitive_path" THEN Skipped \cup {cur} ELSE Skipped
           /\ \A r \in 1..NRoots :
                /\ RetainedIn(r)' = IF r = root THEN RetainedIn(r) \cup {cur} ELSE RetainedIn(r)
                /\ HashedIn(r)' = IF r = root /\ hash = "hashed"
                                    THEN HashedIn(r) \cup {cur} ELSE HashedIn(r)
                /\ FilesIn(r)' = IF r = root /\ n.kind = "file"
                                   THEN FilesIn(r) \cup {cur} ELSE FilesIn(r)
<1> DEFINE e == EntryState(n, target, digest, hash)
<1>1. cur \in Paths /\ cur \notin Retained BY NotKeptYet
<1>2. RootOf[cur] = root BY DEF ExtentInv, TailInv, PlaceInv
<1>3. e # None BY EntryStateType
<1>4. e.hash = hash /\ e.kind = n.kind BY EntryStateFields
<1> HIDE DEF e
<1>5. entries' = [entries EXCEPT ![cur] = e] BY DEF Retain, e
<1>6. entries'[cur] = e /\ \A p \in Paths : p # cur => entries'[p] = entries[p]
  BY <1>1, <1>5 DEF ExtentInv, TailInv, AbsenceInv, TypeInv, TypeOK
<1>7. Retained' = Retained \cup {cur} BY <1>1, <1>3, <1>6 DEF Retained
<1>8. \A p \in Retained : p # cur /\ entries'[p] = entries[p] BY <1>1, <1>6 DEF Retained
<1>9. HashedPaths' = IF hash = "hashed" THEN HashedPaths \cup {cur} ELSE HashedPaths
  BY <1>4, <1>6, <1>7, <1>8 DEF HashedPaths
<1>10. Skipped' = IF hash = "skipped_sensitive_path" THEN Skipped \cup {cur} ELSE Skipped
  BY <1>4, <1>6, <1>7, <1>8 DEF Skipped
<1>11. ASSUME NEW r \in 1..NRoots
       PROVE  /\ RetainedIn(r)' = IF r = root THEN RetainedIn(r) \cup {cur} ELSE RetainedIn(r)
              /\ HashedIn(r)' = IF r = root /\ hash = "hashed"
                                  THEN HashedIn(r) \cup {cur} ELSE HashedIn(r)
              /\ FilesIn(r)' = IF r = root /\ n.kind = "file"
                                 THEN FilesIn(r) \cup {cur} ELSE FilesIn(r)
  <2>1. RetainedIn(r)' = IF r = root THEN RetainedIn(r) \cup {cur} ELSE RetainedIn(r)
    BY <1>2, <1>7 DEF RetainedIn
  <2>2. cur \notin HashedPaths BY <1>1 DEF HashedPaths
  <2>3. cur \notin RetainedIn(r) BY <1>1 DEF RetainedIn
  <2>4. HashedIn(r)' = IF r = root /\ hash = "hashed"
                         THEN HashedIn(r) \cup {cur} ELSE HashedIn(r)
    BY <1>9, <2>1, <2>2, <2>3 DEF HashedIn
  <2>5. \A p \in RetainedIn(r) : entries'[p] = entries[p] BY <1>8 DEF RetainedIn
  <2>6. FilesIn(r)' = IF r = root /\ n.kind = "file" THEN FilesIn(r) \cup {cur} ELSE FilesIn(r)
    BY <1>4, <1>6, <2>1, <2>3, <2>5 DEF FilesIn
  <2> QED BY <2>1, <2>4, <2>6
<1> QED BY <1>1, <1>2, <1>6, <1>7, <1>8, <1>9, <1>10, <1>11 DEF e

LEMMA CountedSets ==
    ExtentInv => /\ IsFiniteSet(Retained) /\ IsFiniteSet(Skipped) /\ IsFiniteSet(HashedPaths)
                 /\ \A r \in 1..NRoots : /\ IsFiniteSet(RetainedIn(r)) /\ IsFiniteSet(HashedIn(r))
                                         /\ IsFiniteSet(FilesIn(r))
                 /\ \A p \in HashedPaths : HashedSizes[p] \in Nat /\ HashedSizes[p] = entries[p].size
<1> SUFFICES ASSUME ExtentInv PROVE
                 /\ IsFiniteSet(Retained) /\ IsFiniteSet(Skipped) /\ IsFiniteSet(HashedPaths)
                 /\ \A r \in 1..NRoots : /\ IsFiniteSet(RetainedIn(r)) /\ IsFiniteSet(HashedIn(r))
                                         /\ IsFiniteSet(FilesIn(r))
                 /\ \A p \in HashedPaths : HashedSizes[p] \in Nat /\ HashedSizes[p] = entries[p].size
  OBVIOUS
<1>1. IsFiniteSet(Retained) BY DEF ExtentInv
<1>2. /\ Skipped \subseteq Retained /\ HashedPaths \subseteq Retained
      /\ \A r \in 1..NRoots : /\ RetainedIn(r) \subseteq Retained
                              /\ HashedIn(r) \subseteq Retained /\ FilesIn(r) \subseteq Retained
  BY DEF Skipped, HashedPaths, RetainedIn, HashedIn, FilesIn
<1>3. ASSUME NEW p \in HashedPaths
      PROVE  HashedSizes[p] \in Nat /\ HashedSizes[p] = entries[p].size
  <2>1. entries[p] \in EntryStates
    BY DEF HashedPaths, Retained, ExtentInv, TailInv, AbsenceInv, TypeInv, TypeOK
  <2>2. entries[p].size \in Sizes \cup {0} BY <2>1 DEF EntryStates
  <2>3. Sizes \subseteq Nat BY ValueAssumption DEF ValueAssumption, Sizes
  <2>4. HashedSizes[p] = entries[p].size BY DEF HashedSizes
  <2>5. Sizes \cup {0} \subseteq Nat BY <2>3
  <2>6. entries[p].size \in Nat BY <2>2, <2>5, Zenon
  <2> QED BY <2>4, <2>6
<1> QED BY <1>1, <1>2, <1>3, FS_Subset

LEMMA RetainCounts ==
    ASSUME CountersInv, ExtentInv', pc \in InHand, NEW n \in Nodes,
           NEW target \in Data \cup {None}, NEW digest \in Data \cup {Torn, None},
           NEW hash \in HashStates, hash = "hashed" => n.kind = "file",
           Retain(n, target, digest, hash)
    PROVE  CountersInv'
<1> DEFINE e == EntryState(n, target, digest, hash)
           c == CountEntry(stats[root], n, hash)
           bytes == IF hash = "hashed" THEN NodeSize(n) ELSE 0
<1>a. /\ retainedTotal = Cardinality(Retained)
      /\ hashedTotal = SumFunctionOnSet([r \in 1..NRoots |-> stats[r].hashedBytes], 1..NRoots)
      /\ sensitiveSkipped = Cardinality(Skipped)
      /\ \A r \in 1..NRoots : Tallied(r)
  BY CountersAre DEF CountersInv
<1>b. ExtentInv BY DEF CountersInv
<1>c. /\ IsFiniteSet(Retained) /\ IsFiniteSet(Skipped) /\ IsFiniteSet(HashedPaths)
      /\ \A r \in 1..NRoots : /\ IsFiniteSet(RetainedIn(r)) /\ IsFiniteSet(HashedIn(r))
                              /\ IsFiniteSet(FilesIn(r))
      /\ \A p \in HashedPaths : HashedSizes[p] \in Nat /\ HashedSizes[p] = entries[p].size
  BY <1>b, CountedSets
<1>d. /\ cur \notin Retained /\ cur \in Paths /\ RootOf[cur] = root /\ entries'[cur] = e
      /\ \A p \in Retained : entries'[p] = entries[p]
      /\ Retained' = Retained \cup {cur}
      /\ HashedPaths' = IF hash = "hashed" THEN HashedPaths \cup {cur} ELSE HashedPaths
      /\ Skipped' = IF hash = "skipped_sensitive_path" THEN Skipped \cup {cur} ELSE Skipped
  BY <1>b, SetsGrow
<1>e. \A r \in 1..NRoots :
        /\ RetainedIn(r)' = IF r = root THEN RetainedIn(r) \cup {cur} ELSE RetainedIn(r)
        /\ HashedIn(r)' = IF r = root /\ hash = "hashed" THEN HashedIn(r) \cup {cur} ELSE HashedIn(r)
        /\ FilesIn(r)' = IF r = root /\ n.kind = "file" THEN FilesIn(r) \cup {cur} ELSE FilesIn(r)
  BY <1>b, SetsGrow
<1>f. root \in 1..NRoots /\ \A r \in 1..NRoots : stats[r] \in Stats
  BY <1>b, RootFacts DEF ExtentInv, Walking
<1>g. e.size = NodeSize(n) /\ NodeSize(n) \in Nat /\ bytes \in Nat
  BY EntryStateFields, ValueAssumption DEF ValueAssumption, NodeSize, FromNode
<1>h. /\ c.retained = stats[root].retained + 1
      /\ c.hashedFiles = stats[root].hashedFiles + (IF hash = "hashed" THEN 1 ELSE 0)
      /\ c.hashedBytes = stats[root].hashedBytes + bytes
      /\ c.skipped = stats[root].skipped + (IF HashSkipped(n, hash) THEN 1 ELSE 0)
  <2>1. stats[root] \in Stats BY <1>f
  <2> QED BY <2>1, CountFields
<1>i. stats' = [stats EXCEPT ![root] = c] BY DEF Retain
<1>j. retainedTotal' = retainedTotal + 1 /\ hashedTotal' = hashedTotal + bytes
      /\ sensitiveSkipped' = sensitiveSkipped + (IF hash = "skipped_sensitive_path" THEN 1 ELSE 0)
  BY DEF Retain
<1> HIDE DEF c, e, bytes
<1>k. stats'[root] = c /\ \A r \in 1..NRoots : r # root => stats'[r] = stats[r]
  BY <1>b, <1>f, <1>i DEF ExtentInv, TailInv, AbsenceInv, TypeInv, TypeOK
<1>l. /\ \A p \in HashedPaths : HashedSizes'[p] = HashedSizes[p]
      /\ hash = "hashed" => HashedSizes'[cur] = NodeSize(n)
  <2>1. ASSUME NEW p \in HashedPaths PROVE HashedSizes'[p] = HashedSizes[p]
    BY <1>d DEF HashedSizes, HashedPaths
  <2>2. hash = "hashed" => HashedSizes'[cur] = NodeSize(n)
    BY <1>d, <1>g DEF HashedSizes
  <2> QED BY <2>1, <2>2
<1>1. retainedTotal' = Cardinality(Retained')
  BY <1>a, <1>c, <1>d, <1>j, FS_AddElement
<1>2. sensitiveSkipped' = Cardinality(Skipped')
  <2>1. cur \notin Skipped BY <1>d DEF Skipped
  <2> DEFINE b == hash = "skipped_sensitive_path"
  <2>2. Skipped' = IF b THEN Skipped \cup {cur} ELSE Skipped BY <1>d
  <2>3. Cardinality(Skipped') = Cardinality(Skipped) + (IF b THEN 1 ELSE 0)
    BY <1>c, <2>1, <2>2, SetGrown
  <2> QED BY <1>a, <1>j, <2>3
<1>3. hashedTotal' = SumFunctionOnSet([r \in 1..NRoots |-> stats'[r].hashedBytes], 1..NRoots)
  <2> DEFINE f == [r \in 1..NRoots |-> stats[r].hashedBytes]
             k == [r \in 1..NRoots |-> stats'[r].hashedBytes]
  <2>1. \A r \in 1..NRoots : f[r] \in Nat BY <1>f DEF Stats
  <2>2. \A r \in 1..NRoots : r # root => k[r] = f[r] BY <1>k
  <2>3. k[root] = f[root] + bytes BY <1>f, <1>h, <1>k
  <2>4. IsFiniteSet(1..NRoots) BY FS_Interval, Bounds
  <2>5. hashedTotal = SumFunctionOnSet(f, 1..NRoots) BY <1>a
  <2> HIDE DEF f, k
  <2>6. SumFunctionOnSet(k, 1..NRoots) = SumFunctionOnSet(f, 1..NRoots) + bytes
    <3>1. root \in 1..NRoots /\ bytes \in Nat BY <1>f, <1>g
    <3> DEFINE R == 1..NRoots
    <3>2. root \in R /\ IsFiniteSet(R) /\ \A r \in R : f[r] \in Nat BY <2>1, <2>4, <3>1
    <3>3. \A r \in R : r # root => k[r] = f[r] BY <2>2
    <3> HIDE DEF R
    <3>4. ASSUME NEW b \in Nat, k[root] = f[root] + b
          PROVE  SumFunctionOnSet(k, R) = SumFunctionOnSet(f, R) + b
      BY <3>2, <3>3, <3>4, SumRaised
    <3> QED BY <2>3, <3>1, <3>4 DEF R
  <2> QED BY <1>j, <2>5, <2>6 DEF k
<1>4. ASSUME NEW r \in 1..NRoots PROVE Tallied(r)'
  <2>0. Tallied(r) BY <1>a
  <2>1. HashedIn(r) \subseteq HashedPaths BY DEF HashedIn
  <2>2. CASE r # root
    <3>1. /\ stats'[r] = stats[r] /\ RetainedIn(r)' = RetainedIn(r) /\ HashedIn(r)' = HashedIn(r)
          /\ FilesIn(r)' = FilesIn(r)
      BY <1>e, <1>k, <2>2
    <3>2. \A p \in HashedIn(r) : HashedSizes[p] = HashedSizes'[p] BY <1>l, <2>1
    <3>3. SumFunctionOnSet(HashedSizes, HashedIn(r)) = SumFunctionOnSet(HashedSizes', HashedIn(r))
      BY <1>c, <3>2, SumSame
    <3> QED BY <2>0, <3>1, <3>3 DEF Tallied
  <2>3. CASE r = root
    <3> DEFINE isHashed == hash = "hashed"
               isFile == n.kind = "file"
    <3>1. cur \notin RetainedIn(r) /\ cur \notin HashedIn(r) /\ cur \notin FilesIn(r)
      BY <1>d DEF RetainedIn, HashedIn, FilesIn
    <3>2. Cardinality(RetainedIn(r)') = Cardinality(RetainedIn(r)) + 1
      <4>1. RetainedIn(r)' = RetainedIn(r) \cup {cur} /\ IsFiniteSet(RetainedIn(r))
        BY <1>c, <1>e, <2>3
      <4> QED BY <3>1, <4>1, FS_AddElement
    <3>3. Cardinality(HashedIn(r)') = Cardinality(HashedIn(r)) + (IF isHashed THEN 1 ELSE 0)
      <4>1. HashedIn(r)' = IF isHashed THEN HashedIn(r) \cup {cur} ELSE HashedIn(r)
        BY <1>e, <2>3
      <4> DEFINE S == HashedIn(r)
                 T == HashedIn(r)'
      <4>2. /\ IsFiniteSet(S) /\ cur \notin S /\ isHashed \in BOOLEAN
            /\ T = IF isHashed THEN S \cup {cur} ELSE S
        BY <1>c, <3>1, <4>1
      <4> HIDE DEF S, T, isHashed
      <4>3. Cardinality(T) = Cardinality(S) + (IF isHashed THEN 1 ELSE 0) BY <4>2, SetGrown
      <4> QED BY <4>3 DEF S, T
    <3>4. Cardinality(FilesIn(r)') = Cardinality(FilesIn(r)) + (IF isFile THEN 1 ELSE 0)
      <4>1. FilesIn(r)' = IF isFile THEN FilesIn(r) \cup {cur} ELSE FilesIn(r)
        BY <1>e, <2>3
      <4> DEFINE S == FilesIn(r)
                 T == FilesIn(r)'
      <4>2. /\ IsFiniteSet(S) /\ cur \notin S /\ isFile \in BOOLEAN
            /\ T = IF isFile THEN S \cup {cur} ELSE S
        BY <1>c, <3>1, <4>1
      <4> HIDE DEF S, T, isFile
      <4>3. Cardinality(T) = Cardinality(S) + (IF isFile THEN 1 ELSE 0) BY <4>2, SetGrown
      <4> QED BY <4>3 DEF S, T
    <3>5. SumFunctionOnSet(HashedSizes', HashedIn(r)') = SumFunctionOnSet(HashedSizes, HashedIn(r)) + bytes
      <4>1. HashedIn(r)' = IF isHashed THEN HashedIn(r) \cup {cur} ELSE HashedIn(r)
        BY <1>e, <2>3
      <4>2. \A p \in HashedIn(r) : HashedSizes[p] \in Nat /\ HashedSizes'[p] = HashedSizes[p]
        BY <1>c, <1>l, <2>1
      <4>3. isHashed => HashedSizes'[cur] \in Nat /\ HashedSizes'[cur] = NodeSize(n)
        BY <1>g, <1>l
      <4>4. SumFunctionOnSet(HashedSizes', HashedIn(r)')
              = SumFunctionOnSet(HashedSizes, HashedIn(r)) + (IF isHashed THEN HashedSizes'[cur] ELSE 0)
        <5>1. isHashed \in BOOLEAN /\ IsFiniteSet(HashedIn(r)) BY <1>c
        <5> DEFINE H == HashedIn(r)
                   G == HashedIn(r)'
                   f == HashedSizes
                   k == HashedSizes'
        <5>2. /\ cur \notin H /\ G = IF isHashed THEN H \cup {cur} ELSE H
              /\ IsFiniteSet(H) /\ isHashed \in BOOLEAN
          BY <3>1, <4>1, <5>1
        <5>3. (\A p \in H : f[p] \in Nat /\ k[p] = f[p]) /\ (isHashed => k[cur] \in Nat)
          BY <4>2, <4>3
        <5> HIDE DEF H, G, f, k, isHashed
        <5>4. SumFunctionOnSet(k, G) = SumFunctionOnSet(f, H) + (IF isHashed THEN k[cur] ELSE 0)
          BY <5>2, <5>3, SumGrown
        <5> QED BY <5>4 DEF H, G, f, k
      <4> QED BY <4>3, <4>4 DEF bytes
    <3>6. /\ stats'[r].retained = stats[r].retained + 1
          /\ stats'[r].hashedFiles = stats[r].hashedFiles + (IF isHashed THEN 1 ELSE 0)
          /\ stats'[r].hashedBytes = stats[r].hashedBytes + bytes
          /\ stats'[r].skipped = stats[r].skipped + (IF HashSkipped(n, hash) THEN 1 ELSE 0)
      BY <1>h, <1>k, <2>3
    <3>7. stats'[r].hashedFiles + stats'[r].skipped
            = stats[r].hashedFiles + stats[r].skipped + (IF isFile THEN 1 ELSE 0)
      <4>1. stats[r].hashedFiles \in Nat /\ stats[r].skipped \in Nat BY <1>f DEF Stats
      <4> QED BY <3>6, <4>1 DEF HashSkipped
    <3> QED BY <2>0, <3>2, <3>3, <3>4, <3>5, <3>6, <3>7 DEF Tallied
  <2> QED BY <2>2, <2>3
<1>5. CountersMatchEntries' <=>
        /\ retainedTotal' = Cardinality(Retained')
        /\ hashedTotal' = SumFunctionOnSet([r \in 1..NRoots |-> stats'[r].hashedBytes], 1..NRoots)
        /\ sensitiveSkipped' = Cardinality(Skipped')
        /\ \A r \in 1..NRoots : Tallied(r)'
  <2>1. DOMAIN [r \in 1..NRoots |-> stats'[r].hashedBytes] = 1..NRoots OBVIOUS
  <2>2. SumFunction([r \in 1..NRoots |-> stats'[r].hashedBytes])
          = SumFunctionOnSet([r \in 1..NRoots |-> stats'[r].hashedBytes], 1..NRoots)
    BY <2>1, Zenon DEF SumFunction
  <2> QED BY <2>2, Zenon DEF CountersMatchEntries, Tallied, HashedIn, FilesIn, Skipped
<1> QED BY <1>1, <1>2, <1>3, <1>4, <1>5 DEF CountersInv

-----------------------------------------------------------------------------
(* Steps as the counters see them.                                         *)

\* The root at hand counts i more items and j more errors; no entry is counted.
Counted(i, j) ==
    /\ UNCHANGED tallyVars
    /\ \A r \in 1..NRoots : r # root => stats'[r] = stats[r]
    /\ root \in 1..NRoots =>
         /\ stats'[root].scanned = stats[root].scanned + i
         /\ stats'[root].errors = stats[root].errors + j
         /\ stats'[root].retained = stats[root].retained
         /\ stats'[root].hashedFiles = stats[root].hashedFiles
         /\ stats'[root].hashedBytes = stats[root].hashedBytes
         /\ stats'[root].skipped = stats[root].skipped
         /\ stats[root].truncated => stats'[root].truncated

\* The entry in hand is kept; it is hashed only after a whole read of an open file.
Keeps(n, target, digest, hash) ==
    /\ pc \in InHand /\ Retain(n, target, digest, hash)
    /\ hash = "hashed" => /\ pc = "hash" /\ n = meta /\ n.kind = "file"
                          /\ \E r \in Reads : ReadIsWhole(r) /\ digest = r.digest

CountsNothing ==
    /\ Counted(0, 0)
    /\ (pc' \in InHand) = (pc \in InHand)
    /\ root' = root \/ (root' = root + 1 /\ pc \notin InHand)
CountsError == Counted(1, 1) /\ pc = "walk" /\ pc' = "walk" /\ root' = root
CountsVisit == Counted(1, 0) /\ pc = "walk" /\ pc' = "stat" /\ root' = root
CountsLimit == /\ Counted(1, 0) /\ pc = "walk" /\ pc' = "roots" /\ root' = root + 1
               /\ retainedTotal = MaxEntries /\ stats'[root].truncated
CountsFailure == Counted(0, 1) /\ pc = "stat" /\ pc' = "walk" /\ root' = root

LEMMA CountedOnce ==
    ASSUME ExtentInv, root \in 1..NRoots, NEW s, stats' = [stats EXCEPT ![root] = s],
           NEW i, NEW j, UNCHANGED tallyVars,
           s.scanned = stats[root].scanned + i, s.errors = stats[root].errors + j,
           s.retained = stats[root].retained, s.hashedFiles = stats[root].hashedFiles,
           s.hashedBytes = stats[root].hashedBytes, s.skipped = stats[root].skipped,
           stats[root].truncated => s.truncated
    PROVE  Counted(i, j) /\ stats'[root] = s
<1>1. stats'[root] = s /\ \A r \in 1..NRoots : r # root => stats'[r] = stats[r]
  BY DEF ExtentInv, TailInv, AbsenceInv, TypeInv, TypeOK
<1> QED BY <1>1, Zenon DEF Counted

\* Marking a root truncated, after counting k more items, touches no other counter.
LEMMA TruncatedFields ==
    ASSUME NEW s \in Stats, NEW k \in Nat
    PROVE  LET c == [Truncated(s) EXCEPT !.scanned = s.scanned + k]
               t == Truncated(s) IN
           /\ c.scanned = s.scanned + k /\ c.errors = s.errors /\ c.retained = s.retained
           /\ c.hashedFiles = s.hashedFiles /\ c.hashedBytes = s.hashedBytes
           /\ c.skipped = s.skipped /\ c.truncated
           /\ t.scanned = s.scanned + 0 /\ t.errors = s.errors + 0 /\ t.retained = s.retained
           /\ t.hashedFiles = s.hashedFiles /\ t.hashedBytes = s.hashedBytes
           /\ t.skipped = s.skipped /\ t.truncated
<1> DEFINE s1 == [s EXCEPT !.truncated = TRUE]
           s2 == [s1 EXCEPT !.omittedKnown = FALSE]
           m == s.scanned + k
           s3 == [s2 EXCEPT !.scanned = m]
           Same(c) == /\ c.errors = s.errors /\ c.retained = s.retained
                      /\ c.hashedFiles = s.hashedFiles /\ c.hashedBytes = s.hashedBytes
                      /\ c.skipped = s.skipped /\ c.truncated
<1>1. Truncated(s) = s2 BY Zenon DEF Truncated, s1, s2
<1>2. s.scanned \in Nat /\ s.errors \in Nat /\ m \in Nat BY DEF Stats
<1> HIDE DEF m
<1>3. s1 \in Stats /\ Same(s1) /\ s1.scanned = s.scanned BY DEF Stats
<1> HIDE DEF s1
<1>4. s2 \in Stats /\ Same(s2) /\ s2.scanned = s.scanned BY <1>3 DEF Stats
<1> HIDE DEF s2
<1>5. Same(s3) /\ s3.scanned = m BY <1>2, <1>4 DEF Stats
<1>6. s.scanned + 0 = s.scanned /\ s.errors + 0 = s.errors BY <1>2
<1> HIDE DEF s3
<1>7. [Truncated(s) EXCEPT !.scanned = s.scanned + k] = s3 BY <1>1, Zenon DEF s3, m
<1> QED BY <1>1, <1>4, <1>5, <1>6, <1>7 DEF m

LEMMA ErrorFields ==
    ASSUME NEW s \in Stats
    PROVE  LET c == WalkErrorCounted(s)
               d == [s EXCEPT !.errors = s.errors + 1]
               v == [s EXCEPT !.scanned = s.scanned + 1] IN
           /\ c.scanned = s.scanned + 1 /\ c.errors = s.errors + 1 /\ c.retained = s.retained
           /\ c.hashedFiles = s.hashedFiles /\ c.hashedBytes = s.hashedBytes
           /\ c.skipped = s.skipped /\ c.truncated = s.truncated
           /\ d.scanned = s.scanned + 0 /\ d.errors = s.errors + 1 /\ d.retained = s.retained
           /\ d.hashedFiles = s.hashedFiles /\ d.hashedBytes = s.hashedBytes
           /\ d.skipped = s.skipped /\ d.truncated = s.truncated
           /\ v.scanned = s.scanned + 1 /\ v.errors = s.errors + 0 /\ v.retained = s.retained
           /\ v.hashedFiles = s.hashedFiles /\ v.hashedBytes = s.hashedBytes
           /\ v.skipped = s.skipped /\ v.truncated = s.truncated
<1> DEFINE Same(c) == /\ c.retained = s.retained /\ c.hashedFiles = s.hashedFiles
                      /\ c.hashedBytes = s.hashedBytes /\ c.skipped = s.skipped
                      /\ c.truncated = s.truncated
           m == s.scanned + 1
           e == s.errors + 1
           v == [s EXCEPT !.scanned = m]
           d == [s EXCEPT !.errors = e]
           c == [v EXCEPT !.errors = e]
<1>1. /\ s.scanned \in Nat /\ s.errors \in Nat /\ m \in Nat /\ e \in Nat
      /\ s.scanned + 0 = s.scanned /\ s.errors + 0 = s.errors
  BY DEF Stats
<1> HIDE DEF m, e
<1>2. v \in Stats /\ Same(v) /\ v.scanned = m /\ v.errors = s.errors BY <1>1 DEF Stats
<1>3. Same(d) /\ d.scanned = s.scanned /\ d.errors = e BY <1>1 DEF Stats
<1> HIDE DEF v, d
<1>4. Same(c) /\ c.scanned = m /\ c.errors = e BY <1>1, <1>2 DEF Stats
<1> HIDE DEF c
<1>5. WalkErrorCounted(s) = c BY Zenon DEF WalkErrorCounted, c, v, m, e
<1>6. [s EXCEPT !.errors = s.errors + 1] = d /\ [s EXCEPT !.scanned = s.scanned + 1] = v
  BY Zenon DEF d, v, m, e
<1> QED BY <1>1, <1>2, <1>3, <1>4, <1>5, <1>6 DEF m, e

LEMMA CountedMoves ==
    ExtentInv /\ Move =>
      \/ CountsNothing \/ CountsError \/ CountsVisit \/ CountsLimit \/ CountsFailure
      \/ \E n \in Nodes, target \in Data \cup {None}, digest \in Data \cup {Torn, None},
            hash \in HashStates : Keeps(n, target, digest, hash)
<1> DEFINE Kept == \E n \in Nodes, target \in Data \cup {None}, digest \in Data \cup {Torn, None},
                      hash \in HashStates : Keeps(n, target, digest, hash)
           Goal == CountsNothing \/ CountsError \/ CountsVisit \/ CountsLimit \/ CountsFailure \/ Kept
<1> SUFFICES ASSUME ExtentInv, Move PROVE Goal OBVIOUS
<1>a. /\ pc \in Walking => root \in 1..NRoots
      /\ pc \in InHand => cur \in Paths
      /\ \A r \in 1..NRoots : stats[r] \in Stats
      /\ stats \in [1..NRoots -> Stats]
      /\ retainedTotal \in 0..MaxEntries /\ MaxEntries \in Nat
  BY RootFacts, Bounds DEF ExtentInv, TailInv, AbsenceInv, TypeInv, TypeOK
<1>b. /\ pc \in {"readlink", "open", "waiting", "hash"} => meta \in Nodes
      /\ pc \in {"open", "waiting", "hash"} => meta.kind = "file"
      /\ pc = "hash" => /\ buf \in [data : Data \cup {None}, torn : BOOLEAN]
                        /\ ~buf.torn => buf.data \in Data
      /\ fs \in [Paths -> Nodes \cup {None}]
  BY DEF ExtentInv, TailInv, AbsenceInv, TypeInv, TypeOK, HandOK
<1>c. ASSUME UNCHANGED <<tallyVars, stats>>, (pc' \in InHand) = (pc \in InHand),
             root' = root \/ (root' = root + 1 /\ pc \notin InHand)
      PROVE  CountsNothing
  <2>1. Counted(0, 0)
    <3>1. \A r \in 1..NRoots : stats'[r].scanned = stats[r].scanned + 0
                               /\ stats'[r].errors = stats[r].errors + 0
      BY <1>a, <1>c DEF Stats
    <3> QED BY <1>c, <3>1, Zenon DEF Counted
  <2> QED BY <1>c, <2>1 DEF CountsNothing
<1>1. CASE SkipRoot
  <2>1. /\ UNCHANGED tallyVars /\ root' = root + 1 /\ pc = "roots" /\ pc' = pc
        /\ root <= NRoots /\ stats' = [stats EXCEPT ![root] = Truncated(stats[root])]
    BY <1>1 DEF SkipRoot
  <2>2. root \in 1..NRoots
    BY <2>1, Bounds DEF ExtentInv, TailInv, AbsenceInv, TypeInv, TypeOK
  <2>3. Counted(0, 0)
    <3> DEFINE s == Truncated(stats[root])
    <3>1. stats[root] \in Stats BY <1>a, <2>2
    <3>2. /\ s.scanned = stats[root].scanned + 0 /\ s.errors = stats[root].errors + 0
          /\ s.retained = stats[root].retained /\ s.hashedFiles = stats[root].hashedFiles
          /\ s.hashedBytes = stats[root].hashedBytes /\ s.skipped = stats[root].skipped
          /\ s.truncated
      <4>1. 0 \in Nat OBVIOUS
      <4> QED BY <3>1, <4>1, TruncatedFields, Zenon
    <3> HIDE DEF s
    <3>3. stats' = [stats EXCEPT ![root] = s] BY <2>1 DEF s
    <3> QED BY <2>1, <2>2, <3>2, <3>3, CountedOnce
  <2> QED BY <2>1, <2>3 DEF CountsNothing, InHand
<1>2. CASE OpenRoot \/ CloseRoot \/ StatGoesOn \/ Opens \/ Finish
            \/ Change \/ FlagRises \/ UNCHANGED vars
  <2>1. /\ UNCHANGED <<tallyVars, stats>> /\ (pc' \in InHand) = (pc \in InHand)
        /\ root' = root \/ (root' = root + 1 /\ pc \notin InHand)
    <3>1. CASE OpenRoot \/ CloseRoot \/ Finish
      <4>1. /\ UNCHANGED <<tallyVars, stats>> /\ pc \notin InHand /\ pc' \notin InHand
            /\ root' = root \/ root' = root + 1
        BY <3>1 DEF OpenRoot, CloseRoot, Finish, walkVars, InHand
      <4> QED BY <4>1
    <3>2. CASE StatGoesOn \/ Opens
      <4>1. UNCHANGED <<tallyVars, stats, root>> /\ pc \in InHand /\ pc' \in InHand
        BY <3>2 DEF StatGoesOn, Opens, OpenContent, OpenWaits, WaitEnds, Waits, walkVars, InHand
      <4> QED BY <4>1
    <3>3. CASE Change \/ FlagRises \/ UNCHANGED vars
      <4>1. UNCHANGED <<tallyVars, stats, root, pc>>
        BY <3>3 DEF Change, FlagRises, vars, captureVars, walkVars
      <4> QED BY <4>1
    <3> QED BY <1>2, <3>1, <3>2, <3>3
  <2> QED BY <1>c, <2>1
<1>3. ASSUME pc = "walk", NEW k \in {0, 1}, BreakWalk(k)
      PROVE  Counted(k, 0) /\ stats'[root].truncated
  <2> DEFINE s == [Truncated(stats[root]) EXCEPT !.scanned = stats[root].scanned + k]
  <2>1. root \in 1..NRoots /\ stats[root] \in Stats BY <1>3, <1>a DEF Walking
  <2>2. k \in Nat BY <1>3
  <2>3. /\ s.scanned = stats[root].scanned + k /\ s.errors = stats[root].errors
        /\ s.retained = stats[root].retained /\ s.hashedFiles = stats[root].hashedFiles
        /\ s.hashedBytes = stats[root].hashedBytes /\ s.skipped = stats[root].skipped
        /\ s.truncated
    BY <2>1, <2>2, TruncatedFields, Zenon
  <2>4. stats' = [stats EXCEPT ![root] = s] /\ UNCHANGED tallyVars BY <1>3 DEF BreakWalk
  <2> HIDE DEF s
  <2>5. s.errors = stats[root].errors + 0 BY <2>1, <2>3 DEF Stats
  <2>6. Counted(k, 0) /\ stats'[root] = s BY <2>1, <2>3, <2>4, <2>5, CountedOnce
  <2> QED BY <2>3, <2>6
<1>4. CASE StopOnInterrupt
  <2>1. pc = "walk" /\ pc' = "roots" /\ root' = root + 1 /\ BreakWalk(0)
    BY <1>4 DEF StopOnInterrupt, BreakWalk
  <2> QED BY <1>3, <2>1 DEF CountsNothing, InHand
<1>5. CASE StopOnLimit
  <2>1. pc = "walk" /\ pc' = "roots" /\ root' = root + 1 /\ BreakWalk(1) /\ AtEntryLimit
    BY <1>5 DEF StopOnLimit, BreakWalk
  <2>2. retainedTotal = MaxEntries BY <1>a, <2>1 DEF AtEntryLimit
  <2> QED BY <1>3, <2>1, <2>2 DEF CountsLimit
<1>6. CASE CountWalkError
  <2> DEFINE s == WalkErrorCounted(stats[root])
  <2>1. /\ UNCHANGED <<tallyVars, root>> /\ pc = "walk" /\ pc' = "walk"
        /\ stats' = [stats EXCEPT ![root] = s]
    BY <1>6 DEF CountWalkError
  <2>2. root \in 1..NRoots /\ stats[root] \in Stats BY <1>a, <2>1 DEF Walking
  <2>3. /\ s.scanned = stats[root].scanned + 1 /\ s.errors = stats[root].errors + 1
        /\ s.retained = stats[root].retained /\ s.hashedFiles = stats[root].hashedFiles
        /\ s.hashedBytes = stats[root].hashedBytes /\ s.skipped = stats[root].skipped
        /\ s.truncated = stats[root].truncated
    BY <2>2, ErrorFields, Zenon
  <2> HIDE DEF s
  <2>4. Counted(1, 1) BY <2>1, <2>2, <2>3, CountedOnce
  <2> QED BY <2>1, <2>4 DEF CountsError
<1>7. ASSUME NEW v \in Paths, VisitEntry(v) PROVE CountsVisit
  <2> DEFINE m == stats[root].scanned + 1
             s == [stats[root] EXCEPT !.scanned = m]
  <2>1. /\ UNCHANGED <<tallyVars, root>> /\ pc = "walk" /\ pc' = "stat"
        /\ stats' = [stats EXCEPT ![root].scanned = @ + 1]
    BY <1>7 DEF VisitEntry
  <2>2. root \in 1..NRoots /\ stats[root] \in Stats BY <1>a, <2>1 DEF Walking
  <2>3. stats' = [stats EXCEPT ![root] = s] BY <1>a, <2>1, <2>2
  <2>4. /\ s.scanned = stats[root].scanned + 1 /\ s.errors = stats[root].errors + 0
        /\ s.retained = stats[root].retained /\ s.hashedFiles = stats[root].hashedFiles
        /\ s.hashedBytes = stats[root].hashedBytes /\ s.skipped = stats[root].skipped
        /\ s.truncated = stats[root].truncated
    BY <2>2, ErrorFields, Zenon
  <2> HIDE DEF s
  <2>5. Counted(1, 0) BY <2>1, <2>2, <2>3, <2>4, CountedOnce
  <2> QED BY <2>1, <2>5 DEF CountsVisit
<1>8. CASE StatFails
  <2> DEFINE m == stats[root].errors + 1
             s == [stats[root] EXCEPT !.errors = m]
  <2>1. /\ UNCHANGED <<tallyVars, root>> /\ pc = "stat" /\ pc' = "walk"
        /\ stats' = [stats EXCEPT ![root].errors = @ + 1]
    BY <1>8 DEF StatFails, walkVars
  <2>2. root \in 1..NRoots /\ stats[root] \in Stats BY <1>a, <2>1 DEF Walking, InHand
  <2>3. stats' = [stats EXCEPT ![root] = s] BY <1>a, <2>1, <2>2
  <2>4. /\ s.scanned = stats[root].scanned + 0 /\ s.errors = stats[root].errors + 1
        /\ s.retained = stats[root].retained /\ s.hashedFiles = stats[root].hashedFiles
        /\ s.hashedBytes = stats[root].hashedBytes /\ s.skipped = stats[root].skipped
        /\ s.truncated = stats[root].truncated
    BY <2>2, ErrorFields, Zenon
  <2> HIDE DEF s
  <2>5. Counted(0, 1) BY <2>1, <2>2, <2>3, <2>4, CountedOnce
  <2> QED BY <2>1, <2>5 DEF CountsFailure
<1>9. CASE StatKeeps
  <2>1. pc \in InHand /\ fs[cur] \in Nodes
    BY <1>9, <1>a, <1>b DEF StatKeeps, Kind, InHand
  <2>2. HashDecision(cur, fs[cur]) \in HashStates BY DEF HashDecision, HashStates
  <2>3. Keeps(fs[cur], None, None, HashDecision(cur, fs[cur]))
    BY <1>9, <2>1 DEF StatKeeps, Keeps
  <2> QED BY <2>1, <2>2, <2>3
<1>10. CASE ReadLink
  <2>1. PICK target \in (IF Kind(fs[cur]) = "symlink" THEN {fs[cur].data} ELSE {None})
                          \cup (IF IoFaults THEN {None} ELSE {}) :
          Retain(meta, target, None, "not_regular_file")
    BY <1>10 DEF ReadLink
  <2>2. fs[cur] \in Nodes \cup {None} /\ meta \in Nodes /\ pc \in InHand
    BY <1>10, <1>a, <1>b DEF ReadLink, InHand
  <2>3. target \in Data \cup {None}
    BY <2>1, <2>2, ValueAssumption DEF Kind, ValueAssumption
  <2>4. Keeps(meta, target, None, "not_regular_file") BY <2>1, <2>2 DEF Keeps
  <2> QED BY <2>2, <2>3, <2>4 DEF HashStates
<1>11. CASE OpenFails \/ ReadFails
  <2>1. pc \in {"open", "waiting", "hash"} /\ Retain(meta, None, None, "read_error")
    BY <1>11 DEF OpenFails, ReadFails
  <2>2. Keeps(meta, None, None, "read_error") BY <2>1 DEF Keeps, InHand
  <2> QED BY <1>b, <2>1, <2>2 DEF HashStates
<1>12. CASE FinishRead
  <2>1. PICK r \in Reads :
          IF ReadIsWhole(r) THEN Retain(meta, None, r.digest, "hashed")
                            ELSE Retain(meta, None, None, "changed_during_read")
    BY <1>12 DEF FinishRead
  <2>2. r.digest \in Data \cup {Torn, None} /\ pc = "hash" /\ meta \in Nodes /\ meta.kind = "file"
    BY <1>12, <1>b, <2>1 DEF FinishRead, Reads
  <2>3. CASE ReadIsWhole(r)
    <3>1. Keeps(meta, None, r.digest, "hashed") BY <2>1, <2>2, <2>3 DEF Keeps, InHand
    <3> QED BY <2>2, <3>1 DEF HashStates
  <2>4. CASE ~ReadIsWhole(r)
    <3>1. Keeps(meta, None, None, "changed_during_read") BY <2>1, <2>2, <2>4 DEF Keeps, InHand
    <3> QED BY <2>2, <3>1 DEF HashStates
  <2> QED BY <2>3, <2>4
<1> QED
  BY <1>1, <1>2, <1>4, <1>5, <1>6, <1>7, <1>8, <1>9, <1>10, <1>11, <1>12
  DEF Move, CaptureStep, Opens

-----------------------------------------------------------------------------
(* What was scanned.                                                       *)

\* What is scanned of a root is kept or failed, but for k items.
Scanned(r, k) == stats[r].scanned = stats[r].retained + stats[r].errors + k

\* A root that was left because one more item met the entry limit.
MetLimit(r) ==
    Scanned(r, 1) /\ r < root /\ stats[r].truncated /\ retainedTotal = MaxEntries

ScanInv ==
    /\ pc \in InHand => Scanned(root, 1)
    /\ \A r \in 1..NRoots : r # root \/ pc \notin InHand => Scanned(r, 0) \/ MetLimit(r)
    /\ \A r, s \in 1..NRoots :
         r < root /\ s < root /\ Scanned(r, 1) /\ Scanned(s, 1) => r = s

TallyInv == CountersInv /\ ScanInv

\* Steps that keep no entry keep the counters of entries.
LEMMA CountersKept ==
    ASSUME CountersInv, ExtentInv', NEW i, NEW j, Counted(i, j)
    PROVE  CountersInv'
<1> DEFINE bytes == [r \in 1..NRoots |-> stats[r].hashedBytes]
<1>1. UNCHANGED <<entries, retainedTotal, hashedTotal, sensitiveSkipped>>
  BY DEF Counted, tallyVars
<1>2. \A r \in 1..NRoots : /\ stats'[r].retained = stats[r].retained
                           /\ stats'[r].hashedFiles = stats[r].hashedFiles
                           /\ stats'[r].hashedBytes = stats[r].hashedBytes
                           /\ stats'[r].skipped = stats[r].skipped
  BY DEF Counted
<1>3. [r \in 1..NRoots |-> stats'[r].hashedBytes] = bytes BY <1>2
<1>4. Retained' = Retained BY <1>1 DEF Retained
<1>5. HashedPaths' = HashedPaths BY <1>1, <1>4 DEF HashedPaths
<1>6. HashedSizes' = HashedSizes BY <1>1, <1>5 DEF HashedSizes
<1>7. \A r \in 1..NRoots : RetainedIn(r)' = RetainedIn(r) BY <1>4 DEF RetainedIn
<1>8. /\ retainedTotal = Cardinality(Retained)
      /\ hashedTotal = SumFunction(bytes)
      /\ sensitiveSkipped = Cardinality({p \in Retained : entries[p].hash = "skipped_sensitive_path"})
  BY Zenon DEF CountersInv, CountersMatchEntries
<1> HIDE DEF bytes
<1>9. ASSUME NEW r \in 1..NRoots
      PROVE  /\ stats[r].retained = Cardinality(RetainedIn(r))
             /\ stats[r].hashedFiles = Cardinality(RetainedIn(r) \cap HashedPaths)
             /\ stats[r].hashedBytes =
                  SumFunctionOnSet(HashedSizes, RetainedIn(r) \cap HashedPaths)
             /\ stats[r].hashedFiles + stats[r].skipped =
                  Cardinality({p \in RetainedIn(r) : entries[p].kind = "file"})
  BY Zenon DEF CountersInv, CountersMatchEntries
<1>10. ASSUME NEW r \in 1..NRoots
       PROVE  /\ stats'[r].retained = Cardinality(RetainedIn(r)')
              /\ stats'[r].hashedFiles = Cardinality(RetainedIn(r)' \cap HashedPaths')
              /\ stats'[r].hashedBytes =
                   SumFunctionOnSet(HashedSizes', RetainedIn(r)' \cap HashedPaths')
              /\ stats'[r].hashedFiles + stats'[r].skipped =
                   Cardinality({p \in RetainedIn(r)' : entries'[p].kind = "file"})
  BY <1>1, <1>2, <1>5, <1>6, <1>7, <1>9
<1>11. /\ retainedTotal' = Cardinality(Retained')
       /\ hashedTotal' = SumFunction([r \in 1..NRoots |-> stats'[r].hashedBytes])
       /\ sensitiveSkipped' =
            Cardinality({p \in Retained' : entries'[p].hash = "skipped_sensitive_path"})
  BY <1>1, <1>3, <1>4, <1>8
<1>12. CountersMatchEntries' BY <1>10, <1>11, Zenon DEF CountersMatchEntries
<1> QED BY <1>12 DEF CountersInv

\* The counters of a root as numbers.
LEMMA ScanFacts ==
    ExtentInv =>
      /\ root \in Nat /\ NRoots \in Nat /\ retainedTotal \in Nat
      /\ \A r \in 1..NRoots :
           /\ stats[r].scanned \in Nat /\ stats[r].retained \in Nat /\ stats[r].errors \in Nat
           /\ ~(Scanned(r, 0) /\ Scanned(r, 1))
<1> SUFFICES ASSUME ExtentInv
             PROVE  /\ root \in Nat /\ NRoots \in Nat /\ retainedTotal \in Nat
                    /\ \A r \in 1..NRoots :
                         /\ stats[r].scanned \in Nat /\ stats[r].retained \in Nat
                         /\ stats[r].errors \in Nat
                         /\ ~(Scanned(r, 0) /\ Scanned(r, 1))
  OBVIOUS
<1>1. root \in Nat /\ NRoots \in Nat BY RootFacts DEF ExtentInv
<1>2. retainedTotal \in Nat BY Bounds DEF ExtentInv, TailInv, AbsenceInv, TypeInv, TypeOK
<1>3. ASSUME NEW r \in 1..NRoots
      PROVE  /\ stats[r].scanned \in Nat /\ stats[r].retained \in Nat
             /\ stats[r].errors \in Nat
             /\ ~(Scanned(r, 0) /\ Scanned(r, 1))
  <2>1. stats[r] \in Stats BY RootFacts DEF ExtentInv
  <2>2. stats[r].scanned \in Nat /\ stats[r].retained \in Nat /\ stats[r].errors \in Nat
    BY <2>1 DEF Stats
  <2> QED BY <2>2 DEF Scanned
<1> QED BY <1>1, <1>2, <1>3

LEMMA TallyStep == TallyInv /\ Move => TallyInv'
<1> SUFFICES ASSUME TallyInv, Move PROVE TallyInv' OBVIOUS
<1>a. ExtentInv /\ CountersInv /\ ScanInv BY DEF TallyInv, CountersInv
<1>b. ExtentInv' BY <1>a, ExtentStep
<1>c. /\ root \in Nat /\ NRoots \in Nat /\ retainedTotal \in Nat
      /\ \A r \in 1..NRoots :
           /\ stats[r].scanned \in Nat /\ stats[r].retained \in Nat /\ stats[r].errors \in Nat
           /\ ~(Scanned(r, 0) /\ Scanned(r, 1))
  BY <1>a, ScanFacts
<1>d. pc \in Walking => root \in 1..NRoots /\ \A r \in 1..NRoots : ~stats[r].truncated
  BY <1>a, RootFacts DEF ExtentInv, TailInv, MarkInv
<1>e. pc \in Walking => \A r \in 1..NRoots : r # root => Scanned(r, 0)
  BY <1>a, <1>d DEF ScanInv, MetLimit
\* Steps of the walk that go on with the same root.
<1>f. ASSUME pc \in Walking, root' = root,
             \A r \in 1..NRoots : r # root => Scanned(r, 0)',
             pc' \in InHand => Scanned(root, 1)',
             pc' \notin InHand => Scanned(root, 0)'
      PROVE  ScanInv'
  <2>1. root \in 1..NRoots BY <1>d, <1>f
  <2>2. \A r \in 1..NRoots : r < root => ~Scanned(r, 1)'
    <3>1. \A r \in 1..NRoots : ~(Scanned(r, 0)' /\ Scanned(r, 1)')
      <4>1. \A r \in 1..NRoots : stats'[r] \in Stats
        BY <1>b DEF ExtentInv, TailInv, AbsenceInv, TypeInv, TypeOK
      <4>2. \A r \in 1..NRoots : /\ stats'[r].scanned \in Nat /\ stats'[r].retained \in Nat
                                 /\ stats'[r].errors \in Nat
        BY <4>1 DEF Stats
      <4> QED BY <4>2 DEF Scanned
    <3> QED BY <1>c, <1>f, <3>1
  <2>3. \A r \in 1..NRoots : r # root' \/ pc' \notin InHand => Scanned(r, 0)'
    BY <1>f
  <2>4. pc' \in InHand => Scanned(root, 1)' BY <1>f
  <2> QED BY <1>f, <2>2, <2>3, <2>4 DEF ScanInv
<1>1. CASE CountsNothing
  <2>1. CountersInv' BY <1>a, <1>b, <1>1, CountersKept DEF CountsNothing
  <2>2. \A r \in 1..NRoots : /\ stats'[r].scanned = stats[r].scanned
                             /\ stats'[r].errors = stats[r].errors
                             /\ stats'[r].retained = stats[r].retained
                             /\ stats[r].truncated => stats'[r].truncated
    BY <1>1, <1>c DEF CountsNothing, Counted
  <2>3. \A r \in 1..NRoots : /\ Scanned(r, 0)' <=> Scanned(r, 0)
                             /\ Scanned(r, 1)' <=> Scanned(r, 1)
    BY <2>2 DEF Scanned
  <2>4. /\ pc' \in InHand <=> pc \in InHand
        /\ root' = root \/ (root' = root + 1 /\ pc \notin InHand)
        /\ retainedTotal' = retainedTotal
    BY <1>1 DEF CountsNothing, Counted, tallyVars
  <2>5. \A r \in 1..NRoots : MetLimit(r) => MetLimit(r)'
    BY <1>c, <2>2, <2>3, <2>4 DEF MetLimit
  <2>6. pc' \in InHand => Scanned(root, 1)'
    <3> SUFFICES ASSUME pc' \in InHand PROVE Scanned(root, 1)' OBVIOUS
    <3>1. root' = root /\ root \in 1..NRoots /\ Scanned(root, 1)
      BY <1>a, <1>d, <2>4 DEF Walking, ScanInv
    <3> QED BY <2>2, <3>1 DEF Scanned
  <2>7. ASSUME NEW r \in 1..NRoots, r # root' \/ pc' \notin InHand
        PROVE  Scanned(r, 0)' \/ MetLimit(r)'
    <3>1. r # root \/ pc \notin InHand BY <2>4, <2>7
    <3> QED BY <1>a, <2>3, <2>5, <3>1 DEF ScanInv
  <2>8. ASSUME NEW r \in 1..NRoots, NEW s \in 1..NRoots, r < root', s < root',
               Scanned(r, 1)', Scanned(s, 1)'
        PROVE  r = s
    <3>1. Scanned(r, 1) /\ Scanned(s, 1) BY <2>3, <2>8
    <3>2. CASE root' = root BY <1>a, <2>8, <3>1, <3>2 DEF ScanInv
    <3>3. CASE root' # root
      <4>1. pc \notin InHand BY <2>4, <3>3
      <4>2. MetLimit(r) /\ MetLimit(s) BY <1>a, <1>c, <3>1, <4>1 DEF ScanInv
      <4> QED BY <1>a, <3>1, <4>2 DEF ScanInv, MetLimit
    <3> QED BY <3>2, <3>3
  <2>9. ScanInv' BY <2>6, <2>7, <2>8 DEF ScanInv
  <2> QED BY <2>1, <2>9 DEF TallyInv
<1>2. CASE CountsError \/ CountsVisit \/ CountsFailure
  <2>1. PICK i \in {0, 1}, j \in {0, 1} : Counted(i, j) /\
             \/ i = 1 /\ j = 1 /\ CountsError
             \/ i = 1 /\ j = 0 /\ CountsVisit
             \/ i = 0 /\ j = 1 /\ CountsFailure
    BY <1>2 DEF CountsError, CountsVisit, CountsFailure
  <2>2. CountersInv' BY <1>a, <1>b, <2>1, CountersKept
  <2>3. pc \in Walking /\ root' = root
    BY <1>2 DEF CountsError, CountsVisit, CountsFailure, Walking, InHand
  <2>4. \A r \in 1..NRoots : r # root => Scanned(r, 0)'
    BY <1>e, <2>1, <2>3 DEF Counted, Scanned
  <2>5. /\ root \in 1..NRoots
        /\ stats'[root].scanned = stats[root].scanned + i
        /\ stats'[root].errors = stats[root].errors + j
        /\ stats'[root].retained = stats[root].retained
    BY <1>d, <2>1, <2>3 DEF Counted
  <2>6. /\ stats[root].scanned \in Nat /\ stats[root].retained \in Nat
        /\ stats[root].errors \in Nat
    BY <1>c, <2>5
  <2>7. pc \notin InHand => Scanned(root, 0) BY <1>a, <1>c, <2>5 DEF ScanInv, MetLimit
  <2>8. pc \in InHand => Scanned(root, 1) BY <1>a DEF ScanInv
  <2>9. /\ pc' \in InHand => Scanned(root, 1)'
        /\ pc' \notin InHand => Scanned(root, 0)'
    <3>1. CASE CountsError
      <4>1. pc \notin InHand /\ pc' \notin InHand /\ i = 1 /\ j = 1
        BY <2>1, <3>1 DEF CountsError, CountsVisit, CountsFailure, InHand
      <4> QED BY <2>3, <2>5, <2>6, <2>7, <4>1 DEF Scanned
    <3>2. CASE CountsVisit
      <4>1. pc \notin InHand /\ pc' \in InHand /\ i = 1 /\ j = 0
        BY <2>1, <3>2 DEF CountsError, CountsVisit, CountsFailure, InHand
      <4> QED BY <2>3, <2>5, <2>6, <2>7, <4>1 DEF Scanned
    <3>3. CASE CountsFailure
      <4>1. pc \in InHand /\ pc' \notin InHand /\ i = 0 /\ j = 1
        BY <2>1, <3>3 DEF CountsError, CountsVisit, CountsFailure, InHand
      <4> QED BY <2>3, <2>5, <2>6, <2>8, <4>1 DEF Scanned
    <3> QED BY <1>2, <3>1, <3>2, <3>3
  <2>10. ScanInv' BY <1>f, <2>3, <2>4, <2>9
  <2> QED BY <2>2, <2>10 DEF TallyInv
<1>3. CASE CountsLimit
  <2>1. CountersInv' BY <1>a, <1>b, <1>3, CountersKept DEF CountsLimit
  <2>2. /\ Counted(1, 0) /\ pc = "walk" /\ pc' = "roots" /\ root' = root + 1
        /\ retainedTotal = MaxEntries /\ stats'[root].truncated /\ retainedTotal' = retainedTotal
    BY <1>3 DEF CountsLimit, Counted, tallyVars
  <2>3. root \in 1..NRoots /\ \A r \in 1..NRoots : r # root => Scanned(r, 0)
    BY <1>d, <1>e, <2>2 DEF Walking
  <2>4. \A r \in 1..NRoots : r # root => Scanned(r, 0)' /\ ~Scanned(r, 1)'
    <3>1. \A r \in 1..NRoots : r # root => stats'[r] = stats[r] BY <2>2 DEF Counted
    <3>2. \A r \in 1..NRoots : r # root => ~Scanned(r, 1) BY <1>c, <2>3
    <3> QED BY <2>3, <3>1, <3>2 DEF Scanned
  <2>5. Scanned(root, 0) BY <1>a, <1>c, <2>2, <2>3 DEF ScanInv, MetLimit, InHand
  <2>6. /\ stats'[root].scanned = stats[root].scanned + 1
        /\ stats'[root].errors = stats[root].errors + 0
        /\ stats'[root].retained = stats[root].retained
        /\ stats[root].scanned \in Nat /\ stats[root].retained \in Nat
        /\ stats[root].errors \in Nat
    BY <1>c, <2>2, <2>3 DEF Counted
  <2>7. stats'[root].scanned = stats'[root].retained + stats'[root].errors + 1
    BY <2>5, <2>6 DEF Scanned
  <2>8. ASSUME NEW r \in 1..NRoots, r = root PROVE MetLimit(r)'
    <3>1. r < root' BY <1>c, <2>2, <2>8
    <3>2. Scanned(r, 1)' BY <2>7, <2>8 DEF Scanned
    <3>3. stats'[r].truncated /\ retainedTotal' = MaxEntries BY <2>2, <2>8
    <3> QED BY <3>1, <3>2, <3>3 DEF MetLimit
  <2>9. ScanInv' BY <2>2, <2>3, <2>4, <2>8 DEF ScanInv, InHand
  <2> QED BY <2>1, <2>9 DEF TallyInv
<1>4. ASSUME NEW n \in Nodes, NEW target \in Data \cup {None}, NEW digest \in Data \cup {Torn, None},
             NEW hash \in HashStates, Keeps(n, target, digest, hash)
      PROVE  TallyInv'
  <2>1. pc \in InHand /\ Retain(n, target, digest, hash) /\ (hash = "hashed" => n.kind = "file")
    BY <1>4 DEF Keeps
  <2>2. CountersInv' BY <1>a, <1>b, <2>1, RetainCounts
  <2>3. /\ pc' = "walk" /\ root' = root
        /\ stats' = [stats EXCEPT ![root] = CountEntry(stats[root], n, hash)]
    BY <2>1 DEF Retain, walkVars
  <2>4. root \in 1..NRoots BY <1>d, <2>1 DEF Walking
  <2> DEFINE c == CountEntry(stats[root], n, hash)
  <2>5. /\ c.scanned = stats[root].scanned /\ c.errors = stats[root].errors
        /\ c.retained = stats[root].retained + 1
    <3>1. stats[root] \in Stats BY <1>a, <2>4, RootFacts DEF ExtentInv
    <3> QED BY <3>1, CountFields
  <2> HIDE DEF c
  <2>6. stats'[root] = c /\ \A r \in 1..NRoots : r # root => stats'[r] = stats[r]
    <3>1. stats \in [1..NRoots -> Stats]
      BY <1>a DEF ExtentInv, TailInv, AbsenceInv, TypeInv, TypeOK
    <3> QED BY <2>3, <2>4, <3>1 DEF c
  <2>7. \A r \in 1..NRoots : r # root => Scanned(r, 0)'
    BY <1>e, <2>1, <2>6 DEF Scanned, Walking
  <2>8. Scanned(root, 1) BY <1>a, <2>1 DEF ScanInv
  <2>9. Scanned(root, 0)'
    <3>1. stats[root].scanned \in Nat /\ stats[root].retained \in Nat /\ stats[root].errors \in Nat
      BY <1>c, <2>4
    <3> QED BY <2>3, <2>5, <2>6, <2>8, <3>1 DEF Scanned
  <2>10. ScanInv' BY <1>f, <2>1, <2>3, <2>7, <2>9 DEF Walking, InHand
  <2> QED BY <2>2, <2>10 DEF TallyInv
<1> QED BY <1>a, <1>1, <1>2, <1>3, <1>4, CountedMoves

LEMMA InitTally == Init => TallyInv
<1> SUFFICES ASSUME Init PROVE TallyInv OBVIOUS
<1>1. ExtentInv BY InitExtent
<1>2. /\ Retained = {} /\ pc = "roots" /\ root = 1
      /\ retainedTotal = 0 /\ hashedTotal = 0 /\ sensitiveSkipped = 0
      /\ \A r \in 1..NRoots :
           /\ stats[r].scanned = 0 /\ stats[r].retained = 0 /\ stats[r].errors = 0
           /\ stats[r].hashedFiles = 0 /\ stats[r].hashedBytes = 0 /\ stats[r].skipped = 0
  BY DEF Init, Fresh, Retained, ZeroStats
<1>3. /\ HashedPaths = {} /\ Skipped = {}
      /\ \A r \in 1..NRoots : RetainedIn(r) = {} /\ HashedIn(r) = {} /\ FilesIn(r) = {}
  BY <1>2 DEF HashedPaths, Skipped, RetainedIn, HashedIn, FilesIn
<1>4. Cardinality({}) = 0 BY FS_EmptySet
<1>5. hashedTotal = SumFunctionOnSet([r \in 1..NRoots |-> stats[r].hashedBytes], 1..NRoots)
  <2> DEFINE f == [r \in 1..NRoots |-> stats[r].hashedBytes]
  <2>1. \A r \in 1..NRoots : f[r] = 0 BY <1>2
  <2>2. IsFiniteSet(1..NRoots) BY FS_Interval, Bounds
  <2> HIDE DEF f
  <2>3. SumFunctionOnSet(f, 1..NRoots) = 0 BY <2>1, <2>2, SumZero
  <2> QED BY <1>2, <2>3 DEF f
<1>6. \A r \in 1..NRoots : Tallied(r) BY <1>2, <1>3, <1>4, SumEmpty DEF Tallied
<1>7. CountersMatchEntries BY <1>2, <1>3, <1>4, <1>5, <1>6, CountersAre
<1>8. \A r \in 1..NRoots : Scanned(r, 0) BY <1>2 DEF Scanned
<1>9. \A r \in 1..NRoots : ~(r < root) BY <1>2
<1> QED BY <1>1, <1>2, <1>7, <1>8, <1>9 DEF TallyInv, CountersInv, ScanInv, InHand

\* The counters of every receipt are true of its entries and of the walk.
THEOREM CountersTrue == Spec => []CountersAreTrue
<1>1. TallyInv /\ [Next]_vars => TallyInv' BY TallyStep, NextMoves
<1>2. TallyInv => CountersAreTrue
  <2> SUFFICES ASSUME TallyInv PROVE ScanAccounting
    BY DEF CountersAreTrue, TallyInv, CountersInv
  <2> SUFFICES ASSUME pc \in {"roots", "done"} PROVE ScanAccounting BY DEF ScanAccounting
  <2> DEFINE surplus(r) == stats[r].scanned - stats[r].retained - stats[r].errors
  <2>1. ExtentInv /\ ScanInv /\ pc \notin InHand BY DEF TallyInv, CountersInv, InHand
  <2>2. \A r \in 1..NRoots :
          /\ stats[r].scanned \in Nat /\ stats[r].retained \in Nat /\ stats[r].errors \in Nat
    BY <2>1, ScanFacts
  <2>3. \A r \in 1..NRoots : Scanned(r, 0) \/ MetLimit(r) BY <2>1 DEF ScanInv
  <2>4. ASSUME NEW r \in 1..NRoots
        PROVE  /\ surplus(r) \in {0, 1}
               /\ surplus(r) = 1 => MetLimit(r)
    <3>1. CASE Scanned(r, 0) BY <2>2, <3>1 DEF Scanned
    <3>2. CASE MetLimit(r) BY <2>2, <3>2 DEF MetLimit, Scanned
    <3> QED BY <2>3, <3>1, <3>2
  <2> HIDE DEF surplus
  <2>5. Cardinality({r \in 1..NRoots : surplus(r) = 1}) <= 1
    <3> DEFINE S == {r \in 1..NRoots : surplus(r) = 1}
    <3>1. \A r, s \in S : r = s BY <2>1, <2>4 DEF ScanInv, MetLimit
    <3>2. S = {} \/ \E r : S = {r}
      <4> HIDE DEF S
      <4> QED BY <3>1
    <3>3. CASE S = {} BY <3>3, FS_EmptySet
    <3>4. CASE \E r : S = {r} BY <3>4, FS_Singleton
    <3> QED BY <3>2, <3>3, <3>4
  <2> QED BY <2>4, <2>5 DEF ScanAccounting, MetLimit, surplus
<1> QED BY <1>1, <1>2, InitTally, PTL DEF Spec

-----------------------------------------------------------------------------
(* The hash budget.                                                        *)

BudgetInv ==
    /\ ExtentInv
    /\ hashedTotal = SumFunctionOnSet(HashedSizes, HashedPaths)
    /\ hashedTotal <= MaxTotalHash
    /\ pc \in {"open", "waiting", "hash"} => hashedTotal + NodeSize(meta) <= MaxTotalHash
    /\ \A p \in HashedPaths :
         /\ entries[p].size <= MaxFileHash
         /\ entries[p].digest # Torn => SizeOf[entries[p].digest] = entries[p].size

LEMMA BudgetStep == BudgetInv /\ Move => BudgetInv'
<1> SUFFICES ASSUME BudgetInv, Move PROVE BudgetInv' OBVIOUS
<1>a. ExtentInv /\ ExtentInv' BY ExtentStep DEF BudgetInv
<1>b. /\ hashedTotal = SumFunctionOnSet(HashedSizes, HashedPaths)
      /\ hashedTotal \in Nat /\ MaxTotalHash \in Nat
      /\ IsFiniteSet(HashedPaths)
      /\ \A p \in HashedPaths : HashedSizes[p] \in Nat
  <2>1. hashedTotal \in Nat BY <1>a DEF ExtentInv, TailInv, AbsenceInv, TypeInv, TypeOK
  <2> QED BY <1>a, <2>1, CountedSets, ValueAssumption DEF BudgetInv, ValueAssumption
\* Steps that keep no entry.
<1>c. ASSUME UNCHANGED tallyVars,
             pc' \in {"open", "waiting", "hash"} => hashedTotal + NodeSize(meta') <= MaxTotalHash
      PROVE  BudgetInv'
  <2>1. UNCHANGED <<entries, hashedTotal>> BY <1>c DEF tallyVars
  <2>2. Retained' = Retained BY <2>1 DEF Retained
  <2>3. HashedPaths' = HashedPaths BY <2>1, <2>2 DEF HashedPaths
  <2>4. HashedSizes' = HashedSizes BY <2>1, <2>3 DEF HashedSizes
  <2>5. NodeSize(meta)' = NodeSize(meta') BY DEF NodeSize
  <2> QED BY <1>a, <1>c, <2>1, <2>3, <2>4, <2>5 DEF BudgetInv
<1>1. CASE CountsNothing \/ CountsError \/ CountsVisit \/ CountsLimit \/ CountsFailure
  <2>1. UNCHANGED tallyVars
    BY <1>1 DEF CountsNothing, CountsError, CountsVisit, CountsLimit, CountsFailure, Counted
  <2>2. ASSUME pc' \in {"open", "waiting", "hash"} PROVE hashedTotal + NodeSize(meta') <= MaxTotalHash
    <3>1. CASE UNCHANGED <<pc, meta>> BY <2>2, <3>1 DEF BudgetInv
    <3>2. CASE StatGoesOn
      <4>1. HashDecision(cur, fs[cur]) = "hashed" /\ meta' = fs[cur]
        BY <2>2, <3>2 DEF StatGoesOn, Kind
      <4>2. ~OverTotalBudget(fs[cur]) /\ fs[cur].kind = "file" BY <4>1 DEF HashDecision
      <4>3. NodeSize(fs[cur]) \in Nat
        <5>1. fs[cur] \in Nodes
          BY <1>a, <3>2, RootFacts DEF StatGoesOn, ExtentInv, TailInv, AbsenceInv, TypeInv, TypeOK, InHand
        <5> QED BY <5>1, ValueAssumption DEF ValueAssumption, NodeSize
      <4> QED BY <1>b, <4>1, <4>2, <4>3 DEF OverTotalBudget
    <3>3. CASE Opens
      <4>1. pc \in {"open", "waiting"} /\ meta' = meta
        BY <3>3 DEF Opens, OpenContent, OpenWaits, WaitEnds, Waits, handVars
      <4> QED BY <4>1 DEF BudgetInv
    <3> QED
      BY <2>1, <2>2, <3>1, <3>2, <3>3
      DEF Move, CaptureStep, Opens, SkipRoot, OpenRoot, CloseRoot, StopOnInterrupt, StopOnLimit,
          BreakWalk, CountWalkError, VisitEntry, StatFails, StatKeeps, ReadLink, OpenFails, FinishRead,
          ReadFails, Retain, Finish, Change, FlagRises, vars, captureVars, handVars
  <2> QED BY <1>c, <2>1, <2>2
<1>2. ASSUME NEW n \in Nodes, NEW target \in Data \cup {None}, NEW digest \in Data \cup {Torn, None},
             NEW hash \in HashStates, Keeps(n, target, digest, hash)
      PROVE  BudgetInv'
  <2> DEFINE e == EntryState(n, target, digest, hash)
             isHashed == hash = "hashed"
  <2>1. pc \in InHand /\ Retain(n, target, digest, hash) BY <1>2 DEF Keeps
  <2>2. /\ cur \notin Retained /\ cur \in Paths /\ entries'[cur] = e
        /\ \A p \in Retained : entries'[p] = entries[p]
        /\ HashedPaths' = IF isHashed THEN HashedPaths \cup {cur} ELSE HashedPaths
    BY <1>a, <2>1, SetsGrow
  <2>3. e.size = NodeSize(n) /\ e.digest = digest /\ NodeSize(n) \in Nat
    BY EntryStateFields, ValueAssumption DEF ValueAssumption, NodeSize, FromNode
  <2>4. pc' = "walk" /\ hashedTotal' = hashedTotal + (IF isHashed THEN NodeSize(n) ELSE 0)
    BY <2>1 DEF Retain
  <2>5. ASSUME isHashed
        PROVE  /\ hashedTotal + NodeSize(n) <= MaxTotalHash
               /\ NodeSize(n) <= MaxFileHash
               /\ digest # Torn => SizeOf[digest] = NodeSize(n)
    <3>1. pc = "hash" /\ n = meta BY <1>2, <2>5 DEF Keeps
    <3>2. PICK r \in Reads : ReadIsWhole(r) /\ digest = r.digest BY <1>2, <2>5 DEF Keeps
    <3>3. r.size = NodeSize(n) /\ r.size <= MaxFileHash BY <3>1, <3>2 DEF ReadIsWhole
    <3>4. digest # Torn => SizeOf[digest] = r.size BY <3>2 DEF Reads
    <3> QED BY <3>1, <3>3, <3>4 DEF BudgetInv
  <2> HIDE DEF e
  <2>6. cur \notin HashedPaths BY <2>2 DEF HashedPaths
  <2>7. \A p \in HashedPaths : entries'[p] = entries[p] BY <2>2 DEF HashedPaths
  <2>8. /\ \A p \in HashedPaths : HashedSizes'[p] = HashedSizes[p]
        /\ isHashed => HashedSizes'[cur] = NodeSize(n)
    <3>1. \A p \in HashedPaths : HashedSizes'[p] = HashedSizes[p]
      BY <2>2, <2>7 DEF HashedSizes
    <3>2. isHashed => HashedSizes'[cur] = NodeSize(n) BY <2>2, <2>3 DEF HashedSizes
    <3> QED BY <3>1, <3>2
  <2>9. SumFunctionOnSet(HashedSizes', HashedPaths')
          = SumFunctionOnSet(HashedSizes, HashedPaths) + (IF isHashed THEN NodeSize(n) ELSE 0)
    <3> DEFINE H == HashedPaths
               G == HashedPaths'
               f == HashedSizes
               k == HashedSizes'
    <3>1. /\ cur \notin H /\ G = IF isHashed THEN H \cup {cur} ELSE H
          /\ IsFiniteSet(H) /\ isHashed \in BOOLEAN
      BY <1>b, <2>2, <2>6
    <3>2. /\ \A p \in H : f[p] \in Nat /\ k[p] = f[p]
          /\ isHashed => k[cur] \in Nat
      BY <1>b, <2>3, <2>8
    <3>4. isHashed => k[cur] = NodeSize(n) BY <2>8
    <3> HIDE DEF H, G, f, k, isHashed
    <3>3. SumFunctionOnSet(k, G) = SumFunctionOnSet(f, H) + (IF isHashed THEN k[cur] ELSE 0)
      BY <3>1, <3>2, SumGrown
    <3> QED BY <3>3, <3>4 DEF H, G, f, k
  <2>10. hashedTotal' <= MaxTotalHash
    <3>1. CASE isHashed BY <2>4, <2>5, <3>1
    <3>2. CASE ~isHashed BY <2>4, <3>2, <1>b DEF BudgetInv
    <3> QED BY <3>1, <3>2
  <2>11. ASSUME NEW p \in HashedPaths'
         PROVE  /\ entries'[p].size <= MaxFileHash
                /\ entries'[p].digest # Torn => SizeOf[entries'[p].digest] = entries'[p].size
    <3>1. CASE p \in HashedPaths BY <2>7, <3>1 DEF BudgetInv
    <3>2. CASE p \notin HashedPaths
      <4>1. isHashed /\ p = cur BY <2>2, <2>11, <3>2
      <4> QED BY <2>2, <2>3, <2>5, <4>1
    <3> QED BY <3>1, <3>2
  <2> QED BY <1>a, <1>b, <2>4, <2>9, <2>10, <2>11 DEF BudgetInv
<1> QED BY <1>a, <1>1, <1>2, CountedMoves

LEMMA InitBudget == Init => BudgetInv
<1> SUFFICES ASSUME Init PROVE BudgetInv OBVIOUS
<1>1. ExtentInv BY InitExtent
<1>2. Retained = {} /\ pc = "roots" /\ hashedTotal = 0 BY DEF Init, Fresh, Retained
<1>3. HashedPaths = {} BY <1>2 DEF HashedPaths
<1>4. hashedTotal <= MaxTotalHash BY <1>2, ValueAssumption DEF ValueAssumption
<1> QED BY <1>1, <1>2, <1>3, <1>4, SumEmpty DEF BudgetInv

\* Whatever changes while the capture reads, the bytes it hashes stay within both limits.
THEOREM BudgetKept == Spec => []HashBudget
<1>1. BudgetInv /\ [Next]_vars => BudgetInv' BY BudgetStep, NextMoves
<1>2. BudgetInv => HashBudget
  <2> SUFFICES ASSUME BudgetInv PROVE HashBudget OBVIOUS
  <2>1. DOMAIN HashedSizes = HashedPaths BY DEF HashedSizes
  <2>2. SumFunction(HashedSizes) = SumFunctionOnSet(HashedSizes, HashedPaths)
    BY <2>1, Zenon DEF SumFunction
  <2> QED BY <2>2 DEF BudgetInv, HashBudget
<1> QED BY <1>1, <1>2, InitBudget, PTL DEF Spec

=============================================================================
