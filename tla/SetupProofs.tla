---------------------------- MODULE SetupProofs ----------------------------
(***************************************************************************)
(* Theorems about Setup: its types, that the roots a run goes on with are  *)
(* disjoint, and in a quiet file system the ones asked for, and that a     *)
(* time limit is exact, for all places, command lines and limits.          *)
(***************************************************************************)
EXTENDS Setup, SequenceTheorems, FiniteSetTheorems, TLAPS

-----------------------------------------------------------------------------
(* Durations.                                                              *)

UnitNames == {"ms", "s", "m", "h"}

\* What is accepted is a product of the digits and the unit, and it is in range.
LEMMA ParsedInRange ==
  ASSUME NEW d, d.digits \in Nat, ParseDuration(d) # None
  PROVE  /\ ParseDuration(d) \in 1..MaxTimeout
         /\ UnitOf(d.letters) \in UnitNames
         /\ ParseDuration(d) = d.digits * Units[UnitOf(d.letters)]
<1> DEFINE unit == UnitOf(d.letters)
           ms == CheckedMul(d.digits, Units[unit])
<1>1. unit # None /\ ParseDuration(d) = ms /\ ms # None /\ ms > 0 /\ ms <= MaxTimeout
  BY DEF ParseDuration
<1>2. unit \in UnitNames
  BY <1>1, SetupAssumption DEF UnitOf, UnitNames
<1>3. Units[unit] \in Nat
  BY <1>2, SetupAssumption DEF UnitNames
<1>4. ms = d.digits * Units[unit]
  BY <1>1 DEF CheckedMul
<1>5. ms \in Nat
  BY <1>3, <1>4
<1> QED
  BY <1>1, <1>2, <1>4, <1>5, SetupAssumption

LEMMA NoneIsNoCode == None \notin {1, 2, 5}
  BY SetupAssumption

-----------------------------------------------------------------------------
(* Types.                                                                  *)

\* Every variable of Setup keeps its type.
THEOREM TypeCorrect == Spec => []TypeOK
<1>1. Init => TypeOK
  BY SetupAssumption DEF Init, TypeOK, InitialTrees
<1>2. TypeOK /\ [Next]_vars => TypeOK'
  <2> SUFFICES ASSUME TypeOK, [Next]_vars PROVE TypeOK'
    OBVIOUS
  <2>1. CASE ParseArguments
    <3>1. given.duration # None => given.duration.digits \in Nat
      BY SetupAssumption DEF TypeOK
    <3>2. timeout' \in 1..MaxTimeout \cup {None}
      BY <2>1, <3>1, ParsedInRange DEF TypeOK, ParseArguments, Proceeds, Refuses
    <3> QED
      BY <2>1, <3>2, NoneIsNoCode DEF TypeOK, ParseArguments, Proceeds, Refuses
  <2>2. CASE ValidateOptions
    BY <2>2, NoneIsNoCode DEF TypeOK, ValidateOptions, Proceeds, Refuses
  <2>3. CASE Preflight
    BY <2>3, NoneIsNoCode DEF TypeOK, Preflight, Proceeds, Refuses
  <2>4. CASE LoadRedactor
    BY <2>4, NoneIsNoCode DEF TypeOK, LoadRedactor, Proceeds, Refuses
  <2>5. CASE ResolveWorking
    BY <2>5, NoneIsNoCode DEF TypeOK, ResolveWorking, Proceeds, Refuses
  <2>6. CASE ResolveRoot
    BY <2>6, NoneIsNoCode, SetupAssumption DEF TypeOK, ResolveRoot, Proceeds, Refuses
  <2>7. CASE InspectRoot
    <3>1. pc = "inspect" /\ found \in Places /\ (roots' = roots \/ roots' = Append(roots, found))
      BY <2>7 DEF TypeOK, InspectRoot, Proceeds, Refuses
    <3>2. roots' \in Seq(Places)
      BY <3>1 DEF TypeOK
    <3> QED
      BY <2>7, <3>1, <3>2, NoneIsNoCode DEF TypeOK, InspectRoot, Proceeds, Refuses
  <2>8. CASE CheckOverlap
    BY <2>8, NoneIsNoCode DEF TypeOK, CheckOverlap, Proceeds, Refuses
  <2>9. CASE InstallHandler
    BY <2>9, NoneIsNoCode DEF TypeOK, InstallHandler, Proceeds, Refuses
  <2>10. CASE TreeChanges
    BY <2>10, NoneIsNoCode, SetupAssumption DEF TypeOK, TreeChanges, setupVars
  <2>11. CASE UNCHANGED vars
    BY <2>11, NoneIsNoCode DEF TypeOK, vars, setupVars
  <2> QED
    BY <2>1, <2>2, <2>3, <2>4, <2>5, <2>6, <2>7, <2>8, <2>9, <2>10, <2>11
    DEF Next, SetupStep, Done
<1> QED
  BY <1>1, <1>2, PTL DEF Spec

-----------------------------------------------------------------------------
(* Roots.                                                                  *)

\* Two beginnings of one path: the shorter one begins the longer one.
LEMMA PrefixesNest ==
  ASSUME NEW S, NEW p \in Seq(S), NEW r \in Seq(S), NEW s \in Seq(S),
         IsPrefix(r, p), IsPrefix(s, p), Len(r) <= Len(s)
  PROVE  IsPrefix(r, s)
<1>1. \A k \in 1..Len(r) : r[k] = p[k]
  <2> SUFFICES ASSUME NEW k \in 1..Len(r) PROVE r[k] = p[k]
    OBVIOUS
  <2>1. SubSeq(r, 1, Len(r))[k] = r[k] /\ SubSeq(p, 1, Len(r))[k] = p[k]
    BY DEF IsPrefix
  <2> QED
    BY <2>1 DEF IsPrefix
<1>2. \A k \in 1..Len(s) : s[k] = p[k]
  <2> SUFFICES ASSUME NEW k \in 1..Len(s) PROVE s[k] = p[k]
    OBVIOUS
  <2>1. SubSeq(s, 1, Len(s))[k] = s[k] /\ SubSeq(p, 1, Len(s))[k] = p[k]
    BY DEF IsPrefix
  <2> QED
    BY <2>1 DEF IsPrefix
<1>3. \A k \in 1..Len(r) : r[k] = s[k]
  BY <1>1, <1>2
<1> QED
  BY <1>3 DEF IsPrefix

\* What the overlap test establishes, and no later step changes.
RootsInv == pc \in {"handler", "ready"} => ~Overlap(roots)

\* Roots that do not overlap share no place.
LEMMA ApartMeansDisjoint ==
  ASSUME TypeOK, ~Overlap(roots),
         NEW p \in Places, NEW i \in DOMAIN roots, NEW j \in DOMAIN roots,
         IsPrefix(roots[i], p), IsPrefix(roots[j], p)
  PROVE  i = j
<1>1. p \in Seq(STRING) /\ roots[i] \in Seq(STRING) /\ roots[j] \in Seq(STRING)
  BY SetupAssumption DEF TypeOK
<1>2. IsPrefix(roots[i], roots[j]) \/ IsPrefix(roots[j], roots[i])
  BY <1>1, PrefixesNest
<1>3. i \in Int /\ j \in Int
  BY DEF TypeOK
<1> QED
  BY <1>2, <1>3 DEF Overlap

\* No place lies in two roots of a run that goes on.
THEOREM RootsShareNothing == Spec => []RootsAreDisjoint
<1>1. Init => RootsInv
  BY DEF Init, RootsInv
<1>2. RootsInv /\ [Next]_vars => RootsInv'
  <2> SUFFICES ASSUME RootsInv, [Next]_vars PROVE RootsInv'
    OBVIOUS
  <2>1. CASE SetupStep
    BY <2>1 DEF RootsInv, SetupStep, ParseArguments, ValidateOptions, Preflight, LoadRedactor,
       ResolveWorking, ResolveRoot, InspectRoot, CheckOverlap, InstallHandler, Proceeds, Refuses
  <2>2. CASE TreeChanges \/ Done \/ UNCHANGED vars
    BY <2>2 DEF RootsInv, TreeChanges, Done, vars, setupVars
  <2> QED
    BY <2>1, <2>2 DEF Next
<1>3. TypeOK /\ RootsInv => RootsAreDisjoint
  BY ApartMeansDisjoint DEF RootsInv, RootsAreDisjoint
<1> QED
  BY <1>1, <1>2, <1>3, TypeCorrect, PTL DEF Spec

-----------------------------------------------------------------------------
(* Time limits.                                                            *)

Left(letters) == SubSeq(letters, 1, Len(letters) - (IF UnitOf(letters) = "ms" THEN 2 ELSE 1))

\* The two ends of what SubSeq cuts from the front.
LEMMA WholeAndNothing ==
  ASSUME NEW S, NEW t \in Seq(S), NEW n, Len(t) = n
  PROVE  SubSeq(t, 1, n) = t /\ SubSeq(t, 1, 0) = <<>>
<1>1. SubSeq(t, 1, Len(t)) = t
  BY SubSeqFull
<1>2. SubSeq(t, 1, 0) = <<>>
  BY SubSeqEmpty
<1> QED
  BY <1>1, <1>2

\* A spelled unit is read as that unit, with nothing left before it.
LEMMA SpelledIsRead ==
  ASSUME NEW u \in UnitNames
  PROVE  UnitOf(Spelled(u)) = u /\ Left(Spelled(u)) = <<>>
<1>1. CASE u = "ms"
  <2>1. SubSeq(<<"m", "s">>, 1, 2) = <<"m", "s">> /\ SubSeq(<<"m", "s">>, 1, 0) = <<>>
    <3>1. <<"m", "s">> \in Seq({"m", "s"}) /\ Len(<<"m", "s">>) = 2
      OBVIOUS
    <3> QED
      BY <3>1, WholeAndNothing
  <2> QED
    BY <1>1, <2>1 DEF Spelled, UnitOf, EndsIn, Left
<1>2. CASE u # "ms"
  <2>1. ~EndsIn(<<u>>, <<"m", "s">>)
    BY DEF EndsIn
  <2>2. SubSeq(<<u>>, 1, 1) = <<u>> /\ SubSeq(<<u>>, 1, 0) = <<>>
    <3>1. <<u>> \in Seq({u}) /\ Len(<<u>>) = 1
      OBVIOUS
    <3> QED
      BY <3>1, WholeAndNothing
  <2>3. \A v : EndsIn(<<u>>, <<v>>) <=> u = v
    BY <2>2 DEF EndsIn
  <2>4. UnitOf(<<u>>) = u
    BY <1>2, <2>1, <2>3 DEF UnitOf, UnitNames
  <2> QED
    BY <1>2, <2>2, <2>4 DEF Spelled, Left
<1> QED
  BY <1>1, <1>2

\* Letters that are read as a unit with nothing left spell that unit.
LEMMA ReadIsSpelled ==
  ASSUME NEW letters \in Seq(STRING), UnitOf(letters) # None, Left(letters) = <<>>
  PROVE  letters = Spelled(UnitOf(letters))
<1> DEFINE u == UnitOf(letters)
<1>1. \E w \in {<<"m", "s">>, <<"s">>, <<"m">>, <<"h">>} : EndsIn(letters, w) /\ w = Spelled(u)
  BY DEF UnitOf, Spelled
<1>2. PICK w \in {<<"m", "s">>, <<"s">>, <<"m">>, <<"h">>} : EndsIn(letters, w) /\ w = Spelled(u)
  BY <1>1
<1>3. Len(w) = IF u = "ms" THEN 2 ELSE 1
  BY <1>2 DEF Spelled
<1>4. Len(w) \in Nat /\ Len(letters) \in Nat /\ Len(w) <= Len(letters)
  BY <1>2, <1>3 DEF EndsIn
<1>5. Len(letters) = Len(w)
  <2> DEFINE n == Len(letters) - Len(w)
  <2>1. n \in Nat /\ n <= Len(letters) /\ Left(letters) = SubSeq(letters, 1, n)
    BY <1>3, <1>4 DEF Left
  <2>2. \A i \in 1..n : letters[i] \in STRING
    BY <2>1
  <2>3. Len(SubSeq(letters, 1, n)) = IF 1 <= n THEN n - 1 + 1 ELSE 0
    BY <2>1, <2>2, SubSeqProperties
  <2>4. SubSeq(letters, 1, n) = <<>> /\ Len(<<>>) = 0
    BY <2>1
  <2>5. (IF 1 <= n THEN n - 1 + 1 ELSE 0) = 0
    <3> HIDE DEF n
    <3> QED
      BY <2>3, <2>4
  <2>6. n = 0
    BY <2>1, <2>5
  <2> QED
    BY <1>4, <2>6
<1>6. Len(letters) - Len(w) + 1 = 1
  BY <1>5
<1>7. SubSeq(letters, 1, Len(letters)) = w
  BY <1>2, <1>6 DEF EndsIn
<1>8. SubSeq(letters, 1, Len(letters)) = letters
  BY SubSeqFull
<1> QED
  BY <1>2, <1>7, <1>8

\* A duration is accepted, with its exact length, if it is spelled with one unit and its
\* length is in range, and refused otherwise.
LEMMA DurationIsExact ==
  ASSUME NEW d, d.digits \in Nat, d.letters \in Seq(STRING)
  PROVE  IF ParseDuration(d) = None THEN Lengths(d) \cap 1..MaxTimeout = {}
         ELSE ParseDuration(d) \in Lengths(d) \cap 1..MaxTimeout
<1> USE SetupAssumption DEF UnitNames
<1> DEFINE unit == UnitOf(d.letters)
           ms == CheckedMul(d.digits, Units[unit])
<1>0. DOMAIN Units = UnitNames
  OBVIOUS
<1>1. ASSUME ParseDuration(d) # None PROVE ParseDuration(d) \in Lengths(d) \cap 1..MaxTimeout
  <2>1. unit # None /\ Left(d.letters) = <<>>
    BY <1>1 DEF ParseDuration, Left
  <2>2. d.letters = Spelled(unit)
    BY <2>1, ReadIsSpelled
  <2>3. ParseDuration(d) \in 1..MaxTimeout /\ unit \in UnitNames
        /\ ParseDuration(d) = d.digits * Units[unit]
    BY <1>1, ParsedInRange
  <2> QED
    BY <1>0, <2>2, <2>3 DEF Lengths
<1>2. ASSUME ParseDuration(d) = None, NEW v \in UnitNames, d.letters = Spelled(v),
             d.digits * Units[v] \in 1..MaxTimeout
      PROVE  FALSE
  <2>1. unit = v /\ Left(d.letters) = <<>>
    BY <1>2, SpelledIsRead
  <2>2. unit # None
    BY <2>1
  <2>3. Units[v] \in Nat
    OBVIOUS
  <2>4. d.digits <= d.digits * Units[v]
    BY <1>2, <2>3
  <2>5. d.digits * Units[v] < Word /\ d.digits < Word
    BY <1>2, <2>3, <2>4
  <2>6. ms = d.digits * Units[v]
    BY <2>1, <2>5 DEF CheckedMul
  <2>7. ms # None
    BY <2>6, <1>2
  <2>8. ParseDuration(d) = ms
    BY <1>2, <2>1, <2>2, <2>5, <2>6, <2>7 DEF ParseDuration, Left
  <2> QED
    BY <1>2, <2>7, <2>8
<1> QED
  BY <1>0, <1>1, <1>2 DEF Lengths

\* Before the duration is read there is no limit.
LimitInv == TimeoutIsExact /\ (pc = "arguments" => timeout = None)

\* A time limit is the length asked for, to the millisecond.
THEOREM LimitIsExact == Spec => []TimeoutIsExact
<1>1. Init => LimitInv
  BY DEF Init, LimitInv, TimeoutIsExact
<1>2. TypeOK /\ LimitInv /\ [Next]_vars => LimitInv'
  <2> SUFFICES ASSUME TypeOK, LimitInv, [Next]_vars PROVE LimitInv'
    OBVIOUS
  <2>1. CASE ParseArguments
    <3>1. CASE given.duration = None
      BY <2>1, <3>1 DEF LimitInv, TimeoutIsExact, ParseArguments, Proceeds, Refuses
    <3>2. CASE given.duration # None
      <4>1. given.duration.digits \in Nat /\ given.duration.letters \in Seq(STRING)
        BY <3>2, SetupAssumption DEF TypeOK
      <4>2. given' = given /\ timeout = None
        BY <2>1 DEF LimitInv, ParseArguments, Proceeds, Refuses
      <4>3. \/ pc' = "validate" /\ ParseDuration(given.duration) # None
               /\ timeout' = ParseDuration(given.duration)
            \/ pc' = "refused" /\ ParseDuration(given.duration) = None /\ timeout' = None
        BY <2>1, <3>2, <4>2 DEF ParseArguments, Proceeds, Refuses
      <4> QED
        BY <4>1, <4>2, <4>3, DurationIsExact DEF LimitInv, TimeoutIsExact, Lengths
    <3> QED
      BY <3>1, <3>2
  <2>2. CASE ValidateOptions \/ Preflight \/ LoadRedactor \/ ResolveWorking
    BY <2>2 DEF LimitInv, TimeoutIsExact, Lengths, ValidateOptions, Preflight, LoadRedactor,
       ResolveWorking, Proceeds, Refuses
  <2>3. CASE ResolveRoot \/ InspectRoot \/ CheckOverlap \/ InstallHandler
    BY <2>3 DEF LimitInv, TimeoutIsExact, Lengths, ResolveRoot, InspectRoot, CheckOverlap,
       InstallHandler, Proceeds, Refuses
  <2>4. CASE TreeChanges \/ Done \/ UNCHANGED vars
    BY <2>4 DEF LimitInv, TimeoutIsExact, Lengths, TreeChanges, Done, vars, setupVars
  <2> QED
    BY <2>1, <2>2, <2>3, <2>4 DEF Next, SetupStep
<1>3. LimitInv => TimeoutIsExact
  BY DEF LimitInv
<1> QED
  BY <1>1, <1>2, <1>3, TypeCorrect, PTL DEF Spec

-----------------------------------------------------------------------------
(* Canonical paths.  Canonical is a recursion along a walk, which ends     *)
(* since every name uses up a link or a part of the path; so the recursive *)
(* function exists, and what it arrives at leads to itself.                *)

WalkStates == [done : Seq(STRING), rest : Seq(STRING), links : 0..MaxLinks]

\* The place the next name leads to.
Here(s) == Append(s.done, Head(s.rest))

\* The walk ends at s: nothing is left, or the next name leads nowhere.
Stops(t, s) ==
    \/ s.rest = <<>>
    \/ /\ Head(s.rest) # ".."
       /\ LET node == Holds(t, Here(s)) IN
            node = None \/ (node.kind = "file" /\ Tail(s.rest) # <<>>) \/ (node.kind = "link" /\ s.links = 0)

\* The state after one name.
After(t, s) ==
    LET node == Holds(t, Here(s)) IN
    IF Head(s.rest) = ".."
      THEN [s EXCEPT !.done = IF @ = <<>> THEN <<>> ELSE Front(@), !.rest = Tail(s.rest)]
    ELSE IF node.kind # "link" THEN [s EXCEPT !.done = Here(s), !.rest = Tail(s.rest)]
    ELSE [done |-> <<>>, rest |-> node.to \o Tail(s.rest), links |-> s.links - 1]

\* f gives at s what the walk from s arrives at, if it does so one name later.
WalksAt(f, t, s) ==
    f[s] = IF Stops(t, s) THEN (IF s.rest = <<>> THEN s.done ELSE None) ELSE f[After(t, s)]

\* What Canonical's recursion defines.
Walks(f, t) ==
    f = [s \in [done : Seq(STRING), rest : Seq(STRING), links : 0..MaxLinks] |->
          LET next == Append(s.done, Head(s.rest))
              rest == Tail(s.rest)
              node == Holds(t, next)
          IN CASE s.rest = <<>> -> s.done
               [] s.rest # <<>> /\ Head(s.rest) = ".." ->
                    f[[s EXCEPT !.done = IF @ = <<>> THEN <<>> ELSE Front(@), !.rest = rest]]
               [] OTHER ->
                    IF node = None \/ (node.kind = "file" /\ rest # <<>>) THEN None
                    ELSE IF node.kind # "link" THEN f[[s EXCEPT !.done = next, !.rest = rest]]
                    ELSE IF s.links = 0 THEN None
                    ELSE f[[done |-> <<>>, rest |-> node.to \o rest, links |-> s.links - 1]]]

Walk(t) == CHOOSE f : Walks(f, t)

LEMMA CanonicalIs ==
  ASSUME NEW t, NEW path
  PROVE  Canonical(t, path) = Walk(t)[[done |-> <<>>, rest |-> path, links |-> MaxLinks]]
BY Zenon DEF Canonical, Walk, Walks

\* The recursion, case by case, says that each state has the value of the one after it.
LEMMA WalksIs ==
  ASSUME NEW t, NEW f
  PROVE  Walks(f, t) <=> /\ f = [s \in WalkStates |-> f[s]]
                         /\ \A s \in WalkStates : WalksAt(f, t, s)
<1> DEFINE Body(s) ==
          LET next == Append(s.done, Head(s.rest))
              rest == Tail(s.rest)
              node == Holds(t, next)
          IN CASE s.rest = <<>> -> s.done
               [] s.rest # <<>> /\ Head(s.rest) = ".." ->
                    f[[s EXCEPT !.done = IF @ = <<>> THEN <<>> ELSE Front(@), !.rest = rest]]
               [] OTHER ->
                    IF node = None \/ (node.kind = "file" /\ rest # <<>>) THEN None
                    ELSE IF node.kind # "link" THEN f[[s EXCEPT !.done = next, !.rest = rest]]
                    ELSE IF s.links = 0 THEN None
                    ELSE f[[done |-> <<>>, rest |-> node.to \o rest, links |-> s.links - 1]]
           Value(s) == IF Stops(t, s) THEN (IF s.rest = <<>> THEN s.done ELSE None) ELSE f[After(t, s)]
<1>1. ASSUME NEW s PROVE Body(s) = Value(s)
  <2>1. CASE s.rest = <<>>
    <3>1. Body(s) = s.done BY <2>1
    <3> QED BY <2>1, <3>1 DEF Stops
  <2>2. CASE s.rest # <<>> /\ Head(s.rest) = ".."
    <3>1. ~Stops(t, s) BY <2>2 DEF Stops
    <3>2. After(t, s) = [s EXCEPT !.done = IF @ = <<>> THEN <<>> ELSE Front(@), !.rest = Tail(s.rest)]
      BY <2>2 DEF After
    <3>3. Body(s) = f[[s EXCEPT !.done = IF @ = <<>> THEN <<>> ELSE Front(@), !.rest = Tail(s.rest)]]
      BY <2>2
    <3> QED BY <3>1, <3>2, <3>3
  <2>3. CASE s.rest # <<>> /\ Head(s.rest) # ".."
    <3> DEFINE node == Holds(t, Here(s))
    <3>1. Body(s) = IF node = None \/ (node.kind = "file" /\ Tail(s.rest) # <<>>) THEN None
                    ELSE IF node.kind # "link" THEN f[[s EXCEPT !.done = Here(s), !.rest = Tail(s.rest)]]
                    ELSE IF s.links = 0 THEN None
                    ELSE f[[done |-> <<>>, rest |-> node.to \o Tail(s.rest), links |-> s.links - 1]]
      BY <2>3 DEF Here
    <3>2. Stops(t, s) <=> node = None \/ (node.kind = "file" /\ Tail(s.rest) # <<>>)
                            \/ (node.kind = "link" /\ s.links = 0)
      BY <2>3 DEF Stops
    <3>3. After(t, s) = IF node.kind # "link" THEN [s EXCEPT !.done = Here(s), !.rest = Tail(s.rest)]
                        ELSE [done |-> <<>>, rest |-> node.to \o Tail(s.rest), links |-> s.links - 1]
      BY <2>3 DEF After
    <3> HIDE DEF node, Body
    <3> QED BY <2>3, <3>1, <3>2, <3>3, Zenon
  <2> QED BY <2>1, <2>2, <2>3
<1>2. Walks(f, t) <=> f = [s \in WalkStates |-> Body(s)] BY Zenon DEF Walks, WalkStates
<1>3. \A s : WalksAt(f, t, s) <=> f[s] = Value(s) BY Zenon DEF WalksAt
<1> HIDE DEF Body, Value
<1>4. \A s : Body(s) = Value(s) BY <1>1
<1> QED BY <1>2, <1>3, <1>4

Trees == [Places -> Nodes \cup {None}]

\* u has fewer links left to follow than s, or as many and fewer names.
Before(u, s) == u.links < s.links \/ (u.links = s.links /\ Len(u.rest) < Len(s.rest))

LEMMA FrontIs ==
  ASSUME NEW S, NEW s \in Seq(S), s # <<>>
  PROVE  /\ Front(s) \in Seq(S) /\ Len(Front(s)) = Len(s) - 1
         /\ \A k \in 1..Len(s) - 1 : Front(s)[k] = s[k]
<1> DEFINE n == Len(s) - 1
<1>1. n \in Nat /\ n \in Int /\ 1 \in Int /\ \A i \in 1..n : s[i] \in S
  OBVIOUS
<1>2. Front(s) = SubSeq(s, 1, n)
  BY DEF Front
<1> HIDE DEF n
<1>3. /\ SubSeq(s, 1, n) \in Seq(S)
      /\ Len(SubSeq(s, 1, n)) = IF 1 <= n THEN n - 1 + 1 ELSE 0
      /\ \A i \in 1..n - 1 + 1 : SubSeq(s, 1, n)[i] = s[1 + i - 1]
  BY <1>1, SubSeqProperties
<1>4. n - 1 + 1 = n /\ (IF 1 <= n THEN n - 1 + 1 ELSE 0) = n /\ \A i \in 1..n : 1 + i - 1 = i
  BY <1>1
<1>5. Len(SubSeq(s, 1, n)) = n /\ \A i \in 1..n : SubSeq(s, 1, n)[i] = s[i]
  BY <1>3, <1>4
<1> QED BY <1>2, <1>3, <1>5 DEF n

\* A name on the way leads to an earlier state.
LEMMA AfterIs ==
  ASSUME NEW t \in Trees, NEW s \in WalkStates, ~Stops(t, s)
  PROVE  After(t, s) \in WalkStates /\ Before(After(t, s), s)
<1> DEFINE node == Holds(t, Here(s))
<1>1. /\ s.rest \in Seq(STRING) /\ s.rest # <<>> /\ s.done \in Seq(STRING) /\ s.links \in 0..MaxLinks
      /\ s = [done |-> s.done, rest |-> s.rest, links |-> s.links] /\ MaxLinks \in Nat
  BY SetupAssumption DEF WalkStates, Stops
<1>2. /\ Tail(s.rest) \in Seq(STRING) /\ Len(Tail(s.rest)) < Len(s.rest) /\ Here(s) \in Seq(STRING)
  BY <1>1 DEF Here
<1>3. CASE Head(s.rest) = ".."
  <2> DEFINE d == IF s.done = <<>> THEN <<>> ELSE Front(s.done)
  <2>1. d \in Seq(STRING)
    BY <1>1, FrontIs
  <2>2. After(t, s) = [s EXCEPT !.done = d, !.rest = Tail(s.rest)]
    BY <1>3 DEF After
  <2> HIDE DEF d
  <2> QED BY <1>1, <1>2, <2>1, <2>2 DEF WalkStates, Before
<1>4. CASE Head(s.rest) # ".." /\ node.kind # "link"
  <2>1. After(t, s) = [s EXCEPT !.done = Here(s), !.rest = Tail(s.rest)]
    BY <1>4 DEF After
  <2> QED BY <1>1, <1>2, <2>1 DEF WalkStates, Before
<1>5. CASE Head(s.rest) # ".." /\ node.kind = "link"
  <2>1. After(t, s) = [done |-> <<>>, rest |-> node.to \o Tail(s.rest), links |-> s.links - 1]
    BY <1>5 DEF After
  <2>2. node # None /\ s.links # 0
    BY <1>1, <1>5 DEF Stops
  <2>3. node \in Nodes
    BY <2>2 DEF Holds, Trees
  <2>4. node.to \o Tail(s.rest) \in Seq(STRING)
    BY <1>2, <2>3, SetupAssumption
  <2>5. s.links - 1 \in 0..MaxLinks /\ s.links - 1 < s.links
    BY <1>1, <2>2
  <2> HIDE DEF node
  <2> QED BY <2>1, <2>4, <2>5 DEF WalkStates, Before
<1> QED BY <1>3, <1>4, <1>5

\* A set of numbers has a least one.
LEMMA LeastNumber ==
  ASSUME NEW N \in SUBSET Nat, N # {}
  PROVE  \E n \in N : \A m \in N : n <= m
<1>1. PICK n \in N : \A m \in N : ~(<<m, n>> \in OpToRel(<, Nat))
  BY NatLessThanWellFounded, WFMin
<1>2. \A m \in N : m < n => <<m, n>> \in OpToRel(<, Nat)
  BY DEF OpToRel
<1>3. \A m \in N : ~(m < n)
  BY <1>1, <1>2, Zenon
<1>4. n \in Nat /\ \A m \in N : m \in Nat
  OBVIOUS
<1> QED BY <1>3, <1>4

\* Some state of a set of states has none of the set before it.
LEMMA LeastState ==
  ASSUME NEW B \in SUBSET WalkStates, B # {}
  PROVE  \E s \in B : \A u \in B : ~Before(u, s)
<1>0. \A s \in B : s.links \in Nat /\ Len(s.rest) \in Nat
  BY DEF WalkStates
<1> DEFINE L == {n \in Nat : \E s \in B : s.links = n}
<1>1. L # {} /\ L \in SUBSET Nat
  BY <1>0
<1>2. PICK l \in L : \A m \in L : l <= m
  <2> HIDE DEF L
  <2> QED BY <1>1, LeastNumber
<1> DEFINE R == {n \in Nat : \E s \in B : s.links = l /\ Len(s.rest) = n}
<1>3. R # {} /\ R \in SUBSET Nat
  BY <1>0
<1>4. PICK n \in R : \A m \in R : n <= m
  <2> HIDE DEF R
  <2> QED BY <1>3, LeastNumber
<1>5. PICK s \in B : s.links = l /\ Len(s.rest) = n
  OBVIOUS
<1>6. ASSUME NEW u \in B, Before(u, s) PROVE FALSE
  <2>1. l <= u.links
    BY <1>0, <1>2
  <2>2. u.links = l /\ Len(u.rest) < n
    BY <1>0, <1>5, <1>6, <2>1 DEF Before
  <2>3. Len(u.rest) \in R
    BY <1>0, <2>2
  <2> QED BY <1>0, <1>4, <2>2, <2>3
<1> QED BY <1>5, <1>6

\* A set of states with the state after each of them.
Closed(E, t) == \A s \in E : s \in WalkStates /\ (~Stops(t, s) => After(t, s) \in E)

WalksOn(f, E, t) == Closed(E, t) /\ \A s \in E : WalksAt(f, t, s)

\* Two functions that walk agree where both do.
LEMMA WalksAgree ==
  ASSUME NEW t \in Trees, NEW E, NEW F, NEW f, NEW g, WalksOn(f, E, t), WalksOn(g, F, t)
  PROVE  \A s \in E \cap F : f[s] = g[s]
<1> DEFINE B == {s \in E \cap F : f[s] # g[s]}
<1> SUFFICES ASSUME B # {} PROVE FALSE
  OBVIOUS
<1>1. B \in SUBSET WalkStates
  BY DEF WalksOn, Closed
<1>2. PICK s \in B : \A u \in B : ~Before(u, s)
  <2> HIDE DEF B
  <2> QED BY <1>1, LeastState
<1>3. WalksAt(f, t, s) /\ WalksAt(g, t, s) /\ f[s] # g[s] /\ s \in WalkStates
  BY <1>1 DEF WalksOn
<1>4. ~Stops(t, s)
  BY <1>3 DEF WalksAt
<1>5. After(t, s) \in E \cap F /\ Before(After(t, s), s)
  BY <1>3, <1>4, AfterIs DEF WalksOn, Closed
<1>6. f[After(t, s)] = g[After(t, s)]
  BY <1>2, <1>5
<1> QED BY <1>3, <1>4, <1>6 DEF WalksAt

\* From every state there is a function that walks.
LEMMA WalkStarts ==
  ASSUME NEW t \in Trees
  PROVE  \A s \in WalkStates : \E E, f : s \in E /\ WalksOn(f, E, t)
<1> DEFINE B == {s \in WalkStates : ~\E E, f : s \in E /\ WalksOn(f, E, t)}
<1> SUFFICES ASSUME B # {} PROVE FALSE
  OBVIOUS
<1>1. B \in SUBSET WalkStates
  OBVIOUS
<1>2. PICK s \in B : \A u \in B : ~Before(u, s)
  <2> HIDE DEF B
  <2> QED BY <1>1, LeastState
<1>3. s \in WalkStates /\ ~\E E, f : s \in E /\ WalksOn(f, E, t)
  OBVIOUS
<1>4. CASE Stops(t, s)
  <2> DEFINE f == [u \in {s} |-> IF s.rest = <<>> THEN s.done ELSE None]
  <2>1. f[s] = IF s.rest = <<>> THEN s.done ELSE None
    OBVIOUS
  <2> HIDE DEF f
  <2>2. WalksOn(f, {s}, t)
    BY <1>3, <1>4, <2>1 DEF WalksOn, Closed, WalksAt
  <2> QED BY <1>3, <2>2
<1>5. CASE ~Stops(t, s)
  <2>1. After(t, s) \in WalkStates /\ Before(After(t, s), s)
    BY <1>3, <1>5, AfterIs
  <2>2. PICK E, g : After(t, s) \in E /\ WalksOn(g, E, t)
    BY <1>2, <2>1
  <2>3. s \notin E
    BY <1>3, <2>2
  <2> DEFINE f == [u \in E \cup {s} |-> IF u = s THEN g[After(t, s)] ELSE g[u]]
  <2>4. f[s] = g[After(t, s)] /\ \A u \in E : f[u] = g[u]
    BY <2>3
  <2> HIDE DEF f
  <2>5. \A u \in E : WalksAt(f, t, u)
    BY <2>2, <2>4 DEF WalksOn, Closed, WalksAt
  <2>6. WalksAt(f, t, s)
    BY <1>5, <2>2, <2>4 DEF WalksAt
  <2>7. WalksOn(f, E \cup {s}, t)
    BY <1>3, <2>2, <2>5, <2>6 DEF WalksOn, Closed
  <2> QED BY <1>3, <2>7
<1> QED BY <1>4, <1>5

\* Canonical's recursion has a solution, and so Walk is one.
LEMMA WalkIs ==
  ASSUME NEW t \in Trees
  PROVE  \A s \in WalkStates : WalksAt(Walk(t), t, s)
<1> DEFINE P(s, p) == s \in p.on /\ WalksOn(p.fun, p.on, t)
           Part(s) == CHOOSE p : P(s, p)
           f == [s \in WalkStates |-> Part(s).fun[s]]
<1>1. ASSUME NEW s \in WalkStates PROVE P(s, Part(s))
  <2>1. PICK E, g : s \in E /\ WalksOn(g, E, t)
    BY WalkStarts
  <2>2. P(s, [on |-> E, fun |-> g])
    BY <2>1
  <2> HIDE DEF P
  <2> QED BY <2>2
<1>2. ASSUME NEW s \in WalkStates PROVE WalksAt(f, t, s)
  <2>1. s \in Part(s).on /\ WalksOn(Part(s).fun, Part(s).on, t)
    BY <1>1
  <2>2. WalksAt(Part(s).fun, t, s) /\ f[s] = Part(s).fun[s]
    BY <2>1 DEF WalksOn
  <2>3. ASSUME ~Stops(t, s) PROVE f[After(t, s)] = Part(s).fun[After(t, s)]
    <3> DEFINE a == After(t, s)
    <3>1. a \in Part(s).on /\ a \in WalkStates
      BY <2>1, <2>3 DEF WalksOn, Closed
    <3>2. a \in Part(a).on /\ WalksOn(Part(a).fun, Part(a).on, t)
      BY <1>1, <3>1
    <3>3. f[a] = Part(a).fun[a]
      BY <3>1
    <3> HIDE DEF a, Part, f
    <3>4. Part(a).fun[a] = Part(s).fun[a]
      BY <2>1, <3>1, <3>2, WalksAgree
    <3> QED BY <3>3, <3>4 DEF a
  <2> HIDE DEF f, Part
  <2> QED BY <2>2, <2>3 DEF WalksAt
<1>3. f = [s \in WalkStates |-> f[s]]
  OBVIOUS
<1> HIDE DEF f
<1>4. Walks(f, t)
  BY <1>2, <1>3, WalksIs
<1>5. Walks(Walk(t), t)
  BY <1>4 DEF Walk
<1> QED BY <1>5, WalksIs

-----------------------------------------------------------------------------
\* Every name on the way is there and is no link, and only the last one may be a file.
Straight(t, d) ==
    /\ d \in Seq(STRING)
    /\ \A k \in 1..Len(d) :
         /\ d[k] # ".."
         /\ LET node == Holds(t, SubSeq(d, 1, k)) IN
              node # None /\ node.kind # "link" /\ (node.kind = "file" => k = Len(d))

\* A state the walk reaches from /: what is done is straight and may be passed through.
StraightState(t, s) ==
    /\ Straight(t, s.done)
    /\ s.rest # <<>> /\ s.done # <<>> => Holds(t, s.done).kind # "file"

LEMMA BeginsSame ==
  ASSUME NEW S, NEW d \in Seq(S), NEW e \in Seq(S), NEW k \in Nat, k <= Len(d), k <= Len(e),
         \A i \in 1..k : d[i] = e[i]
  PROVE  SubSeq(d, 1, k) = SubSeq(e, 1, k)
<1>1. \A i \in 1..k : d[i] \in S /\ e[i] \in S
  OBVIOUS
<1>2. /\ SubSeq(d, 1, k) \in Seq(S) /\ SubSeq(e, 1, k) \in Seq(S)
      /\ Len(SubSeq(d, 1, k)) = IF 1 <= k THEN k - 1 + 1 ELSE 0
      /\ Len(SubSeq(e, 1, k)) = IF 1 <= k THEN k - 1 + 1 ELSE 0
      /\ \A i \in 1..k - 1 + 1 : SubSeq(d, 1, k)[i] = d[1 + i - 1]
      /\ \A i \in 1..k - 1 + 1 : SubSeq(e, 1, k)[i] = e[1 + i - 1]
  BY <1>1, SubSeqProperties
<1>3. k - 1 + 1 = k /\ \A i \in 1..k : 1 + i - 1 = i
  OBVIOUS
<1>4. /\ Len(SubSeq(d, 1, k)) = k /\ Len(SubSeq(e, 1, k)) = k
      /\ \A i \in 1..k : SubSeq(d, 1, k)[i] = SubSeq(e, 1, k)[i]
  BY <1>2, <1>3
<1> QED BY <1>2, <1>4, SeqEqual

\* The walk stays straight.
LEMMA StraightAfter ==
  ASSUME NEW t \in Trees, NEW s \in WalkStates, StraightState(t, s), ~Stops(t, s)
  PROVE  StraightState(t, After(t, s))
<1> DEFINE node == Holds(t, Here(s))
           d == s.done
<1>1. /\ s.rest \in Seq(STRING) /\ s.rest # <<>> /\ s.done \in Seq(STRING) /\ Head(s.rest) \in STRING
      /\ s = [done |-> s.done, rest |-> s.rest, links |-> s.links]
  BY DEF WalkStates, Stops
<1>2. Straight(t, d) /\ (d # <<>> => Holds(t, d).kind # "file")
  BY <1>1 DEF StraightState
<1>3. CASE Head(s.rest) = ".." /\ d = <<>>
  <2>1. After(t, s).done = <<>>
    BY <1>1, <1>3 DEF After
  <2> QED BY <2>1 DEF StraightState, Straight
<1>4. CASE Head(s.rest) = ".." /\ d # <<>>
  <2>1. After(t, s).done = Front(d)
    BY <1>1, <1>4 DEF After
  <2>2. /\ Front(d) \in Seq(STRING) /\ Len(Front(d)) = Len(d) - 1 /\ Len(d) \in Nat
        /\ \A k \in 1..Len(d) - 1 : Front(d)[k] = d[k]
    BY <1>1, <1>4, FrontIs
  <2>3. ASSUME NEW k \in 1..Len(d) - 1 PROVE SubSeq(Front(d), 1, k) = SubSeq(d, 1, k)
    BY <1>1, <2>2, BeginsSame
  <2>4. \A k \in 1..Len(d) - 1 :
          /\ d[k] # ".."
          /\ Holds(t, SubSeq(d, 1, k)) # None /\ Holds(t, SubSeq(d, 1, k)).kind # "link"
          /\ Holds(t, SubSeq(d, 1, k)).kind # "file"
    BY <1>2, <2>2 DEF Straight
  <2>5. Straight(t, Front(d))
    BY <2>2, <2>3, <2>4 DEF Straight
  <2>6. Front(d) # <<>> => Holds(t, Front(d)).kind # "file"
    BY <2>2, <2>4 DEF Front
  <2> QED BY <2>1, <2>5, <2>6 DEF StraightState
<1>5. CASE Head(s.rest) # ".." /\ node.kind = "link"
  <2>1. After(t, s).done = <<>>
    BY <1>5 DEF After
  <2> QED BY <2>1 DEF StraightState, Straight
<1>6. CASE Head(s.rest) # ".." /\ node.kind # "link"
  <2> DEFINE e == Here(s)
  <2>1. After(t, s) = [done |-> e, rest |-> Tail(s.rest), links |-> s.links]
    BY <1>1, <1>6 DEF After
  <2>2. /\ e \in Seq(STRING) /\ Len(e) = Len(d) + 1 /\ Len(d) \in Nat
        /\ e[Len(d) + 1] = Head(s.rest) /\ \A k \in 1..Len(d) : e[k] = d[k]
    BY <1>1 DEF Here
  <2> HIDE DEF e
  <2>3. ASSUME NEW k \in 1..Len(d) PROVE SubSeq(e, 1, k) = SubSeq(d, 1, k)
    <3>1. k \in Nat /\ k <= Len(d) /\ k <= Len(e) /\ \A i \in 1..k : e[i] = d[i]
      BY <2>2
    <3> QED BY <1>1, <2>2, <3>1, BeginsSame
  <2>4. SubSeq(e, 1, Len(d) + 1) = e
    BY <2>2, SubSeqFull
  <2>5. node # None /\ (node.kind = "file" => Tail(s.rest) = <<>>)
    BY <1>1, <1>6 DEF Stops
  <2>6. \A k \in 1..Len(d) :
          /\ d[k] # ".."
          /\ Holds(t, SubSeq(d, 1, k)) # None /\ Holds(t, SubSeq(d, 1, k)).kind # "link"
          /\ Holds(t, SubSeq(d, 1, k)).kind # "file"
    <3>1. SubSeq(d, 1, Len(d)) = d
      BY <1>1, SubSeqFull
    <3>2. ASSUME NEW k \in 1..Len(d) PROVE Holds(t, SubSeq(d, 1, k)).kind # "file"
      <4>1. CASE k = Len(d)
        <5>1. d # <<>>
          BY <2>2
        <5>2. SubSeq(d, 1, k) = d
          BY <3>1, <4>1
        <5> HIDE DEF d
        <5> QED BY <1>2, <5>1, <5>2
      <4>2. CASE k # Len(d)
        BY <1>2, <4>2 DEF Straight
      <4> QED BY <4>1, <4>2
    <3> QED BY <1>2, <2>2, <3>2 DEF Straight
  <2>7. \A k \in 1..Len(e) : k \in 1..Len(d) \/ k = Len(d) + 1
    BY <2>2
  <2>8. Straight(t, e)
    <3>1. ASSUME NEW k \in 1..Len(e)
          PROVE  /\ e[k] # ".."
                 /\ LET n == Holds(t, SubSeq(e, 1, k)) IN
                      n # None /\ n.kind # "link" /\ (n.kind = "file" => k = Len(e))
      <4>1. CASE k \in 1..Len(d)
        BY <2>2, <2>3, <2>6, <4>1
      <4>2. CASE k = Len(d) + 1
        BY <1>6, <2>2, <2>4, <2>5, <4>2 DEF e
      <4> QED BY <2>7, <4>1, <4>2
    <3> QED BY <2>2, <3>1 DEF Straight
  <2> QED BY <2>1, <2>5, <2>8 DEF StraightState, e
<1> QED BY <1>3, <1>4, <1>5, <1>6

\* What the walk arrives at is straight.
LEMMA ArrivesStraight ==
  ASSUME NEW t \in Trees
  PROVE  \A s \in WalkStates : StraightState(t, s) => Walk(t)[s] = None \/ Straight(t, Walk(t)[s])
<1> DEFINE B == {s \in WalkStates : StraightState(t, s) /\ Walk(t)[s] # None /\ ~Straight(t, Walk(t)[s])}
<1> SUFFICES ASSUME B # {} PROVE FALSE
  OBVIOUS
<1>1. B \in SUBSET WalkStates
  OBVIOUS
<1>2. PICK s \in B : \A u \in B : ~Before(u, s)
  <2> HIDE DEF B
  <2> QED BY <1>1, LeastState
<1>3. s \in WalkStates /\ StraightState(t, s) /\ Walk(t)[s] # None /\ ~Straight(t, Walk(t)[s])
  OBVIOUS
<1>4. WalksAt(Walk(t), t, s)
  BY <1>3, WalkIs
<1>5. ~Stops(t, s)
  BY <1>3, <1>4 DEF WalksAt, StraightState
<1>6. Walk(t)[s] = Walk(t)[After(t, s)]
  BY <1>4, <1>5 DEF WalksAt
<1>7. After(t, s) \in WalkStates /\ Before(After(t, s), s) /\ StraightState(t, After(t, s))
  BY <1>3, <1>5, AfterIs, StraightAfter
<1>8. After(t, s) \in B
  BY <1>3, <1>6, <1>7
<1> QED BY <1>2, <1>7, <1>8

\* A straight path leads to itself.
LEMMA StraightStays ==
  ASSUME NEW t \in Trees, NEW d, Straight(t, d)
  PROVE  Canonical(t, d) = d
<1> DEFINE At(k) == [done |-> SubSeq(d, 1, k), rest |-> SubSeq(d, k + 1, Len(d)), links |-> MaxLinks]
           N == {n \in Nat : n <= Len(d) /\ Walk(t)[At(Len(d) - n)] # d}
<1>1. d \in Seq(STRING) /\ Len(d) \in Nat /\ MaxLinks \in Nat
  BY SetupAssumption DEF Straight
<1>2. ASSUME NEW k \in 0..Len(d) PROVE At(k) \in WalkStates
  <2>1. \A i \in 1..Len(d) : d[i] \in STRING
    BY <1>1
  <2>2. SubSeq(d, 1, k) \in Seq(STRING) /\ SubSeq(d, k + 1, Len(d)) \in Seq(STRING)
    BY <1>1, <2>1, SubSeqProperties
  <2> QED BY <1>1, <2>2 DEF WalkStates
<1>3. At(Len(d)).rest = <<>> /\ At(Len(d)).done = d /\ At(0).done = <<>> /\ At(0).rest = d
  BY <1>1, SubSeqFull, SubSeqEmpty
<1>4. ASSUME NEW k \in 0..Len(d) - 1
      PROVE  ~Stops(t, At(k)) /\ After(t, At(k)) = At(k + 1)
  <2>1. k + 1 \in 1..Len(d) /\ Len(d) \in k + 1..Len(d) /\ (k + 1) + 1 = k + 2
    BY <1>1
  <2> DEFINE r == SubSeq(d, k + 1, Len(d))
  <2>2. Head(r) = d[k + 1] /\ Tail(r) = SubSeq(d, k + 2, Len(d))
    BY <1>1, <2>1, HeadTailOfSubSeq
  <2>3. Len(r) = Len(d) - k /\ Len(SubSeq(d, k + 2, Len(d))) = Len(d) - k - 1
    BY <1>1
  <2>4. Append(SubSeq(d, 1, k), d[k + 1]) = SubSeq(d, 1, k + 1)
    BY <1>1
  <2>5. /\ d[k + 1] # ".."
        /\ LET node == Holds(t, SubSeq(d, 1, k + 1)) IN
             node # None /\ node.kind # "link" /\ (node.kind = "file" => k + 1 = Len(d))
    BY <2>1 DEF Straight
  <2>6. k + 1 = Len(d) => Tail(r) = <<>>
    BY <1>1, <2>2, SubSeqEmpty
  <2> HIDE DEF r
  <2>7. r # <<>>
    BY <1>1, <2>3
  <2>8. Here(At(k)) = SubSeq(d, 1, k + 1) /\ At(k).rest = r
    BY <2>2, <2>4 DEF Here, r
  <2>10. At(k + 1) = [done |-> SubSeq(d, 1, k + 1), rest |-> Tail(r), links |-> MaxLinks]
    BY <2>1, <2>2
  <2>11. At(k) = [done |-> SubSeq(d, 1, k), rest |-> r, links |-> MaxLinks]
    BY DEF r
  <2>12. [At(k) EXCEPT !.done = SubSeq(d, 1, k + 1), !.rest = Tail(r)]
           = [done |-> SubSeq(d, 1, k + 1), rest |-> Tail(r), links |-> MaxLinks]
    <3> DEFINE x == SubSeq(d, 1, k)
               y == SubSeq(d, 1, k + 1)
               z == Tail(r)
               u == [[done |-> x, rest |-> r, links |-> MaxLinks] EXCEPT !.done = y]
    <3> HIDE DEF At, x, y, z
    <3>1. u = [done |-> y, rest |-> r, links |-> MaxLinks]
      OBVIOUS
    <3>2. [At(k) EXCEPT !.done = y, !.rest = z] = [u EXCEPT !.rest = z]
      BY <2>11, Zenon DEF x
    <3> HIDE DEF u
    <3>3. [u EXCEPT !.rest = z] = [[done |-> y, rest |-> r, links |-> MaxLinks] EXCEPT !.rest = z]
      BY <3>1, Zenon
    <3>4. [[done |-> y, rest |-> r, links |-> MaxLinks] EXCEPT !.rest = z]
            = [done |-> y, rest |-> z, links |-> MaxLinks]
      OBVIOUS
    <3> QED BY <3>2, <3>3, <3>4, Zenon DEF y, z
  <2> HIDE DEF At
  <2>13. ~Stops(t, At(k))
    BY <2>2, <2>5, <2>6, <2>7, <2>8 DEF Stops
  <2>14. After(t, At(k)) = [At(k) EXCEPT !.done = SubSeq(d, 1, k + 1), !.rest = Tail(r)]
    BY <2>2, <2>5, <2>8 DEF After
  <2> QED BY <2>10, <2>12, <2>13, <2>14
<1>5. N = {}
  <2> SUFFICES ASSUME N # {} PROVE FALSE
    OBVIOUS
  <2>1. PICK n \in N : \A m \in N : n <= m
    <3>1. N \in SUBSET Nat
      OBVIOUS
    <3> HIDE DEF N
    <3> QED BY <3>1, LeastNumber
  <2> DEFINE k == Len(d) - n
  <2>2. k \in 0..Len(d) /\ Walk(t)[At(k)] # d
    BY <1>1
  <2>3. WalksAt(Walk(t), t, At(k))
    BY <1>2, <2>2, WalkIs
  <2>4. CASE n = 0
    <3>1. k = Len(d)
      BY <1>1, <2>4
    <3>2. At(k).rest = <<>> /\ At(k).done = d
      BY <1>3, <3>1
    <3> HIDE DEF k, At
    <3> QED BY <2>2, <2>3, <3>2 DEF WalksAt, Stops
  <2>5. CASE n # 0
    <3>1. k \in 0..Len(d) - 1 /\ n - 1 \in Nat /\ n - 1 < n /\ Len(d) - (n - 1) = k + 1
      <4>1. n \in Nat /\ n <= Len(d)
        OBVIOUS
      <4> HIDE DEF N, At
      <4> QED BY <1>1, <2>5, <4>1
    <3>2. ~Stops(t, At(k)) /\ After(t, At(k)) = At(k + 1)
      BY <1>4, <3>1
    <3>3. Walk(t)[At(k + 1)] # d
      <4> HIDE DEF k, At
      <4> QED BY <2>2, <2>3, <3>2 DEF WalksAt
    <3>4. n - 1 \in N
      <4> DEFINE m == n - 1
      <4>1. m \in Nat /\ m <= Len(d) /\ Len(d) - m = k + 1
        BY <1>1, <3>1
      <4> HIDE DEF k, At, m
      <4>2. Walk(t)[At(Len(d) - m)] # d
        BY <3>3, <4>1
      <4>3. m \in N
        BY <4>1, <4>2
      <4> HIDE DEF N
      <4> QED BY <4>3 DEF m
    <3>5. n \in Nat
      OBVIOUS
    <3> HIDE DEF N
    <3>6. n <= n - 1
      BY <2>1, <3>4
    <3> QED BY <3>5, <3>6
  <2> QED BY <2>4, <2>5
<1>6. Walk(t)[At(0)] = d
  <2>1. Len(d) - Len(d) = 0
    BY <1>1
  <2>2. Len(d) \notin N
    BY <1>5
  <2> HIDE DEF At
  <2> QED BY <1>1, <2>1, <2>2
<1>7. At(0) = [done |-> <<>>, rest |-> d, links |-> MaxLinks]
  BY <1>3
<1> HIDE DEF At
<1> QED BY <1>6, <1>7, CanonicalIs

\* fs::canonicalize of its own result changes nothing.
LEMMA CanonicalStays ==
  ASSUME NEW t \in Trees, NEW path \in Seq(STRING), Canonical(t, path) # None
  PROVE  Canonical(t, Canonical(t, path)) = Canonical(t, path)
<1> DEFINE s == [done |-> <<>>, rest |-> path, links |-> MaxLinks]
<1>1. s \in WalkStates
  BY SetupAssumption DEF WalkStates
<1>2. StraightState(t, s)
  BY DEF StraightState, Straight
<1>3. Canonical(t, path) = Walk(t)[s]
  BY CanonicalIs
<1>4. Straight(t, Canonical(t, path))
  BY <1>1, <1>2, <1>3, ArrivesStraight
<1> QED BY <1>4, StraightStays

-----------------------------------------------------------------------------
(* The roots a run goes on with in a quiet file system.                    *)

\* Where the i-th root that was asked for leads.
AskedAt(i) == Canonical(tree, From(Canonical(tree, given.working), Wanted[i]))

IsRoot(i) == AskedAt(i) # None /\ tree[AskedAt(i)].kind = "directory"

AllThere == \A i \in DOMAIN Wanted : IsRoot(i)

AllApart ==
    \A p \in Places : Cardinality({i \in DOMAIN Wanted : IsPrefix(AskedAt(i), p)}) <= 1

\* While nothing changes, the roots accepted so far are the first ones asked for.
RootsAsAsked ==
    /\ working = Canonical(tree, given.working)
    /\ Len(roots) <= Len(Wanted)
    /\ \A i \in 1..Len(roots) : roots[i] = AskedAt(i) /\ IsRoot(i)
    /\ pc = "inspect" => Len(roots) < Len(Wanted) /\ found = AskedAt(Len(roots) + 1)
    /\ pc \in {"handler", "ready"} => Len(roots) = Len(Wanted) /\ ~Overlap(roots)
    /\ pc = "refused" /\ exit = 2 => ~(AllThere /\ AllApart)

\* The destination is a free name.
Free == given.output # <<>> /\ Last(given.output) # ".." /\ FreeName(tree, given.output)

Preflown == {"redactor", "working", "resolve", "inspect", "handler", "ready"}

\* While nothing changes the preflight stays right.
DestinationInv ==
    changes = 0 => /\ pc \in Preflown \/ working # None => Free
                   /\ exit = 1 => ~Free

BeforeRoots == {"arguments", "validate", "preflight", "redactor", "working"}

QuietInv ==
    /\ pc \in BeforeRoots => working = None /\ roots = <<>>
    /\ pc \in {"resolve", "inspect", "handler", "ready"} => working # None
    /\ changes = 0 /\ working # None => RootsAsAsked

LEMMA WantedRoots ==
  ASSUME TypeOK
  PROVE  Wanted \in Seq([absolute : BOOLEAN, path : Seq(STRING)]) /\ Len(Wanted) \in Nat
<1>1. given.roots \in Seq([absolute : BOOLEAN, path : Seq(STRING)])
  BY SetupAssumption DEF TypeOK
<1> DEFINE R == [absolute : BOOLEAN, path : Seq(STRING)]
           here == [absolute |-> FALSE, path |-> <<>>]
<1>2. here \in R
  OBVIOUS
<1>3. Wanted = given.roots \/ Wanted = <<here>>
  BY DEF Wanted
<1>4. given.roots \in Seq(R)
  BY <1>1
<1> HIDE DEF R, here
<1>7. <<here>> \in Seq(R)
  BY <1>2
<1>5. Wanted \in Seq(R)
  BY <1>3, <1>4, <1>7, Zenon
<1>6. Len(Wanted) \in Nat
  BY <1>5
<1> QED BY <1>5, <1>6 DEF R

\* The candidates are the roots asked for, taken from the working directory.
LEMMA CandidatesAre ==
  ASSUME TypeOK, working # None
  PROVE  /\ Wanted \in Seq([absolute : BOOLEAN, path : Seq(STRING)])
         /\ Len(Wanted) \in Nat /\ Len(Candidates) = Len(Wanted)
         /\ \A i \in 1..Len(Wanted) : Candidates[i] = From(working, Wanted[i])
<1>1. CASE given.roots # <<>>
  <2>1. Wanted = given.roots
    BY <1>1 DEF Wanted
  <2>2. Wanted \in Seq([absolute : BOOLEAN, path : Seq(STRING)])
    BY <2>1, SetupAssumption DEF TypeOK
  <2>3. Candidates = [i \in 1..Len(Wanted) |-> From(working, Wanted[i])]
    BY <1>1, <2>1, <2>2 DEF Candidates
  <2> QED BY <2>2, <2>3
<1>2. CASE given.roots = <<>>
  <2> DEFINE here == [absolute |-> FALSE, path |-> <<>>]
  <2>1. Wanted = <<here>> /\ Candidates = <<working>>
    BY <1>2 DEF Wanted, Candidates
  <2>2. here \in [absolute : BOOLEAN, path : Seq(STRING)]
    OBVIOUS
  <2>3. working \in Seq(STRING)
    BY SetupAssumption DEF TypeOK
  <2>4. ~here.absolute /\ here.path = <<>>
    OBVIOUS
  <2>5. From(working, here) = working
    BY <2>3, <2>4 DEF From
  <2> HIDE DEF here
  <2> QED BY <2>1, <2>2, <2>5
<1> QED BY <1>1, <1>2

LEMMA CandidateIsPath ==
  ASSUME TypeOK, working # None, NEW i \in 1..Len(Wanted)
  PROVE  From(working, Wanted[i]) \in Seq(STRING)
<1>1. Wanted[i] \in [absolute : BOOLEAN, path : Seq(STRING)]
  <2>1. Wanted \in Seq([absolute : BOOLEAN, path : Seq(STRING)])
    BY CandidatesAre
  <2> QED BY <2>1, ElementOfSeq
<1>2. working \in Seq(STRING)
  BY SetupAssumption DEF TypeOK
<1>3. Wanted[i].path \in Seq(STRING) /\ working \o Wanted[i].path \in Seq(STRING)
  BY <1>1, <1>2
<1> QED BY <1>3 DEF From

\* What the second call of prepare_roots sees, when nothing changed since the first.
LEMMA InspectIsExact ==
  ASSUME TypeOK, working # None, working = Canonical(tree, given.working),
         NEW i \in 1..Len(Wanted), AskedAt(i) \in Places
  PROVE  IsDirectory(tree, AskedAt(i)) <=> IsRoot(i)
<1>1. From(working, Wanted[i]) \in Seq(STRING)
  BY CandidateIsPath
<1>2. tree \in Trees /\ AskedAt(i) # None
  BY SetupAssumption DEF TypeOK, Trees
<1>3. Canonical(tree, AskedAt(i)) = AskedAt(i)
  BY <1>1, <1>2, CanonicalStays DEF AskedAt
<1> QED BY <1>2, <1>3 DEF IsDirectory, IsRoot

LEMMA TwoElements ==
  ASSUME NEW i, NEW j, i # j
  PROVE  Cardinality({i, j}) = 2
<1>1. IsFiniteSet({i}) /\ Cardinality({i}) = 1
  BY FS_Singleton
<1>2. Cardinality({i} \cup {j}) = Cardinality({i}) + 1
  BY <1>1, FS_AddElement
<1>3. {i} \cup {j} = {i, j}
  OBVIOUS
<1> QED BY <1>1, <1>2, <1>3

\* Roots lie apart exactly if the test finds no overlap.
LEMMA ApartIsTested ==
  ASSUME TypeOK, Len(roots) = Len(Wanted), \A i \in 1..Len(roots) : roots[i] = AskedAt(i),
         working # None
  PROVE  AllApart <=> ~Overlap(roots)
<1> DEFINE In(p) == {i \in DOMAIN Wanted : IsPrefix(AskedAt(i), p)}
<1>1. /\ DOMAIN Wanted = 1..Len(Wanted) /\ DOMAIN roots = 1..Len(Wanted)
      /\ Len(Wanted) \in Nat /\ roots \in Seq(Places)
  BY CandidatesAre DEF TypeOK
<1>2. \A i \in DOMAIN roots : roots[i] \in Places /\ roots[i] = AskedAt(i)
  BY <1>1
<1>3. IsFiniteSet(DOMAIN Wanted)
  BY <1>1, FS_Interval
<1>4. \A p \in Places : IsFiniteSet(In(p)) /\ Cardinality(In(p)) \in Nat
  BY <1>3, FS_Subset, FS_CardinalityType
<1>5. ASSUME ~Overlap(roots), NEW p \in Places PROVE Cardinality(In(p)) <= 1
  <2>1. \A i, j \in In(p) : i = j
    BY <1>1, <1>2, <1>5, ApartMeansDisjoint
  <2>2. In(p) = {} \/ \E i : In(p) = {i}
    BY <2>1
  <2>3. Cardinality({}) = 0 /\ \A i : Cardinality({i}) = 1
    BY FS_EmptySet, FS_Singleton
  <2> HIDE DEF In
  <2>4. Cardinality(In(p)) = 0 \/ Cardinality(In(p)) = 1
    BY <2>2, <2>3, Zenon
  <2> QED BY <2>4
<1>6. ASSUME Overlap(roots) PROVE \E p \in Places : ~(Cardinality(In(p)) <= 1)
  <2>1. PICK i, j \in DOMAIN roots :
          i < j /\ (IsPrefix(roots[i], roots[j]) \/ IsPrefix(roots[j], roots[i]))
    BY <1>6 DEF Overlap
  <2>2. PICK p \in Places : IsPrefix(AskedAt(i), p) /\ IsPrefix(AskedAt(j), p)
    <3>1. IsPrefix(roots[i], roots[i]) /\ IsPrefix(roots[j], roots[j])
      <4>1. roots[i] \in Seq(STRING) /\ roots[j] \in Seq(STRING)
        BY <1>2, SetupAssumption
      <4> QED BY <4>1 DEF IsPrefix
    <3> QED BY <1>2, <2>1, <3>1
  <2>3. {i, j} \subseteq In(p) /\ i # j
    BY <1>1, <2>1, <2>2
  <2>4. Cardinality({i, j}) = 2
    BY <2>3, TwoElements
  <2>5. Cardinality({i, j}) <= Cardinality(In(p))
    <3> HIDE DEF In
    <3> QED BY <1>4, <2>3, FS_Subset
  <2> HIDE DEF In
  <2> QED BY <1>4, <2>4, <2>5
<1> QED BY <1>5, <1>6 DEF AllApart


LEMMA DestinationStep ==
  ASSUME TypeOK, QuietInv, DestinationInv, [Next]_vars
  PROVE  DestinationInv'
<1>1. CASE ParseArguments \/ ValidateOptions
  <2>1. /\ pc' \in {"validate", "preflight"} \/ (pc' = "refused" /\ exit' = 2)
        /\ working' = working /\ working = None
    BY <1>1 DEF ParseArguments, ValidateOptions, Proceeds, Refuses, QuietInv, BeforeRoots
  <2>2. exit' # 1
    BY <1>1, <2>1, SetupAssumption
    DEF ParseArguments, ValidateOptions, Proceeds, Refuses, TypeOK
  <2> QED BY <2>1, <2>2 DEF DestinationInv, Preflown
<1>2. CASE Preflight
  <2>1. /\ UNCHANGED <<given, tree, working>> /\ pc = "preflight" /\ working = None /\ exit = None
        /\ \/ Free /\ exit' = exit
           \/ pc' = "refused" /\ (exit' = 1 => ~Free)
    BY <1>2, SetupAssumption
    DEF Preflight, Proceeds, Refuses, Free, TypeOK, QuietInv, BeforeRoots
  <2>2. Free' = Free
    BY <2>1 DEF Free
  <2> QED BY <2>1, <2>2, SetupAssumption DEF DestinationInv, Preflown
<1>3. CASE \/ LoadRedactor \/ ResolveWorking \/ ResolveRoot \/ InspectRoot
            \/ CheckOverlap \/ InstallHandler
  <2>1. /\ pc \in Preflown /\ UNCHANGED <<given, tree, changes>>
        /\ exit' = exit \/ exit' \in {2, 5}
    BY <1>3
    DEF LoadRedactor, ResolveWorking, ResolveRoot, InspectRoot, CheckOverlap, InstallHandler,
        Proceeds, Refuses, Preflown
  <2>2. Free' = Free
    BY <2>1 DEF Free
  <2> QED BY <2>1, <2>2 DEF DestinationInv
<1>4. CASE TreeChanges
  <2>1. changes' = changes + 1 /\ changes \in Nat
    BY <1>4, SetupAssumption DEF TypeOK, TreeChanges
  <2> QED BY <2>1 DEF DestinationInv
<1>5. CASE UNCHANGED vars
  BY <1>5 DEF DestinationInv, Free, vars, setupVars
<1> QED
  BY <1>1, <1>2, <1>3, <1>4, <1>5 DEF Next, SetupStep, Done

\* The steps before the roots are resolved, and what follows them, keep the roots.
LEMMA QuietStep ==
  ASSUME TypeOK, QuietInv, [Next]_vars
  PROVE  QuietInv'
<1>0. Wanted' = Wanted
  <2>1. given' = given
    BY DEF Next, SetupStep, ParseArguments, ValidateOptions, Preflight, LoadRedactor,
       ResolveWorking, ResolveRoot, InspectRoot, CheckOverlap, InstallHandler, TreeChanges, Done,
       Proceeds, Refuses, vars, setupVars
  <2> QED BY <2>1 DEF Wanted
<1>1. CASE ParseArguments \/ ValidateOptions \/ Preflight \/ LoadRedactor
  <2>1. /\ pc \in BeforeRoots /\ working = None /\ roots = <<>>
        /\ working' = working /\ roots' = roots
        /\ pc' \in BeforeRoots \/ pc' = "refused"
    BY <1>1 DEF QuietInv, BeforeRoots, ParseArguments, ValidateOptions, Preflight, LoadRedactor,
       Proceeds, Refuses
  <2> QED BY <2>1 DEF QuietInv, BeforeRoots
<1>2. CASE ResolveWorking
  <2>1. pc = "working" /\ roots = <<>> /\ working = None /\ UNCHANGED <<given, tree, changes, roots>>
    BY <1>2 DEF QuietInv, BeforeRoots, ResolveWorking, Proceeds, Refuses
  <2>2. \/ pc' = "refused" /\ working' = None
        \/ pc' = "resolve" /\ working' \in Places /\ working' = Canonical(tree, given.working)
    BY <1>2, <2>1 DEF ResolveWorking, Proceeds, Refuses
  <2>3. CASE pc' = "refused" /\ working' = None
    BY <2>3 DEF QuietInv, BeforeRoots
  <2>4. CASE pc' = "resolve" /\ working' \in Places /\ working' = Canonical(tree, given.working)
    <3>1. working' # None
      BY <2>4, SetupAssumption
    <3>2. RootsAsAsked'
      <4>1. roots' = <<>> /\ Len(roots') = 0
        BY <2>1
      <4>2. Len(Wanted) \in Nat
        BY WantedRoots
      <4> QED BY <1>0, <2>1, <2>4, <4>1, <4>2 DEF RootsAsAsked
    <3> QED BY <2>4, <3>1, <3>2 DEF QuietInv, BeforeRoots
  <2> QED BY <2>2, <2>3, <2>4
<1>3. CASE ResolveRoot
  <2> DEFINE k == Len(roots) + 1
  <2>1. /\ pc = "resolve" /\ working # None /\ Len(roots) < Len(Candidates)
        /\ UNCHANGED <<given, tree, changes, working, roots>> /\ pc' \in {"inspect", "refused"}
        /\ changes = 0 => RootsAsAsked
    BY <1>3 DEF QuietInv, ResolveRoot, Proceeds, Refuses
  <2>2. ASSUME changes = 0 PROVE RootsAsAsked'
    <3>1. /\ Len(roots) < Len(Wanted) /\ k \in 1..Len(Wanted)
          /\ pc' = "inspect" => found' = AskedAt(k)
          /\ pc' = "refused" => AskedAt(k) = None
      <4>1. Len(roots) < Len(Wanted) /\ k \in 1..Len(Wanted)
        BY <2>1, CandidatesAre DEF TypeOK
      <4>2. Canonical(tree, Candidates[k]) = AskedAt(k)
        BY <2>1, <2>2, <4>1, CandidatesAre DEF RootsAsAsked, AskedAt
      <4> QED BY <1>3, <4>1, <4>2 DEF ResolveRoot, Proceeds, Refuses
    <3>2. \A i : AskedAt(i)' = AskedAt(i) /\ IsRoot(i)' = IsRoot(i)
      BY <1>0, <2>1 DEF AskedAt, IsRoot
    <3>3. ASSUME pc' = "refused" PROVE ~AllThere'
      <4>1. k \in DOMAIN Wanted /\ ~IsRoot(k)
        BY <3>1, <3>3, WantedRoots DEF IsRoot
      <4>2. \E i \in DOMAIN Wanted : ~IsRoot(i)'
        BY <3>2, <4>1
      <4> QED BY <1>0, <2>1, <4>1, <4>2 DEF AllThere
    <3> QED BY <1>0, <2>1, <2>2, <3>1, <3>2, <3>3 DEF RootsAsAsked
  <2> QED BY <2>1, <2>2 DEF QuietInv, BeforeRoots
<1>4. CASE InspectRoot
  <2> DEFINE k == Len(roots) + 1
  <2>1. /\ pc = "inspect" /\ working # None
        /\ UNCHANGED <<given, tree, changes, working>> /\ (changes = 0 => RootsAsAsked)
        /\ \/ IsDirectory(tree, found) /\ pc' = "resolve" /\ roots' = Append(roots, found)
           \/ ~IsDirectory(tree, found) /\ pc' = "refused" /\ roots' = roots
    BY <1>4 DEF QuietInv, InspectRoot, Proceeds, Refuses
  <2>2. found \in Places /\ roots \in Seq(Places) /\ Len(roots) \in Nat
    BY <2>1 DEF TypeOK
  <2>3. ASSUME changes = 0 PROVE RootsAsAsked'
    <3>1. /\ Len(Wanted) \in Nat /\ k \in 1..Len(Wanted)
          /\ found = AskedAt(k) /\ (IsDirectory(tree, found) <=> IsRoot(k))
      <4>1. /\ Len(roots) < Len(Wanted) /\ found = AskedAt(k) /\ Len(Wanted) \in Nat
            /\ working = Canonical(tree, given.working)
        BY <2>1, <2>3, WantedRoots DEF RootsAsAsked
      <4>2. k \in 1..Len(Wanted)
        BY <2>2, <4>1
      <4> HIDE DEF k
      <4>3. IsDirectory(tree, AskedAt(k)) <=> IsRoot(k)
        BY <2>1, <2>2, <4>1, <4>2, InspectIsExact
      <4> QED BY <4>1, <4>2, <4>3
    <3>2. \A i : AskedAt(i)' = AskedAt(i) /\ IsRoot(i)' = IsRoot(i)
      BY <1>0, <2>1 DEF AskedAt, IsRoot
    <3>3. ASSUME pc' = "refused" PROVE RootsAsAsked'
      <4>1. k \in DOMAIN Wanted /\ ~IsRoot(k)
        BY <2>1, <3>1, <3>3, WantedRoots
      <4>2. \E i \in DOMAIN Wanted : ~IsRoot(i)'
        BY <3>2, <4>1
      <4>3. ~AllThere'
        BY <1>0, <2>1, <4>1, <4>2 DEF AllThere
      <4> QED BY <1>0, <2>1, <2>3, <3>2, <3>3, <4>3 DEF RootsAsAsked
    <3>4. ASSUME pc' = "resolve" PROVE RootsAsAsked'
      <4>1. roots' = Append(roots, found) /\ IsDirectory(tree, found)
        BY <2>1, <3>4
      <4>2. /\ Len(roots') = k /\ roots'[k] = found
            /\ \A i \in 1..Len(roots) : roots'[i] = roots[i]
            /\ \A i \in 1..k : i \in 1..Len(roots) \/ i = k
        BY <2>2, <4>1
      <4>3. \A i \in 1..Len(roots) : roots[i] = AskedAt(i) /\ IsRoot(i)
        BY <2>1, <2>3, <3>4 DEF RootsAsAsked
      <4>4. found = AskedAt(k) /\ IsRoot(k) /\ k <= Len(Wanted)
        BY <3>1, <3>4, <4>1
      <4> HIDE DEF k
      <4>5. \A i \in 1..Len(roots') : roots'[i] = AskedAt(i) /\ IsRoot(i)
        BY <4>2, <4>3, <4>4
      <4>6. \A i \in 1..Len(roots') : roots'[i] = AskedAt(i)' /\ IsRoot(i)'
        BY <3>2, <4>5
      <4>7. working' = Canonical(tree', given'.working) /\ Len(roots') <= Len(Wanted')
        BY <1>0, <2>1, <2>3, <4>2, <4>4 DEF RootsAsAsked
      <4> QED BY <3>4, <4>6, <4>7 DEF RootsAsAsked
    <3> QED BY <2>1, <3>3, <3>4
  <2> QED BY <2>1, <2>3 DEF QuietInv, BeforeRoots
<1>5. CASE CheckOverlap
  <2>1. /\ pc = "resolve" /\ working # None /\ Len(roots) = Len(Candidates)
        /\ UNCHANGED <<given, tree, changes, working, roots>> /\ (changes = 0 => RootsAsAsked)
        /\ \/ pc' = "handler" /\ ~Overlap(roots)
           \/ pc' = "refused" /\ Overlap(roots)
    BY <1>5 DEF QuietInv, CheckOverlap, Proceeds, Refuses
  <2>2. ASSUME changes = 0 PROVE RootsAsAsked'
    <3>1. Len(roots) = Len(Wanted) /\ (AllApart <=> ~Overlap(roots))
      <4>1. Len(roots) = Len(Wanted) /\ \A i \in 1..Len(roots) : roots[i] = AskedAt(i)
        BY <2>1, <2>2, CandidatesAre DEF RootsAsAsked
      <4> QED BY <2>1, <4>1, ApartIsTested
    <3>2. (\A i : AskedAt(i)' = AskedAt(i) /\ IsRoot(i)' = IsRoot(i)) /\ AllApart' = AllApart
      BY <1>0, <2>1 DEF AskedAt, IsRoot, AllApart
    <3>3. Overlap(roots') = Overlap(roots)
      BY <2>1
    <3>4. ASSUME pc' = "handler" PROVE RootsAsAsked'
      BY <1>0, <2>1, <2>2, <3>1, <3>2, <3>3, <3>4 DEF RootsAsAsked
    <3>5. ASSUME pc' = "refused" PROVE RootsAsAsked'
      <4>1. ~AllApart'
        BY <2>1, <3>1, <3>2, <3>5
      <4> QED BY <1>0, <2>1, <2>2, <3>2, <3>5, <4>1 DEF RootsAsAsked
    <3> QED BY <2>1, <3>4, <3>5
  <2> QED BY <2>1, <2>2 DEF QuietInv, BeforeRoots
<1>6. CASE InstallHandler
  <2>1. /\ pc = "handler" /\ working # None /\ UNCHANGED <<given, tree, changes, working, roots>>
        /\ changes = 0 => RootsAsAsked
        /\ pc' = "ready" \/ (pc' = "refused" /\ exit' = 5)
    BY <1>6 DEF QuietInv, InstallHandler, Proceeds, Refuses
  <2>2. (\A i : AskedAt(i)' = AskedAt(i) /\ IsRoot(i)' = IsRoot(i)) /\ Overlap(roots') = Overlap(roots)
    BY <1>0, <2>1 DEF AskedAt, IsRoot
  <2>3. changes = 0 => RootsAsAsked'
    BY <1>0, <2>1, <2>2 DEF RootsAsAsked
  <2> QED BY <2>1, <2>3 DEF QuietInv, BeforeRoots
<1>7. CASE TreeChanges
  <2>1. /\ changes' = changes + 1 /\ changes \in Nat
        /\ UNCHANGED <<pc, working, roots>>
    BY <1>7, SetupAssumption DEF TypeOK, TreeChanges, setupVars
  <2>2. changes' # 0
    BY <2>1
  <2> QED BY <2>1, <2>2 DEF QuietInv
<1>8. CASE UNCHANGED vars
  BY <1>0, <1>8 DEF QuietInv, RootsAsAsked, AllThere, AllApart, IsRoot, AskedAt, vars, setupVars
<1> QED
  BY <1>1, <1>2, <1>3, <1>4, <1>5, <1>6, <1>7, <1>8 DEF Next, SetupStep, Done

\* In a quiet file system a run is ready exactly with a free destination and the roots it was
\* asked for, the working directory among them when it was asked for none; a refusal with
\* exit 1 means a taken destination, one with exit 2 after the working directory was found
\* a root that is no directory or leads into another.
THEOREM QuietSetupExact == Spec => []QuietSetupIsExact
<1> DEFINE Right == /\ pc = "ready" => /\ Free /\ Canonical(tree, given.working) # None
                                        /\ AllThere /\ AllApart
                                        /\ roots = [i \in DOMAIN Wanted |-> AskedAt(i)]
                    /\ exit = 1 => ~Free
                    /\ exit = 2 /\ working # None => Free /\ ~(AllThere /\ AllApart)
<1>1. Init => QuietInv /\ DestinationInv
  BY SetupAssumption DEF Init, QuietInv, DestinationInv, BeforeRoots, Preflown
<1>2. ASSUME TypeOK, QuietInv, DestinationInv, changes = 0, pc \in {"ready", "refused"}
      PROVE  Right
  <2>1. working # None => RootsAsAsked
    BY <1>2 DEF QuietInv
  <2>2. exit = 2 /\ working # None => ~(AllThere /\ AllApart)
    BY <1>2, <2>1, SetupAssumption DEF RootsAsAsked, TypeOK
  <2>3. (exit = 1 => ~Free) /\ (pc = "ready" \/ working # None => Free)
    BY <1>2 DEF DestinationInv, Preflown
  <2>4. ASSUME pc = "ready"
        PROVE  /\ Canonical(tree, given.working) # None /\ AllThere /\ AllApart
               /\ roots = [i \in DOMAIN Wanted |-> AskedAt(i)]
    <3>0. working # None
      BY <1>2, <2>4 DEF QuietInv
    <3>1. /\ Len(roots) = Len(Wanted) /\ ~Overlap(roots) /\ working = Canonical(tree, given.working)
          /\ \A i \in 1..Len(roots) : roots[i] = AskedAt(i) /\ IsRoot(i)
      BY <2>1, <2>4, <3>0 DEF RootsAsAsked
    <3>2. DOMAIN Wanted = 1..Len(roots) /\ roots \in Seq(Places) /\ DOMAIN roots = 1..Len(roots)
      BY <1>2, <3>1, WantedRoots DEF TypeOK
    <3>3. roots = [i \in DOMAIN Wanted |-> AskedAt(i)]
      BY <3>1, <3>2
    <3>4. AllThere
      BY <3>1, <3>2 DEF AllThere
    <3>5. AllApart
      BY <1>2, <3>0, <3>1, ApartIsTested
    <3> QED BY <3>0, <3>1, <3>3, <3>4, <3>5
  <2> QED BY <2>2, <2>3, <2>4
<1>3. (changes = 0 /\ pc \in {"ready", "refused"} => Right) => QuietSetupIsExact
  BY Zenon DEF QuietSetupIsExact, Free, AllThere, AllApart, IsRoot, AskedAt
<1>4. TypeOK /\ QuietInv /\ DestinationInv => QuietSetupIsExact
  BY <1>2, <1>3
<1> QED
  BY <1>1, <1>4, QuietStep, DestinationStep, TypeCorrect, PTL DEF Spec

=============================================================================
