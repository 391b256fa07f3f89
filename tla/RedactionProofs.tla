-------------------------- MODULE RedactionProofs --------------------------
(***************************************************************************)
(* Proofs about Redaction, for all configured values, words, commands and  *)
(* paths: what hides a secret hides it whatever stands beside it, and what *)
(* is hidden is known to be.                                               *)
(*                                                                         *)
(* A display is compared with the text by what can be read in it: a text   *)
(* that occurs in the display and has no marker in it occurs in what was   *)
(* to be shown (Masked).  Every rule masks and leaves its marker (Noted),  *)
(* so both carry over from rule to rule.  The recursions of the model      *)
(* (replacing, splitting, joining) are functions over the places of a text *)
(* that are first shown to exist (LeastNumber stands for induction).       *)
(***************************************************************************)
EXTENDS Redaction, SequenceTheorems, FiniteSetTheorems, TLAPS

-----------------------------------------------------------------------------
(* Strings and what occurs in them.                                        *)

\* The tokens of inputs and those the code writes.
Tokens == DOMAIN Rank \cup Markers \cup {"/", "=", "?", "#"}
Strings == Seq(Tokens)

\* v stands in t after d tokens.
Stands(v, t, d) == d + Len(v) <= Len(t) /\ \A i \in 1..Len(v) : t[d + i] = v[i]

\* x is a stretch of t.
Within(x, t) == \E d \in Nat : Stands(x, t, d)

\* A nonempty set of numbers has a least one.
LEMMA LeastNumber ==
  ASSUME NEW N \in SUBSET Nat, N # {}
  PROVE  \E n \in N : \A m \in N : n <= m
<1>1. PICK n \in N : \A m \in N : ~(<<m, n>> \in OpToRel(<, Nat))
  BY NatLessThanWellFounded, WFMin
<1>2. \A m \in N : m < n => <<m, n>> \in OpToRel(<, Nat)
  BY DEF OpToRel
<1>3. \A m \in N : ~(m < n)
  BY <1>1, <1>2, Zenon
<1>4. n \in Nat /\ \A m \in N : m \in Nat
  OBVIOUS
<1> QED BY <1>3, <1>4

\* SubSeq, token by token.
LEMMA CutIs ==
  ASSUME NEW t \in Strings, NEW d \in Nat, NEW e \in Nat, d + e <= Len(t)
  PROVE  /\ SubSeq(t, d + 1, d + e) \in Strings /\ Len(SubSeq(t, d + 1, d + e)) = e
         /\ \A i \in 1..e : SubSeq(t, d + 1, d + e)[i] = t[d + i]
<1>1. \A i \in d + 1..d + e : t[i] \in Tokens
  BY DEF Strings
<1>2. /\ SubSeq(t, d + 1, d + e) \in Strings
      /\ Len(SubSeq(t, d + 1, d + e)) = IF d + 1 <= d + e THEN d + e - (d + 1) + 1 ELSE 0
      /\ \A i \in 1..(d + e - (d + 1) + 1) : SubSeq(t, d + 1, d + e)[i] = t[d + 1 + i - 1]
  BY <1>1, SubSeqProperties DEF Strings
<1>3. d + e - (d + 1) + 1 = e /\ \A i \in 1..e : d + 1 + i - 1 = d + i
  OBVIOUS
<1>4. (IF d + 1 <= d + e THEN d + e - (d + 1) + 1 ELSE 0) = e
  BY <1>3
<1> QED BY <1>2, <1>3, <1>4

\* Strings of one length with the same tokens are one string.
LEMMA SameString ==
  ASSUME NEW x \in Strings, NEW y \in Strings, Len(x) = Len(y), \A i \in 1..Len(x) : x[i] = y[i]
  PROVE  x = y
BY SeqEqual DEF Strings

\* OccursAt, token by token.
LEMMA OccursAtIs ==
  ASSUME NEW v \in Strings, NEW t \in Strings, NEW k \in 1..Len(t) + 1
  PROVE  OccursAt(v, t, k) <=> Stands(v, t, k - 1)
<1> DEFINE d == k - 1
           n == Len(v)
           cut == SubSeq(t, d + 1, d + n)
<1>1. d \in Nat /\ n \in Nat /\ Len(t) \in Nat /\ k = d + 1 /\ k + n - 1 = d + n
  BY DEF Strings
<1>2. OccursAt(v, t, k) <=> d + n <= Len(t) /\ cut = v
  BY <1>1 DEF OccursAt
<1> HIDE DEF d, n
<1>3. ASSUME d + n <= Len(t) PROVE cut = v <=> \A i \in 1..n : t[d + i] = v[i]
  <2>1. cut \in Strings /\ Len(cut) = n /\ \A i \in 1..n : cut[i] = t[d + i]
    BY <1>1, <1>3, CutIs
  <2> HIDE DEF cut
  <2>2. ASSUME \A i \in 1..n : t[d + i] = v[i] PROVE cut = v
    BY <2>1, <2>2, SameString DEF n
  <2> QED BY <2>1, <2>2
<1> QED BY <1>2, <1>3 DEF Stands, n, d

\* A text that is not empty occurs where it stands.
LEMMA OccursIs ==
  ASSUME NEW v \in Strings, v # <<>>, NEW t \in Strings
  PROVE  Occurs(v, t) <=> \E d \in Nat : Stands(v, t, d)
<1>1. Len(v) \in Nat /\ Len(v) > 0 /\ Len(t) \in Nat /\ DOMAIN t = 1..Len(t)
  BY DEF Strings
<1>2. ASSUME NEW k \in DOMAIN t, OccursAt(v, t, k) PROVE \E d \in Nat : Stands(v, t, d)
  <2>1. k \in 1..Len(t) + 1 /\ k - 1 \in Nat
    BY <1>1
  <2> QED BY <1>2, <2>1, OccursAtIs
<1>3. ASSUME NEW d \in Nat, Stands(v, t, d) PROVE \E k \in DOMAIN t : OccursAt(v, t, k)
  <2>1. d + 1 \in DOMAIN t /\ d + 1 \in 1..Len(t) + 1 /\ (d + 1) - 1 = d
    BY <1>1, <1>3 DEF Stands
  <2>2. OccursAt(v, t, d + 1)
    BY <1>3, <2>1, OccursAtIs
  <2> QED BY <2>1, <2>2
<1> QED BY <1>2, <1>3 DEF Occurs

\* What occurs in a stretch occurs in the whole.
LEMMA OccursWithin ==
  ASSUME NEW v \in Strings, v # <<>>, NEW x \in Strings, NEW t \in Strings,
         Within(x, t), Occurs(v, x)
  PROVE  Occurs(v, t)
<1>1. PICK d \in Nat : Stands(x, t, d)
  BY DEF Within
<1>2. PICK e \in Nat : Stands(v, x, e)
  BY OccursIs
<1>3. Len(v) \in Nat /\ Len(x) \in Nat /\ Len(t) \in Nat
  BY DEF Strings
<1>4. d + e \in Nat /\ (d + e) + Len(v) <= Len(t)
  BY <1>1, <1>2, <1>3 DEF Stands
<1>5. ASSUME NEW i \in 1..Len(v) PROVE t[(d + e) + i] = v[i]
  <2>1. e + i \in 1..Len(x) /\ d + (e + i) = (d + e) + i
    BY <1>2, <1>3 DEF Stands
  <2>2. t[d + (e + i)] = x[e + i] /\ x[e + i] = v[i]
    BY <1>1, <1>2, <2>1 DEF Stands
  <2> QED BY <2>1, <2>2
<1>6. Stands(v, t, d + e)
  BY <1>4, <1>5 DEF Stands
<1> QED BY <1>4, <1>6, OccursIs

\* One string after the other, token by token.
LEMMA TwoStrings ==
  ASSUME NEW x \in Strings, NEW y \in Strings
  PROVE  /\ x \o y \in Strings /\ Len(x \o y) = Len(x) + Len(y)
         /\ \A i \in 1..Len(x) : (x \o y)[i] = x[i]
         /\ \A i \in 1..Len(y) : (x \o y)[Len(x) + i] = y[i]
<1>1. /\ x \o y \in Strings /\ Len(x \o y) = Len(x) + Len(y)
      /\ \A i \in 1..Len(x) + Len(y) : (x \o y)[i] = IF i <= Len(x) THEN x[i] ELSE y[i - Len(x)]
  BY ConcatProperties DEF Strings
<1>2. Len(x) \in Nat /\ Len(y) \in Nat
  BY DEF Strings
<1>3. /\ \A i \in 1..Len(x) : i \in 1..Len(x) + Len(y) /\ i <= Len(x)
      /\ \A i \in 1..Len(y) : /\ Len(x) + i \in 1..Len(x) + Len(y)
                              /\ ~(Len(x) + i <= Len(x)) /\ (Len(x) + i) - Len(x) = i
  BY <1>2
<1> QED BY <1>1, <1>3

\* A sequence of one.
LEMMA OneToken ==
  ASSUME NEW S, NEW c \in S
  PROVE  <<c>> \in Seq(S) /\ Len(<<c>>) = 1 /\ <<c>>[1] = c
OBVIOUS

\* A string with one token more.
LEMMA OneMore ==
  ASSUME NEW x \in Strings, NEW c \in Tokens
  PROVE  /\ x \o <<c>> \in Strings /\ Len(x \o <<c>>) = Len(x) + 1
         /\ (x \o <<c>>)[Len(x) + 1] = c /\ \A i \in 1..Len(x) : (x \o <<c>>)[i] = x[i]
<1> DEFINE o == <<c>>
<1>1. o \in Strings /\ Len(o) = 1 /\ o[1] = c
  BY OneToken DEF Strings
<1> HIDE DEF o
<1>2. /\ x \o o \in Strings /\ Len(x \o o) = Len(x) + Len(o)
      /\ \A i \in 1..Len(x) : (x \o o)[i] = x[i]
      /\ \A i \in 1..Len(o) : (x \o o)[Len(x) + i] = o[i]
  BY <1>1, TwoStrings
<1>3. (x \o o)[Len(x) + 1] = c
  <2>1. 1 \in 1..Len(o)
    BY <1>1
  <2>2. (x \o o)[Len(x) + 1] = o[1]
    BY <1>2, <2>1
  <2> QED BY <1>1, <2>2
<1> QED BY <1>1, <1>2, <1>3 DEF o

\* A token v does not have keeps it on one side.
LEMMA OccursBeside ==
  ASSUME NEW v \in Strings, v # <<>>, NEW x \in Strings, NEW y \in Strings,
         NEW c \in Tokens, c \notin Range(v), Occurs(v, x \o <<c>> \o y)
  PROVE  Occurs(v, x) \/ Occurs(v, y)
<1> DEFINE n == Len(x)
           t == x \o <<c>> \o y
<1>1. /\ t \in Strings /\ Len(t) = n + 1 + Len(y) /\ t[n + 1] = c
      /\ \A i \in 1..n : t[i] = x[i]
      /\ \A i \in 1..Len(y) : t[n + 1 + i] = y[i]
      /\ n \in Nat /\ Len(y) \in Nat /\ Len(v) \in Nat /\ Len(v) > 0
  <2> DEFINE z == x \o <<c>>
  <2>1. n \in Nat /\ Len(y) \in Nat /\ Len(v) \in Nat /\ Len(v) > 0
    BY DEF Strings
  <2>2. z \in Strings /\ Len(z) = n + 1 /\ z[n + 1] = c /\ \A i \in 1..n : z[i] = x[i]
    BY OneMore
  <2> HIDE DEF z
  <2>3. /\ z \o y \in Strings /\ Len(z \o y) = Len(z) + Len(y)
        /\ \A i \in 1..Len(z) : (z \o y)[i] = z[i]
        /\ \A i \in 1..Len(y) : (z \o y)[Len(z) + i] = y[i]
    BY <2>2, TwoStrings
  <2>4. t = z \o y
    BY DEF z
  <2> HIDE DEF t, n
  <2>5. n + 1 \in 1..Len(z) /\ \A i \in 1..n : i \in 1..Len(z)
    BY <2>1, <2>2
  <2>6. t[n + 1] = c /\ \A i \in 1..n : t[i] = x[i]
    BY <2>2, <2>3, <2>4, <2>5
  <2>7. Len(t) = n + 1 + Len(y) /\ \A i \in 1..Len(y) : t[n + 1 + i] = y[i]
    BY <2>2, <2>3, <2>4
  <2> QED BY <2>1, <2>3, <2>4, <2>6, <2>7
<1> HIDE DEF n, t
<1>2. PICK d \in Nat : Stands(v, t, d)
  BY <1>1, OccursIs DEF t
<1>3. ~(d < n + 1 /\ n + 1 <= d + Len(v))
  <2> SUFFICES ASSUME d < n + 1, n + 1 <= d + Len(v) PROVE FALSE
    OBVIOUS
  <2>1. n + 1 - d \in 1..Len(v) /\ d + (n + 1 - d) = n + 1
    BY <1>1
  <2>2. t[n + 1] = v[n + 1 - d]
    BY <1>2, <2>1 DEF Stands
  <2>3. v[n + 1 - d] \in Range(v)
    BY <2>1 DEF Range, Strings
  <2> QED BY <1>1, <2>2, <2>3
<1>4. CASE d + Len(v) <= n
  <2>1. Stands(v, x, d)
    BY <1>1, <1>2, <1>4 DEF Stands, n
  <2> QED BY <2>1, OccursIs
<1>5. CASE d >= n + 1
  <2>1. d - (n + 1) \in Nat /\ (d - (n + 1)) + Len(v) <= Len(y)
    BY <1>1, <1>2, <1>5 DEF Stands
  <2>2. ASSUME NEW i \in 1..Len(v) PROVE y[(d - (n + 1)) + i] = v[i]
    <3>1. (d - (n + 1)) + i \in 1..Len(y) /\ (n + 1) + ((d - (n + 1)) + i) = d + i
      BY <1>1, <2>1
    <3>2. t[d + i] = y[(d - (n + 1)) + i]
      BY <1>1, <3>1
    <3> QED BY <1>2, <3>2 DEF Stands
  <2>3. Stands(v, y, d - (n + 1))
    BY <2>1, <2>2 DEF Stands
  <2> QED BY <2>1, <2>3, OccursIs
<1> QED BY <1>1, <1>3, <1>4, <1>5

\* Induction over the numbers up to n, from either end, on the set of those reached.
LEMMA UpTo ==
  ASSUME NEW n \in Nat, NEW S, 0 \in S, \A k \in 1..n : k - 1 \in S => k \in S
  PROVE  \A k \in 0..n : k \in S
<1> DEFINE bad == {k \in 0..n : k \notin S}
<1> SUFFICES ASSUME bad # {} PROVE FALSE
  OBVIOUS
<1>1. bad \in SUBSET Nat
  OBVIOUS
<1> HIDE DEF bad
<1>2. PICK k \in bad : \A m \in bad : k <= m
  BY <1>1, LeastNumber
<1>3. k \in 0..n /\ k \notin S
  BY DEF bad
<1>4. k \in 1..n /\ k - 1 \in 0..n /\ ~(k <= k - 1)
  BY <1>3
<1>5. k - 1 \notin bad
  BY <1>2, <1>4
<1>6. k - 1 \in S
  BY <1>4, <1>5 DEF bad
<1> QED BY <1>3, <1>4, <1>6

\* The same from above.
LEMMA DownFrom ==
  ASSUME NEW n \in Nat, NEW S, \A k \in 1..n : (\A j \in k + 1..n : j \in S) => k \in S
  PROVE  \A k \in 1..n : k \in S
<1> DEFINE bad == {d \in 1..n : n + 1 - d \notin S}
<1>1. bad \in SUBSET Nat
  OBVIOUS
<1>2. bad = {}
  <2> HIDE DEF bad
  <2> SUFFICES ASSUME bad # {} PROVE FALSE
    OBVIOUS
  <2>1. PICK d \in bad : \A m \in bad : d <= m
    BY <1>1, LeastNumber
  <2>2. d \in 1..n /\ n + 1 - d \notin S
    BY DEF bad
  <2>3. ASSUME NEW j \in n + 1 - d + 1..n PROVE j \in S
    <3>1. n + 1 - j \in 1..n /\ ~(d <= n + 1 - j) /\ n + 1 - (n + 1 - j) = j
      BY <2>2
    <3>2. n + 1 - j \notin bad
      BY <2>1, <3>1
    <3> QED BY <3>1, <3>2 DEF bad
  <2>4. n + 1 - d \in 1..n
    BY <2>2
  <2> QED BY <2>2, <2>3, <2>4
<1>3. ASSUME NEW k \in 1..n PROVE k \in S
  <2>1. n + 1 - k \in 1..n /\ n + 1 - (n + 1 - k) = k
    OBVIOUS
  <2> QED BY <1>2, <2>1
<1> QED BY <1>3

\* A recursion that goes up by one: from f[k - 1] to f[k].
Iterated(f, base, step, n) == f[0] = base /\ \A k \in 1..n : f[k] = step[<<k, f[k - 1]>>]

\* Such a recursion has a function.
LEMMA Iterates ==
  ASSUME NEW S, NEW base \in S, NEW n \in Nat, NEW step \in [(1..n) \X S -> S]
  PROVE  \E f \in [0..n -> S] : Iterated(f, base, step, n)
<1> DEFINE Goes(f, m) == f[0] = base /\ \A k \in 1..m : f[k] = step[<<k, f[k - 1]>>]
           N == {m \in 0..n : \E f \in [0..m -> S] : Goes(f, m)}
<1>1. 0 \in N
  <2>1. [k \in 0..0 |-> base] \in [0..0 -> S] /\ Goes([k \in 0..0 |-> base], 0)
    OBVIOUS
  <2>2. \E f \in [0..0 -> S] : Goes(f, 0)
    BY <2>1
  <2>3. 0 \in 0..n
    OBVIOUS
  <2> HIDE DEF Goes
  <2> QED BY <2>2, <2>3
<1>2. ASSUME NEW m \in 1..n, m - 1 \in N PROVE m \in N
  <2>1. PICK f \in [0..m - 1 -> S] : Goes(f, m - 1)
    BY <1>2
  <2> DEFINE next == step[<<m, f[m - 1]>>]
             g == [k \in 0..m |-> IF k = m THEN next ELSE f[k]]
  <2>2. m - 1 \in 0..m - 1 /\ f[m - 1] \in S
    OBVIOUS
  <2>3. next \in S
    BY <2>2
  <2> HIDE DEF next
  <2>4. g \in [0..m -> S] /\ g[m] = next /\ \A k \in 0..m - 1 : g[k] = f[k]
    BY <2>3
  <2> HIDE DEF g
  <2>5. g[0] = base
    BY <2>1, <2>4
  <2>6. ASSUME NEW k \in 1..m PROVE g[k] = step[<<k, g[k - 1]>>]
    <3>1. k - 1 \in 0..m - 1 /\ (k = m \/ k \in 1..m - 1) /\ 1..m - 1 \subseteq 0..m - 1
      OBVIOUS
    <3>2. g[k - 1] = f[k - 1]
      BY <2>4, <3>1
    <3>3. CASE k = m
      BY <2>4, <3>2, <3>3 DEF next
    <3>4. CASE k \in 1..m - 1
      <4>1. g[k] = f[k] /\ f[k] = step[<<k, f[k - 1]>>]
        BY <2>1, <2>4, <3>1, <3>4
      <4> QED BY <3>2, <4>1
    <3> QED BY <3>1, <3>3, <3>4
  <2>7. Goes(g, m)
    BY <2>5, <2>6
  <2> QED BY <2>4, <2>7
<1> HIDE DEF N
<1>3. \A m \in 0..n : m \in N
  BY <1>1, <1>2, UpTo
<1>4. n \in N
  BY <1>3
<1>5. \E f \in [0..n -> S] : Goes(f, n)
  BY <1>4 DEF N
<1> QED BY <1>5 DEF Iterated

-----------------------------------------------------------------------------
(* One token before a text, and texts that hide others.                    *)

\* A string behind one token.
LEMMA OneBefore ==
  ASSUME NEW c \in Tokens, NEW y \in Strings
  PROVE  /\ <<c>> \o y \in Strings /\ Len(<<c>> \o y) = Len(y) + 1
         /\ (<<c>> \o y)[1] = c /\ \A i \in 1..Len(y) : (<<c>> \o y)[i + 1] = y[i]
         /\ Range(<<c>> \o y) = {c} \cup Range(y)
<1> DEFINE o == <<c>>
<1>1. o \in Strings /\ Len(o) = 1 /\ o[1] = c
  BY OneToken DEF Strings
<1>2. Range(o) = {c}
  BY DEF Range
<1> HIDE DEF o
<1>3. /\ o \o y \in Strings /\ Len(o \o y) = Len(o) + Len(y)
      /\ \A i \in 1..Len(o) : (o \o y)[i] = o[i]
      /\ \A i \in 1..Len(y) : (o \o y)[Len(o) + i] = y[i]
  BY <1>1, TwoStrings
<1>4. Range(o \o y) = Range(o) \cup Range(y)
  BY <1>1, RangeConcatenation DEF Strings
<1>5. Len(y) \in Nat /\ 1 \in 1..Len(o) /\ \A i \in 1..Len(y) : Len(o) + i = i + 1
  BY <1>1 DEF Strings
<1>6. (o \o y)[1] = c
  BY <1>1, <1>3, <1>5
<1>7. \A i \in 1..Len(y) : (o \o y)[i + 1] = y[i]
  BY <1>3, <1>5
<1>8. Len(o \o y) = Len(y) + 1
  BY <1>1, <1>3, <1>5
<1> QED BY <1>2, <1>3, <1>4, <1>6, <1>7, <1>8 DEF o

\* What stands in it one further on stands in the rest.
LEMMA StandsBehind ==
  ASSUME NEW c \in Tokens, NEW y \in Strings, NEW u \in Strings, NEW d \in Nat
  PROVE  Stands(u, <<c>> \o y, d + 1) <=> Stands(u, y, d)
<1> DEFINE x == <<c>> \o y
<1>1. Len(x) = Len(y) + 1 /\ \A i \in 1..Len(y) : x[i + 1] = y[i]
  BY OneBefore
<1>2. Len(y) \in Nat /\ Len(u) \in Nat
  BY DEF Strings
<1> HIDE DEF x
<1>3. (d + 1) + Len(u) <= Len(x) <=> d + Len(u) <= Len(y)
  BY <1>1, <1>2
<1>4. ASSUME d + Len(u) <= Len(y), NEW i \in 1..Len(u) PROVE x[(d + 1) + i] = y[d + i]
  <2>1. d + i \in 1..Len(y) /\ (d + 1) + i = (d + i) + 1
    BY <1>2, <1>4
  <2> QED BY <1>1, <2>1
<1> QED BY <1>3, <1>4 DEF Stands, x

\* What occurs in a string occurs in that string and more behind it,
LEMMA OccursInFirst ==
  ASSUME NEW u \in Strings, u # <<>>, NEW x \in Strings, NEW y \in Strings, Occurs(u, x)
  PROVE  Occurs(u, x \o y)
<1>1. /\ x \o y \in Strings /\ Len(x \o y) = Len(x) + Len(y)
      /\ \A i \in 1..Len(x) : (x \o y)[i] = x[i]
  BY TwoStrings
<1>2. Len(x) \in Nat /\ Len(y) \in Nat
  BY DEF Strings
<1>3. Stands(x, x \o y, 0)
  <2>1. \A i \in 1..Len(x) : 0 + i = i
    BY <1>2
  <2> QED BY <1>1, <1>2, <2>1 DEF Stands
<1> QED BY <1>1, <1>3, OccursWithin DEF Within

\* and in that string and more before it.
LEMMA OccursInLast ==
  ASSUME NEW u \in Strings, u # <<>>, NEW x \in Strings, NEW y \in Strings, Occurs(u, y)
  PROVE  Occurs(u, x \o y)
<1>1. /\ x \o y \in Strings /\ Len(x \o y) = Len(x) + Len(y)
      /\ \A i \in 1..Len(y) : (x \o y)[Len(x) + i] = y[i]
  BY TwoStrings
<1>2. Len(x) \in Nat /\ Len(y) \in Nat
  BY DEF Strings
<1>3. Stands(y, x \o y, Len(x))
  BY <1>1, <1>2 DEF Stands
<1> QED BY <1>1, <1>2, <1>3, OccursWithin DEF Within

\* Strings one after the other, however they are grouped.
LEMMA Regroup ==
  ASSUME NEW x \in Strings, NEW y \in Strings, NEW z \in Strings
  PROVE  (x \o y) \o z = x \o (y \o z)
BY ConcatAssociative DEF Strings

\* The two in the middle first.
LEMMA FourStrings ==
  ASSUME NEW x \in Strings, NEW y \in Strings, NEW z \in Strings, NEW w \in Strings
  PROVE  (x \o y) \o (z \o w) = x \o ((y \o z) \o w)
<1>1. z \o w \in Strings
  BY TwoStrings
<1>2. \A v \in Strings : (x \o y) \o v = x \o (y \o v)
  BY Regroup, Zenon
<1>3. (x \o y) \o (z \o w) = x \o (y \o (z \o w))
  BY <1>1, <1>2, Zenon
<1>4. \A v \in Strings : (y \o z) \o v = y \o (z \o v)
  BY Regroup, Zenon
<1> QED BY <1>3, <1>4, Zenon

\* The tokens of two strings.
LEMMA RangeOfTwo ==
  ASSUME NEW x \in Strings, NEW y \in Strings
  PROVE  Range(x \o y) = Range(x) \cup Range(y)
BY RangeConcatenation DEF Strings

\* Nothing added.
LEMMA NoneAfter ==
  ASSUME NEW x \in Strings
  PROVE  x \o <<>> = x /\ <<>> \o x = x
BY ConcatEmptySeq DEF Strings

\* The markers, and two of them that are not the mark.
LEMMA MarkersAre ==
  /\ Mark \in Markers /\ "[redacted_hash]" \in Markers /\ "[non_utf8_hash]" \in Markers
  /\ "[redacted-query]" \in Markers /\ "[redacted-fragment]" \in Markers
  /\ "[non-utf8-executable]" \in Markers
  /\ "[redacted_hash]" # Mark /\ "[non_utf8_hash]" # Mark
BY DEF Markers, Mark

\* What the code looks for is no marker.
LEMMA NoMarkers == {":", "/", "\\", "?", "#", "@", "=", "-"} \cap Markers = {}
BY DEF Markers, Mark

\* The markers and what the code writes itself are tokens.
LEMMA TokensAre == Markers \subseteq Tokens /\ {"/", "=", "?", "#"} \subseteq Tokens
BY DEF Tokens

\* A text without any marker, and a text with one.
Bare(u) == u # <<>> /\ Range(u) \cap Markers = {}
Noted(t) == Range(t) \cap Markers # {}

\* What can be read in y could be read in t.
Masked(y, t) == \A u \in Strings : Bare(u) /\ Occurs(u, y) => Occurs(u, t)

\* The configured values: texts, none of them empty.
Values(values) == /\ values \in Seq(Strings)
                  /\ \A n \in 1..Len(values) : Bare(values[n])

-----------------------------------------------------------------------------
(* String::replace.                                                        *)

\* from[k] is what replacing leaves of t from its k-th token on.
Scans(from, v, t) ==
  from = [k \in 1..(Len(t) + 1) |->
            IF k > Len(t) THEN <<>>
            ELSE IF OccursAt(v, t, k) THEN <<Mark>> \o from[k + Len(v)]
            ELSE <<t[k]>> \o from[k + 1]]

\* Replace is the scan from the first token on.
LEMMA ReplaceIs ==
  ASSUME NEW v, NEW t
  PROVE  Replace(v, t) = (CHOOSE from : Scans(from, v, t))[1]
BY Zenon DEF Replace, Scans

\* The scan at one place.
LEMMA ScansAt ==
  ASSUME NEW v, NEW t, NEW from, Scans(from, v, t), NEW k \in 1..(Len(t) + 1)
  PROVE  from[k] = IF k > Len(t) THEN <<>>
                   ELSE IF OccursAt(v, t, k) THEN <<Mark>> \o from[k + Len(v)]
                   ELSE <<t[k]>> \o from[k + 1]
BY Zenon DEF Scans

\* The scan is well defined: it looks only at places further on.
LEMMA ScanExists ==
  ASSUME NEW v \in Strings, v # <<>>, NEW t \in Strings
  PROVE  \E from : Scans(from, v, t)
<1> DEFINE n == Len(t) + 1
           Next_(f, k) == IF k > Len(t) THEN <<>>
                          ELSE IF OccursAt(v, t, k) THEN <<Mark>> \o f[k + Len(v)]
                          ELSE <<t[k]>> \o f[k + 1]
           Goes(f, k) == f = [j \in k..n |-> Next_(f, j)]
           S == {k \in 1..n : \E f : Goes(f, k)}
<1>1. Len(t) \in Nat /\ n \in Nat /\ Len(v) \in Nat /\ Len(v) > 0
  BY DEF Strings
<1>2. ASSUME NEW k \in 1..n, \A j \in k + 1..n : j \in S PROVE k \in S
  <2>1. CASE k = n
    <3> DEFINE g == [j \in k..n |-> <<>>]
    <3>1. \A j \in k..n : j > Len(t)
      BY <1>1, <2>1
    <3>2. Goes(g, k)
      BY <3>1
    <3> QED BY <3>2
  <2>2. CASE k < n
    <3>1. k + 1 \in k + 1..n /\ k + 1 \in 1..n
      BY <1>1, <2>2
    <3>2. PICK f : Goes(f, k + 1)
      BY <1>2, <3>1
    <3> DEFINE first == Next_(f, k)
               g == [j \in k..n |-> IF j = k THEN first ELSE f[j]]
    <3>3. \A j \in k + 1..n : g[j] = f[j]
      BY <1>1
    <3>4. \A j \in k..Len(t) : /\ j + Len(v) \in k + 1..n \/ ~OccursAt(v, t, j)
                               /\ j + 1 \in k + 1..n
      <4>1. ASSUME NEW j \in k..Len(t), OccursAt(v, t, j) PROVE j + Len(v) \in k + 1..n
        <5>1. j + Len(v) - 1 <= Len(t)
          BY <4>1 DEF OccursAt
        <5> QED BY <1>1, <5>1
      <4>2. \A j \in k..Len(t) : j + 1 \in k + 1..n
        BY <1>1
      <4> QED BY <4>1, <4>2
    <3>5. \A j \in k..n : Next_(g, j) = Next_(f, j)
      <4>1. ASSUME NEW j \in k..n PROVE Next_(g, j) = Next_(f, j)
        <5>1. CASE j > Len(t)
          BY <5>1
        <5>2. CASE ~(j > Len(t))
          <6>1. j \in k..Len(t)
            BY <1>1, <5>2
          <6>2. g[j + 1] = f[j + 1]
            BY <3>3, <3>4, <6>1
          <6>3. OccursAt(v, t, j) => g[j + Len(v)] = f[j + Len(v)]
            BY <3>3, <3>4, <6>1
          <6> HIDE DEF g
          <6> QED BY <6>2, <6>3
        <5> QED BY <5>1, <5>2
      <4> QED BY <4>1
    <3>6. \A j \in k..n : g[j] = Next_(f, j)
      <4>1. \A j \in k + 1..n : f[j] = Next_(f, j)
        BY <3>2, Zenon
      <4>2. g[k] = Next_(f, k)
        BY <1>1
      <4>3. \A j \in k..n : j = k \/ j \in k + 1..n
        BY <1>1
      <4> HIDE DEF Next_, g
      <4> QED BY <3>3, <4>1, <4>2, <4>3
    <3>7. g = [j \in k..n |-> g[j]]
      OBVIOUS
    <3>8. Goes(g, k)
      <4> HIDE DEF Next_, g
      <4> QED BY <3>5, <3>6, <3>7
    <3> QED BY <3>8, Zenon
  <2>3. k = n \/ k < n
    BY <1>1
  <2> QED BY <2>1, <2>2, <2>3
<1>3. \A k \in 1..n : k \in S
  <2> HIDE DEF S, n
  <2> QED BY <1>1, <1>2, DownFrom
<1>4. \E f : Goes(f, 1)
  <2>1. 1 \in 1..n
    BY <1>1
  <2>2. 1 \in S
    <3> HIDE DEF S, n
    <3> QED BY <1>3, <2>1
  <2> HIDE DEF Goes
  <2> QED BY <2>2
<1> QED BY <1>4, Zenon DEF Scans

\* One step of the scan: a value gives way to the mark, any other token stays.
Steps(from, v, t, k) ==
  \E c \in Tokens, m \in k + 1..Len(t) + 1 :
    /\ from[k] = <<c>> \o from[m]
    /\ \/ OccursAt(v, t, k) /\ c = Mark
       \/ ~OccursAt(v, t, k) /\ c = t[k] /\ m = k + 1

\* Each place is one such step.
LEMMA ScanStep ==
  ASSUME NEW v \in Strings, v # <<>>, NEW t \in Strings, NEW from, Scans(from, v, t)
  PROVE  \A k \in 1..Len(t) : Steps(from, v, t, k)
<1> SUFFICES ASSUME NEW k \in 1..Len(t) PROVE Steps(from, v, t, k)
  OBVIOUS
<1>1. Len(t) \in Nat /\ Len(v) \in Nat /\ Len(v) > 0 /\ k \in 1..Len(t) + 1 /\ ~(k > Len(t))
  BY DEF Strings
<1>2. from[k] = IF OccursAt(v, t, k) THEN <<Mark>> \o from[k + Len(v)] ELSE <<t[k]>> \o from[k + 1]
  BY <1>1, ScansAt
<1>3. CASE OccursAt(v, t, k)
  <2>1. k + Len(v) \in k + 1..Len(t) + 1
    BY <1>1, <1>3 DEF OccursAt
  <2>2. Mark \in Tokens
    BY MarkersAre, TokensAre
  <2> QED BY <1>2, <1>3, <2>1, <2>2 DEF Steps
<1>4. CASE ~OccursAt(v, t, k)
  <2>1. k + 1 \in k + 1..Len(t) + 1
    BY <1>1
  <2>2. t[k] \in Tokens
    BY DEF Strings
  <2> QED BY <1>2, <1>4, <2>1, <2>2 DEF Steps
<1> QED BY <1>3, <1>4

\* Behind the text nothing is left.
LEMMA ScanEnd ==
  ASSUME NEW v, NEW t \in Strings, NEW from, Scans(from, v, t)
  PROVE  from[Len(t) + 1] = <<>>
<1>1. Len(t) \in Nat
  BY DEF Strings
<1>2. Len(t) + 1 \in 1..(Len(t) + 1) /\ Len(t) + 1 > Len(t)
  BY <1>1
<1> QED BY <1>2, ScansAt

\* The empty string.
LEMMA EmptyString == <<>> \in Strings /\ Len(<<>>) = 0 /\ Range(<<>>) = {}
BY DEF Strings, Range

\* Replacing gives strings.
LEMMA ScanTyped ==
  ASSUME NEW v \in Strings, v # <<>>, NEW t \in Strings, NEW from, Scans(from, v, t)
  PROVE  \A k \in 1..Len(t) + 1 : from[k] \in Strings
<1>0. \A k \in 1..Len(t) : Steps(from, v, t, k)
  BY ScanStep
<1> DEFINE n == Len(t) + 1
           S == {k \in 1..n : from[k] \in Strings}
<1>1. n \in Nat /\ Len(t) \in Nat
  BY DEF Strings
<1>2. ASSUME NEW k \in 1..n, \A j \in k + 1..n : j \in S PROVE k \in S
  <2>1. CASE k = n
    BY <2>1, ScanEnd, EmptyString
  <2>2. CASE k # n
    <3>1. k \in 1..Len(t)
      BY <1>1, <2>2
    <3>2. PICK c \in Tokens, m \in k + 1..Len(t) + 1 :
            /\ from[k] = <<c>> \o from[m]
            /\ \/ OccursAt(v, t, k) /\ c = Mark
               \/ ~OccursAt(v, t, k) /\ c = t[k] /\ m = k + 1
      BY <3>1, <1>0 DEF Steps
    <3>3. from[m] \in Strings
      <4>1. m \in k + 1..n
        BY <3>2
      <4>2. m \in S
        BY <1>2, <4>1
      <4> QED BY <4>2
    <3>4. <<c>> \o from[m] \in Strings
      BY <3>3, OneBefore
    <3>5. from[k] \in Strings
      BY <3>2, <3>4
    <3> QED BY <3>5
  <2> QED BY <2>1, <2>2
<1> HIDE DEF n, S
<1>3. \A k \in 1..n : k \in S
  BY <1>1, <1>2, DownFrom
<1> QED BY <1>3 DEF n, S

\* Without an occurrence the rest of the text is as it was.
LEMMA ScanKeeps ==
  ASSUME NEW v \in Strings, v # <<>>, NEW t \in Strings, NEW from, Scans(from, v, t),
         \A k \in 1..Len(t) : ~OccursAt(v, t, k)
  PROVE  from[1] = t
<1>0. \A k \in 1..Len(t) : Steps(from, v, t, k)
  BY ScanStep
<1> DEFINE n == Len(t) + 1
           Is(k) == Len(from[k]) = n - k /\ \A i \in 1..n - k : from[k][i] = t[k - 1 + i]
           S == {k \in 1..n : Is(k)}
<1>1. n \in Nat /\ Len(t) \in Nat
  BY DEF Strings
<1>2. ASSUME NEW k \in 1..n, \A j \in k + 1..n : j \in S PROVE k \in S
  <2>1. CASE k = n
    <3>1. from[k] = <<>> /\ n - k = 0
      BY <1>1, <2>1, ScanEnd
    <3> QED BY <3>1, EmptyString
  <2>2. CASE k # n
    <3>1. k \in 1..Len(t) /\ k + 1 \in k + 1..n /\ k + 1 \in 1..n
      BY <1>1, <2>2
    <3>2. from[k] = <<t[k]>> \o from[k + 1]
      <4>1. ~OccursAt(v, t, k)
        BY <3>1
      <4> QED BY <3>1, <4>1, <1>0 DEF Steps
    <3>3. Is(k + 1)
      BY <1>2, <3>1
    <3>4. t[k] \in Tokens /\ from[k + 1] \in Strings
      BY <3>1, ScanTyped DEF Strings
    <3> DEFINE x == from[k]
               y == from[k + 1]
    <3>5. /\ Len(x) = Len(y) + 1 /\ x[1] = t[k] /\ \A i \in 1..Len(y) : x[i + 1] = y[i]
      BY <3>2, <3>4, OneBefore
    <3>6. Len(y) = n - (k + 1) /\ \A i \in 1..n - (k + 1) : y[i] = t[(k + 1) - 1 + i]
      BY <3>3
    <3> HIDE DEF x, y
    <3>7. Len(x) = n - k
      BY <1>1, <3>5, <3>6
    <3>8. ASSUME NEW i \in 1..n - k PROVE x[i] = t[k - 1 + i]
      <4>1. CASE i = 1
        BY <3>5, <4>1
      <4>2. CASE i # 1
        <5>1. i - 1 \in 1..n - (k + 1) /\ (i - 1) + 1 = i /\ (k + 1) - 1 + (i - 1) = k - 1 + i
          BY <1>1, <4>2
        <5>2. x[(i - 1) + 1] = y[i - 1] /\ y[i - 1] = t[(k + 1) - 1 + (i - 1)]
          BY <3>5, <3>6, <5>1
        <5> QED BY <5>1, <5>2
      <4> QED BY <4>1, <4>2
    <3> QED BY <3>7, <3>8 DEF x
  <2> QED BY <2>1, <2>2
<1>3. 1 \in S
  <2> HIDE DEF n, S
  <2>1. \A k \in 1..n : k \in S
    BY <1>1, <1>2, DownFrom
  <2>2. 1 \in 1..n
    BY <1>1 DEF n
  <2> QED BY <2>1, <2>2
<1>4. 1 \in 1..n /\ Is(1) /\ n - 1 = Len(t) /\ \A i \in 1..Len(t) : 1 - 1 + i = i
  BY <1>1, <1>3
<1>5. from[1] \in Strings
  BY <1>4, ScanTyped
<1>6. Len(from[1]) = Len(t) /\ \A i \in 1..Len(t) : from[1][i] = t[i]
  BY <1>4
<1> QED BY <1>5, <1>6, SameString

\* An occurrence leaves the mark.
LEMMA ScanMarks ==
  ASSUME NEW v \in Strings, v # <<>>, NEW t \in Strings, NEW from, Scans(from, v, t),
         NEW at \in 1..Len(t), OccursAt(v, t, at)
  PROVE  Mark \in Range(from[1])
<1>0. \A k \in 1..Len(t) : Steps(from, v, t, k)
  BY ScanStep
<1> DEFINE n == Len(t) + 1
           S == {k \in 1..n : at < k \/ Mark \in Range(from[k])}
<1>1. n \in Nat /\ Len(t) \in Nat
  BY DEF Strings
<1>2. ASSUME NEW k \in 1..n, \A j \in k + 1..n : j \in S PROVE k \in S
  <2>1. CASE at < k
    BY <2>1
  <2>2. CASE ~(at < k)
    <3>1. k \in 1..Len(t)
      BY <1>1, <2>2
    <3>2. PICK c \in Tokens, m \in k + 1..Len(t) + 1 :
            /\ from[k] = <<c>> \o from[m]
            /\ \/ OccursAt(v, t, k) /\ c = Mark
               \/ ~OccursAt(v, t, k) /\ c = t[k] /\ m = k + 1
      BY <3>1, <1>0 DEF Steps
    <3>3. from[m] \in Strings
      BY <3>2, ScanTyped
    <3>4. Range(from[k]) = {c} \cup Range(from[m])
      BY <3>2, <3>3, OneBefore
    <3>5. CASE OccursAt(v, t, k)
      BY <3>2, <3>4, <3>5
    <3>6. CASE ~OccursAt(v, t, k)
      <4>1. k # at /\ m = k + 1
        BY <3>2, <3>6
      <4>2. ~(at < m)
        BY <2>2, <4>1
      <4>3. Mark \in Range(from[m])
        BY <1>2, <3>2, <4>2
      <4> QED BY <3>4, <4>3
    <3> QED BY <3>5, <3>6
  <2> QED BY <2>1, <2>2
<1>3. 1 \in S
  <2> HIDE DEF n, S
  <2>1. \A k \in 1..n : k \in S
    BY <1>1, <1>2, DownFrom
  <2>2. 1 \in 1..n
    BY <1>1 DEF n
  <2> QED BY <2>1, <2>2
<1> QED BY <1>3

\* Up to the first marker the rest reads as before.
LEMMA ScanBegins ==
  ASSUME NEW v \in Strings, v # <<>>, NEW t \in Strings, NEW from, Scans(from, v, t)
  PROVE  \A k \in 1..Len(t) + 1 : \A q \in 0..Len(from[k]) :
           (\A i \in 1..q : from[k][i] \notin Markers) =>
             k - 1 + q <= Len(t) /\ \A i \in 1..q : from[k][i] = t[k - 1 + i]
<1>0. \A k \in 1..Len(t) : Steps(from, v, t, k)
  BY ScanStep
<1> DEFINE n == Len(t) + 1
           Begins(k) == \A q \in 0..Len(from[k]) :
                          (\A i \in 1..q : from[k][i] \notin Markers) =>
                            k - 1 + q <= Len(t) /\ \A i \in 1..q : from[k][i] = t[k - 1 + i]
           S == {k \in 1..n : Begins(k)}
<1>1. n \in Nat /\ Len(t) \in Nat
  BY DEF Strings
<1>2. ASSUME NEW k \in 1..n, \A j \in k + 1..n : j \in S PROVE k \in S
  <2> SUFFICES ASSUME NEW q \in 0..Len(from[k]), \A i \in 1..q : from[k][i] \notin Markers
               PROVE  k - 1 + q <= Len(t) /\ \A i \in 1..q : from[k][i] = t[k - 1 + i]
    OBVIOUS
  <2>1. CASE q = 0
    BY <1>1, <2>1
  <2>2. CASE q # 0
    <3>1. k \in 1..Len(t)
      <4>1. CASE k = n
        <5>1. Len(from[k]) = 0
          BY <4>1, ScanEnd, EmptyString
        <5> QED BY <2>2, <5>1
      <4> QED BY <1>1, <4>1
    <3>2. PICK c \in Tokens, m \in k + 1..Len(t) + 1 :
            /\ from[k] = <<c>> \o from[m]
            /\ \/ OccursAt(v, t, k) /\ c = Mark
               \/ ~OccursAt(v, t, k) /\ c = t[k] /\ m = k + 1
      BY <3>1, <1>0 DEF Steps
    <3>3. from[m] \in Strings
      BY <3>2, ScanTyped
    <3> DEFINE x == from[k]
               y == from[m]
    <3>4. Len(x) = Len(y) + 1 /\ x[1] = c /\ \A i \in 1..Len(y) : x[i + 1] = y[i]
      BY <3>2, <3>3, OneBefore
    <3>5. Len(y) \in Nat
      BY <3>3 DEF Strings
    <3>6. m = k + 1 /\ c = t[k]
      <4>1. 1 \in 1..q
        BY <2>2, <3>4, <3>5
      <4>2. c \notin Markers
        BY <3>4, <4>1
      <4> QED BY <3>2, <4>2, MarkersAre
    <3>7. m \in 1..n /\ Begins(m)
      BY <1>2, <3>2
    <3>8. q - 1 \in 0..Len(y) /\ q \in Nat
      BY <2>2, <3>4, <3>5
    <3> HIDE DEF x, y
    <3>9. \A i \in 1..q - 1 : y[i] \notin Markers /\ y[i] = x[i + 1] /\ i + 1 \in 1..q
      <4>1. ASSUME NEW i \in 1..q - 1 PROVE y[i] \notin Markers /\ y[i] = x[i + 1] /\ i + 1 \in 1..q
        <5>1. i + 1 \in 1..q /\ i \in 1..Len(y)
          BY <3>5, <3>8
        <5>2. x[i + 1] = y[i]
          BY <3>4, <5>1
        <5>3. x[i + 1] \notin Markers
          BY <5>1 DEF x
        <5> QED BY <5>1, <5>2, <5>3
      <4> QED BY <4>1
    <3>10. m - 1 + (q - 1) <= Len(t) /\ \A i \in 1..q - 1 : y[i] = t[m - 1 + i]
      <4>1. \A i \in 1..q - 1 : from[m][i] \notin Markers
        BY <3>9 DEF y
      <4>2. q - 1 \in 0..Len(from[m])
        BY <3>8 DEF y
      <4> QED BY <3>7, <4>1, <4>2 DEF y
    <3>11. k - 1 + q <= Len(t)
      BY <1>1, <3>6, <3>8, <3>10
    <3>12. ASSUME NEW i \in 1..q PROVE x[i] = t[k - 1 + i]
      <4>1. CASE i = 1
        <5>1. k - 1 + i = k
          BY <4>1
        <5> QED BY <3>4, <3>6, <4>1, <5>1
      <4>2. CASE i # 1
        <5>1. i - 1 \in 1..q - 1 /\ (i - 1) + 1 = i /\ m - 1 + (i - 1) = k - 1 + i
          BY <3>6, <3>8, <4>2
        <5>2. y[i - 1] = x[(i - 1) + 1] /\ y[i - 1] = t[m - 1 + (i - 1)]
          BY <3>9, <3>10, <5>1
        <5> QED BY <5>1, <5>2
      <4> QED BY <4>1, <4>2
    <3> QED BY <3>11, <3>12 DEF x
  <2> QED BY <2>1, <2>2
<1> HIDE DEF n, S, Begins
<1>3. \A k \in 1..n : k \in S
  BY <1>1, <1>2, DownFrom
<1>4. \A k \in 1..n : Begins(k)
  BY <1>3 DEF S
<1> QED BY <1>4 DEF n, Begins

\* A text without markers at the start of what is left stood there before.
LEMMA BareStands ==
  ASSUME NEW v \in Strings, v # <<>>, NEW t \in Strings, NEW from, Scans(from, v, t),
         NEW k \in 1..Len(t) + 1, NEW u \in Strings, Bare(u), Stands(u, from[k], 0)
  PROVE  Stands(u, t, k - 1)
<1>1. Len(u) \in Nat /\ Len(t) \in Nat /\ from[k] \in Strings
  BY ScanTyped DEF Strings
<1>2. Len(u) \in 0..Len(from[k]) /\ \A i \in 1..Len(u) : from[k][i] = u[i]
  <2>1. \A i \in 1..Len(u) : 0 + i = i
    BY <1>1
  <2>2. Len(from[k]) \in Nat
    BY <1>1 DEF Strings
  <2> QED BY <1>1, <2>1, <2>2 DEF Stands
<1>3. \A i \in 1..Len(u) : u[i] \notin Markers
  BY DEF Bare, Range, Strings
<1>4. k - 1 + Len(u) <= Len(t) /\ \A i \in 1..Len(u) : from[k][i] = t[k - 1 + i]
  <2>1. \A i \in 1..Len(u) : from[k][i] \notin Markers
    BY <1>2, <1>3
  <2>2. \A m \in 1..Len(t) + 1 : \A q \in 0..Len(from[m]) :
          (\A i \in 1..q : from[m][i] \notin Markers) =>
            m - 1 + q <= Len(t) /\ \A i \in 1..q : from[m][i] = t[m - 1 + i]
    BY ScanBegins
  <2> QED BY <1>2, <2>1, <2>2
<1> QED BY <1>2, <1>4 DEF Stands

\* What can be read in the rest could be read in the text; the value itself cannot.
LEMMA ScanReads ==
  ASSUME NEW v \in Strings, v # <<>>, NEW t \in Strings, NEW from, Scans(from, v, t),
         NEW u \in Strings, Bare(u)
  PROVE  \A k \in 1..Len(t) + 1 : \A d \in Nat : Stands(u, from[k], d) => Occurs(u, t) /\ u # v
<1> DEFINE n == Len(t) + 1
           Reads(k) == \A d \in Nat : Stands(u, from[k], d) => Occurs(u, t) /\ u # v
           S == {k \in 1..n : Reads(k)}
<1>1. /\ n \in Nat /\ Len(t) \in Nat /\ Len(u) \in Nat /\ Len(u) > 0 /\ u # <<>>
      /\ u[1] \notin Markers
  BY DEF Strings, Bare, Range
<1>0. \A k \in 1..Len(t) : Steps(from, v, t, k)
  BY ScanStep
<1>2. ASSUME NEW k \in 1..n, \A j \in k + 1..n : j \in S PROVE k \in S
  <2>1. ASSUME NEW d \in Nat, Stands(u, from[k], d) PROVE Occurs(u, t) /\ u # v
    <3>1. k \in 1..Len(t)
      <4>1. CASE k = n
        <5>1. Len(from[k]) = 0
          BY <4>1, ScanEnd, EmptyString
        <5> QED BY <1>1, <2>1, <5>1 DEF Stands
      <4> QED BY <1>1, <4>1
    <3>2. PICK c \in Tokens, m \in k + 1..Len(t) + 1 :
            /\ from[k] = <<c>> \o from[m]
            /\ \/ OccursAt(v, t, k) /\ c = Mark
               \/ ~OccursAt(v, t, k) /\ c = t[k] /\ m = k + 1
      BY <3>1, <1>0 DEF Steps
    <3>3. from[m] \in Strings
      BY <3>2, ScanTyped
    <3>4. CASE d = 0
      <4>1. Stands(u, t, k - 1)
        BY <2>1, <3>4, BareStands
      <4>2. k - 1 \in Nat /\ k \in 1..Len(t) + 1
        BY <3>1
      <4>3. OccursAt(u, t, k)
        BY <4>1, <4>2, OccursAtIs
      <4>4. Occurs(u, t)
        BY <1>1, <4>1, <4>2, OccursIs
      <4>5. u # v
        <5> SUFFICES ASSUME u = v PROVE FALSE
          OBVIOUS
        <5>1. c = Mark
          BY <3>2, <4>3
        <5>2. from[k][1] = c
          BY <3>2, <3>3, OneBefore
        <5>3. 1 \in 1..Len(u) /\ d + 1 = 1
          BY <1>1, <3>4
        <5>4. from[k][1] = u[1]
          BY <2>1, <5>3 DEF Stands
        <5> QED BY <1>1, <5>1, <5>2, <5>4, MarkersAre
      <4> QED BY <4>4, <4>5
    <3>5. CASE d # 0
      <4>1. d - 1 \in Nat /\ (d - 1) + 1 = d
        BY <3>5
      <4>2. Stands(u, from[m], d - 1)
        BY <2>1, <3>2, <3>3, <4>1, StandsBehind
      <4>3. m \in k + 1..n
        BY <3>2
      <4>4. m \in S
        BY <1>2, <4>3
      <4> QED BY <4>1, <4>2, <4>4
    <3> QED BY <3>4, <3>5
  <2> QED BY <2>1
<1> HIDE DEF n, S, Reads
<1>3. \A k \in 1..n : k \in S
  BY <1>1, <1>2, DownFrom
<1>4. \A k \in 1..n : Reads(k)
  BY <1>3 DEF S
<1> QED BY <1>4 DEF n, Reads

\* Whether a value occurs, and where.
LEMMA OccursSomewhere ==
  ASSUME NEW v \in Strings, NEW t \in Strings
  PROVE  Occurs(v, t) <=> \E k \in 1..Len(t) : OccursAt(v, t, k)
<1>1. DOMAIN t = 1..Len(t)
  BY DEF Strings
<1> QED BY <1>1 DEF Occurs

\* String::replace: it writes a mark for a value and nothing else.
LEMMA Replaced ==
  ASSUME NEW v \in Strings, Bare(v), NEW t \in Strings
  PROVE  /\ Replace(v, t) \in Strings
         /\ ~Occurs(v, t) => Replace(v, t) = t
         /\ Occurs(v, t) => Mark \in Range(Replace(v, t))
         /\ Masked(Replace(v, t), t)
         /\ ~Occurs(v, Replace(v, t))
<1> DEFINE from == CHOOSE f : Scans(f, v, t)
<1>1. v # <<>>
  BY DEF Bare
<1>2. Scans(from, v, t)
  <2>1. \E f : Scans(f, v, t)
    BY <1>1, ScanExists
  <2> QED BY <2>1, Zenon
<1>3. Replace(v, t) = from[1]
  BY ReplaceIs, Zenon
<1> HIDE DEF from
<1>4. 1 \in 1..Len(t) + 1
  BY DEF Strings
<1>5. from[1] \in Strings
  BY <1>1, <1>2, <1>4, ScanTyped
<1>6. ~Occurs(v, t) => from[1] = t
  <2>1. ~Occurs(v, t) => \A k \in 1..Len(t) : ~OccursAt(v, t, k)
    BY OccursSomewhere
  <2> QED BY <1>1, <1>2, <2>1, ScanKeeps
<1>7. Occurs(v, t) => Mark \in Range(from[1])
  <2>1. Occurs(v, t) => \E k \in 1..Len(t) : OccursAt(v, t, k)
    BY OccursSomewhere
  <2> QED BY <1>1, <1>2, <2>1, ScanMarks
<1>8. ASSUME NEW u \in Strings, Bare(u), Occurs(u, from[1]) PROVE Occurs(u, t) /\ u # v
  <2>1. u # <<>>
    BY <1>8 DEF Bare
  <2>2. PICK d \in Nat : Stands(u, from[1], d)
    BY <1>5, <1>8, <2>1, OccursIs
  <2>3. \A k \in 1..Len(t) + 1 : \A e \in Nat : Stands(u, from[k], e) => Occurs(u, t) /\ u # v
    BY <1>1, <1>2, <1>8, ScanReads
  <2> QED BY <1>4, <2>2, <2>3
<1>9. Masked(from[1], t) /\ ~Occurs(v, from[1])
  BY <1>8 DEF Masked
<1> QED BY <1>3, <1>5, <1>6, <1>7, <1>9

\* A string that begins with the first n tokens of t, and of which everything without
\* markers that starts there starts in t as well.
Continues(y, t, n) ==
  /\ y \in Strings /\ n <= Len(y) /\ \A i \in 1..n : y[i] = t[i]
  /\ \A u \in Strings, d \in 0..n - 1 : Bare(u) /\ Stands(u, y, d) => Stands(u, t, d)

\* Up to place n there is no marker, and none of the values starts.
Clear(values, t, n) ==
  \A k \in 1..n : t[k] \notin Markers /\ \A v \in values : ~OccursAt(v, t, k)

\* Where no value starts the scan keeps the tokens, and nothing new starts there.
LEMMA ScanContinues ==
  ASSUME NEW v \in Strings, v # <<>>, NEW t \in Strings, NEW from, Scans(from, v, t),
         NEW n \in 0..Len(t), Clear({v}, t, n)
  PROVE  Continues(from[1], t, n)
<1>0. \A k \in 1..Len(t) : Steps(from, v, t, k)
  BY ScanStep
<1>b. \A k \in 1..Len(t) + 1 : \A q \in 0..Len(from[k]) :
        (\A i \in 1..q : from[k][i] \notin Markers) =>
          k - 1 + q <= Len(t) /\ \A i \in 1..q : from[k][i] = t[k - 1 + i]
  BY ScanBegins
<1> DEFINE m == n + 1
           Is(k) == m - k <= Len(from[k]) /\ \A i \in 1..m - k : from[k][i] = t[k - 1 + i]
           S == {k \in 1..m : Is(k)}
<1>1. n \in Nat /\ m \in Nat /\ Len(t) \in Nat /\ m <= Len(t) + 1
  BY DEF Strings
<1>2. ASSUME NEW k \in 1..m, \A j \in k + 1..m : j \in S PROVE k \in S
  <2>0. from[k] \in Strings
    <3>1. k \in 1..Len(t) + 1
      BY <1>1
    <3> QED BY <3>1, ScanTyped
  <2>1. CASE k = m
    <3>1. m - k = 0 /\ Len(from[k]) \in Nat
      BY <1>1, <2>0, <2>1 DEF Strings
    <3> QED BY <3>1
  <2>2. CASE k # m
    <3>1. k \in 1..n /\ k \in 1..Len(t) /\ k + 1 \in k + 1..m /\ k + 1 \in 1..Len(t) + 1
      BY <1>1, <2>2
    <3>2. from[k] = <<t[k]>> \o from[k + 1]
      <4>1. ~OccursAt(v, t, k)
        BY <3>1 DEF Clear
      <4> QED BY <3>1, <4>1, <1>0 DEF Steps
    <3>3. Is(k + 1)
      BY <1>2, <3>1
    <3>4. t[k] \in Tokens /\ from[k + 1] \in Strings
      BY <3>1, ScanTyped DEF Strings
    <3> DEFINE x == from[k]
               y == from[k + 1]
    <3>5. Len(x) = Len(y) + 1 /\ x[1] = t[k] /\ \A i \in 1..Len(y) : x[i + 1] = y[i]
      BY <3>2, <3>4, OneBefore
    <3>6. m - (k + 1) <= Len(y) /\ \A i \in 1..m - (k + 1) : y[i] = t[(k + 1) - 1 + i]
      BY <3>3
    <3>7. Len(y) \in Nat
      BY <3>4 DEF Strings
    <3> HIDE DEF x, y
    <3>8. m - k <= Len(x)
      BY <1>1, <3>5, <3>6, <3>7
    <3>9. ASSUME NEW i \in 1..m - k PROVE x[i] = t[k - 1 + i]
      <4>1. CASE i = 1
        BY <3>5, <4>1
      <4>2. CASE i # 1
        <5>1. /\ i - 1 \in 1..m - (k + 1) /\ i - 1 \in 1..Len(y)
              /\ (i - 1) + 1 = i /\ (k + 1) - 1 + (i - 1) = k - 1 + i
          BY <1>1, <3>6, <3>7, <4>2
        <5>2. x[(i - 1) + 1] = y[i - 1] /\ y[i - 1] = t[(k + 1) - 1 + (i - 1)]
          BY <3>5, <3>6, <5>1
        <5> QED BY <5>1, <5>2
      <4> QED BY <4>1, <4>2
    <3> QED BY <3>8, <3>9 DEF x
  <2> QED BY <2>1, <2>2
<1>3. Is(1)
  <2>1. 1 \in S
    <3> HIDE DEF m, S
    <3>1. \A k \in 1..m : k \in S
      BY <1>1, <1>2, DownFrom
    <3>2. 1 \in 1..m
      BY <1>1 DEF m
    <3> QED BY <3>1, <3>2
  <2> HIDE DEF Is
  <2> QED BY <2>1
<1> DEFINE y == from[1]
<1>4. y \in Strings /\ Len(y) \in Nat /\ 1 \in 1..Len(t) + 1
  <2>1. 1 \in 1..Len(t) + 1
    BY <1>1
  <2> QED BY <2>1, ScanTyped DEF Strings
<1>5. n <= Len(y) /\ \A i \in 1..n : y[i] = t[i]
  <2>1. m - 1 = n /\ \A i \in 1..n : 1 - 1 + i = i
    BY <1>1
  <2> QED BY <1>3, <2>1
<1>6. \A q \in 0..Len(y) : (\A i \in 1..q : y[i] \notin Markers) =>
        1 - 1 + q <= Len(t) /\ \A i \in 1..q : y[i] = t[1 - 1 + i]
  BY <1>4, <1>b
<1> HIDE DEF m, S, Is, y
<1>7. ASSUME NEW u \in Strings, NEW d \in 0..n - 1, Bare(u), Stands(u, y, d)
      PROVE  Stands(u, t, d)
  <2>1. Len(u) \in Nat /\ d \in Nat /\ d + Len(u) \in 0..Len(y)
        /\ \A i \in 1..Len(u) : y[d + i] = u[i] /\ u[i] \notin Markers
    <3>1. \A i \in 1..Len(u) : u[i] \notin Markers
      BY <1>7 DEF Bare, Range, Strings
    <3> QED BY <1>1, <1>4, <1>7, <3>1 DEF Stands, Strings
  <2>2. ASSUME NEW i \in 1..d + Len(u) PROVE y[i] \notin Markers
    <3>1. CASE i <= d
      <4>1. i \in 1..n
        BY <1>1, <2>1, <3>1
      <4> QED BY <1>5, <4>1 DEF Clear
    <3>2. CASE ~(i <= d)
      <4>1. i - d \in 1..Len(u) /\ d + (i - d) = i
        BY <2>1, <3>2
      <4> QED BY <2>1, <4>1
    <3> QED BY <3>1, <3>2
  <2>3. 1 - 1 + (d + Len(u)) <= Len(t) /\ \A i \in 1..d + Len(u) : y[i] = t[1 - 1 + i]
    BY <1>6, <2>1, <2>2
  <2>4. ASSUME NEW i \in 1..Len(u) PROVE t[d + i] = u[i]
    <3>1. d + i \in 1..d + Len(u) /\ 1 - 1 + (d + i) = d + i
      BY <2>1
    <3>2. y[d + i] = t[d + i]
      BY <2>3, <3>1
    <3> QED BY <2>1, <3>2
  <2>5. d + Len(u) <= Len(t)
    BY <1>1, <2>1, <2>3
  <2> QED BY <2>4, <2>5 DEF Stands
<1> QED BY <1>4, <1>5, <1>7 DEF Continues, y

\* String::replace does so.
LEMMA ReplaceContinues ==
  ASSUME NEW v \in Strings, Bare(v), NEW t \in Strings, NEW n \in 0..Len(t),
         Clear({v}, t, n)
  PROVE  Continues(Replace(v, t), t, n)
<1> DEFINE from == CHOOSE f : Scans(f, v, t)
<1>1. v # <<>>
  BY DEF Bare
<1>2. Scans(from, v, t)
  <2>1. \E f : Scans(f, v, t)
    BY <1>1, ScanExists
  <2> QED BY <2>1, Zenon
<1>3. Replace(v, t) = from[1]
  BY ReplaceIs, Zenon
<1> HIDE DEF from
<1> QED BY <1>1, <1>2, <1>3, ScanContinues

\* A token that is no marker is in the masked text as well.
LEMMA MaskedTokens ==
  ASSUME NEW y \in Strings, NEW t \in Strings, Masked(y, t)
  PROVE  Range(y) \subseteq Range(t) \cup Markers
<1> SUFFICES ASSUME NEW i \in 1..Len(y), y[i] \notin Markers PROVE y[i] \in Range(t)
  BY DEF Range, Strings
<1> DEFINE c == y[i]
           u == <<c>>
<1>1. c \in Tokens /\ i - 1 \in Nat /\ (i - 1) + 1 = i /\ Len(y) \in Nat
  BY DEF Strings
<1>2. u \in Strings /\ Len(u) = 1 /\ u[1] = c
  BY <1>1, OneToken DEF Strings
<1>3. Range(u) = {c} /\ u # <<>>
  BY DEF Range
<1>4. Bare(u)
  BY <1>3 DEF Bare
<1> HIDE DEF u
<1>5. Stands(u, y, i - 1)
  <2>1. \A j \in 1..Len(u) : j = 1
    BY <1>2
  <2> QED BY <1>1, <1>2, <2>1 DEF Stands
<1>6. Occurs(u, y)
  BY <1>1, <1>2, <1>3, <1>5, OccursIs
<1>7. Occurs(u, t)
  BY <1>2, <1>4, <1>6 DEF Masked
<1>8. PICK d \in Nat : Stands(u, t, d)
  BY <1>2, <1>3, <1>7, OccursIs
<1>9. d + 1 \in 1..Len(t) /\ t[d + 1] = c
  <2>1. 1 \in 1..Len(u) /\ Len(t) \in Nat
    BY <1>2 DEF Strings
  <2> QED BY <1>2, <1>8, <2>1 DEF Stands
<1> QED BY <1>9 DEF Range, Strings

-----------------------------------------------------------------------------
(* Redactor::replace_custom_values.                                        *)

Leaves(left, values, t) ==
  left = [n \in 0..Len(values) |-> IF n = 0 THEN t ELSE Replace(values[n], left[n - 1])]

\* HideValues is the last of the values' turns.
LEMMA HideValuesIs ==
  ASSUME NEW values, NEW t
  PROVE  HideValues(values, t) = (CHOOSE left : Leaves(left, values, t))[Len(values)]
BY Zenon DEF HideValues, Leaves

\* The turns are well defined.
LEMMA LeavesExists ==
  ASSUME NEW values, Values(values), NEW t \in Strings
  PROVE  \E left : Leaves(left, values, t)
<1> DEFINE n == Len(values)
           step == [p \in (1..n) \X Strings |-> Replace(values[p[1]], p[2])]
<1>1. n \in Nat /\ \A k \in 1..n : values[k] \in Strings /\ Bare(values[k])
  BY DEF Values
<1>2. step \in [(1..n) \X Strings -> Strings]
  <2>1. \A p \in (1..n) \X Strings : Replace(values[p[1]], p[2]) \in Strings
    BY <1>1, Replaced
  <2> QED BY <2>1
<1>3. \A k \in 1..n : \A x \in Strings : step[<<k, x>>] = Replace(values[k], x)
  OBVIOUS
<1> HIDE DEF n, step
<1>4. PICK f \in [0..n -> Strings] : f[0] = t /\ \A k \in 1..n : f[k] = step[<<k, f[k - 1]>>]
  <2>1. \E f \in [0..n -> Strings] : Iterated(f, t, step, n)
    BY <1>1, <1>2, Iterates
  <2> QED BY <2>1 DEF Iterated
<1>5. \A k \in 0..n : f[k] = IF k = 0 THEN t ELSE Replace(values[k], f[k - 1])
  <2>1. ASSUME NEW k \in 1..n PROVE f[k] = Replace(values[k], f[k - 1])
    <3>1. k - 1 \in 0..n
      BY <1>1
    <3> QED BY <1>3, <1>4, <3>1
  <2>2. \A k \in 0..n : k = 0 \/ k \in 1..n
    BY <1>1
  <2> QED BY <1>4, <2>1, <2>2
<1>6. f = [k \in 0..n |-> IF k = 0 THEN t ELSE Replace(values[k], f[k - 1])]
  BY <1>5
<1> QED BY <1>6, Zenon DEF Leaves, n

\* Masking twice masks.
LEMMA MaskedIsTransitive ==
  ASSUME NEW x, NEW y, NEW z, Masked(x, y), Masked(y, z)
  PROVE  Masked(x, z)
BY DEF Masked

\* A text masks itself.
LEMMA MaskedIsReflexive == \A x : Masked(x, x)
BY DEF Masked

\* What is left has no value in it, is the text itself or has the mark.
LEMMA Hidden ==
  ASSUME NEW values, Values(values), NEW t \in Strings
  PROVE  /\ HideValues(values, t) \in Strings
         /\ Masked(HideValues(values, t), t)
         /\ HideValues(values, t) = t \/ Mark \in Range(HideValues(values, t))
         /\ \A v \in Range(values) : ~Occurs(v, HideValues(values, t))
         /\ (\A v \in Range(values) : ~Occurs(v, t)) => HideValues(values, t) = t
<1> DEFINE left == CHOOSE f : Leaves(f, values, t)
           n == Len(values)
<1>1. n \in Nat /\ \A k \in 1..n : values[k] \in Strings /\ Bare(values[k])
  BY DEF Values
<1>2. Leaves(left, values, t)
  BY LeavesExists, Zenon
<1>3. HideValues(values, t) = left[n]
  BY HideValuesIs, Zenon
<1>4. DOMAIN values = 1..n
  BY DEF Values
<1> HIDE DEF left
<1>5. \A k \in 0..n : left[k] = IF k = 0 THEN t ELSE Replace(values[k], left[k - 1])
  BY <1>2, Zenon DEF Leaves
<1> HIDE DEF n
<1>6. left[0] = t /\ \A k \in 1..n : left[k] = Replace(values[k], left[k - 1])
  <2>1. 0 \in 0..n /\ \A k \in 1..n : k \in 0..n /\ k # 0
    BY <1>1
  <2> QED BY <1>5, <2>1
<1> DEFINE Good(k) == /\ left[k] \in Strings /\ Masked(left[k], t)
                      /\ left[k] = t \/ Mark \in Range(left[k])
                      /\ \A j \in 1..k : ~Occurs(values[j], left[k])
                      /\ (\A j \in 1..k : ~Occurs(values[j], t)) => left[k] = t
           S == {k \in 0..n : Good(k)}
<1>7. 0 \in S
  <2>1. Good(0)
    BY <1>6, MaskedIsReflexive
  <2> QED BY <1>1, <2>1
<1>8. ASSUME NEW k \in 1..n, k - 1 \in S PROVE k \in S
  <2> DEFINE x == left[k - 1]
             y == left[k]
             v == values[k]
  <2>1. Good(k - 1)
    BY <1>8
  <2>2. x \in Strings /\ v \in Strings /\ Bare(v) /\ y = Replace(v, x)
    BY <1>1, <1>6, <2>1
  <2>3. 1..k - 1 \subseteq 1..k /\ \A j \in 1..k : j = k \/ j \in 1..k - 1
    OBVIOUS
  <2> HIDE DEF x, y, v
  <2>4. /\ y \in Strings /\ (~Occurs(v, x) => y = x) /\ (Occurs(v, x) => Mark \in Range(y))
        /\ Masked(y, x) /\ ~Occurs(v, y)
    BY <2>2, Replaced
  <2>5. Masked(y, t)
    BY <2>1, <2>4, MaskedIsTransitive DEF x
  <2>6. y = t \/ Mark \in Range(y)
    BY <2>1, <2>4 DEF x
  <2>7. ASSUME NEW j \in 1..k PROVE ~Occurs(values[j], y)
    <3>1. CASE j = k
      BY <2>4, <3>1 DEF v
    <3>2. CASE j \in 1..k - 1
      <4>1. values[j] \in Strings /\ Bare(values[j])
        BY <1>1, <2>3
      <4>2. ~Occurs(values[j], x)
        BY <2>1, <3>2 DEF x
      <4> QED BY <2>4, <4>1, <4>2 DEF Masked
    <3> QED BY <2>3, <3>1, <3>2
  <2>8. ASSUME \A j \in 1..k : ~Occurs(values[j], t) PROVE y = t
    <3>1. x = t
      BY <2>1, <2>3, <2>8 DEF x
    <3>2. k \in 1..k
      OBVIOUS
    <3>3. ~Occurs(v, x)
      BY <2>8, <3>1, <3>2 DEF v
    <3> QED BY <2>4, <3>1, <3>3
  <2>9. Good(k)
    BY <2>4, <2>5, <2>6, <2>7, <2>8 DEF y
  <2>10. k \in 0..n
    BY <1>1
  <2> HIDE DEF Good
  <2> QED BY <2>9, <2>10
<1>9. n \in S
  <2> HIDE DEF S
  <2>1. \A k \in 0..n : k \in S
    BY <1>1, <1>7, <1>8, UpTo
  <2>2. n \in 0..n
    BY <1>1
  <2> QED BY <2>1, <2>2
<1>10. Good(n)
  BY <1>9
<1>11. \A v \in Range(values) : \E j \in 1..n : v = values[j]
  BY <1>4 DEF Range
<1>12. \A j \in 1..n : values[j] \in Range(values)
  BY <1>4 DEF Range
<1> QED BY <1>3, <1>10, <1>11, <1>12

\* Where no value starts all of them leave the tokens as they are.
LEMMA HideContinues ==
  ASSUME NEW values, Values(values), NEW t \in Strings, NEW n \in 0..Len(t),
         Clear(Range(values), t, n)
  PROVE  Continues(HideValues(values, t), t, n)
<1> DEFINE left == CHOOSE f : Leaves(f, values, t)
           z == Len(values)
<1>1. z \in Nat /\ \A k \in 1..z : /\ values[k] \in Strings /\ Bare(values[k])
                                   /\ values[k] \in Range(values)
  BY DEF Values, Range
<1>2. Leaves(left, values, t)
  BY LeavesExists, Zenon
<1>3. HideValues(values, t) = left[z]
  BY HideValuesIs, Zenon
<1> HIDE DEF left
<1>4. \A k \in 0..z : left[k] = IF k = 0 THEN t ELSE Replace(values[k], left[k - 1])
  BY <1>2, Zenon DEF Leaves
<1> HIDE DEF z
<1>5. left[0] = t /\ \A k \in 1..z : left[k] = Replace(values[k], left[k - 1])
  <2>1. 0 \in 0..z /\ \A k \in 1..z : k \in 0..z /\ k # 0
    BY <1>1
  <2> QED BY <1>4, <2>1
<1>6. n \in Nat /\ n <= Len(t) /\ Len(t) \in Nat
  BY DEF Strings
<1> DEFINE S == {k \in 0..z : Continues(left[k], t, n)}
<1>7. 0 \in S
  <2>1. Continues(t, t, n)
    BY <1>6 DEF Continues
  <2> QED BY <1>1, <1>5, <2>1
<1>8. ASSUME NEW k \in 1..z, k - 1 \in S PROVE k \in S
  <2> DEFINE x == left[k - 1]
             y == left[k]
             v == values[k]
  <2>1. Continues(x, t, n)
    BY <1>8
  <2>2. v \in Strings /\ Bare(v) /\ v \in Range(values) /\ y = Replace(v, x)
    BY <1>1, <1>5
  <2> HIDE DEF x, y, v
  <2>3. /\ x \in Strings /\ n <= Len(x) /\ \A i \in 1..n : x[i] = t[i]
        /\ \A u \in Strings, d \in 0..n - 1 : Bare(u) /\ Stands(u, x, d) => Stands(u, t, d)
    BY <2>1 DEF Continues
  <2>4. n \in 0..Len(x)
    BY <1>6, <2>3 DEF Strings
  <2>5. ASSUME NEW j \in 1..n PROVE x[j] \notin Markers /\ ~OccursAt(v, x, j)
    <3>1. j \in 1..Len(x) + 1 /\ j \in 1..Len(t) + 1 /\ j - 1 \in 0..n - 1
      BY <1>6, <2>4
    <3>2. Stands(v, x, j - 1) => Stands(v, t, j - 1)
      BY <2>2, <2>3, <3>1
    <3>3. OccursAt(v, x, j) => OccursAt(v, t, j)
      BY <2>2, <2>3, <3>1, <3>2, OccursAtIs
    <3> QED BY <2>2, <2>3, <3>3 DEF Clear
  <2>6. Continues(y, x, n)
    <3>1. Clear({v}, x, n)
      BY <2>5 DEF Clear
    <3> QED BY <2>2, <2>3, <2>4, <3>1, ReplaceContinues
  <2>7. Continues(y, t, n)
    BY <2>3, <2>6 DEF Continues
  <2>8. k \in 0..z
    BY <1>1
  <2> QED BY <2>7, <2>8 DEF y
<1>9. z \in S
  <2> HIDE DEF S
  <2>1. \A k \in 0..z : k \in S
    BY <1>1, <1>7, <1>8, UpTo
  <2>2. z \in 0..z
    BY <1>1
  <2> QED BY <2>1, <2>2
<1> QED BY <1>3, <1>9

-----------------------------------------------------------------------------
(* join: parts one after the other.                                        *)

Flattens(flatten, seqs) ==
  flatten = [i \in 1..Len(seqs) |-> IF i = 1 THEN seqs[i] ELSE flatten[i - 1] \o seqs[i]]

\* FlattenSeq is the last of its sums.
LEMMA FlattenSeqIs ==
  ASSUME NEW seqs, Len(seqs) # 0
  PROVE  FlattenSeq(seqs) = (CHOOSE flatten : Flattens(flatten, seqs))[Len(seqs)]
BY Zenon DEF FlattenSeq, Flattens

\* f adds one sequence after the other.
Adds(f, seqs) == /\ f \in [0..Len(seqs) -> Strings]
                 /\ f[0] = <<>> /\ \A k \in 1..Len(seqs) : f[k] = f[k - 1] \o seqs[k]

\* There is such a function,
LEMMA AddsExists ==
  ASSUME NEW seqs \in Seq(Strings)
  PROVE  \E f : Adds(f, seqs)
<1> DEFINE n == Len(seqs)
           step == [p \in (1..n) \X Strings |-> p[2] \o seqs[p[1]]]
<1>1. n \in Nat /\ \A k \in 1..n : seqs[k] \in Strings
  OBVIOUS
<1>2. step \in [(1..n) \X Strings -> Strings]
  <2>1. \A p \in (1..n) \X Strings : p[2] \o seqs[p[1]] \in Strings
    BY <1>1, TwoStrings
  <2> QED BY <2>1
<1>3. \A k \in 1..n : \A x \in Strings : step[<<k, x>>] = x \o seqs[k]
  OBVIOUS
<1>4. PICK f \in [0..n -> Strings] : Iterated(f, <<>>, step, n)
  <2> HIDE DEF n, step
  <2> QED BY <1>1, <1>2, EmptyString, Iterates
<1> HIDE DEF n, step
<1>5. f[0] = <<>> /\ \A k \in 1..n : f[k] = step[<<k, f[k - 1]>>]
  BY <1>4 DEF Iterated
<1>6. \A k \in 1..n : k - 1 \in 0..n
  BY <1>1
<1>7. \A k \in 1..n : f[k] = f[k - 1] \o seqs[k]
  BY <1>3, <1>5, <1>6
<1> QED BY <1>5, <1>7 DEF Adds, n

\* and FlattenSeq is its last value.
LEMMA FlattenAdds ==
  ASSUME NEW seqs \in Seq(Strings), NEW f, Adds(f, seqs)
  PROVE  FlattenSeq(seqs) = f[Len(seqs)]
<1> DEFINE n == Len(seqs)
           g == [i \in 1..n |-> f[i]]
           h == CHOOSE flatten : Flattens(flatten, seqs)
<1>1. n \in Nat /\ \A k \in 1..n : seqs[k] \in Strings
  OBVIOUS
<1>2. CASE n = 0
  <2>1. seqs = <<>>
    BY <1>2
  <2>2. f[0] = <<>>
    BY DEF Adds
  <2> QED BY <1>2, <2>1, <2>2 DEF FlattenSeq
<1>3. CASE n # 0
  <2>1. f[1] = seqs[1]
    <3>1. 1 \in 1..n /\ 1 - 1 = 0
      BY <1>1, <1>3
    <3>2. f[1] = <<>> \o seqs[1]
      BY <3>1 DEF Adds
    <3> QED BY <1>1, <3>1, <3>2, ConcatEmptySeq DEF Strings
  <2>2. \A i \in 1..n : g[i] = IF i = 1 THEN seqs[i] ELSE g[i - 1] \o seqs[i]
    <3>1. ASSUME NEW i \in 1..n, i # 1 PROVE g[i] = g[i - 1] \o seqs[i]
      <4>1. i - 1 \in 1..n
        BY <1>1, <3>1
      <4>2. f[i] = f[i - 1] \o seqs[i]
        BY DEF Adds
      <4> QED BY <4>1, <4>2
    <3> QED BY <2>1, <3>1
  <2>3. Flattens(g, seqs)
    <3>1. g = [i \in 1..n |-> g[i]]
      OBVIOUS
    <3> HIDE DEF g
    <3> QED BY <2>2, <3>1 DEF Flattens
  <2>4. Flattens(h, seqs)
    <3> HIDE DEF g
    <3> QED BY <2>3, Zenon
  <2>5. FlattenSeq(seqs) = h[n]
    BY <1>3, FlattenSeqIs
  <2> HIDE DEF g, h
  <2>6. \A i \in 1..n : h[i] = IF i = 1 THEN seqs[i] ELSE h[i - 1] \o seqs[i]
    BY <2>4, Zenon DEF Flattens
  <2> DEFINE S == {k \in 0..n : k = 0 \/ h[k] = f[k]}
  <2>7. 0 \in S
    BY <1>1
  <2>8. ASSUME NEW k \in 1..n, k - 1 \in S PROVE k \in S
    <3>1. CASE k = 1
      <4>1. h[k] = f[k]
        BY <2>1, <2>6, <3>1
      <4> QED BY <4>1
    <3>2. CASE k # 1
      <4>1. h[k] = h[k - 1] \o seqs[k]
        BY <2>6, <3>2
      <4>2. k - 1 # 0 /\ k \in 0..n
        BY <1>1, <3>2
      <4>3. h[k - 1] = f[k - 1]
        BY <2>8, <4>2
      <4>4. f[k] = f[k - 1] \o seqs[k]
        BY DEF Adds
      <4>5. h[k] = f[k]
        BY <4>1, <4>3, <4>4
      <4> HIDE DEF n
      <4> QED BY <4>2, <4>5
    <3> QED BY <3>1, <3>2
  <2>9. n \in S
    <3> HIDE DEF S, n
    <3>1. \A k \in 0..n : k \in S
      BY <1>1, <2>7, <2>8, UpTo
    <3> QED BY <1>1, <3>1
  <2> QED BY <1>3, <2>5, <2>9
<1> QED BY <1>2, <1>3

\* Every part after a slash.
Led(parts) == [i \in DOMAIN parts |-> <<"/">> \o parts[i]]
Glued(parts) == FlattenSeq(Led(parts))

\* Parts after a slash are strings.
LEMMA LedTyped ==
  ASSUME NEW parts \in Seq(Strings)
  PROVE  /\ Led(parts) \in Seq(Strings) /\ Len(Led(parts)) = Len(parts)
         /\ \A i \in 1..Len(parts) : Led(parts)[i] = <<"/">> \o parts[i]
<1>1. \A i \in 1..Len(parts) : parts[i] \in Strings
  OBVIOUS
<1>2. "/" \in Tokens
  BY TokensAre
<1>3. \A i \in 1..Len(parts) : <<"/">> \o parts[i] \in Strings
  BY <1>1, <1>2, OneBefore
<1>4. DOMAIN parts = 1..Len(parts) /\ Len(parts) \in Nat
  OBVIOUS
<1>5. Led(parts) \in [1..Len(parts) -> Strings]
  BY <1>3, <1>4 DEF Led
<1>6. Led(parts) \in Seq(Strings)
  BY <1>4, <1>5
<1>7. Len(Led(parts)) = Len(parts)
  BY <1>4, <1>5
<1>8. \A i \in 1..Len(parts) : Led(parts)[i] = <<"/">> \o parts[i]
  BY <1>4 DEF Led
<1> QED BY <1>6, <1>7, <1>8

\* One part more.
LEMMA GluedMore ==
  ASSUME NEW parts \in Seq(Strings), NEW x \in Strings
  PROVE  /\ Glued(parts) \in Strings
         /\ Glued(Append(parts, x)) = Glued(parts) \o (<<"/">> \o x)
<1> DEFINE n == Len(parts)
           more == Append(parts, x)
           s == Led(parts)
           z == Led(more)
<1>1. n \in Nat /\ more \in Seq(Strings) /\ Len(more) = n + 1
      /\ more[n + 1] = x /\ \A i \in 1..n : more[i] = parts[i]
  BY AppendProperties
<1> HIDE DEF more
<1>2. s \in Seq(Strings) /\ Len(s) = n /\ \A i \in 1..n : s[i] = <<"/">> \o parts[i]
  BY LedTyped
<1>3. z \in Seq(Strings) /\ Len(z) = n + 1 /\ \A i \in 1..n + 1 : z[i] = <<"/">> \o more[i]
  BY <1>1, LedTyped
<1> HIDE DEF s, z
<1>4. PICK f : Adds(f, s)
  BY <1>2, AddsExists
<1>5. PICK g : Adds(g, z)
  BY <1>3, AddsExists
<1>6. FlattenSeq(s) = f[n] /\ FlattenSeq(z) = g[n + 1]
  BY <1>2, <1>3, <1>4, <1>5, FlattenAdds
<1> HIDE DEF n
<1>7. f[n] \in Strings
  BY <1>1, <1>2, <1>4 DEF Adds
<1>8. \A k \in 1..n : z[k] = s[k]
  <2>1. \A k \in 1..n : k \in 1..n + 1
    BY <1>1
  <2> QED BY <1>1, <1>2, <1>3, <2>1
<1> DEFINE S == {k \in 0..n : g[k] = f[k]}
<1>9. 0 \in S
  BY <1>1, <1>4, <1>5 DEF Adds
<1>10. ASSUME NEW k \in 1..n, k - 1 \in S PROVE k \in S
  <2>1. k \in 1..n + 1 /\ k \in 0..n
    BY <1>1
  <2>2. g[k] = g[k - 1] \o z[k] /\ f[k] = f[k - 1] \o s[k]
    BY <1>2, <1>3, <1>4, <1>5, <2>1 DEF Adds
  <2> QED BY <1>8, <1>10, <2>1, <2>2
<1>11. g[n] = f[n]
  <2> HIDE DEF S
  <2>1. \A k \in 0..n : k \in S
    BY <1>1, <1>9, <1>10, UpTo
  <2>2. n \in 0..n
    BY <1>1
  <2>3. n \in S
    BY <2>1, <2>2
  <2> QED BY <2>3 DEF S
<1>12. g[n + 1] = g[n] \o z[n + 1] /\ z[n + 1] = <<"/">> \o x
  <2>1. n + 1 \in 1..n + 1 /\ (n + 1) - 1 = n
    BY <1>1
  <2>2. g[n + 1] = g[n] \o z[n + 1]
    BY <1>3, <1>5, <2>1 DEF Adds
  <2> QED BY <1>1, <1>3, <2>1, <2>2
<1> QED BY <1>6, <1>7, <1>11, <1>12 DEF Glued, s, z, more

\* No part.
LEMMA GluedNone == Glued(<<>>) = <<>>
<1>1. Led(<<>>) = <<>>
  BY DEF Led
<1> QED BY <1>1 DEF Glued, FlattenSeq

-----------------------------------------------------------------------------
(* split.                                                                  *)

Splits(upTo, t, separators) ==
  upTo = [k \in 0..Len(t) |->
            IF k = 0 THEN << <<>> >>
            ELSE IF t[k] \in separators THEN Append(upTo[k - 1], <<>>)
            ELSE [upTo[k - 1] EXCEPT ![Len(upTo[k - 1])] = Append(@, t[k])]]

\* Parts is what the split has reached at the end of the text.
LEMMA PartsIs ==
  ASSUME NEW t, NEW separators
  PROVE  Parts(t, separators) = (CHOOSE upTo : Splits(upTo, t, separators))[Len(t)]
BY Zenon DEF Parts, Splits

\* The split at one place.
LEMMA SplitsAt ==
  ASSUME NEW upTo, NEW t, NEW separators, Splits(upTo, t, separators), NEW k \in 0..Len(t)
  PROVE  upTo[k] = IF k = 0 THEN << <<>> >>
                   ELSE IF t[k] \in separators THEN Append(upTo[k - 1], <<>>)
                   ELSE [upTo[k - 1] EXCEPT ![Len(upTo[k - 1])] = Append(@, t[k])]
BY Zenon DEF Splits

\* Sequences of parts are never empty; a token goes to the last part or starts one.
PartLists == {parts \in Seq(Strings) : parts # <<>>}

Grows(parts, c, front, last) ==
  /\ parts = Append(front, last) /\ Len(parts) = Len(front) + 1
  /\ parts[Len(parts)] = last
  /\ \A i \in 1..Len(front) : parts[i] = front[i]
  /\ Append(last, c) = last \o <<c>> /\ last \o <<c>> \in Strings
  /\ [parts EXCEPT ![Len(parts)] = Append(@, c)] = Append(front, last \o <<c>>)

\* Every sequence of parts grows so.
LEMMA PartMore ==
  ASSUME NEW parts \in PartLists, NEW c \in Tokens
  PROVE  \E front \in Seq(Strings), last \in Strings : Grows(parts, c, front, last)
<1>1. PICK front \in Seq(Strings), last \in Strings : parts = Append(front, last)
  BY SequenceEmptyOrAppend DEF PartLists
<1>2. /\ Len(parts) = Len(front) + 1 /\ parts[Len(parts)] = last
      /\ \A i \in 1..Len(front) : parts[i] = front[i]
  BY <1>1, AppendProperties
<1>3. Append(last, c) = last \o <<c>> /\ last \o <<c>> \in Strings
  BY AppendIsConcat, OneMore DEF Strings
<1> DEFINE n == Len(front)
           more == last \o <<c>>
           x == [parts EXCEPT ![Len(parts)] = Append(@, c)]
           y == Append(front, more)
<1>4. n \in Nat /\ parts \in Seq(Strings)
  BY DEF PartLists
<1>5. x = [parts EXCEPT ![n + 1] = more]
  BY <1>2, <1>3
<1>6. more \in Strings
  BY <1>3
<1> HIDE DEF more, x
<1>7. y \in Seq(Strings) /\ Len(y) = n + 1 /\ y[n + 1] = more /\ \A i \in 1..n : y[i] = front[i]
  BY <1>6, AppendProperties
<1> HIDE DEF y
<1>8. /\ x \in Seq(Strings) /\ Len(x) = n + 1
      /\ \A i \in 1..n + 1 : x[i] = IF i = n + 1 THEN more ELSE parts[i]
  <2>1. n + 1 \in 1..Len(parts)
    BY <1>2, <1>4
  <2> QED BY <1>2, <1>4, <1>5, <1>6, <2>1, ExceptSeq
<1>9. \A i \in 1..n + 1 : x[i] = y[i]
  BY <1>2, <1>4, <1>7, <1>8
<1>10. x = y
  BY <1>7, <1>8, <1>9, SeqEqual
<1> QED BY <1>1, <1>2, <1>3, <1>10 DEF x, y, more, Grows

\* The last part grows, whatever way the parts are cut in two.
LEMMA LastMore ==
  ASSUME NEW front \in Seq(Strings), NEW last \in Strings, NEW parts \in PartLists,
         parts = Append(front, last), NEW c \in Tokens
  PROVE  Grows(parts, c, front, last)
<1>1. PICK f \in Seq(Strings), l \in Strings : Grows(parts, c, f, l)
  BY PartMore
<1>2. parts = Append(f, l)
  BY <1>1 DEF Grows
<1>3. f = front /\ l = last
  <2>1. /\ Len(Append(f, l)) = Len(f) + 1 /\ Append(f, l)[Len(f) + 1] = l
        /\ \A i \in 1..Len(f) : Append(f, l)[i] = f[i]
    BY AppendProperties
  <2>2. /\ Len(Append(front, last)) = Len(front) + 1 /\ Append(front, last)[Len(front) + 1] = last
        /\ \A i \in 1..Len(front) : Append(front, last)[i] = front[i]
    BY AppendProperties
  <2>3. Len(f) \in Nat /\ Len(front) \in Nat
    OBVIOUS
  <2> DEFINE a == Append(f, l)
             b == Append(front, last)
  <2>4. a = b
    BY <1>2
  <2> HIDE DEF a, b
  <2>5. Len(f) = Len(front) /\ l = last /\ \A i \in 1..Len(f) : f[i] = front[i]
    BY <2>1, <2>2, <2>3, <2>4 DEF a, b
  <2>6. f = front
    BY <2>5, SeqEqual
  <2> QED BY <2>5, <2>6
<1> QED BY <1>1, <1>3, Zenon

\* Both ways a split goes on give parts.
LEMMA PartListsGrow ==
  ASSUME NEW parts \in PartLists, NEW c \in Tokens
  PROVE  /\ Append(parts, <<>>) \in PartLists
         /\ [parts EXCEPT ![Len(parts)] = Append(@, c)] \in PartLists
<1>1. parts \in Seq(Strings)
  BY DEF PartLists
<1>2. Append(parts, <<>>) \in PartLists
  BY <1>1, EmptyString, AppendProperties DEF PartLists
<1>3. PICK front \in Seq(Strings), last \in Strings : Grows(parts, c, front, last)
  BY PartMore
<1>4. Append(front, last \o <<c>>) \in PartLists
  BY <1>3, AppendProperties DEF PartLists, Grows
<1> QED BY <1>2, <1>3, <1>4 DEF Grows

\* What a split starts with.
LEMMA OneEmptyPart == << <<>> >> \in PartLists /\ Len(<< <<>> >>) = 1 /\ << <<>> >>[1] = <<>>
BY EmptyString, OneToken DEF PartLists

\* The split is well defined.
LEMMA SplitsExists ==
  ASSUME NEW t \in Strings, NEW separators
  PROVE  \E upTo : Splits(upTo, t, separators)
<1> DEFINE n == Len(t)
           Step(k, x) == IF t[k] \in separators THEN Append(x, <<>>)
                         ELSE [x EXCEPT ![Len(x)] = Append(@, t[k])]
           step == [p \in (1..n) \X PartLists |-> Step(p[1], p[2])]
<1>1. n \in Nat /\ \A k \in 1..n : t[k] \in Tokens
  BY DEF Strings
<1>2. \A k \in 1..n : \A x \in PartLists : Step(k, x) \in PartLists
  BY <1>1, PartListsGrow
<1>3. \A k \in 1..n : \A x \in PartLists : step[<<k, x>>] = Step(k, x)
  OBVIOUS
<1> HIDE DEF Step
<1>4. step \in [(1..n) \X PartLists -> PartLists]
  BY <1>2
<1> HIDE DEF step, n
<1>5. PICK f \in [0..n -> PartLists] : Iterated(f, << <<>> >>, step, n)
  BY <1>1, <1>4, OneEmptyPart, Iterates
<1>6. f[0] = << <<>> >> /\ \A k \in 1..n : f[k] = step[<<k, f[k - 1]>>]
  BY <1>5 DEF Iterated
<1>7. \A k \in 1..n : k - 1 \in 0..n
  BY <1>1
<1>8. \A k \in 1..n : f[k] = Step(k, f[k - 1])
  BY <1>3, <1>6, <1>7
<1>9. \A k \in 0..n : f[k] = IF k = 0 THEN << <<>> >> ELSE Step(k, f[k - 1])
  <2>1. \A k \in 0..n : k = 0 \/ k \in 1..n
    BY <1>1
  <2> QED BY <1>6, <1>8, <2>1
<1>10. f = [k \in 0..n |-> IF k = 0 THEN << <<>> >> ELSE Step(k, f[k - 1])]
  BY <1>9
<1> QED BY <1>10, Zenon DEF Splits, Step, n

\* x is the last stretch of the first k tokens of t.
Ends(x, t, k) == Len(x) <= k /\ Stands(x, t, k - Len(x))

\* The tokens of a string with one more.
LEMMA RangeMore ==
  ASSUME NEW x \in Strings, NEW c \in Tokens
  PROVE  Range(x \o <<c>>) = Range(x) \cup {c}
<1>1. <<c>> \in Strings /\ Range(<<c>>) = {c}
  BY OneToken DEF Strings, Range
<1>2. Range(x \o <<c>>) = Range(x) \cup Range(<<c>>)
  BY <1>1, RangeOfTwo
<1> QED BY <1>1, <1>2

\* The last stretch grows with the text.
LEMMA EndsMore ==
  ASSUME NEW x \in Strings, NEW t \in Strings, NEW k \in 1..Len(t), Ends(x, t, k - 1)
  PROVE  Ends(x \o <<t[k]>>, t, k)
<1> DEFINE y == x \o <<t[k]>>
           n == Len(x)
<1>1. n \in Nat /\ Len(t) \in Nat /\ t[k] \in Tokens
  BY DEF Strings
<1>2. Len(y) = n + 1 /\ y[n + 1] = t[k] /\ \A i \in 1..n : y[i] = x[i]
  BY <1>1, OneMore
<1>3. n <= k - 1 /\ \A i \in 1..n : t[(k - 1) - n + i] = x[i]
  BY DEF Ends, Stands
<1> HIDE DEF y, n
<1>4. k - (n + 1) + (n + 1) <= Len(t) /\ n + 1 <= k
  BY <1>1, <1>3
<1>5. ASSUME NEW i \in 1..n + 1 PROVE t[k - (n + 1) + i] = y[i]
  <2>1. CASE i = n + 1
    <3>1. k - (n + 1) + i = k
      BY <1>1, <2>1
    <3> QED BY <1>2, <2>1, <3>1
  <2>2. CASE i # n + 1
    <3>1. i \in 1..n /\ k - (n + 1) + i = (k - 1) - n + i
      BY <1>1, <2>2
    <3> QED BY <1>2, <1>3, <3>1
  <2> QED BY <2>1, <2>2
<1> QED BY <1>2, <1>4, <1>5 DEF Ends, Stands, y

\* A sequence of parts of the first k tokens of t.
PartsUpTo(parts, t, k, separators) ==
  /\ parts \in PartLists
  /\ \A i \in 1..Len(parts) : Within(parts[i], t) /\ Range(parts[i]) \cap separators = {}
  /\ Ends(parts[Len(parts)], t, k)

\* All along a split has the parts of the text so far.
LEMMA SplitsGood ==
  ASSUME NEW t \in Strings, NEW separators, NEW upTo, Splits(upTo, t, separators)
  PROVE  \A k \in 0..Len(t) : PartsUpTo(upTo[k], t, k, separators)
<1> DEFINE n == Len(t)
           S == {k \in 0..n : PartsUpTo(upTo[k], t, k, separators)}
<1>1. n \in Nat /\ \A k \in 1..n : t[k] \in Tokens
  BY DEF Strings
<1>0. \A k \in 0..n : upTo[k] = IF k = 0 THEN << <<>> >>
                            ELSE IF t[k] \in separators THEN Append(upTo[k - 1], <<>>)
                            ELSE [upTo[k - 1] EXCEPT ![Len(upTo[k - 1])] = Append(@, t[k])]
  BY Zenon DEF Splits
<1>2. \A d \in 0..n : Stands(<<>>, t, d) /\ Ends(<<>>, t, d)
  BY <1>1, EmptyString DEF Stands, Ends
<1>3. Within(<<>>, t)
  BY <1>1, <1>2 DEF Within
<1>4. 0 \in S
  <2>1. upTo[0] = << <<>> >>
    <3>1. 0 \in 0..n
      BY <1>1
    <3> HIDE DEF n
    <3> QED BY <1>0, <3>1
  <2>2. /\ Ends(<<>>, t, 0) /\ Within(<<>>, t) /\ Range(<<>>) \cap separators = {}
    BY <1>1, <1>2, <1>3, EmptyString
  <2>3. \A i \in 1..1 : i = 1
    OBVIOUS
  <2>4. PartsUpTo(upTo[0], t, 0, separators)
    BY <2>1, <2>2, <2>3, OneEmptyPart DEF PartsUpTo
  <2> QED BY <1>1, <2>4
<1>5. ASSUME NEW k \in 1..n, k - 1 \in S PROVE k \in S
  <2> DEFINE P == upTo[k - 1]
             c == t[k]
             e == P[Len(P)]
  <2>1. PartsUpTo(P, t, k - 1, separators)
    BY <1>5
  <2>2. P \in PartLists /\ P \in Seq(Strings) /\ Len(P) \in Nat /\ Len(P) > 0 /\ e \in Strings
        /\ c \in Tokens /\ k \in 0..n /\ k # 0
    BY <1>1, <2>1 DEF PartsUpTo, PartLists
  <2>3. upTo[k] = IF c \in separators THEN Append(P, <<>>)
                  ELSE [P EXCEPT ![Len(P)] = Append(@, c)]
    BY <1>0, <2>2, Zenon
  <2>4. /\ \A i \in 1..Len(P) : Within(P[i], t) /\ Range(P[i]) \cap separators = {}
        /\ Ends(e, t, k - 1)
    BY <2>1 DEF PartsUpTo
  <2> HIDE DEF P, e, n
  <2>5. CASE c \in separators
    <3> DEFINE Q == Append(P, <<>>)
    <3>1. Q \in PartLists /\ Len(Q) = Len(P) + 1 /\ Q[Len(P) + 1] = <<>>
          /\ \A i \in 1..Len(P) : Q[i] = P[i]
      <4>1. Q \in PartLists
        BY <2>2, PartListsGrow
      <4>2. <<>> \in Strings
        BY EmptyString
      <4> QED BY <2>2, <4>1, <4>2, AppendProperties
    <3> HIDE DEF Q
    <3>2. ASSUME NEW i \in 1..Len(Q) PROVE Within(Q[i], t) /\ Range(Q[i]) \cap separators = {}
      <4>1. i \in 1..Len(P) \/ i = Len(P) + 1
        BY <2>2, <3>1
      <4> QED BY <1>3, <2>4, <3>1, <4>1, EmptyString
    <3>3. Ends(Q[Len(Q)], t, k)
      BY <1>2, <2>2, <3>1
    <3>4. PartsUpTo(Q, t, k, separators)
      BY <3>1, <3>2, <3>3 DEF PartsUpTo
    <3> QED BY <2>2, <2>3, <2>5, <3>4 DEF Q
  <2>6. CASE c \notin separators
    <3>1. PICK front \in Seq(Strings), last \in Strings : Grows(P, c, front, last)
      BY <2>2, PartMore
    <3> DEFINE m == Len(front)
               x == last \o <<c>>
               Q == Append(front, x)
    <3>2. /\ x \in Strings /\ Len(P) = m + 1 /\ e = last /\ \A i \in 1..m : P[i] = front[i]
          /\ [P EXCEPT ![Len(P)] = Append(@, c)] = Q
      BY <3>1 DEF Grows, e
    <3>3. Range(x) = Range(last) \cup {c}
      BY <2>2, RangeMore
    <3>4. Ends(x, t, k)
      <4>1. k \in 1..Len(t)
        BY DEF n
      <4> QED BY <2>4, <3>2, <4>1, EndsMore
    <3>5. Within(x, t)
      <4>1. k - Len(x) \in Nat
        BY <2>2, <3>2, <3>4 DEF Ends, Strings
      <4> QED BY <3>4, <4>1 DEF Ends, Within
    <3> HIDE DEF x
    <3>6. Q \in Seq(Strings) /\ Q # <<>> /\ Len(Q) = m + 1 /\ Q[m + 1] = x
          /\ \A i \in 1..m : Q[i] = front[i]
      BY <3>2, AppendProperties
    <3> HIDE DEF Q
    <3>7. ASSUME NEW i \in 1..Len(Q) PROVE Within(Q[i], t) /\ Range(Q[i]) \cap separators = {}
      <4>1. CASE i = m + 1
        <5>1. m + 1 \in 1..Len(P) /\ P[m + 1] = last
          BY <2>2, <3>2 DEF e
        <5>2. Range(last) \cap separators = {}
          BY <2>4, <5>1
        <5>3. Range(x) \cap separators = {}
          BY <2>6, <3>3, <5>2
        <5> QED BY <3>5, <3>6, <4>1, <5>3
      <4>2. CASE i # m + 1
        <5>1. i \in 1..m /\ i \in 1..Len(P)
          BY <3>2, <3>6, <4>2
        <5>2. Q[i] = P[i]
          BY <3>2, <3>6, <5>1
        <5> QED BY <2>4, <5>1, <5>2
      <4> QED BY <4>1, <4>2
    <3>8. Ends(Q[Len(Q)], t, k)
      BY <3>4, <3>6
    <3>9. PartsUpTo(Q, t, k, separators)
      BY <3>6, <3>7, <3>8 DEF PartsUpTo, PartLists
    <3> QED BY <2>2, <2>3, <2>6, <3>2, <3>9
  <2> QED BY <2>5, <2>6
<1> HIDE DEF S, n
<1>6. \A k \in 0..n : k \in S
  BY <1>1, <1>4, <1>5, UpTo
<1> QED BY <1>6 DEF S, n

-----------------------------------------------------------------------------
(* What is read in parts that were joined.                                 *)

\* A text with slashes for backslashes, token by token.
LEMMA SlashedTyped ==
  ASSUME NEW t \in Strings
  PROVE  /\ Slashed(t) \in Strings /\ Len(Slashed(t)) = Len(t)
         /\ \A i \in 1..Len(t) : Slashed(t)[i] = IF t[i] \in Separators THEN "/" ELSE t[i]
<1>1. DOMAIN t = 1..Len(t) /\ Len(t) \in Nat /\ \A i \in 1..Len(t) : t[i] \in Tokens
  BY DEF Strings
<1>2. "/" \in Tokens
  BY TokensAre
<1>3. \A i \in 1..Len(t) : Slashed(t)[i] = IF t[i] = "\\" THEN "/" ELSE t[i]
  BY <1>1 DEF Slashed
<1>4. Slashed(t) \in [1..Len(t) -> Tokens]
  BY <1>1, <1>2 DEF Slashed
<1>5. Slashed(t) \in Strings
  BY <1>1, <1>4 DEF Strings
<1>6. Len(Slashed(t)) = Len(t)
  BY <1>1, <1>4
<1>7. \A c : (IF c = "\\" THEN "/" ELSE c) = IF c \in Separators THEN "/" ELSE c
  BY DEF Separators
<1> QED BY <1>3, <1>5, <1>6, <1>7

\* The parts so far, glued, are the text so far with slashes.
Retold(g, t, k) == /\ g \in Strings /\ Len(g) = k + 1 /\ g[1] = "/"
                   /\ \A i \in 1..k : g[i + 1] = Slashed(t)[i]

\* One token more.
LEMMA RetoldMore ==
  ASSUME NEW g, NEW t \in Strings, NEW k \in 1..Len(t), Retold(g, t, k - 1)
  PROVE  Retold(g \o <<Slashed(t)[k]>>, t, k)
<1> DEFINE c == Slashed(t)[k]
           z == g \o <<c>>
<1>1. c \in Tokens /\ Len(t) \in Nat
  BY SlashedTyped DEF Strings
<1>2. g \in Strings /\ Len(g) = k /\ g[1] = "/" /\ \A i \in 1..k - 1 : g[i + 1] = Slashed(t)[i]
  BY DEF Retold
<1> HIDE DEF c
<1>3. z \in Strings /\ Len(z) = k + 1 /\ z[k + 1] = c /\ \A i \in 1..k : z[i] = g[i]
  BY <1>1, <1>2, OneMore
<1> HIDE DEF z
<1>4. z[1] = "/"
  BY <1>2, <1>3
<1>5. ASSUME NEW i \in 1..k PROVE z[i + 1] = Slashed(t)[i]
  <2>1. CASE i = k
    BY <1>3, <2>1 DEF c
  <2>2. CASE i # k
    <3>1. i \in 1..k - 1 /\ i + 1 \in 1..k
      BY <2>2
    <3> QED BY <1>2, <1>3, <3>1
  <2> QED BY <2>1, <2>2
<1> QED BY <1>3, <1>4, <1>5 DEF Retold, z, c

\* The empty part, glued.
LEMMA GluedEmpty == Glued(<< <<>> >>) = <<"/">> /\ <<"/">> \in Strings
<1>1. <<"/">> \in Strings
  BY TokensAre, OneToken DEF Strings
<1>2. <<>> \in Seq(Strings) /\ << <<>> >> = Append(<<>>, <<>>) /\ <<>> \in Strings
  BY EmptyString
<1>3. Glued(Append(<<>>, <<>>)) = Glued(<<>>) \o (<<"/">> \o <<>>)
  BY <1>2, GluedMore
<1>4. <<"/">> \o <<>> = <<"/">> /\ <<>> \o <<"/">> = <<"/">>
  BY <1>1, NoneAfter
<1> QED BY <1>1, <1>2, <1>3, <1>4, GluedNone

\* All along the parts glued tell the text so far.
LEMMA GluedSplits ==
  ASSUME NEW t \in Strings, NEW upTo, Splits(upTo, t, Separators)
  PROVE  \A k \in 0..Len(t) : Retold(Glued(upTo[k]), t, k)
<1> DEFINE n == Len(t)
           S == {k \in 0..n : Retold(Glued(upTo[k]), t, k)}
<1>1. n \in Nat /\ \A k \in 1..n : t[k] \in Tokens
  BY DEF Strings
<1>2. \A k \in 0..n : upTo[k] = IF k = 0 THEN << <<>> >>
                          ELSE IF t[k] \in Separators THEN Append(upTo[k - 1], <<>>)
                          ELSE [upTo[k - 1] EXCEPT ![Len(upTo[k - 1])] = Append(@, t[k])]
  BY Zenon DEF Splits
<1>3. \A k \in 0..n : upTo[k] \in PartLists
  BY SplitsGood DEF PartsUpTo
<1> HIDE DEF n
<1>4. 0 \in S
  <2>1. 0 \in 0..n /\ upTo[0] = << <<>> >>
    <3>1. 0 \in 0..n
      BY <1>1
    <3> QED BY <1>2, <3>1, Zenon
  <2>2. Glued(upTo[0]) = <<"/">> /\ <<"/">> \in Strings
    BY <2>1, GluedEmpty
  <2>3. Retold(<<"/">>, t, 0)
    BY <2>2 DEF Retold
  <2> QED BY <2>1, <2>2, <2>3
<1>5. ASSUME NEW k \in 1..n, k - 1 \in S PROVE k \in S
  <2> DEFINE P == upTo[k - 1]
             c == t[k]
             g == Glued(P)
  <2>1. k \in 0..n /\ k # 0 /\ k - 1 \in 0..n /\ P \in PartLists /\ c \in Tokens
    BY <1>1, <1>3
  <2>2. Retold(g, t, k - 1) /\ g \in Strings
    BY <1>5 DEF Retold
  <2>3. upTo[k] = IF c \in Separators THEN Append(P, <<>>)
                  ELSE [P EXCEPT ![Len(P)] = Append(@, c)]
    BY <1>2, <2>1, Zenon
  <2>4. Slashed(t)[k] = IF c \in Separators THEN "/" ELSE c
    BY SlashedTyped DEF n
  <2> HIDE DEF c, P, g
  <2>5. Glued(upTo[k]) = g \o <<Slashed(t)[k]>>
    <3>1. CASE c \in Separators
      <4>1. P \in Seq(Strings) /\ <<>> \in Strings
        BY <2>1, EmptyString DEF PartLists
      <4>2. Glued(Append(P, <<>>)) = g \o (<<"/">> \o <<>>)
        BY <4>1, GluedMore DEF g
      <4>3. <<"/">> \o <<>> = <<"/">>
        BY GluedEmpty, NoneAfter
      <4> QED BY <2>3, <2>4, <3>1, <4>2, <4>3
    <3>2. CASE c \notin Separators
      <4>1. PICK front \in Seq(Strings), last \in Strings : Grows(P, c, front, last)
        BY <2>1, PartMore
      <4> DEFINE h == Glued(front)
                 s == <<"/">>
                 o == <<c>>
      <4>2. /\ last \o o \in Strings /\ P = Append(front, last)
            /\ [P EXCEPT ![Len(P)] = Append(@, c)] = Append(front, last \o o)
        BY <4>1 DEF Grows
      <4>3. s \in Strings /\ o \in Strings
        BY <2>1, GluedEmpty, OneToken DEF Strings
      <4> HIDE DEF s, o
      <4>4. h \in Strings /\ g = h \o (s \o last)
            /\ Glued(Append(front, last \o o)) = h \o (s \o (last \o o))
        BY <4>2, GluedMore DEF g, s
      <4>5. s \o last \in Strings /\ s \o (last \o o) = (s \o last) \o o
        <5>1. s \o last \in Strings
          BY <4>3, TwoStrings
        <5>2. (s \o last) \o o = s \o (last \o o)
          BY <4>3, Regroup
        <5> QED BY <5>1, <5>2
      <4>6. h \o ((s \o last) \o o) = (h \o (s \o last)) \o o
        BY <4>3, <4>4, <4>5, Regroup
      <4> QED BY <2>3, <2>4, <3>2, <4>2, <4>4, <4>5, <4>6 DEF o
    <3> QED BY <3>1, <3>2
  <2>6. k \in 1..Len(t)
    BY DEF n
  <2>7. Retold(Glued(upTo[k]), t, k)
    BY <2>2, <2>5, <2>6, RetoldMore
  <2> QED BY <2>1, <2>7
<1> HIDE DEF S
<1>6. \A k \in 0..n : k \in S
  BY <1>1, <1>4, <1>5, UpTo
<1> QED BY <1>6 DEF S, n

\* The tokens of glued parts.
LEMMA GluedTokens ==
  ASSUME NEW parts \in PartLists
  PROVE  /\ Glued(parts) \in Strings /\ Glued(parts) # <<>> /\ Glued(parts)[1] = "/"
         /\ \A c \in Range(Glued(parts)) : c = "/" \/ \E i \in 1..Len(parts) : c \in Range(parts[i])
         /\ \A i \in 1..Len(parts) : Range(parts[i]) \subseteq Range(Glued(parts))
<1> DEFINE n == Len(parts)
           s == Led(parts)
<1>1. parts \in Seq(Strings) /\ n \in Nat /\ n > 0 /\ \A i \in 1..n : parts[i] \in Strings
  BY DEF PartLists
<1>2. s \in Seq(Strings) /\ Len(s) = n /\ \A i \in 1..n : s[i] = <<"/">> \o parts[i]
  BY <1>1, LedTyped
<1> HIDE DEF s
<1>3. PICK f : Adds(f, s)
  BY <1>2, AddsExists
<1>4. Glued(parts) = f[n]
  BY <1>2, <1>3, FlattenAdds DEF Glued, s
<1> HIDE DEF n
<1>5. \A k \in 0..n : f[k] \in Strings
  BY <1>2, <1>3 DEF Adds
<1> DEFINE Good(k) ==
             /\ k > 0 => f[k] # <<>> /\ f[k][1] = "/"
             /\ \A c \in Range(f[k]) : c = "/" \/ \E i \in 1..k : c \in Range(parts[i])
             /\ \A i \in 1..k : Range(parts[i]) \subseteq Range(f[k])
           S == {k \in 0..n : Good(k)}
<1>6. 0 \in S
  <2>1. f[0] = <<>>
    BY <1>3 DEF Adds
  <2>2. Range(f[0]) = {}
    BY <2>1, EmptyString
  <2>3. Good(0)
    BY <2>2
  <2> HIDE DEF Good
  <2> QED BY <1>1, <2>3
<1>7. ASSUME NEW k \in 1..n, k - 1 \in S PROVE k \in S
  <2> DEFINE x == f[k - 1]
             y == s[k]
             p == parts[k]
  <2>1. k \in 0..n /\ k - 1 \in 0..n /\ k - 1 \in Nat
    BY <1>1
  <2>2. f[k] = x \o y /\ y = <<"/">> \o p
    BY <1>2, <1>3 DEF Adds
  <2>3. x \in Strings /\ p \in Strings
    BY <1>1, <1>5, <2>1
  <2>4. Good(k - 1)
    BY <1>7
  <2> HIDE DEF x, p
  <2>5. y \in Strings /\ Len(y) = Len(p) + 1 /\ y[1] = "/" /\ Range(y) = {"/"} \cup Range(p)
    BY <2>2, <2>3, OneBefore, TokensAre
  <2> HIDE DEF y
  <2>6. Range(f[k]) = Range(x) \cup Range(y)
    BY <2>2, <2>3, <2>5, RangeOfTwo
  <2>7. /\ f[k] \in Strings /\ Len(f[k]) = Len(x) + Len(y) /\ Len(x) \in Nat /\ Len(p) \in Nat
        /\ \A i \in 1..Len(x) : f[k][i] = x[i]
        /\ \A i \in 1..Len(y) : f[k][Len(x) + i] = y[i]
    BY <2>2, <2>3, <2>5, TwoStrings DEF Strings
  <2>8. f[k] # <<>> /\ f[k][1] = "/"
    <3>1. Len(f[k]) > 0
      BY <2>5, <2>7
    <3>2. f[k] # <<>>
      BY <3>1
    <3>3. CASE k - 1 > 0
      <4>1. x # <<>> /\ x[1] = "/"
        BY <2>4, <3>3 DEF x
      <4>2. 1 \in 1..Len(x)
        BY <2>3, <4>1 DEF Strings
      <4> QED BY <2>7, <3>2, <4>1, <4>2
    <3>4. CASE ~(k - 1 > 0)
      <4>1. k - 1 = 0
        BY <2>1, <3>4
      <4>2. x = <<>>
        BY <1>3, <4>1 DEF x, Adds
      <4>3. 1 \in 1..Len(y) /\ Len(x) + 1 = 1
        BY <2>5, <2>7, <4>2
      <4> QED BY <2>5, <2>7, <3>2, <4>3
    <3> QED BY <3>3, <3>4
  <2>9. ASSUME NEW c \in Range(f[k]) PROVE c = "/" \/ \E i \in 1..k : c \in Range(parts[i])
    <3>1. CASE c \in Range(x)
      <4>1. c = "/" \/ \E i \in 1..k - 1 : c \in Range(parts[i])
        BY <2>4, <3>1 DEF x
      <4>2. 1..k - 1 \subseteq 1..k
        BY <2>1
      <4> QED BY <4>1, <4>2
    <3>2. CASE c \in Range(y)
      <4>1. c = "/" \/ c \in Range(parts[k])
        BY <2>5, <3>2 DEF p
      <4>2. k \in 1..k
        BY <2>1
      <4> QED BY <4>1, <4>2
    <3> QED BY <2>6, <3>1, <3>2
  <2>10. ASSUME NEW i \in 1..k PROVE Range(parts[i]) \subseteq Range(f[k])
    <3>1. CASE i = k
      BY <2>5, <2>6, <3>1 DEF p
    <3>2. CASE i # k
      <4>1. i \in 1..k - 1
        BY <2>1, <3>2
      <4>2. Range(parts[i]) \subseteq Range(x)
        BY <2>4, <4>1 DEF x
      <4> QED BY <2>6, <4>2
    <3> QED BY <3>1, <3>2
  <2>11. Good(k)
    BY <2>8, <2>9, <2>10
  <2> HIDE DEF Good
  <2> QED BY <2>1, <2>11
<1>8. Good(n)
  <2> HIDE DEF Good, S
  <2>1. \A k \in 0..n : k \in S
    BY <1>1, <1>6, <1>7, UpTo
  <2>2. n \in 0..n
    BY <1>1
  <2>3. n \in S
    BY <2>1, <2>2
  <2> QED BY <2>3 DEF S
<1>9. f[n] \in Strings
  BY <1>1, <1>5
<1> QED BY <1>1, <1>4, <1>8, <1>9 DEF n

\* What is read without a slash in glued parts is read in one of them.
LEMMA GluedReads ==
  ASSUME NEW parts \in PartLists, NEW u \in Strings, u # <<>>, "/" \notin Range(u),
         Occurs(u, Glued(parts))
  PROVE  \E i \in 1..Len(parts) : Occurs(u, parts[i])
<1> DEFINE n == Len(parts)
           s == Led(parts)
<1>1. parts \in Seq(Strings) /\ n \in Nat /\ n > 0 /\ \A i \in 1..n : parts[i] \in Strings
  BY DEF PartLists
<1>2. s \in Seq(Strings) /\ Len(s) = n /\ \A i \in 1..n : s[i] = <<"/">> \o parts[i]
  BY <1>1, LedTyped
<1> HIDE DEF s
<1>3. PICK f : Adds(f, s)
  BY <1>2, AddsExists
<1>4. Glued(parts) = f[n]
  BY <1>2, <1>3, FlattenAdds DEF Glued, s
<1> HIDE DEF n
<1>5. \A k \in 0..n : f[k] \in Strings
  BY <1>2, <1>3 DEF Adds
<1> DEFINE Good(k) == Occurs(u, f[k]) => \E i \in 1..k : Occurs(u, parts[i])
           S == {k \in 0..n : Good(k)}
<1>6. 0 \in S
  <2>1. f[0] = <<>>
    BY <1>3 DEF Adds
  <2>2. ~Occurs(u, f[0])
    BY <2>1 DEF Occurs
  <2>3. Good(0)
    BY <2>2
  <2> HIDE DEF Good
  <2> QED BY <1>1, <2>3
<1>7. ASSUME NEW k \in 1..n, k - 1 \in S PROVE k \in S
  <2>1. k \in 0..n /\ k - 1 \in 0..n
    BY <1>1
  <2>2. f[k] = f[k - 1] \o (<<"/">> \o parts[k])
    BY <1>2, <1>3 DEF Adds
  <2>3. f[k - 1] \in Strings /\ parts[k] \in Strings
    BY <1>1, <1>5, <2>1
  <2>4. f[k] = f[k - 1] \o <<"/">> \o parts[k]
    BY <2>2, <2>3, GluedEmpty, Regroup
  <2>5. Good(k - 1)
    BY <1>7
  <2>6. ASSUME Occurs(u, f[k]) PROVE \E i \in 1..k : Occurs(u, parts[i])
    <3>1. Occurs(u, f[k - 1]) \/ Occurs(u, parts[k])
      BY <2>3, <2>4, <2>6, OccursBeside, TokensAre
    <3>2. k \in 1..k /\ 1..k - 1 \subseteq 1..k
      BY <2>1
    <3> QED BY <2>5, <3>1, <3>2
  <2>7. Good(k)
    BY <2>6
  <2> HIDE DEF Good
  <2> QED BY <2>1, <2>7
<1>8. Good(n)
  <2> HIDE DEF Good, S
  <2>1. \A k \in 0..n : k \in S
    BY <1>1, <1>6, <1>7, UpTo
  <2>2. n \in 0..n
    BY <1>1
  <2>3. n \in S
    BY <2>1, <2>2
  <2> QED BY <2>3 DEF S
<1> QED BY <1>4, <1>8 DEF n

\* join: the tokens of the parts and slashes, and nothing that is not read in a part.
LEMMA JoinedIs ==
  ASSUME NEW parts \in PartLists
  PROVE  /\ Joined(parts) \in Strings
         /\ \A c \in Range(Joined(parts)) : c = "/" \/ \E i \in 1..Len(parts) : c \in Range(parts[i])
         /\ \A i \in 1..Len(parts) : Range(parts[i]) \subseteq Range(Joined(parts)) \cup {"/"}
         /\ \A u \in Strings : u # <<>> /\ "/" \notin Range(u) /\ Occurs(u, Joined(parts)) =>
                                 \E i \in 1..Len(parts) : Occurs(u, parts[i])
<1> DEFINE g == Glued(parts)
           j == Tail(g)
<1>1. Joined(parts) = j
  BY DEF Joined, Glued, Led
<1>2. /\ g \in Strings /\ g # <<>> /\ g[1] = "/"
      /\ \A c \in Range(g) : c = "/" \/ \E i \in 1..Len(parts) : c \in Range(parts[i])
      /\ \A i \in 1..Len(parts) : Range(parts[i]) \subseteq Range(g)
  BY GluedTokens
<1>3. \A u \in Strings : u # <<>> /\ "/" \notin Range(u) /\ Occurs(u, g) =>
                           \E i \in 1..Len(parts) : Occurs(u, parts[i])
  BY GluedReads
<1> HIDE DEF g
<1>4. j \in Strings /\ Len(j) = Len(g) - 1 /\ \A i \in 1..Len(j) : j[i] = g[i + 1]
  BY <1>2, HeadTailProperties DEF Strings
<1>5. Len(g) \in Nat /\ Len(g) > 0 /\ DOMAIN g = 1..Len(g)
  BY <1>2 DEF Strings
<1> HIDE DEF j
<1>6. DOMAIN j = 1..Len(j) /\ Len(j) \in Nat
  BY <1>4 DEF Strings
<1>7. Range(j) \subseteq Range(g)
  <2>1. ASSUME NEW i \in 1..Len(j) PROVE j[i] \in Range(g)
    <3>1. i + 1 \in 1..Len(g)
      BY <1>4, <1>5
    <3> QED BY <1>4, <1>5, <3>1 DEF Range
  <2> QED BY <1>6, <2>1 DEF Range
<1>8. Range(g) \subseteq Range(j) \cup {"/"}
  <2>1. ASSUME NEW i \in 1..Len(g) PROVE g[i] \in Range(j) \cup {"/"}
    <3>1. CASE i = 1
      BY <1>2, <3>1
    <3>2. CASE i # 1
      <4>1. i - 1 \in 1..Len(j) /\ (i - 1) + 1 = i
        BY <1>4, <1>5, <3>2
      <4>2. j[i - 1] = g[i]
        BY <1>4, <4>1
      <4> QED BY <1>6, <4>1, <4>2 DEF Range
    <3> QED BY <3>1, <3>2
  <2> QED BY <1>5, <2>1 DEF Range
<1>9. Within(j, g)
  <2>1. \A i \in 1..Len(j) : 1 + i = i + 1
    BY <1>6
  <2>2. Stands(j, g, 1)
    BY <1>4, <1>5, <2>1 DEF Stands
  <2> QED BY <2>2 DEF Within
<1>10. \A u \in Strings : u # <<>> /\ Occurs(u, j) => Occurs(u, g)
  BY <1>2, <1>4, <1>9, OccursWithin
<1>11. \A c \in Range(j) : c = "/" \/ \E i \in 1..Len(parts) : c \in Range(parts[i])
  BY <1>2, <1>7
<1>12. \A i \in 1..Len(parts) : Range(parts[i]) \subseteq Range(j) \cup {"/"}
  BY <1>2, <1>8
<1>13. \A u \in Strings : u # <<>> /\ "/" \notin Range(u) /\ Occurs(u, j) =>
                            \E i \in 1..Len(parts) : Occurs(u, parts[i])
  BY <1>3, <1>10
<1> QED BY <1>1, <1>4, <1>11, <1>12, <1>13

\* split: the parts are stretches of the text without separators, and joined they tell it.
LEMMA PartsAre ==
  ASSUME NEW t \in Strings, NEW separators
  PROVE  /\ Parts(t, separators) \in PartLists
         /\ \A i \in 1..Len(Parts(t, separators)) :
              /\ Within(Parts(t, separators)[i], t)
              /\ Range(Parts(t, separators)[i]) \cap separators = {}
<1> DEFINE upTo == CHOOSE f : Splits(f, t, separators)
<1>1. Splits(upTo, t, separators)
  BY SplitsExists, Zenon
<1>2. Parts(t, separators) = upTo[Len(t)]
  BY PartsIs, Zenon
<1> HIDE DEF upTo
<1>3. Len(t) \in 0..Len(t)
  BY DEF Strings
<1>4. PartsUpTo(upTo[Len(t)], t, Len(t), separators)
  BY <1>1, <1>3, SplitsGood
<1> QED BY <1>2, <1>4 DEF PartsUpTo

\* Parts that are joined unchanged give the text with slashes for backslashes.
LEMMA JoinedParts ==
  ASSUME NEW t \in Strings
  PROVE  Joined(Parts(t, Separators)) = Slashed(t)
<1> DEFINE upTo == CHOOSE f : Splits(f, t, Separators)
           parts == Parts(t, Separators)
           g == Glued(parts)
           j == Joined(parts)
           n == Len(t)
<1>1. Splits(upTo, t, Separators)
  BY SplitsExists, Zenon
<1>2. parts = upTo[n]
  BY PartsIs, Zenon
<1> HIDE DEF upTo
<1>3. n \in 0..n /\ n \in Nat
  BY DEF Strings
<1>4. Retold(g, t, n)
  BY <1>1, <1>2, <1>3, GluedSplits
<1>5. g \in Strings /\ Len(g) = n + 1 /\ \A i \in 1..n : g[i + 1] = Slashed(t)[i]
  BY <1>4 DEF Retold
<1>6. j = Tail(g)
  BY DEF Joined, Glued, Led
<1>7. Slashed(t) \in Strings /\ Len(Slashed(t)) = n
  BY SlashedTyped
<1> HIDE DEF g, j, n
<1>8. g # <<>>
  BY <1>3, <1>5, EmptyString
<1>9. j \in Strings /\ Len(j) = n /\ \A i \in 1..n : j[i] = g[i + 1]
  <2>1. j \in Strings /\ Len(j) = Len(g) - 1 /\ \A i \in 1..Len(j) : j[i] = g[i + 1]
    BY <1>5, <1>6, <1>8, HeadTailProperties DEF Strings
  <2> QED BY <1>3, <1>5, <2>1
<1>10. j = Slashed(t)
  BY <1>5, <1>7, <1>9, SameString
<1> QED BY <1>10 DEF j

\* In a text without backslashes only slashes separate.
LEMMA PartsWithoutBackslash ==
  ASSUME NEW t \in Strings, "\\" \notin Range(t)
  PROVE  Parts(t, Separators) = Parts(t, {"/"})
<1> DEFINE f == CHOOSE h : Splits(h, t, Separators)
           g == CHOOSE h : Splits(h, t, {"/"})
           n == Len(t)
<1>1. Splits(f, t, Separators) /\ Splits(g, t, {"/"})
  BY SplitsExists, Zenon
<1>2. Parts(t, Separators) = f[n] /\ Parts(t, {"/"}) = g[n]
  BY PartsIs, Zenon
<1>3. n \in Nat /\ DOMAIN t = 1..n
  BY DEF Strings
<1> HIDE DEF f, g, n
<1>4. \A k \in 1..n : t[k] \in Separators <=> t[k] \in {"/"}
  <2>1. \A k \in 1..n : t[k] # "\\"
    BY <1>3 DEF Range
  <2> QED BY <2>1 DEF Separators
<1>5. \A k \in 0..n : f[k] = IF k = 0 THEN << <<>> >>
                       ELSE IF t[k] \in Separators THEN Append(f[k - 1], <<>>)
                       ELSE [f[k - 1] EXCEPT ![Len(f[k - 1])] = Append(@, t[k])]
  BY <1>1, Zenon DEF Splits, n
<1>6. \A k \in 0..n : g[k] = IF k = 0 THEN << <<>> >>
                       ELSE IF t[k] \in {"/"} THEN Append(g[k - 1], <<>>)
                       ELSE [g[k - 1] EXCEPT ![Len(g[k - 1])] = Append(@, t[k])]
  BY <1>1, Zenon DEF Splits, n
<1> DEFINE S == {k \in 0..n : f[k] = g[k]}
<1>7. 0 \in S
  <2>1. 0 \in 0..n
    BY <1>3
  <2>2. f[0] = << <<>> >> /\ g[0] = << <<>> >>
    BY <1>5, <1>6, <2>1, Zenon
  <2> QED BY <2>1, <2>2
<1>8. ASSUME NEW k \in 1..n, k - 1 \in S PROVE k \in S
  <2>1. k \in 0..n /\ k # 0
    BY <1>3
  <2>2. f[k - 1] = g[k - 1]
    BY <1>8
  <2>3. f[k] = IF t[k] \in Separators THEN Append(f[k - 1], <<>>)
               ELSE [f[k - 1] EXCEPT ![Len(f[k - 1])] = Append(@, t[k])]
    BY <1>5, <2>1, Zenon
  <2>4. g[k] = IF t[k] \in {"/"} THEN Append(f[k - 1], <<>>)
               ELSE [f[k - 1] EXCEPT ![Len(f[k - 1])] = Append(@, t[k])]
    BY <1>6, <2>1, <2>2, Zenon
  <2>5. f[k] = g[k]
    BY <1>4, <2>3, <2>4, Zenon
  <2> QED BY <2>1, <2>5
<1>9. n \in S
  <2> HIDE DEF S
  <2>1. \A k \in 0..n : k \in S
    BY <1>3, <1>7, <1>8, UpTo
  <2> QED BY <1>3, <2>1
<1> QED BY <1>2, <1>9

-----------------------------------------------------------------------------
(* Redactor::text and path_display.                                        *)

\* The configured values: texts, none of them empty.
Configured(values) == values \in Seq(Texts) /\ \A n \in 1..Len(values) : values[n] # <<>>

\* Texts are strings without markers.
LEMMA TextsAre == Texts \subseteq Strings /\ \A t \in Texts : Range(t) \cap Markers = {}
<1>1. DOMAIN Rank \subseteq Tokens
  BY DEF Tokens
<1>2. ASSUME NEW t \in Texts PROVE t \in Strings /\ Range(t) \cap Markers = {}
  <2>1. t \in Seq(DOMAIN Rank)
    BY DEF Texts
  <2>2. \A i \in 1..Len(t) : t[i] \in DOMAIN Rank
    BY <2>1
  <2>3. t \in Strings
    BY <1>1, <2>1, <2>2 DEF Strings
  <2>4. Range(t) \subseteq DOMAIN Rank
    BY <2>1 DEF Range
  <2> QED BY <2>3, <2>4, RedactionAssumption
<1> QED BY <1>2

\* Configured values can be replaced.
LEMMA ConfiguredAreValues == \A values : Configured(values) => Values(values)
<1>1. ASSUME NEW values, Configured(values) PROVE Values(values)
  <2>1. values \in Seq(Texts) /\ \A n \in 1..Len(values) : values[n] # <<>>
    BY <1>1 DEF Configured
  <2>2. \A n \in 1..Len(values) : values[n] \in Texts
    BY <2>1
  <2>3. \A n \in 1..Len(values) : values[n] \in Strings
    BY <2>2, TextsAre
  <2>4. values \in Seq(Strings)
    BY <2>1, <2>3
  <2>5. \A n \in 1..Len(values) : Bare(values[n])
    BY <2>1, <2>2, TextsAre DEF Bare
  <2> QED BY <2>4, <2>5 DEF Values
<1> QED BY <1>1

\* One of the values.
LEMMA ValuesAre ==
  ASSUME NEW values, Values(values), NEW v \in Range(values)
  PROVE  v \in Strings /\ Bare(v) /\ v # <<>>
<1>1. PICK n \in DOMAIN values : v = values[n]
  BY DEF Range
<1>2. n \in 1..Len(values)
  BY DEF Values
<1> QED BY <1>1, <1>2 DEF Values, Bare

\* A marker on its own reads as nothing else.
LEMMA OneMarker ==
  ASSUME NEW m \in Markers
  PROVE  /\ <<m>> \in Strings /\ Range(<<m>>) = {m}
         /\ \A u \in Strings : Bare(u) => ~Occurs(u, <<m>>)
<1>1. m \in Tokens
  BY TokensAre
<1>2. <<m>> \in Strings /\ Len(<<m>>) = 1 /\ <<m>>[1] = m
  BY <1>1, OneToken DEF Strings
<1>3. Range(<<m>>) = {m}
  BY <1>2 DEF Range, Strings
<1>4. ASSUME NEW u \in Strings, Bare(u), Occurs(u, <<m>>) PROVE FALSE
  <2> DEFINE t == <<m>>
  <2>1. u # <<>> /\ Len(u) \in Nat /\ Len(u) > 0 /\ u \in Seq(Tokens)
    BY <1>4 DEF Bare, Strings
  <2>2. t \in Strings /\ Len(t) = 1 /\ t[1] = m
    BY <1>2
  <2> HIDE DEF t
  <2>3. PICK d \in Nat : Stands(u, t, d)
    BY <1>4, <2>1, <2>2, OccursIs DEF t
  <2>4. d = 0 /\ t[d + 1] = u[1]
    BY <2>1, <2>2, <2>3 DEF Stands
  <2>5. u[1] = m
    BY <2>2, <2>4
  <2>6. 1 \in DOMAIN u
    BY <2>1
  <2> QED BY <1>4, <2>5, <2>6 DEF Bare, Range
<1> QED BY <1>2, <1>3, <1>4

\* The tokens of a stretch are tokens of the whole.
LEMMA RangeWithin ==
  ASSUME NEW x \in Strings, NEW t \in Strings, Within(x, t)
  PROVE  Range(x) \subseteq Range(t)
<1>1. PICK d \in Nat : Stands(x, t, d)
  BY DEF Within
<1>2. Len(x) \in Nat /\ Len(t) \in Nat /\ DOMAIN x = 1..Len(x) /\ DOMAIN t = 1..Len(t)
  BY DEF Strings
<1>3. \A i \in 1..Len(x) : d + i \in 1..Len(t) /\ t[d + i] = x[i]
  BY <1>1, <1>2 DEF Stands
<1> QED BY <1>2, <1>3 DEF Range

\* A component is shown as it is or with a marker, and without any value.
LEMMA ComponentIs ==
  ASSUME NEW values, Values(values), NEW c \in Strings
  PROVE  /\ ShownComponent(values, c) \in Strings
         /\ ShownComponent(values, c) = c \/ Noted(ShownComponent(values, c))
         /\ Noted(c) => Noted(ShownComponent(values, c))
         /\ \A v \in Range(values) : ~Occurs(v, ShownComponent(values, c))
         /\ (Mark \notin Range(c) /\ \A v \in Range(values) : ~Occurs(v, c)) =>
              Mark \notin Range(ShownComponent(values, c))
<1> DEFINE x == ShownComponent(values, c)
<1>1. CASE SensitiveComponent(c)
  <2>1. x = <<"[redacted_hash]">>
    BY <1>1 DEF ShownComponent
  <2>2. "[redacted_hash]" \in Markers /\ "[redacted_hash]" # Mark
    BY MarkersAre
  <2>3. x \in Strings /\ Range(x) = {"[redacted_hash]"}
    BY <2>1, <2>2, OneMarker
  <2>4. \A v \in Range(values) : ~Occurs(v, x)
    BY <2>1, <2>2, OneMarker, ValuesAre
  <2> HIDE DEF x
  <2> QED BY <2>2, <2>3, <2>4 DEF Noted, x
<1>2. CASE ~SensitiveComponent(c)
  <2>1. x = HideValues(values, c)
    BY <1>2 DEF ShownComponent
  <2>2. /\ x \in Strings /\ (x = c \/ Mark \in Range(x))
        /\ \A v \in Range(values) : ~Occurs(v, x)
        /\ (\A v \in Range(values) : ~Occurs(v, c)) => x = c
    BY <2>1, Hidden
  <2>3. Mark \in Markers
    BY MarkersAre
  <2> HIDE DEF x
  <2>4. (x = c \/ Noted(x)) /\ (Noted(c) => Noted(x))
    BY <2>2, <2>3 DEF Noted
  <2> QED BY <2>2, <2>4 DEF x
<1> QED BY <1>1, <1>2

\* The components shown of a path.
ShownParts(values, t) ==
  [i \in DOMAIN Parts(t, Separators) |-> ShownComponent(values, Parts(t, Separators)[i])]

\* They are parts again, one for each.
LEMMA ShownPartsAre ==
  ASSUME NEW values, Values(values), NEW t \in Strings
  PROVE  /\ ShownParts(values, t) \in PartLists
         /\ Len(ShownParts(values, t)) = Len(Parts(t, Separators))
         /\ \A i \in 1..Len(Parts(t, Separators)) :
              /\ Parts(t, Separators)[i] \in Strings
              /\ ShownParts(values, t)[i] = ShownComponent(values, Parts(t, Separators)[i])
<1> DEFINE parts == Parts(t, Separators)
           shown == ShownParts(values, t)
<1>1. parts \in Seq(Strings) /\ parts # <<>>
  BY PartsAre DEF PartLists
<1>2. DOMAIN parts = 1..Len(parts) /\ Len(parts) \in Nat /\ Len(parts) > 0
      /\ \A i \in 1..Len(parts) : parts[i] \in Strings
  BY <1>1
<1>3. shown = [i \in 1..Len(parts) |-> ShownComponent(values, parts[i])]
  BY <1>2 DEF ShownParts
<1>4. \A i \in 1..Len(parts) : ShownComponent(values, parts[i]) \in Strings
  BY <1>2, ComponentIs
<1>5. shown \in [1..Len(parts) -> Strings]
  BY <1>3, <1>4
<1>6. shown \in Seq(Strings) /\ Len(shown) = Len(parts)
  <2> HIDE DEF shown, parts
  <2> QED BY <1>2, <1>5
<1>7. shown # <<>>
  <2> HIDE DEF shown, parts
  <2> QED BY <1>2, <1>6
<1> QED BY <1>2, <1>3, <1>6, <1>7 DEF PartLists

\* How many components are not shown, and whether any.
LEMMA PathHidden ==
  ASSUME NEW values, Values(values), NEW t \in Strings
  PROVE  /\ PathDisplay(values, t).shown = Joined(ShownParts(values, t))
         /\ PathDisplay(values, t).hidden \in Nat
         /\ PathDisplay(values, t).hidden > 0 <=>
              \E i \in 1..Len(Parts(t, Separators)) :
                ShownComponent(values, Parts(t, Separators)[i]) # Parts(t, Separators)[i]
<1> DEFINE parts == Parts(t, Separators)
           other == {i \in DOMAIN parts : ShownParts(values, t)[i] # parts[i]}
<1>1. DOMAIN parts = 1..Len(parts) /\ Len(parts) \in Nat
  BY PartsAre DEF PartLists
<1>2. PathDisplay(values, t).shown = Joined(ShownParts(values, t))
      /\ PathDisplay(values, t).hidden = Cardinality(other)
  BY DEF PathDisplay, ShownParts
<1>3. IsFiniteSet(other)
  <2>1. IsFiniteSet(1..Len(parts))
    BY <1>1, FS_Interval
  <2> QED BY <1>1, <2>1, FS_Subset
<1>4. Cardinality(other) \in Nat /\ (Cardinality(other) = 0 <=> other = {})
  BY <1>3, FS_CardinalityType, FS_EmptySet
<1>5. other # {} <=> \E i \in 1..Len(parts) : ShownComponent(values, parts[i]) # parts[i]
  BY <1>1, ShownPartsAre
<1> QED
  <2> HIDE DEF other, parts
  <2>1. Cardinality(other) > 0 <=> other # {}
    BY <1>4
  <2> QED BY <1>2, <1>4, <1>5, <2>1 DEF parts

\* path_display: slashes for backslashes, and a marker for whatever is hidden.
LEMMA PathIs ==
  ASSUME NEW values, Values(values), NEW t \in Strings
  PROVE  /\ PathDisplay(values, t).shown \in Strings
         /\ PathDisplay(values, t).hidden > 0 \/ PathDisplay(values, t).shown = Slashed(t)
         /\ PathDisplay(values, t).hidden > 0 => Noted(PathDisplay(values, t).shown)
         /\ Noted(t) => Noted(PathDisplay(values, t).shown)
         /\ \A v \in Range(values) :
              "/" \notin Range(v) => ~Occurs(v, PathDisplay(values, t).shown)
         /\ (Mark \notin Range(t) /\ \A v \in Range(values) : ~Occurs(v, t)) =>
              Mark \notin Range(PathDisplay(values, t).shown)
<1> DEFINE parts == Parts(t, Separators)
           shown == ShownParts(values, t)
           p == PathDisplay(values, t).shown
           h == PathDisplay(values, t).hidden
<1>1. /\ p = Joined(shown)
      /\ h > 0 <=> \E i \in 1..Len(parts) : ShownComponent(values, parts[i]) # parts[i]
  BY PathHidden
<1>2. /\ shown \in PartLists /\ Len(shown) = Len(parts)
      /\ \A i \in 1..Len(parts) : /\ parts[i] \in Strings
                                  /\ shown[i] = ShownComponent(values, parts[i])
  BY ShownPartsAre
<1>3. /\ parts \in PartLists
      /\ \A i \in 1..Len(parts) : Within(parts[i], t)
  BY PartsAre
<1>4. Len(parts) \in Nat
  BY <1>3 DEF PartLists
<1>5. /\ Joined(shown) \in Strings
      /\ \A c \in Range(Joined(shown)) : c = "/" \/ \E i \in 1..Len(shown) : c \in Range(shown[i])
      /\ \A i \in 1..Len(shown) : Range(shown[i]) \subseteq Range(Joined(shown)) \cup {"/"}
      /\ \A u \in Strings : u # <<>> /\ "/" \notin Range(u) /\ Occurs(u, Joined(shown)) =>
                              \E i \in 1..Len(shown) : Occurs(u, shown[i])
  BY <1>2, JoinedIs
<1>6. /\ Joined(parts) = Slashed(t)
      /\ \A c \in Range(Joined(parts)) : c = "/" \/ \E i \in 1..Len(parts) : c \in Range(parts[i])
  BY <1>3, JoinedIs, JoinedParts
<1>7. "/" \notin Markers /\ "\\" \notin Markers
  BY NoMarkers
<1> HIDE DEF p, h, shown, parts
<1>8. ASSUME NEW i \in 1..Len(parts), Noted(shown[i]) PROVE Noted(p)
  <2>1. Range(shown[i]) \subseteq Range(p) \cup {"/"}
    BY <1>1, <1>2, <1>5
  <2> QED BY <1>7, <1>8, <2>1 DEF Noted
<1>9. \A i \in 1..Len(parts) :
        /\ shown[i] = parts[i] \/ Noted(shown[i])
        /\ Noted(parts[i]) => Noted(shown[i])
        /\ \A v \in Range(values) : ~Occurs(v, shown[i])
        /\ (Mark \notin Range(parts[i]) /\ \A v \in Range(values) : ~Occurs(v, parts[i])) =>
             Mark \notin Range(shown[i])
  BY <1>2, ComponentIs
<1>10. h > 0 \/ p = Slashed(t)
  <2> SUFFICES ASSUME ~(h > 0) PROVE p = Slashed(t)
    OBVIOUS
  <2>1. \A i \in 1..Len(parts) : shown[i] = parts[i]
    BY <1>1, <1>2
  <2>2. shown \in Seq(Strings) /\ parts \in Seq(Strings)
    BY <1>2, <1>3 DEF PartLists
  <2>3. shown = parts
    BY <1>2, <2>1, <2>2, SeqEqual
  <2> QED BY <1>1, <1>6, <2>3
<1>11. h > 0 => Noted(p)
  BY <1>1, <1>2, <1>8, <1>9
<1>12. Noted(t) => Noted(p)
  <2> SUFFICES ASSUME Noted(t) PROVE Noted(p)
    OBVIOUS
  <2>1. PICK k \in DOMAIN t : t[k] \in Markers
    BY DEF Noted, Range
  <2>2. Slashed(t)[k] = t[k] /\ k \in DOMAIN Slashed(t)
    <3>1. k \in 1..Len(t)
      BY DEF Strings
    <3>2. t[k] \notin Separators
      BY <1>7, <2>1 DEF Separators
    <3> QED BY <3>1, <3>2, SlashedTyped DEF Strings
  <2>3. t[k] \in Range(Joined(parts))
    BY <1>6, <2>2 DEF Range
  <2>4. PICK i \in 1..Len(parts) : t[k] \in Range(parts[i])
    BY <1>6, <1>7, <2>1, <2>3
  <2>5. Noted(parts[i])
    BY <2>1, <2>4 DEF Noted
  <2> QED BY <1>8, <1>9, <2>5
<1>13. \A v \in Range(values) : "/" \notin Range(v) => ~Occurs(v, p)
  <2>1. ASSUME NEW v \in Range(values), "/" \notin Range(v), Occurs(v, p) PROVE FALSE
    <3>1. v \in Strings /\ v # <<>>
      BY ValuesAre
    <3>2. PICK i \in 1..Len(shown) : Occurs(v, shown[i])
      BY <1>1, <1>5, <2>1, <3>1
    <3> QED BY <1>2, <1>9, <3>2
  <2> QED BY <2>1
<1>14. ASSUME Mark \notin Range(t), \A v \in Range(values) : ~Occurs(v, t)
       PROVE  Mark \notin Range(p)
  <2>1. \A i \in 1..Len(parts) : Mark \notin Range(parts[i])
    BY <1>2, <1>3, <1>14, RangeWithin
  <2>2. \A i \in 1..Len(parts), v \in Range(values) : ~Occurs(v, parts[i])
    BY <1>2, <1>3, <1>14, OccursWithin, ValuesAre
  <2>3. Mark # "/"
    BY <1>7, MarkersAre
  <2>4. \A i \in 1..Len(parts) : Mark \notin Range(shown[i])
    BY <1>9, <2>1, <2>2
  <2> QED BY <1>1, <1>2, <1>5, <2>3, <2>4
<1>15. p \in Strings
  BY <1>1, <1>5
<1> QED BY <1>10, <1>11, <1>12, <1>13, <1>14, <1>15 DEF p, h

\* A component without a sensitive word and without a value is shown as it is, and no
\* component shows a token it does not have, but for markers.
LEMMA ComponentTokens ==
  ASSUME NEW values, Values(values), NEW c \in Strings
  PROVE  /\ (Range(c) \cap PathWords = {} /\ \A v \in Range(values) : ~Occurs(v, c)) =>
              ShownComponent(values, c) = c
         /\ Range(ShownComponent(values, c)) \subseteq Range(c) \cup Markers
<1>1. CASE SensitiveComponent(c)
  <2>1. Range(ShownComponent(values, c)) = {"[redacted_hash]"}
    BY <1>1, OneMarker, MarkersAre DEF ShownComponent
  <2> QED BY <1>1, <2>1, MarkersAre DEF SensitiveComponent
<1>2. CASE ~SensitiveComponent(c)
  <2> DEFINE x == HideValues(values, c)
  <2>1. ShownComponent(values, c) = x
    BY <1>2 DEF ShownComponent
  <2>2. /\ x \in Strings /\ Masked(x, c)
        /\ (\A v \in Range(values) : ~Occurs(v, c)) => x = c
    BY Hidden
  <2> HIDE DEF x
  <2>3. Range(x) \subseteq Range(c) \cup Markers
    BY <2>2, MaskedTokens
  <2> QED BY <2>1, <2>2, <2>3
<1> QED BY <1>1, <1>2

\* All components shown.
ShowAll(values, parts) == [i \in DOMAIN parts |-> ShownComponent(values, parts[i])]

\* One component more.
LEMMA ShowMore ==
  ASSUME NEW values, Values(values), NEW front \in Seq(Strings), NEW last \in Strings
  PROVE  /\ ShowAll(values, front) \in Seq(Strings)
         /\ ShownComponent(values, last) \in Strings
         /\ ShowAll(values, Append(front, last))
              = Append(ShowAll(values, front), ShownComponent(values, last))
<1> DEFINE n == Len(front)
           parts == Append(front, last)
           x == ShowAll(values, front)
           y == ShowAll(values, parts)
           c == ShownComponent(values, last)
<1>1. /\ n \in Nat /\ parts \in Seq(Strings) /\ Len(parts) = n + 1 /\ parts[n + 1] = last
      /\ \A i \in 1..n : parts[i] = front[i] /\ front[i] \in Strings
  BY AppendProperties
<1>2. \A i \in 1..n : ShownComponent(values, front[i]) \in Strings
  BY <1>1, ComponentIs
<1>3. c \in Strings
  BY ComponentIs
<1>4. DOMAIN front = 1..n /\ DOMAIN parts = 1..n + 1
  BY <1>1
<1>5. x \in [1..n -> Strings] /\ \A i \in 1..n : x[i] = ShownComponent(values, front[i])
  BY <1>2, <1>4 DEF ShowAll
<1>6. \A i \in 1..n + 1 : y[i] = ShownComponent(values, parts[i])
  BY <1>4 DEF ShowAll
<1>7. y = [i \in 1..n + 1 |-> y[i]]
  BY <1>4 DEF ShowAll
<1> HIDE DEF parts, x, y, c, n
<1>8. x \in Seq(Strings) /\ Len(x) = n
  BY <1>1, <1>5
<1> DEFINE z == Append(x, c)
<1>9. z \in Seq(Strings) /\ Len(z) = n + 1 /\ z[n + 1] = c /\ \A i \in 1..n : z[i] = x[i]
  BY <1>3, <1>8, AppendProperties
<1> HIDE DEF z
<1>10. ASSUME NEW i \in 1..n + 1 PROVE y[i] = z[i]
  <2>1. CASE i = n + 1
    BY <1>1, <1>6, <1>9, <2>1 DEF c
  <2>2. CASE i # n + 1
    <3>1. i \in 1..n
      BY <1>1, <2>2
    <3>2. y[i] = ShownComponent(values, parts[i]) /\ parts[i] = front[i]
      BY <1>1, <1>6, <3>1
    <3> QED BY <1>5, <1>9, <3>1, <3>2
  <2> QED BY <2>1, <2>2
<1>11. y \in [1..n + 1 -> Strings]
  <2>1. \A i \in 1..n + 1 : y[i] \in Strings
    <3>1. \A i \in 1..n + 1 : z[i] \in Strings
      BY <1>1, <1>9
    <3> QED BY <1>10, <3>1
  <2> QED BY <1>7, <2>1
<1>12. y \in Seq(Strings) /\ Len(y) = n + 1
  BY <1>1, <1>11
<1>13. y = z
  BY <1>9, <1>10, <1>12, SeqEqual
<1> QED BY <1>3, <1>8, <1>13 DEF x, y, z, c, parts

\* A slash and then the first n tokens of t, with slashes, and perhaps more.
Tells(h, t, n) == /\ h \in Strings /\ n + 1 <= Len(h)
                  /\ \A i \in 1..n : h[i + 1] = Slashed(t)[i]

\* What stands behind changes nothing.
LEMMA TellsMore ==
  ASSUME NEW h, NEW t, NEW n \in Nat, Tells(h, t, n), NEW y \in Strings
  PROVE  Tells(h \o y, t, n)
<1>1. h \in Strings /\ n + 1 <= Len(h) /\ \A i \in 1..n : h[i + 1] = Slashed(t)[i]
  BY DEF Tells
<1>2. /\ h \o y \in Strings /\ Len(h \o y) = Len(h) + Len(y)
      /\ \A i \in 1..Len(h) : (h \o y)[i] = h[i]
  BY <1>1, TwoStrings
<1>3. Len(h) \in Nat /\ Len(y) \in Nat /\ \A i \in 1..n : i + 1 \in 1..Len(h)
  BY <1>1 DEF Strings
<1> DEFINE z == h \o y
<1> HIDE DEF z
<1>4. z \in Strings /\ n + 1 <= Len(z) /\ \A i \in 1..n : z[i + 1] = Slashed(t)[i]
  BY <1>1, <1>2, <1>3 DEF z
<1> QED BY <1>4 DEF Tells, z

\* All components but the last, shown, and the slash behind them tell the first n tokens.
Leads(values, parts, t, n) ==
  \E front \in Seq(Strings), last \in Strings :
    parts = Append(front, last) /\ Tells(Glued(ShowAll(values, front)) \o <<"/">>, t, n)

\* So it is from a separator on, when nothing before it is hidden.
LEMMA PathLeads ==
  ASSUME NEW values, Values(values), NEW t \in Strings, NEW upTo, Splits(upTo, t, Separators),
         NEW n \in 1..Len(t), t[n] \in Separators,
         \A i \in 1..n : t[i] \notin PathWords, \A v \in Range(values) : ~Occurs(v, t)
  PROVE  \A k \in n..Len(t) : Leads(values, upTo[k], t, n)
<1> DEFINE z == Len(t)
           S == {k \in 0..z : k < n \/ Leads(values, upTo[k], t, n)}
<1>1. z \in Nat /\ n \in Nat /\ n <= z /\ n >= 1 /\ \A k \in 1..z : t[k] \in Tokens
  BY DEF Strings
<1>2. \A k \in 0..z : upTo[k] = IF k = 0 THEN << <<>> >>
                          ELSE IF t[k] \in Separators THEN Append(upTo[k - 1], <<>>)
                          ELSE [upTo[k - 1] EXCEPT ![Len(upTo[k - 1])] = Append(@, t[k])]
  BY Zenon DEF Splits
<1>3. \A k \in 0..z : PartsUpTo(upTo[k], t, k, Separators)
  BY SplitsGood
<1>4. \A k \in 0..z : Retold(Glued(upTo[k]), t, k)
  BY GluedSplits
<1>5. <<"/">> \in Strings /\ <<>> \in Strings
  BY GluedEmpty, EmptyString
<1> HIDE DEF z
<1>6. Leads(values, upTo[n], t, n)
  <2> DEFINE P == upTo[n - 1]
             g == Glued(P)
             h == g \o <<"/">>
  <2>1. n \in 0..z /\ n # 0 /\ n - 1 \in 0..z
    BY <1>1
  <2>2. PartsUpTo(P, t, n - 1, Separators) /\ Retold(g, t, n - 1)
    BY <1>3, <1>4, <2>1
  <2>3. upTo[n] = Append(P, <<>>)
    BY <1>2, <2>1, Zenon
  <2> HIDE DEF P
  <2>4. /\ P \in PartLists /\ P \in Seq(Strings) /\ \A i \in 1..Len(P) : P[i] \in Strings
        /\ \A i \in 1..Len(P) : Within(P[i], t) /\ Range(P[i]) \cap Separators = {}
    BY <2>2 DEF PartsUpTo, PartLists
  <2>5. \A i \in 1..Len(P) : Range(P[i]) \subseteq Range(g)
    BY <2>4, GluedTokens
  <2> HIDE DEF g
  <2>6. /\ g \in Strings /\ Len(g) = n /\ g[1] = "/"
        /\ \A i \in 1..n - 1 : g[i + 1] = Slashed(t)[i]
    <3>1. n - 1 + 1 = n
      BY <1>1
    <3> QED BY <2>2, <3>1 DEF Retold
  <2>7. /\ Slashed(t)[n] = "/"
        /\ \A i \in 1..n : Slashed(t)[i] = IF t[i] \in Separators THEN "/" ELSE t[i]
    <3>1. \A i \in 1..n : i \in 1..Len(t)
      BY <1>1 DEF z
    <3>2. \A i \in 1..n : Slashed(t)[i] = IF t[i] \in Separators THEN "/" ELSE t[i]
      BY <3>1, SlashedTyped
    <3> QED BY <1>1, <3>2
  <2>8. \A c \in Range(g) : c = "/" \/ c \notin PathWords
    <3>1. ASSUME NEW i \in 1..n PROVE g[i] = "/" \/ g[i] \notin PathWords
      <4>1. CASE i = 1
        BY <2>6, <4>1
      <4>2. CASE i # 1
        <5>1. i - 1 \in 1..n - 1 /\ i - 1 \in 1..n /\ (i - 1) + 1 = i
          BY <1>1, <4>2
        <5>2. g[i] = Slashed(t)[i - 1]
          BY <2>6, <5>1
        <5> QED BY <2>7, <5>1, <5>2
      <4> QED BY <4>1, <4>2
    <3> QED BY <2>6, <3>1 DEF Range, Strings
  <2>9. ASSUME NEW i \in 1..Len(P) PROVE ShownComponent(values, P[i]) = P[i]
    <3>1. "/" \notin Range(P[i])
      BY <2>4 DEF Separators
    <3>2. Range(P[i]) \cap PathWords = {}
      BY <2>5, <2>8, <3>1
    <3>3. P[i] \in Strings /\ \A v \in Range(values) : ~Occurs(v, P[i])
      BY <2>4, OccursWithin, ValuesAre
    <3> QED BY <3>2, <3>3, ComponentTokens
  <2>10. ShowAll(values, P) = P
    <3>1. DOMAIN P = 1..Len(P) /\ P = [i \in 1..Len(P) |-> P[i]]
      BY <2>4
    <3> QED BY <2>9, <3>1 DEF ShowAll
  <2>11. /\ h \in Strings /\ Len(h) = n + 1 /\ h[n + 1] = "/"
         /\ \A i \in 1..n : h[i] = g[i]
    BY <2>6, OneMore, TokensAre
  <2> HIDE DEF h
  <2>12. ASSUME NEW i \in 1..n PROVE h[i + 1] = Slashed(t)[i]
    <3>1. CASE i = n
      BY <2>7, <2>11, <3>1
    <3>2. CASE i # n
      <4>1. i \in 1..n - 1 /\ i + 1 \in 1..n
        BY <1>1, <3>2
      <4> QED BY <2>6, <2>11, <4>1
    <3> QED BY <3>1, <3>2
  <2>13. Tells(h, t, n)
    BY <1>1, <2>11, <2>12 DEF Tells
  <2> QED BY <1>5, <2>3, <2>4, <2>10, <2>13, Zenon DEF Leads, h, g
<1>7. ASSUME NEW k \in n + 1..z, Leads(values, upTo[k - 1], t, n)
      PROVE  Leads(values, upTo[k], t, n)
  <2> DEFINE P == upTo[k - 1]
             c == t[k]
  <2>1. k \in 0..z /\ k # 0 /\ k - 1 \in 0..z /\ c \in Tokens
    BY <1>1
  <2>2. P \in PartLists /\ P \in Seq(Strings)
    BY <1>3, <2>1 DEF PartsUpTo, PartLists
  <2>3. upTo[k] = IF c \in Separators THEN Append(P, <<>>)
                  ELSE [P EXCEPT ![Len(P)] = Append(@, c)]
    BY <1>2, <2>1, Zenon
  <2>4. PICK front \in Seq(Strings), last \in Strings :
          P = Append(front, last) /\ Tells(Glued(ShowAll(values, front)) \o <<"/">>, t, n)
    BY <1>7 DEF Leads
  <2> HIDE DEF P, c
  <2> DEFINE x == ShownComponent(values, last)
             g == Glued(ShowAll(values, front))
             s == <<"/">>
             h == g \o s
  <2>5. CASE c \in Separators
    <3>1. /\ ShowAll(values, front) \in Seq(Strings) /\ x \in Strings
          /\ ShowAll(values, P) = Append(ShowAll(values, front), x)
      BY <2>4, ShowMore
    <3>2. g \in Strings /\ Glued(ShowAll(values, P)) = g \o (s \o x)
      BY <3>1, GluedMore
    <3> HIDE DEF x, g
    <3>3. Tells(h, t, n)
      BY <2>4 DEF g
    <3>4. Tells(h \o x, t, n)
      BY <1>1, <3>1, <3>3, TellsMore
    <3>5. s \in Strings
      BY <1>5
    <3> HIDE DEF s
    <3>6. h \o x = g \o (s \o x)
      BY <3>1, <3>2, <3>5, Regroup
    <3> HIDE DEF h
    <3>7. Tells(Glued(ShowAll(values, P)) \o s, t, n)
      BY <1>1, <3>2, <3>4, <3>5, <3>6, TellsMore
    <3>8. upTo[k] = Append(P, <<>>)
      BY <2>3, <2>5
    <3> QED BY <1>5, <2>2, <3>7, <3>8, Zenon DEF Leads, s
  <2>6. CASE c \notin Separators
    <3>1. Grows(P, c, front, last)
      <4>1. P \in PartLists /\ c \in Tokens /\ P = Append(front, last)
        BY <2>1, <2>2, <2>4
      <4> QED BY <4>1, LastMore, Zenon
    <3>2. last \o <<c>> \in Strings /\ upTo[k] = Append(front, last \o <<c>>)
      BY <2>3, <2>6, <3>1 DEF Grows
    <3> QED BY <2>4, <3>2, Zenon DEF Leads
  <2> QED BY <2>5, <2>6
<1>8. 0 \in S
  BY <1>1
<1>9. ASSUME NEW k \in 1..z, k - 1 \in S PROVE k \in S
  <2>1. k \in 0..z /\ (k < n \/ k = n \/ k \in n + 1..z) /\ (k \in n + 1..z => ~(k - 1 < n))
    BY <1>1
  <2>2. k \in n + 1..z => Leads(values, upTo[k - 1], t, n)
    BY <1>9, <2>1
  <2> QED BY <1>6, <1>7, <2>1, <2>2
<1> HIDE DEF S
<1>10. \A k \in 0..z : k \in S
  BY <1>1, <1>8, <1>9, UpTo
<1>11. \A k \in n..z : k \in 0..z /\ ~(k < n)
  BY <1>1
<1> QED BY <1>10, <1>11 DEF S, z

\* The last part stands behind a slash.
LEMMA GluedLast ==
  ASSUME NEW f \in Seq(Strings), NEW x \in Strings
  PROVE  /\ Glued(f) \in Strings /\ <<"/">> \in Strings
         /\ Glued(Append(f, x)) = (Glued(f) \o <<"/">>) \o x
<1> DEFINE g == Glued(f)
           s == <<"/">>
<1>1. g \in Strings /\ Glued(Append(f, x)) = g \o (s \o x) /\ s \in Strings
  BY GluedMore, GluedEmpty
<1> HIDE DEF g, s
<1>2. (g \o s) \o x = g \o (s \o x)
  BY <1>1, Regroup
<1> QED BY <1>1, <1>2 DEF g, s

\* A path is shown as it is up to a separator before which nothing is hidden.
LEMMA PathBegins ==
  ASSUME NEW values, Values(values), NEW t \in Strings, NEW n \in 0..Len(t),
         n = Len(t) \/ (n > 0 /\ t[n] \in Separators),
         \A i \in 1..n : t[i] \notin PathWords, \A v \in Range(values) : ~Occurs(v, t)
  PROVE  /\ n <= Len(PathDisplay(values, t).shown)
         /\ \A i \in 1..n : PathDisplay(values, t).shown[i] = Slashed(t)[i]
         /\ n = Len(t) => PathDisplay(values, t).shown = Slashed(t)
<1> DEFINE parts == Parts(t, Separators)
           p == PathDisplay(values, t).shown
<1>1. /\ parts \in PartLists /\ parts \in Seq(Strings)
      /\ \A i \in 1..Len(parts) : Within(parts[i], t) /\ parts[i] \in Strings
  BY PartsAre DEF PartLists
<1>2. Slashed(t) \in Strings /\ Len(Slashed(t)) = Len(t) /\ Len(t) \in Nat
  BY SlashedTyped DEF Strings
<1>3. CASE n = Len(t)
  <2>1. ASSUME NEW i \in 1..Len(parts) PROVE ShownComponent(values, parts[i]) = parts[i]
    <3>1. Range(parts[i]) \subseteq Range(t)
      BY <1>1, RangeWithin
    <3>2. Range(t) \cap PathWords = {}
      BY <1>3 DEF Range, Strings
    <3>3. \A v \in Range(values) : ~Occurs(v, parts[i])
      BY <1>1, OccursWithin, ValuesAre
    <3> QED BY <1>1, <3>1, <3>2, <3>3, ComponentTokens
  <2>2. ~(PathDisplay(values, t).hidden > 0)
    BY <2>1, PathHidden
  <2>3. p = Slashed(t)
    BY <2>2, PathIs
  <2> QED BY <1>2, <1>3, <2>3
<1>4. CASE n # Len(t)
  <2> DEFINE upTo == CHOOSE f : Splits(f, t, Separators)
  <2>1. Splits(upTo, t, Separators)
    BY SplitsExists, Zenon
  <2>2. parts = upTo[Len(t)]
    BY PartsIs, Zenon
  <2> HIDE DEF upTo
  <2>3. n \in 1..Len(t) /\ t[n] \in Separators /\ Len(t) \in n..Len(t) /\ n \in Nat
    BY <1>2, <1>4
  <2>4. \A k \in n..Len(t) : Leads(values, upTo[k], t, n)
    BY <2>1, <2>3, PathLeads
  <2>5. Leads(values, parts, t, n)
    BY <2>2, <2>3, <2>4
  <2>6. PICK front \in Seq(Strings), last \in Strings :
          parts = Append(front, last) /\ Tells(Glued(ShowAll(values, front)) \o <<"/">>, t, n)
    BY <2>5 DEF Leads
  <2>7. p = Joined(ShowAll(values, parts))
    BY PathHidden, Zenon DEF ShownParts, ShowAll
  <2> DEFINE x == ShownComponent(values, last)
             f == ShowAll(values, front)
             g == Glued(f)
             s == <<"/">>
             h == (g \o s) \o x
  <2>8. f \in Seq(Strings) /\ x \in Strings /\ ShowAll(values, parts) = Append(f, x)
    BY <2>6, ShowMore
  <2> HIDE DEF x, f, parts
  <2>9. g \in Strings /\ s \in Strings /\ Glued(Append(f, x)) = h
    BY <2>8, GluedLast
  <2>10. Tells(h, t, n)
    <3>1. Tells(g \o s, t, n)
      BY <2>6 DEF f
    <3> QED BY <2>3, <2>8, <3>1, TellsMore
  <2> HIDE DEF g, s
  <2> HIDE DEF h
  <2>12. p = Tail(h)
    BY <2>7, <2>8, <2>9 DEF Joined, Glued, Led
  <2> HIDE DEF p
  <2>13. h \in Strings /\ n + 1 <= Len(h) /\ \A i \in 1..n : h[i + 1] = Slashed(t)[i]
    BY <2>10 DEF Tells
  <2>14. h # <<>>
    BY <2>3, <2>13, EmptyString
  <2>15. p \in Strings /\ Len(p) = Len(h) - 1 /\ \A i \in 1..Len(p) : p[i] = h[i + 1]
    BY <2>12, <2>13, <2>14, HeadTailProperties DEF Strings
  <2>16. Len(h) \in Nat /\ n <= Len(p) /\ \A i \in 1..n : i \in 1..Len(p)
    BY <2>3, <2>13, <2>15 DEF Strings
  <2>17. \A i \in 1..n : p[i] = Slashed(t)[i]
    BY <2>13, <2>15, <2>16
  <2> QED BY <1>4, <2>16, <2>17 DEF p
<1> QED BY <1>3, <1>4

\* A text without separators has nothing to slash.
LEMMA SlashedPlain ==
  ASSUME NEW t \in Strings, Range(t) \cap Separators = {}
  PROVE  Slashed(t) = t
<1>1. \A i \in 1..Len(t) : t[i] \notin Separators
  BY DEF Range, Strings
<1>2. Slashed(t) \in Strings /\ Len(Slashed(t)) = Len(t) /\ \A i \in 1..Len(t) : Slashed(t)[i] = t[i]
  BY <1>1, SlashedTyped
<1> QED BY <1>2, SameString

\* Redactor::text: what a text is shown as, and what it says of it.
LEMMA TextIs ==
  ASSUME NEW values, Values(values), NEW t \in Texts, t # NonUtf8
  PROVE  /\ Text(values, t).shown \in Strings
         /\ Text(values, t).hidden \in BOOLEAN
         /\ Text(values, t).hidden \/ Text(values, t).shown = Slashed(t)
         /\ Text(values, t).hidden => Noted(Text(values, t).shown)
         /\ \A v \in Range(values) :
              Range(v) \cap Separators = {} => ~Occurs(v, Text(values, t).shown)
         /\ (\A v \in Range(values) : ~Occurs(v, t)) =>
              /\ Mark \notin Range(Text(values, t).shown)
              /\ Range(t) \cap Separators = {} => Text(values, t).shown = t
<1> DEFINE s == HideValues(values, t)
           path == PathDisplay(values, s)
           x == Text(values, t).shown
           h == Text(values, t).hidden
<1>1. t \in Strings /\ Range(t) \cap Markers = {}
  BY TextsAre
<1>2. /\ s \in Strings
      /\ s = t \/ Mark \in Range(s)
      /\ \A v \in Range(values) : ~Occurs(v, s)
      /\ (\A v \in Range(values) : ~Occurs(v, t)) => s = t
  BY <1>1, Hidden
<1>3. Mark \in Markers /\ Mark \notin Range(t)
  BY <1>1, MarkersAre
<1>4. s = t \/ Noted(s)
  BY <1>2, <1>3 DEF Noted
<1>5. CASE Range(s) \cap Separators # {}
  <2>1. x = path.shown /\ h = (s # t \/ path.hidden > 0)
    BY <1>5 DEF Text
  <2>2. /\ path.shown \in Strings
        /\ path.hidden > 0 \/ path.shown = Slashed(s)
        /\ path.hidden > 0 => Noted(path.shown)
        /\ Noted(s) => Noted(path.shown)
        /\ \A v \in Range(values) : "/" \notin Range(v) => ~Occurs(v, path.shown)
        /\ (Mark \notin Range(s) /\ \A v \in Range(values) : ~Occurs(v, s)) =>
             Mark \notin Range(path.shown)
    BY <1>2, PathIs
  <2>3. Range(t) \cap Separators # {} \/ s # t
    BY <1>5
  <2>4. \A v \in Range(values) : Range(v) \cap Separators = {} => "/" \notin Range(v)
    BY DEF Separators
  <2> HIDE DEF s, path, x, h
  <2>5. h \in BOOLEAN /\ (h \/ x = Slashed(t)) /\ (h => Noted(x))
    BY <1>4, <2>1, <2>2
  <2>6. \A v \in Range(values) : Range(v) \cap Separators = {} => ~Occurs(v, x)
    BY <2>1, <2>2, <2>4
  <2>7. (\A v \in Range(values) : ~Occurs(v, t)) =>
          Mark \notin Range(x) /\ (Range(t) \cap Separators = {} => x = t)
    BY <1>2, <1>3, <2>1, <2>2, <2>3
  <2> QED BY <2>1, <2>2, <2>5, <2>6, <2>7 DEF x, h
<1>6. CASE Range(s) \cap Separators = {}
  <2>1. x = s /\ h = (s # t)
    BY <1>6 DEF Text
  <2>2. s = t => Slashed(t) = t
    BY <1>1, <1>6, SlashedPlain
  <2> HIDE DEF s, path, x, h
  <2>3. h \in BOOLEAN /\ (h \/ x = Slashed(t)) /\ (h => Noted(x))
    BY <1>4, <2>1, <2>2
  <2> QED BY <1>2, <1>3, <2>1, <2>3 DEF x, h
<1> QED BY <1>5, <1>6

\* Place n is the end of a text, of a name the path rule leaves alone, or a separator.
EndsName(a, n) ==
  n = Len(a) \/ Range(a) \cap Separators = {} \/ (n > 0 /\ a[n] \in Separators)

\* The path rule, if it looks at a text, finds no word up to place n.
NoPathWord(a, n) ==
  Range(a) \cap Separators # {} => \A k \in 1..n : a[k] \notin PathWords

\* The name of an argument that stands is shown as it is, with slashes.
LEMMA NameShown ==
  ASSUME NEW values, Values(values), NEW a \in Texts, a # NonUtf8, NEW n \in Nat, n <= Len(a),
         EndsName(a, n), Clear(Range(values), a, n), NoPathWord(a, n)
  PROVE  /\ n <= Len(Text(values, a).shown)
         /\ \A i \in 1..n : Text(values, a).shown[i] = Slashed(a)[i]
         /\ n = Len(a) => Text(values, a).shown = Slashed(a)
<1> DEFINE s == HideValues(values, a)
           x == Text(values, a).shown
<1>1. /\ a \in Strings /\ Range(a) \cap Markers = {} /\ Len(a) \in Nat
      /\ DOMAIN a = 1..Len(a) /\ \A i \in 1..Len(a) : a[i] \notin Markers
  BY TextsAre DEF Strings, Range
<1>2. /\ s \in Strings /\ Masked(s, a) /\ \A v \in Range(values) : ~Occurs(v, s)
      /\ (\A v \in Range(values) : ~Occurs(v, a)) => s = a
  BY <1>1, Hidden
<1>3. Continues(s, a, n)
  <2>1. n \in 0..Len(a)
    BY <1>1
  <2> QED BY <1>1, <2>1, HideContinues
<1>4. x = IF Range(s) \cap Separators # {} THEN PathDisplay(values, s).shown ELSE s
  BY DEF Text
<1> HIDE DEF s, x
<1>5. n <= Len(s) /\ (\A i \in 1..n : s[i] = a[i]) /\ DOMAIN s = 1..Len(s) /\ Len(s) \in Nat
  BY <1>2, <1>3 DEF Continues, Strings
<1>6. n = Len(a) => s = a
  <2>1. n = Len(a) => \A v \in Range(values) : ~Occurs(v, a)
    BY <1>1 DEF Occurs, Clear
  <2> QED BY <1>2, <2>1
<1>7. \A t \in Strings : \A i \in 1..Len(t) :
        Slashed(t)[i] = IF t[i] \in Separators THEN "/" ELSE t[i]
  BY SlashedTyped
<1>8. \A i \in 1..n : Slashed(s)[i] = Slashed(a)[i]
  <2>1. \A i \in 1..n : i \in 1..Len(s) /\ i \in 1..Len(a)
    BY <1>1, <1>5
  <2> QED BY <1>1, <1>2, <1>5, <1>7, <2>1
<1>9. CASE Range(s) \cap Separators # {}
  <2>1. Range(a) \cap Separators # {}
    <3>1. Range(s) \subseteq Range(a) \cup Markers
      BY <1>1, <1>2, MaskedTokens
    <3> QED BY <1>9, <3>1, NoMarkers DEF Separators
  <2>2. \A i \in 1..n : s[i] \notin PathWords
    BY <1>5, <2>1 DEF NoPathWord
  <2>3. n = Len(s) \/ (n > 0 /\ s[n] \in Separators)
    <3>1. CASE n = Len(a)
      BY <1>6, <3>1
    <3>2. CASE n # Len(a)
      <4>1. n > 0 /\ a[n] \in Separators
        BY <2>1, <3>2 DEF EndsName
      <4>2. n \in 1..n
        BY <4>1
      <4> QED BY <1>5, <4>1, <4>2
    <3> QED BY <3>1, <3>2
  <2>4. n \in 0..Len(s)
    BY <1>5
  <2>5. /\ n <= Len(PathDisplay(values, s).shown)
        /\ \A i \in 1..n : PathDisplay(values, s).shown[i] = Slashed(s)[i]
        /\ n = Len(s) => PathDisplay(values, s).shown = Slashed(s)
    BY <1>2, <2>2, <2>3, <2>4, PathBegins
  <2>6. x = PathDisplay(values, s).shown
    BY <1>4, <1>9
  <2> QED BY <1>6, <1>8, <2>5, <2>6 DEF x
<1>10. CASE Range(s) \cap Separators = {}
  <2>1. x = s
    BY <1>4, <1>10
  <2>2. Slashed(s) = s
    BY <1>2, <1>10, SlashedPlain
  <2> QED BY <1>5, <1>6, <1>8, <2>1, <2>2 DEF x
<1> QED BY <1>9, <1>10

\* What is shown of a text has no tokens but those it has, slashes and markers.
LEMMA TextTokens ==
  ASSUME NEW values, Values(values), NEW t \in Texts, t # NonUtf8
  PROVE  Range(Text(values, t).shown) \subseteq Range(t) \cup {"/"} \cup Markers
<1> DEFINE s == HideValues(values, t)
           p == PathDisplay(values, s).shown
           parts == Parts(s, Separators)
<1>1. t \in Strings
  BY TextsAre
<1>2. s \in Strings /\ Masked(s, t)
  BY <1>1, Hidden
<1> HIDE DEF s
<1>3. Range(s) \subseteq Range(t) \cup Markers
  BY <1>1, <1>2, MaskedTokens
<1>4. ASSUME NEW c \in Range(p) PROVE c = "/" \/ c \in Range(s) \/ c \in Markers
  <2>1. p = Joined(ShownParts(values, s))
    BY <1>2, PathHidden
  <2>2. /\ ShownParts(values, s) \in PartLists /\ Len(ShownParts(values, s)) = Len(parts)
        /\ \A i \in 1..Len(parts) : /\ parts[i] \in Strings
                                    /\ ShownParts(values, s)[i] = ShownComponent(values, parts[i])
    BY <1>2, ShownPartsAre
  <2>3. c = "/" \/ \E i \in 1..Len(parts) : c \in Range(ShownComponent(values, parts[i]))
    BY <1>4, <2>1, <2>2, JoinedIs
  <2>4. ASSUME NEW i \in 1..Len(parts), c \in Range(ShownComponent(values, parts[i]))
        PROVE  c \in Range(s) \cup Markers
    <3>1. Within(parts[i], s)
      BY <1>2, PartsAre
    <3>2. Range(parts[i]) \subseteq Range(s)
      BY <1>2, <2>2, <3>1, RangeWithin
    <3>3. Range(ShownComponent(values, parts[i])) \subseteq Range(parts[i]) \cup Markers
      BY <2>2, ComponentTokens
    <3> QED BY <2>4, <3>2, <3>3
  <2> QED BY <2>3, <2>4
<1>5. Text(values, t).shown = IF Range(s) \cap Separators # {} THEN p ELSE s
  BY DEF Text, s
<1> HIDE DEF p
<1> QED BY <1>3, <1>4, <1>5

\* What is not Unicode is shown as a marker.
LEMMA TextNonUtf8 ==
  ASSUME NEW values, Values(values)
  PROVE  /\ Text(values, NonUtf8).shown = <<"[non_utf8_hash]">>
         /\ Text(values, NonUtf8).hidden = TRUE
BY DEF Text

-----------------------------------------------------------------------------
(* The key=value rule of Redactor::command, and redact_url.                *)

\* First: 0, or the place of such a token.
LEMMA FirstIs ==
  ASSUME NEW t \in Strings, NEW tokens
  PROVE  /\ First(t, tokens) \in 0..Len(t)
         /\ First(t, tokens) = 0 <=> \A k \in 1..Len(t) : t[k] \notin tokens
         /\ First(t, tokens) > 0 => t[First(t, tokens)] \in tokens
<1> DEFINE S == Places(t, tokens)
<1>1. Len(t) \in Nat /\ DOMAIN t = 1..Len(t)
  BY DEF Strings
<1>2. S = {k \in 1..Len(t) : t[k] \in tokens}
  BY <1>1 DEF Places
<1>3. CASE S = {}
  <2>1. First(t, tokens) = 0
    BY <1>3 DEF First
  <2> QED BY <1>1, <1>2, <1>3, <2>1
<1>4. CASE S # {}
  <2>1. First(t, tokens) = Min(S)
    BY <1>4 DEF First
  <2>2. S \in SUBSET Nat
    BY <1>1, <1>2
  <2>3. \E n \in S : \A m \in S : n <= m
    BY <1>4, <2>2, LeastNumber
  <2>4. Min(S) \in S
    BY <2>3 DEF Min
  <2> QED BY <1>1, <1>2, <2>1, <2>4
<1> QED BY <1>3, <1>4

\* First is the least such place.
LEMMA FirstLeast ==
  ASSUME NEW t \in Strings, NEW tokens
  PROVE  \A k \in 1..First(t, tokens) - 1 : t[k] \notin tokens
<1> DEFINE S == Places(t, tokens)
<1>1. Len(t) \in Nat /\ DOMAIN t = 1..Len(t) /\ First(t, tokens) \in 0..Len(t)
  BY FirstIs DEF Strings
<1>2. S = {k \in 1..Len(t) : t[k] \in tokens}
  BY <1>1 DEF Places
<1>3. CASE S = {}
  <2>1. First(t, tokens) = 0
    BY <1>3 DEF First
  <2> QED BY <2>1
<1>4. CASE S # {}
  <2>1. First(t, tokens) = Min(S)
    BY <1>4 DEF First
  <2>2. S \in SUBSET Nat
    BY <1>1, <1>2
  <2>3. \E n \in S : \A m \in S : n <= m
    BY <1>4, <2>2, LeastNumber
  <2>4. \A m \in S : Min(S) <= m
    BY <2>3 DEF Min
  <2> DEFINE f == First(t, tokens)
  <2> HIDE DEF f
  <2>5. ASSUME NEW k \in 1..f - 1 PROVE t[k] \notin tokens
    <3>1. k \in 1..Len(t) /\ ~(f <= k)
      BY <1>1 DEF f
    <3> QED BY <1>2, <2>1, <2>4, <3>1 DEF f
  <2> QED BY <2>5 DEF f
<1> QED BY <1>3, <1>4

\* The only place that can be the first.
LEMMA FirstAt ==
  ASSUME NEW t \in Strings, NEW tokens, NEW k \in 1..Len(t), t[k] \in tokens,
         \A i \in 1..k - 1 : t[i] \notin tokens
  PROVE  First(t, tokens) = k
<1> DEFINE f == First(t, tokens)
<1>1. /\ f \in 0..Len(t) /\ (f = 0 <=> \A i \in 1..Len(t) : t[i] \notin tokens)
      /\ (f > 0 => t[f] \in tokens) /\ \A i \in 1..f - 1 : t[i] \notin tokens
  BY FirstIs, FirstLeast
<1> HIDE DEF f
<1>2. Len(t) \in Nat
  BY DEF Strings
<1>3. f \in 1..Len(t)
  BY <1>1, <1>2
<1>4. ~(f < k) /\ ~(k < f)
  BY <1>1, <1>2, <1>3
<1>5. f = k
  BY <1>2, <1>3, <1>4
<1> QED BY <1>5 DEF f

\* The first k tokens.
LEMMA Prefix ==
  ASSUME NEW t \in Strings, NEW k \in 0..Len(t)
  PROVE  /\ SubSeq(t, 1, k) \in Strings /\ Len(SubSeq(t, 1, k)) = k
         /\ \A i \in 1..k : SubSeq(t, 1, k)[i] = t[i]
<1> DEFINE d == 0
<1>1. d \in Nat /\ k \in Nat /\ d + k <= Len(t) /\ d + 1 = 1 /\ d + k = k
      /\ \A i \in 1..k : d + i = i
  BY DEF Strings
<1> HIDE DEF d
<1>2. SubSeq(t, d + 1, d + k) \in Strings /\ Len(SubSeq(t, d + 1, d + k)) = k
      /\ \A i \in 1..k : SubSeq(t, d + 1, d + k)[i] = t[d + i]
  BY <1>1, CutIs
<1> QED BY <1>1, <1>2

\* Two tokens are one after the other.
LEMMA TwoTokens ==
  ASSUME NEW a \in Tokens, NEW b \in Tokens
  PROVE  /\ <<a>> \in Strings /\ <<b>> \in Strings /\ <<a, b>> \in Strings
         /\ <<a, b>> = <<a>> \o <<b>>
<1> DEFINE x == <<a>>
           z == <<a, b>>
<1>1. x \in Strings /\ Len(x) = 1 /\ x[1] = a
  BY OneToken DEF Strings
<1>2. z \in Strings /\ Len(z) = 2 /\ z[1] = a /\ z[2] = b
  BY DEF Strings
<1>3. <<b>> \in Strings
  BY OneToken DEF Strings
<1> DEFINE w == x \o <<b>>
<1> HIDE DEF x, z
<1>4. w \in Strings /\ Len(w) = 2 /\ w[2] = b /\ w[1] = a
  <2>1. /\ x \o <<b>> \in Strings /\ Len(x \o <<b>>) = Len(x) + 1
        /\ (x \o <<b>>)[Len(x) + 1] = b /\ \A i \in 1..Len(x) : (x \o <<b>>)[i] = x[i]
    BY <1>1, OneMore
  <2>2. w = x \o <<b>>
    OBVIOUS
  <2> HIDE DEF w
  <2>3. w \in Strings /\ Len(w) = Len(x) + 1 /\ w[Len(x) + 1] = b /\ \A i \in 1..Len(x) : w[i] = x[i]
    BY <2>1, <2>2, Zenon
  <2> QED BY <1>1, <2>3
<1> HIDE DEF w
<1>5. \A i \in 1..2 : z[i] = w[i]
  BY <1>2, <1>4
<1>6. z = w
  BY <1>2, <1>4, <1>5, SameString
<1> QED BY <1>1, <1>2, <1>3, <1>6 DEF x, z, w

\* A text cut after its first k tokens.
LEMMA SplitAt ==
  ASSUME NEW t \in Strings, NEW k \in 0..Len(t), NEW m, m = k + 1
  PROVE  /\ SubSeq(t, 1, k) \in Strings /\ SubSeq(t, m, Len(t)) \in Strings
         /\ Len(SubSeq(t, 1, k)) = k
         /\ t = SubSeq(t, 1, k) \o SubSeq(t, m, Len(t))
<1> DEFINE x == SubSeq(t, 1, k)
           y == SubSeq(t, m, Len(t))
           e == Len(t) - k
<1>1. Len(t) \in Nat /\ k \in Nat /\ e \in Nat /\ k + e = Len(t)
  BY DEF Strings
<1>3. x \in Strings /\ Len(x) = k /\ \A i \in 1..k : x[i] = t[i]
  BY <1>1, Prefix
<1>4. SubSeq(t, k + 1, k + e) \in Strings /\ Len(SubSeq(t, k + 1, k + e)) = e
      /\ \A i \in 1..e : SubSeq(t, k + 1, k + e)[i] = t[k + i]
  <2> HIDE DEF e
  <2>1. k \in Nat /\ e \in Nat /\ k + e <= Len(t)
    BY <1>1
  <2> QED BY <2>1, CutIs, Zenon
<1>5. y \in Strings /\ Len(y) = e /\ \A i \in 1..e : y[i] = t[k + i]
  <2> HIDE DEF e
  <2> QED BY <1>1, <1>4
<1> HIDE DEF x, y, e
<1>6. /\ x \o y \in Strings /\ Len(x \o y) = Len(x) + Len(y)
      /\ \A i \in 1..Len(x) : (x \o y)[i] = x[i]
      /\ \A i \in 1..Len(y) : (x \o y)[Len(x) + i] = y[i]
  BY <1>3, <1>5, TwoStrings
<1>7. \A i \in 1..Len(t) : t[i] = (x \o y)[i]
  <2>1. ASSUME NEW i \in 1..Len(t), i <= k PROVE t[i] = (x \o y)[i]
    BY <1>3, <1>6, <2>1
  <2>2. ASSUME NEW i \in 1..Len(t), i > k PROVE t[i] = (x \o y)[i]
    <3> DEFINE j == i - k
    <3>1. j \in 1..e /\ k + j = i
      BY <1>1, <2>2
    <3> HIDE DEF j
    <3> QED BY <1>3, <1>5, <1>6, <3>1
  <2>3. \A i \in 1..Len(t) : i <= k \/ i > k
    BY <1>1
  <2> QED BY <2>1, <2>2, <2>3
<1>8. t = x \o y
  BY <1>1, <1>3, <1>5, <1>6, <1>7, SameString
<1> QED BY <1>3, <1>5, <1>8 DEF x, y

\* One token more of a prefix.
LEMMA PrefixMore ==
  ASSUME NEW t \in Strings, NEW k \in 1..Len(t)
  PROVE  SubSeq(t, 1, k) = SubSeq(t, 1, k - 1) \o <<t[k]>>
<1> DEFINE x == SubSeq(t, 1, k)
           y == SubSeq(t, 1, k - 1)
<1>1. Len(t) \in Nat /\ k \in Nat /\ k - 1 \in Nat
      /\ t[k] \in Tokens
  BY DEF Strings
<1>3. x \in Strings /\ Len(x) = k /\ \A i \in 1..k : x[i] = t[i]
  BY <1>1, Prefix
<1>5. y \in Strings /\ Len(y) = k - 1 /\ \A i \in 1..k - 1 : y[i] = t[i]
  <2> DEFINE j == k - 1
  <2>1. j \in 0..Len(t)
    BY <1>1
  <2> HIDE DEF j
  <2>2. SubSeq(t, 1, j) \in Strings /\ Len(SubSeq(t, 1, j)) = j
        /\ \A i \in 1..j : SubSeq(t, 1, j)[i] = t[i]
    BY <2>1, Prefix
  <2> QED BY <2>2 DEF j
<1> HIDE DEF x, y
<1>6. /\ y \o <<t[k]>> \in Strings /\ Len(y \o <<t[k]>>) = Len(y) + 1
      /\ (y \o <<t[k]>>)[Len(y) + 1] = t[k] /\ \A i \in 1..Len(y) : (y \o <<t[k]>>)[i] = y[i]
  BY <1>1, <1>5, OneMore
<1>7. \A i \in 1..k : i = k \/ i \in 1..k - 1
  BY <1>1
<1>8. Len(y) + 1 = k
  BY <1>1, <1>5
<1> DEFINE z == y \o <<t[k]>>
<1>9. z \in Strings /\ Len(z) = k /\ \A i \in 1..k : z[i] = x[i]
  BY <1>3, <1>5, <1>6, <1>7, <1>8
<1> HIDE DEF z
<1>10. x = z
  BY <1>3, <1>9, SameString
<1> QED BY <1>10 DEF x, y, z

\* Something said behind a text hides nothing of it that could be read.
LEMMA NoteBehind ==
  ASSUME NEW x \in Strings, NEW m \in Markers
  PROVE  x \o <<m>> \in Strings /\ m \in Range(x \o <<m>>) /\ Masked(x \o <<m>>, x)
<1>1. m \in Tokens
  BY TokensAre
<1>2. x \o <<m>> \in Strings /\ Range(x \o <<m>>) = Range(x) \cup {m}
  BY <1>1, OneMore, RangeMore
<1>3. <<>> \in Strings /\ Range(<<>>) = {}
  BY EmptyString
<1>4. (x \o <<m>>) \o <<>> = x \o <<m>>
  BY <1>2, NoneAfter
<1>5. ASSUME NEW u \in Strings, Bare(u), Occurs(u, x \o <<m>>) PROVE Occurs(u, x)
  <2>1. u # <<>> /\ m \notin Range(u)
    BY <1>5 DEF Bare
  <2>2. Occurs(u, (x \o <<m>>) \o <<>>)
    BY <1>4, <1>5, Zenon
  <2>3. Occurs(u, x) \/ Occurs(u, <<>>)
    BY <1>1, <1>3, <2>1, <2>2, OccursBeside
  <2>4. ~Occurs(u, <<>>)
    BY <1>3, <2>1, OccursSomewhere, EmptyString
  <2> QED BY <2>3, <2>4
<1> QED BY <1>2, <1>5 DEF Masked

\* A text that begins another is masked by it, and so is one that ends it.
LEMMA MaskedByWhole ==
  ASSUME NEW x \in Strings, NEW y \in Strings
  PROVE  Masked(x, x \o y) /\ Masked(y, x \o y)
BY OccursInFirst, OccursInLast DEF Masked, Bare

\* Two masked texts with a marker between them are one.
LEMMA MarkBetween ==
  ASSUME NEW x \in Strings, NEW y \in Strings, NEW t \in Strings, NEW m \in Markers,
         Masked(x, t), Masked(y, t)
  PROVE  Masked((x \o <<m>>) \o y, t)
BY OccursBeside, TokensAre DEF Masked, Bare

\* truncate and push: the tokens before the first one, the token, a note.
LEMMA Cuts ==
  ASSUME NEW p \in Strings, NEW t \in Strings, NEW token \in Tokens, NEW note \in Markers
  PROVE  /\ CutAt(t, token, note) \in Strings
         /\ CutAt(t, token, note) = t \/ note \in Range(CutAt(t, token, note))
         /\ Masked(p \o CutAt(t, token, note), p \o t)
<1> DEFINE k == First(t, {token})
           y == CutAt(t, token, note)
           x == SubSeq(t, 1, k)
<1>1. CASE k = 0
  <2>1. y = t
    BY <1>1 DEF CutAt
  <2> QED BY <2>1, MaskedIsReflexive
<1>2. CASE k # 0
  <2>1. k \in 0..Len(t) /\ k > 0 /\ t[k] = token
    BY <1>2, FirstIs
  <2>2. k \in 1..Len(t) /\ k \in 0..Len(t)
    BY <2>1
  <2>3. x = SubSeq(t, 1, k - 1) \o <<token>>
    <3> HIDE DEF k
    <3> QED BY <2>1, <2>2, PrefixMore
  <2>4. y = SubSeq(t, 1, k - 1) \o <<token, note>>
    BY <1>2 DEF CutAt
  <2>5. SubSeq(t, 1, k - 1) \in Strings /\ <<token>> \in Strings /\ <<note>> \in Strings
    <3> DEFINE j == k - 1
    <3>1. j \in 0..Len(t)
      BY <2>2 DEF Strings
    <3> HIDE DEF j, k
    <3>2. SubSeq(t, 1, j) \in Strings
      BY <3>1, SplitAt
    <3> QED BY <3>2, OneToken, OneMarker DEF Strings, j
  <2>6. <<token, note>> = <<token>> \o <<note>>
    BY TwoTokens, TokensAre
  <2>7. y = x \o <<note>>
    <3> DEFINE q == SubSeq(t, 1, k - 1)
    <3>1. q \in Strings /\ y = q \o (<<token>> \o <<note>>) /\ x = q \o <<token>>
      BY <2>3, <2>4, <2>5, <2>6
    <3> HIDE DEF k, x, y, q
    <3>2. (q \o <<token>>) \o <<note>> = q \o (<<token>> \o <<note>>)
      BY <2>5, <3>1, Regroup
    <3> QED BY <3>1, <3>2
  <2>8. x \in Strings /\ t = x \o SubSeq(t, k + 1, Len(t)) /\ SubSeq(t, k + 1, Len(t)) \in Strings
    <3> HIDE DEF k
    <3> QED BY <2>2, SplitAt
  <2> DEFINE rest == SubSeq(t, k + 1, Len(t))
  <2>9. rest \in Strings /\ t = x \o rest
    BY <2>8
  <2> HIDE DEF k, x, y, rest
  <2>10. y \in Strings /\ note \in Range(y)
    BY <2>7, <2>8, NoteBehind
  <2>11. p \o x \in Strings
    BY <2>8, TwoStrings
  <2>12. p \o y = (p \o x) \o <<note>>
    <3>1. x \in Strings /\ <<note>> \in Strings
      BY <2>5, <2>8
    <3>2. (p \o x) \o <<note>> = p \o (x \o <<note>>)
      BY <3>1, Regroup
    <3> QED BY <2>7, <3>2, Zenon
  <2>13. p \o t = (p \o x) \o rest
    <3>1. p \in Strings /\ x \in Strings /\ rest \in Strings
      BY <2>8, <2>9
    <3>2. (p \o x) \o rest = p \o (x \o rest)
      BY <3>1, Regroup
    <3> QED BY <2>9, <3>2, Zenon
  <2>14. Masked(p \o y, p \o x)
    BY <2>11, <2>12, NoteBehind
  <2>15. Masked(p \o x, p \o t)
    BY <2>9, <2>11, <2>13, MaskedByWhole
  <2>16. Masked(p \o y, p \o t)
    BY <2>14, <2>15, MaskedIsTransitive
  <2> QED BY <2>10, <2>16 DEF y
<1> QED BY <1>1, <1>2

\* The key and what follows it: the mark is behind the first equals sign.
LEMMA KeyIs ==
  ASSUME NEW t \in Strings, First(t, {"="}) # 0
  PROVE  /\ First(t, {"="}) \in 1..Len(t) /\ t[First(t, {"="})] = "="
         /\ Key(t) = SubSeq(t, 1, First(t, {"="}) - 1) /\ Key(t) \in Strings
         /\ Len(Key(t)) = First(t, {"="}) - 1
         /\ \A i \in 1..First(t, {"="}) - 1 : Key(t)[i] = t[i]
         /\ Key(t) \o <<"=">> = SubSeq(t, 1, First(t, {"="}))
         /\ Key(t) \o <<"=", Mark>> = SubSeq(t, 1, First(t, {"="})) \o <<Mark>>
         /\ <<"=">> \in Strings /\ <<Mark>> \in Strings
<1> DEFINE k == First(t, {"="})
<1>1. k \in 1..Len(t) /\ t[k] = "="
  <2>1. k \in 0..Len(t) /\ k # 0 /\ (k > 0 => t[k] = "=")
    BY FirstIs
  <2> HIDE DEF k
  <2> QED BY <2>1 DEF Strings
<1>2. Key(t) = SubSeq(t, 1, k - 1)
  BY DEF Key
<1> HIDE DEF k
<1> DEFINE j == k - 1
<1>3. j \in 0..Len(t)
  BY <1>1 DEF Strings
<1>4. Key(t) = SubSeq(t, 1, j)
  BY <1>2
<1> HIDE DEF j
<1>5. Key(t) \in Strings /\ Len(Key(t)) = j /\ \A i \in 1..j : Key(t)[i] = t[i]
  BY <1>3, <1>4, Prefix
<1>6. Key(t) \o <<"=">> = SubSeq(t, 1, k)
  BY <1>1, <1>2, PrefixMore
<1>7. "=" \in Tokens /\ Mark \in Tokens
  BY TokensAre, MarkersAre
<1>8. <<"=">> \in Strings /\ <<Mark>> \in Strings /\ <<"=", Mark>> = <<"=">> \o <<Mark>>
  BY <1>7, TwoTokens
<1>9. Key(t) \o <<"=", Mark>> = SubSeq(t, 1, k) \o <<Mark>>
  <2>1. (Key(t) \o <<"=">>) \o <<Mark>> = Key(t) \o (<<"=">> \o <<Mark>>)
    BY <1>5, <1>8, Regroup
  <2> QED BY <1>6, <1>8, <2>1, Zenon
<1> QED BY <1>1, <1>2, <1>5, <1>6, <1>8, <1>9 DEF k, j

\* Redactor::redact_inline: either nothing or everything behind the key.
LEMMA InlineIs ==
  ASSUME NEW t \in Strings
  PROVE  /\ ShownInline(t) \in Strings /\ Masked(ShownInline(t), t)
         /\ SensitiveInline(t) => /\ Noted(ShownInline(t)) /\ ShownInline(t) # <<Mark>>
         /\ ~SensitiveInline(t) => ShownInline(t) = t
<1>1. CASE SensitiveInline(t)
  <2> DEFINE k == First(t, {"="})
             x == SubSeq(t, 1, k)
  <2>1. k # 0
    BY <1>1 DEF SensitiveInline
  <2>2. ShownInline(t) = x \o <<Mark>> /\ k \in 1..Len(t)
    BY <1>1, <2>1, KeyIs DEF ShownInline
  <2> HIDE DEF k
  <2>3. k \in 0..Len(t)
    BY <2>2
  <2>4. x \in Strings /\ Len(x) = k /\ t = x \o SubSeq(t, k + 1, Len(t))
        /\ SubSeq(t, k + 1, Len(t)) \in Strings
    BY <2>3, SplitAt
  <2> DEFINE rest == SubSeq(t, k + 1, Len(t))
             y == x \o <<Mark>>
  <2>5. rest \in Strings /\ t = x \o rest
    BY <2>4
  <2> HIDE DEF x, rest
  <2>6. Masked(x, t)
    <3>1. Masked(x, x \o rest)
      BY <2>4, <2>5, MaskedByWhole
    <3> QED BY <2>5, <3>1, Zenon
  <2>7. y \in Strings /\ Mark \in Range(y) /\ Masked(y, x)
    BY <2>4, NoteBehind, MarkersAre
  <2>8. Masked(y, t)
    BY <2>6, <2>7, MaskedIsTransitive
  <2>9. Len(y) = k + 1
    <3>1. Mark \in Tokens
      BY MarkersAre, TokensAre
    <3> QED BY <2>4, <3>1, OneMore
  <2> HIDE DEF y
  <2>10. y # <<Mark>>
    <3>1. Len(y) # 1
      BY <2>2, <2>9
    <3>2. Len(<<Mark>>) = 1
      BY OneToken
    <3> QED BY <3>1, <3>2, Zenon
  <2> QED BY <1>1, <2>2, <2>7, <2>8, <2>10, MarkersAre DEF Noted, y
<1>2. CASE ~SensitiveInline(t)
  BY <1>2, MaskedIsReflexive DEF ShownInline
<1> QED BY <1>1, <1>2

\* Where a URL begins, and its last at-sign.
LEMMA UrlStart ==
  ASSUME NEW t \in Strings, NEW S, S = {k \in DOMAIN t : OccursAt(<<":", "/", "/">>, t, k)},
         S # {}
  PROVE  /\ Min(S) + 2 \in 3..Len(t) /\ Min(S) + 2 \in 0..Len(t)
         /\ Min(S) + 3 = Min(S) + 2 + 1
<1>1. DOMAIN t = 1..Len(t) /\ Len(t) \in Nat
  BY DEF Strings
<1>2. \E n \in S : \A m \in S : n <= m
  <2>1. S \in SUBSET Nat
    BY <1>1
  <2> QED BY <2>1, LeastNumber
<1>3. Min(S) \in S
  BY <1>2 DEF Min
<1>4. Min(S) \in 1..Len(t) /\ OccursAt(<<":", "/", "/">>, t, Min(S))
  BY <1>1, <1>3
<1>5. Len(<<":", "/", "/">>) = 3
  OBVIOUS
<1>6. Min(S) + 3 - 1 <= Len(t)
  BY <1>4, <1>5 DEF OccursAt
<1> DEFINE k == Min(S)
<1>7. k \in 1..Len(t) /\ k + 3 - 1 <= Len(t)
  BY <1>4, <1>6
<1> HIDE DEF k
<1>8. k + 2 \in 3..Len(t) /\ k + 2 \in 0..Len(t) /\ k + 3 = k + 2 + 1
  BY <1>1, <1>7
<1> QED BY <1>8 DEF k

\* Max of a nonempty set of places.
LEMMA Largest ==
  ASSUME NEW n \in Nat, NEW S \in SUBSET (1..n), S # {}
  PROVE  Max(S) \in S
<1> DEFINE N == {n - k : k \in S}
<1>1. N \in SUBSET Nat /\ N # {}
  <2>1. \A k \in S : n - k \in Nat
    OBVIOUS
  <2> QED BY <2>1
<1>2. PICK least \in N : \A m \in N : least <= m
  <2> HIDE DEF N
  <2> QED BY <1>1, LeastNumber
<1>3. PICK k \in S : least = n - k
  BY <1>2
<1>4. \A m \in S : k >= m
  <2>1. ASSUME NEW m \in S PROVE k >= m
    <3>1. n - k <= n - m
      BY <1>2, <1>3
    <3> QED BY <1>3, <3>1
  <2> QED BY <2>1
<1> QED BY <1>3, <1>4 DEF Max

\* The last place of a token is a place.
LEMMA LastPlace ==
  ASSUME NEW t \in Strings, NEW tokens, Places(t, tokens) # {}
  PROVE  Max(Places(t, tokens)) \in 1..Len(t)
<1>1. Len(t) \in Nat /\ Places(t, tokens) \subseteq 1..Len(t)
  BY DEF Places, Strings
<1>2. Max(Places(t, tokens)) \in Places(t, tokens)
  BY <1>1, Largest
<1> QED BY <1>1, <1>2

\* Redactor::redact_url: either nothing, or a marker for what a URL may carry.
LEMMA UrlIs ==
  ASSUME NEW t \in Strings
  PROVE  /\ RedactUrl(t) \in Strings /\ Masked(RedactUrl(t), t)
         /\ RedactUrl(t) = t \/ Noted(RedactUrl(t))
         /\ RedactUrl(t) = <<Mark>> => t = <<Mark>>
         /\ "/" \notin Range(t) => RedactUrl(t) = t
<1> DEFINE start == {k \in DOMAIN t : OccursAt(<<":", "/", "/">>, t, k)}
           scheme == SubSeq(t, 1, Min(start) + 2)
           rest == SubSeq(t, Min(start) + 3, Len(t))
           boundary == First(rest, {"/", "?", "#"})
           authority == IF boundary = 0 THEN rest ELSE SubSeq(rest, 1, boundary - 1)
           suffix == IF boundary = 0 THEN <<>> ELSE SubSeq(rest, boundary, Len(rest))
           at == Places(authority, {"@"})
           host == SubSeq(authority, Max(at), Len(authority))
           named == IF at = {} THEN authority ELSE <<Mark>> \o host
           query == CutAt(suffix, "?", "[redacted-query]")
           end == CutAt(query, "#", "[redacted-fragment]")
           y == RedactUrl(t)
<1>1. CASE start = {}
  <2>1. y = t
    BY <1>1, Zenon DEF RedactUrl
  <2> QED BY <2>1, MaskedIsReflexive
<1>2. CASE start # {}
  <2>1. y = scheme \o named \o end
    <3> HIDE DEF query, end
    <3> QED BY <1>2, Zenon DEF RedactUrl, query, end
  <2>2. Min(start) + 2 \in 3..Len(t) /\ Min(start) + 2 \in 0..Len(t)
        /\ Min(start) + 3 = Min(start) + 2 + 1
    <3> HIDE DEF start
    <3> QED BY <1>2, UrlStart DEF start
  <2>3. scheme \in Strings /\ rest \in Strings /\ t = scheme \o rest /\ Len(scheme) >= 3
    <3> DEFINE k == Min(start) + 2
               m == Min(start) + 3
    <3>1. k \in 0..Len(t) /\ m = k + 1 /\ k >= 3
      BY <2>2
    <3>2. scheme = SubSeq(t, 1, k) /\ rest = SubSeq(t, m, Len(t))
      OBVIOUS
    <3> HIDE DEF k, m, scheme, rest
    <3>3. /\ SubSeq(t, 1, k) \in Strings /\ SubSeq(t, m, Len(t)) \in Strings
          /\ Len(SubSeq(t, 1, k)) = k
          /\ t = SubSeq(t, 1, k) \o SubSeq(t, m, Len(t))
      BY <3>1, SplitAt
    <3> QED BY <3>1, <3>2, <3>3
  <2> HIDE DEF start, scheme, rest
  <2>4. authority \in Strings /\ suffix \in Strings /\ rest = authority \o suffix
    <3>1. CASE boundary = 0
      <4>1. authority = rest /\ suffix = <<>>
        BY <3>1
      <4> HIDE DEF boundary, authority, suffix
      <4> QED BY <2>3, <4>1, EmptyString, NoneAfter
    <3>2. CASE boundary # 0
      <4> DEFINE k == boundary - 1
      <4>1. boundary \in 0..Len(rest) /\ Len(rest) \in Nat
        BY <2>3, FirstIs DEF Strings
      <4>2. k \in 0..Len(rest) /\ boundary = k + 1
        <5> HIDE DEF boundary
        <5> QED BY <3>2, <4>1
      <4>3. authority = SubSeq(rest, 1, k) /\ suffix = SubSeq(rest, boundary, Len(rest))
        BY <3>2
      <4> HIDE DEF boundary, authority, suffix, k
      <4>4. /\ SubSeq(rest, 1, k) \in Strings /\ SubSeq(rest, boundary, Len(rest)) \in Strings
            /\ rest = SubSeq(rest, 1, k) \o SubSeq(rest, boundary, Len(rest))
        BY <2>3, <4>2, SplitAt
      <4> QED BY <4>3, <4>4, Zenon
    <3> QED BY <3>1, <3>2
  <2> HIDE DEF boundary, authority, suffix
  <2>5. /\ query \in Strings /\ (query = suffix \/ "[redacted-query]" \in Range(query))
        /\ \A p \in Strings : Masked(p \o query, p \o suffix)
    <3>1. "?" \in Tokens /\ "[redacted-query]" \in Markers
      BY TokensAre, MarkersAre
    <3> QED BY <2>4, <3>1, Cuts
  <2> HIDE DEF query
  <2>6. /\ end \in Strings /\ (end = query \/ "[redacted-fragment]" \in Range(end))
        /\ \A p \in Strings : Masked(p \o end, p \o query)
    <3>1. "#" \in Tokens /\ "[redacted-fragment]" \in Markers
      BY TokensAre, MarkersAre
    <3> QED BY <2>5, <3>1, Cuts
  <2> HIDE DEF end
  <2>7. end = suffix \/ Noted(end)
    BY <2>5, <2>6, MarkersAre DEF Noted
  <2>8. /\ named \in Strings /\ (named = authority \/ Noted(named))
        /\ Masked((scheme \o named) \o suffix, t)
    <3>1. t = scheme \o (authority \o suffix)
      BY <2>3, <2>4, Zenon
    <3>2. CASE at = {}
      <4>1. named = authority
        BY <3>2
      <4> HIDE DEF named, at
      <4>2. (scheme \o named) \o suffix = t
        <5>1. (scheme \o authority) \o suffix = scheme \o (authority \o suffix)
          <6>1. scheme \in Strings /\ authority \in Strings /\ suffix \in Strings
            BY <2>3, <2>4
          <6> QED BY <6>1, Regroup
        <5> QED BY <3>1, <4>1, <5>1, Zenon
      <4> QED BY <2>4, <4>1, <4>2, MaskedIsReflexive
    <3>3. CASE at # {}
      <4> DEFINE m == Max(at)
                 k == m - 1
                 user == SubSeq(authority, 1, k)
      <4>1. m \in 1..Len(authority) /\ Len(authority) \in Nat
        BY <2>4, <3>3, LastPlace DEF Strings
      <4>2. host = SubSeq(authority, m, Len(authority)) /\ named = <<Mark>> \o host
        BY <3>3
      <4> HIDE DEF m, host, named, at
      <4>3. k \in 0..Len(authority) /\ m = k + 1
        BY <4>1
      <4> HIDE DEF k
      <4>4. user \in Strings /\ host \in Strings /\ authority = user \o host
        <5>1. /\ SubSeq(authority, 1, k) \in Strings
              /\ SubSeq(authority, m, Len(authority)) \in Strings
              /\ authority = SubSeq(authority, 1, k) \o SubSeq(authority, m, Len(authority))
          BY <2>4, <4>3, SplitAt
        <5> QED BY <4>2, <5>1, Zenon
      <4> HIDE DEF user
      <4>5. Mark \in Tokens /\ Mark \in Markers /\ <<Mark>> \in Strings
        BY MarkersAre, TokensAre, OneMarker
      <4>6. named \in Strings /\ Range(named) = {Mark} \cup Range(host)
        BY <4>2, <4>4, <4>5, OneBefore
      <4>7. Noted(named)
        BY <4>5, <4>6 DEF Noted
      <4>8. host \o suffix \in Strings /\ scheme \o user \in Strings
        BY <2>3, <2>4, <4>4, TwoStrings
      <4>9. (scheme \o named) \o suffix = (scheme \o <<Mark>>) \o (host \o suffix)
        <5>1. (scheme \o <<Mark>>) \o (host \o suffix) = scheme \o ((<<Mark>> \o host) \o suffix)
          <6>1. scheme \in Strings /\ host \in Strings /\ suffix \in Strings
            BY <2>3, <2>4, <4>4
          <6>2. \A z, w \in Strings :
                  (scheme \o <<Mark>>) \o (z \o w) = scheme \o ((<<Mark>> \o z) \o w)
            BY <4>5, <6>1, FourStrings, Zenon
          <6> QED BY <6>1, <6>2, Zenon
        <5>2. (scheme \o named) \o suffix = scheme \o (named \o suffix)
          <6>1. scheme \in Strings /\ named \in Strings /\ suffix \in Strings
            BY <2>3, <2>4, <4>6
          <6> QED BY <6>1, Regroup
        <5> QED BY <4>2, <5>1, <5>2, Zenon
      <4>10. t = (scheme \o user) \o (host \o suffix)
        <5>1. (scheme \o user) \o (host \o suffix) = scheme \o ((user \o host) \o suffix)
          <6>1. /\ scheme \in Strings /\ user \in Strings /\ host \in Strings
                /\ suffix \in Strings
            BY <2>3, <2>4, <4>4
          <6>2. \A z, w \in Strings : (scheme \o user) \o (z \o w) = scheme \o ((user \o z) \o w)
            BY <6>1, FourStrings, Zenon
          <6> QED BY <6>1, <6>2, Zenon
        <5> QED BY <3>1, <4>4, <5>1, Zenon
      <4>11. Masked(scheme, t)
        <5>1. rest \in Strings /\ t = scheme \o rest
          BY <2>3
        <5>2. Masked(scheme, scheme \o rest)
          BY <2>3, MaskedByWhole
        <5> QED BY <5>1, <5>2, Zenon
      <4>12. Masked(host \o suffix, t)
        <5>1. Masked(host \o suffix, (scheme \o user) \o (host \o suffix))
          BY <4>8, MaskedByWhole
        <5> QED BY <4>10, <5>1, Zenon
      <4>13. Masked((scheme \o <<Mark>>) \o (host \o suffix), t)
        BY <2>3, <4>5, <4>8, <4>11, <4>12, MarkBetween
      <4>14. Masked((scheme \o named) \o suffix, t)
        BY <4>9, <4>13, Zenon
      <4> QED BY <4>6, <4>7, <4>14
    <3> QED BY <3>2, <3>3
  <2> HIDE DEF at, host, named
  <2>9. scheme \o named \in Strings /\ Len(scheme \o named) = Len(scheme) + Len(named)
        /\ Range(scheme \o named) = Range(scheme) \cup Range(named)
    BY <2>3, <2>8, TwoStrings, RangeOfTwo
  <2>10. y \in Strings /\ Len(y) = Len(scheme \o named) + Len(end)
         /\ Range(y) = Range(scheme) \cup Range(named) \cup Range(end)
    <3> DEFINE x == scheme \o named
    <3>1. y = x \o end /\ x \in Strings /\ end \in Strings
      BY <2>1, <2>6, <2>9
    <3> HIDE DEF x, y
    <3>2. x \o end \in Strings /\ Len(x \o end) = Len(x) + Len(end)
      BY <3>1, TwoStrings
    <3>3. Range(x \o end) = Range(x) \cup Range(end)
      BY <3>1, RangeOfTwo
    <3> QED BY <2>9, <3>1, <3>2, <3>3, Zenon DEF x
  <2> HIDE DEF y
  <2>11. Masked(y, t)
    <3>1. Masked(y, (scheme \o named) \o query)
      BY <2>1, <2>6, <2>9
    <3>2. Masked((scheme \o named) \o query, (scheme \o named) \o suffix)
      BY <2>5, <2>9
    <3> QED BY <2>8, <3>1, <3>2, MaskedIsTransitive
  <2>12. y = t \/ Noted(y)
    <3>1. CASE named = authority /\ end = suffix
      <4>1. (scheme \o authority) \o suffix = scheme \o (authority \o suffix)
        <5>1. scheme \in Strings /\ authority \in Strings /\ suffix \in Strings
          BY <2>3, <2>4
        <5> QED BY <5>1, Regroup
      <4>2. y = t
        BY <2>1, <2>3, <2>4, <3>1, <4>1, Zenon
      <4> QED BY <4>2
    <3>2. CASE Noted(named) \/ Noted(end)
      BY <2>10, <3>2 DEF Noted
    <3> QED BY <2>7, <2>8, <3>1, <3>2
  <2>13. y # <<Mark>>
    <3>1. Len(y) >= 3 /\ Len(y) \in Nat
      BY <2>3, <2>6, <2>8, <2>9, <2>10 DEF Strings
    <3>2. Len(<<Mark>>) = 1
      BY OneToken
    <3>3. Len(y) # 1
      <4> DEFINE n == Len(y)
      <4>1. n >= 3 /\ n \in Nat
        BY <3>1
      <4> HIDE DEF n
      <4>2. n # 1
        BY <4>1
      <4> QED BY <4>2 DEF n
    <3> QED BY <3>2, <3>3, Zenon
  <2>14. "/" \in Range(t)
    <3>1. PICK k \in DOMAIN t : OccursAt(<<":", "/", "/">>, t, k)
      BY <1>2 DEF start
    <3> DEFINE v == <<":", "/", "/">>
    <3>2. Len(v) = 3 /\ v[2] = "/"
      OBVIOUS
    <3>3. k + 3 - 1 <= Len(t) /\ SubSeq(t, k, k + 3 - 1) = v
      BY <3>1, <3>2 DEF OccursAt
    <3> HIDE DEF v
    <3>4. k \in 1..Len(t) /\ Len(t) \in Nat /\ t \in Seq(Tokens)
      BY DEF Strings
    <3>5. k + 1 \in 1..Len(t)
      BY <3>3, <3>4
    <3> DEFINE d == k - 1
    <3>6. d \in Nat /\ d + 3 <= Len(t) /\ d + 1 = k /\ d + 3 = k + 3 - 1 /\ d + 2 = k + 1
      BY <3>3, <3>4
    <3> HIDE DEF d
    <3>7. \A i \in 1..3 : SubSeq(t, d + 1, d + 3)[i] = t[d + i]
      BY <3>6, CutIs
    <3>8. SubSeq(t, d + 1, d + 3) = v
      BY <3>3, <3>6, Zenon
    <3>9. t[k + 1] = "/"
      BY <3>2, <3>6, <3>7, <3>8
    <3> QED BY <3>5, <3>9, <3>4 DEF Range
  <2> QED BY <2>10, <2>11, <2>12, <2>13, <2>14 DEF y
<1> QED BY <1>1, <1>2

-----------------------------------------------------------------------------
(* Redactor::command: one argument that is shown.                          *)

\* Slashes bring no marker into a text.
LEMMA SlashedUnnoted ==
  ASSUME NEW t \in Texts
  PROVE  Slashed(t) \in Strings /\ ~Noted(Slashed(t))
<1>1. t \in Strings /\ Range(t) \cap Markers = {}
  BY TextsAre
<1>2. /\ Slashed(t) \in Strings /\ Len(Slashed(t)) = Len(t)
      /\ \A i \in 1..Len(t) : Slashed(t)[i] = IF t[i] \in Separators THEN "/" ELSE t[i]
  BY <1>1, SlashedTyped
<1>3. DOMAIN t = 1..Len(t) /\ DOMAIN Slashed(t) = 1..Len(t)
  BY <1>1, <1>2 DEF Strings
<1>4. \A i \in 1..Len(t) : Slashed(t)[i] \notin Markers
  BY <1>1, <1>2, <1>3, NoMarkers DEF Range
<1> QED BY <1>2, <1>3, <1>4 DEF Noted, Range

\* An argument is shown in full, or with a marker and taken for hidden.
LEMMA HiddenIsNoted ==
  ASSUME NEW values, Values(values), NEW a \in Texts, a # NonUtf8
  PROVE  /\ Shown(values, a).shown \in Strings
         /\ Masked(Shown(values, a).shown, Text(values, a).shown)
         /\ Shown(values, a).hidden \in BOOLEAN
         /\ Shown(values, a).hidden <=> Shown(values, a).shown # Slashed(a)
         /\ Shown(values, a).shown = <<Mark>> => Text(values, a).shown = <<Mark>>
<1> DEFINE x == Text(values, a).shown
           h == Text(values, a).hidden
           inline == ShownInline(x)
           y == RedactUrl(inline)
<1>1. /\ x \in Strings /\ h \in BOOLEAN /\ (h \/ x = Slashed(a)) /\ (h => Noted(x))
  BY TextIs
<1>2. /\ Shown(values, a).shown = y
      /\ Shown(values, a).hidden = (h \/ SensitiveInline(x) \/ y # inline)
  BY Zenon DEF Shown
<1> HIDE DEF x, h
<1>3. /\ inline \in Strings /\ Masked(inline, x)
      /\ SensitiveInline(x) => Noted(inline) /\ inline # <<Mark>>
      /\ ~SensitiveInline(x) => inline = x
  BY <1>1, InlineIs
<1> HIDE DEF inline
<1>4. /\ y \in Strings /\ Masked(y, inline)
      /\ y = inline \/ Noted(y)
      /\ y = <<Mark>> => inline = <<Mark>>
  BY <1>3, UrlIs
<1> HIDE DEF y
<1>5. Masked(y, x)
  BY <1>3, <1>4, MaskedIsTransitive
<1>6. y = <<Mark>> => x = <<Mark>>
  BY <1>3, <1>4
<1>7. ~Noted(Slashed(a))
  BY SlashedUnnoted
<1> DEFINE s == SensitiveInline(x)
<1>8. s => Noted(inline)
  BY <1>3
<1>9. ~s => inline = x
  BY <1>3
<1> HIDE DEF s
<1>10. (h \/ s \/ y # inline) => Noted(y)
  BY <1>1, <1>4, <1>8, <1>9
<1>11. ~(h \/ s \/ y # inline) => y = Slashed(a)
  BY <1>1, <1>9
<1>12. (h \/ s \/ y # inline) <=> y # Slashed(a)
  BY <1>7, <1>10, <1>11
<1>13. Shown(values, a).hidden = (y # Slashed(a))
  BY <1>2, <1>12, Zenon DEF s
<1> QED BY <1>2, <1>4, <1>5, <1>6, <1>13 DEF x

\* An argument that is not Unicode is hidden, by another marker than a flag's value.
LEMMA ShownNonUtf8 ==
  ASSUME NEW values, Values(values)
  PROVE  /\ Shown(values, NonUtf8).shown \in Strings
         /\ Shown(values, NonUtf8).shown # <<Mark>>
         /\ Shown(values, NonUtf8).hidden = TRUE
         /\ \A v \in Range(values) : ~Occurs(v, Shown(values, NonUtf8).shown)
<1> DEFINE x == <<"[non_utf8_hash]">>
           inline == ShownInline(x)
           y == RedactUrl(inline)
<1>1. Text(values, NonUtf8).shown = x /\ Text(values, NonUtf8).hidden = TRUE
  BY TextNonUtf8
<1>2. Shown(values, NonUtf8).shown = y /\ Shown(values, NonUtf8).hidden = TRUE
  <2> HIDE DEF x
  <2>1. /\ Shown(values, NonUtf8).shown = RedactUrl(ShownInline(Text(values, NonUtf8).shown))
        /\ Text(values, NonUtf8).hidden = TRUE => Shown(values, NonUtf8).hidden = TRUE
    BY Zenon DEF Shown
  <2> QED BY <1>1, <2>1
<1>3. "[non_utf8_hash]" \in Markers /\ "[non_utf8_hash]" # Mark
  BY MarkersAre
<1>4. x \in Strings /\ \A u \in Strings : Bare(u) => ~Occurs(u, x)
  BY <1>3, OneMarker
<1>5. x # <<Mark>>
  <2>1. x[1] = "[non_utf8_hash]" /\ <<Mark>>[1] = Mark
    BY OneToken
  <2> HIDE DEF x
  <2> QED BY <1>3, <2>1
<1> HIDE DEF x
<1>6. inline \in Strings /\ Masked(inline, x) /\ (inline = <<Mark>> => x = <<Mark>>)
  BY <1>4, InlineIs
<1> HIDE DEF inline
<1>7. y \in Strings /\ Masked(y, inline) /\ (y = <<Mark>> => inline = <<Mark>>)
  BY <1>6, UrlIs
<1> HIDE DEF y
<1>8. Masked(y, x)
  BY <1>6, <1>7, MaskedIsTransitive
<1>9. \A v \in Range(values) : ~Occurs(v, y)
  BY <1>4, <1>8, ValuesAre DEF Masked
<1> QED BY <1>2, <1>5, <1>6, <1>7, <1>9

\* Where a name ends: with the text, with its equals sign, or with a separator behind it.
LEMMA KeyEndIs ==
  ASSUME NEW a \in Strings
  PROVE  /\ KeyEnd(a) \in 0..Len(a) /\ First(a, {"="}) <= KeyEnd(a)
         /\ EndsName(a, KeyEnd(a))
         /\ First(a, {"="}) = 0 => KeyEnd(a) = Len(a)
<1> DEFINE e == First(a, {"="})
           behind == {k \in Places(a, Separators) : k > e}
<1>1. e \in 0..Len(a) /\ Len(a) \in Nat /\ DOMAIN a = 1..Len(a)
  BY FirstIs DEF Strings
<1>2. KeyEnd(a) = IF e > 0 /\ Range(a) \cap Separators = {} THEN e
                  ELSE IF e > 0 /\ behind # {} THEN Min(behind) ELSE Len(a)
  BY Zenon DEF KeyEnd
<1>3. behind # {} => Min(behind) \in 1..Len(a) /\ Min(behind) > e /\ a[Min(behind)] \in Separators
  <2>1. behind \in SUBSET Nat
    BY <1>1 DEF Places
  <2>2. behind # {} => \E n \in behind : \A m \in behind : n <= m
    BY <2>1, LeastNumber
  <2>3. behind # {} => Min(behind) \in behind
    BY <2>2 DEF Min
  <2> QED BY <1>1, <2>3 DEF Places
<1> DEFINE m == Min(behind)
<1> HIDE DEF e, behind, m
<1>4. CASE e > 0 /\ Range(a) \cap Separators = {}
  <2>1. KeyEnd(a) = e
    BY <1>2, <1>4
  <2> QED BY <1>1, <1>4, <2>1 DEF e, EndsName
<1>5. CASE ~(e > 0 /\ Range(a) \cap Separators = {}) /\ e > 0 /\ behind # {}
  <2>1. KeyEnd(a) = m /\ m \in 1..Len(a) /\ m > e /\ a[m] \in Separators
    BY <1>2, <1>3, <1>5 DEF m
  <2>2. m \in 0..Len(a) /\ m > 0 /\ e <= m /\ e # 0
    BY <1>1, <1>5, <2>1
  <2> QED BY <2>1, <2>2 DEF e, EndsName
<1>6. CASE ~(e > 0 /\ Range(a) \cap Separators = {}) /\ ~(e > 0 /\ behind # {})
  <2>1. KeyEnd(a) = Len(a)
    BY <1>2, <1>6
  <2> QED BY <1>1, <2>1 DEF e, EndsName
<1> QED BY <1>4, <1>5, <1>6

\* A name that stands is shown, and its first equals sign stays the first.
LEMMA NameKept ==
  ASSUME Values(custom), NEW a \in Texts, a # NonUtf8, KeyStands(a)
  PROVE  /\ First(a, {"="}) = 0 => Text(custom, a).shown = Slashed(a)
         /\ First(a, {"="}) > 0 =>
              /\ First(Text(custom, a).shown, {"="}) = First(a, {"="})
              /\ \A i \in 1..First(a, {"="}) : Text(custom, a).shown[i] = Slashed(a)[i]
<1> DEFINE e == First(a, {"="})
           n == KeyEnd(a)
           x == Text(custom, a).shown
<1>1. a \in Strings /\ x \in Strings
  BY TextsAre, TextIs
<1>2. /\ n \in 0..Len(a) /\ e <= n /\ (e = 0 => n = Len(a))
      /\ EndsName(a, n)
  BY <1>1, KeyEndIs
<1>3. /\ Clear(Range(custom), a, n)
      /\ NoPathWord(a, n)
  <2>1. \A k \in 1..n : a[k] \notin Markers
    BY <1>1, <1>2, TextsAre DEF Strings, Range
  <2> QED BY <2>1 DEF KeyStands, Clear, NoPathWord
<1> HIDE DEF n
<1>4. /\ n <= Len(x) /\ \A i \in 1..n : x[i] = Slashed(a)[i]
      /\ n = Len(a) => x = Slashed(a)
  <2>1. n \in Nat /\ n <= Len(a)
    BY <1>1, <1>2 DEF Strings
  <2> QED BY <1>2, <1>3, <2>1, NameShown
<1>5. e = 0 => x = Slashed(a)
  BY <1>2, <1>4
<1>6. /\ e \in 0..Len(a) /\ (e > 0 => a[e] = "=") /\ \A i \in 1..e - 1 : a[i] # "="
      /\ Len(a) \in Nat /\ Len(x) \in Nat
  BY <1>1, FirstIs, FirstLeast DEF Strings
<1> HIDE DEF x, e
<1>7. ASSUME e > 0 PROVE First(x, {"="}) = e /\ \A i \in 1..e : x[i] = Slashed(a)[i]
  <2>1. \A i \in 1..e : i \in 1..n /\ i \in 1..Len(a)
    BY <1>2, <1>6
  <2>2. \A i \in 1..e : x[i] = IF a[i] \in Separators THEN "/" ELSE a[i]
    <3>1. \A i \in 1..Len(a) : Slashed(a)[i] = IF a[i] \in Separators THEN "/" ELSE a[i]
      BY <1>1, SlashedTyped
    <3> QED BY <1>4, <2>1, <3>1
  <2>3. x[e] = "=" /\ \A i \in 1..e - 1 : x[i] # "="
    <3>1. e \in 1..e /\ \A i \in 1..e - 1 : i \in 1..e
      BY <1>6, <1>7
    <3> QED BY <1>6, <1>7, <2>2, <3>1 DEF Separators
  <2>4. e \in 1..Len(x)
    BY <1>2, <1>4, <1>6, <1>7
  <2>5. First(x, {"="}) = e
    BY <1>1, <2>3, <2>4, FirstAt
  <2> QED BY <1>4, <2>1, <2>5
<1> QED BY <1>5, <1>7 DEF x, e

\* No key word is a marker or a separator.
LEMMA KeyWordsAre == KeyWords \cap (Markers \cup Separators) = {}
BY RedactionAssumption

\* Of an argument with a sensitive key that stands only what comes before the sign is shown.
LEMMA InlineValue ==
  ASSUME Values(custom), NEW a \in Texts, a # NonUtf8, KeyStands(a), KeyIsSensitive(a)
  PROVE  Range(Shown(custom, a).shown)
           \subseteq Range(SubSeq(a, 1, First(a, {"="}))) \cup {"/"} \cup Markers
<1> DEFINE e == First(a, {"="})
           x == Text(custom, a).shown
           key == SubSeq(x, 1, e)
           inline == ShownInline(x)
           given == SubSeq(a, 1, e)
<1>1. a \in Strings /\ x \in Strings
  BY TextsAre, TextIs
<1>2. e \in 0..Len(a) /\ Len(a) \in Nat
  BY <1>1, FirstIs DEF Strings
<1>3. PICK w \in 1..e - 1 : a[w] \in KeyWords
  BY DEF KeyIsSensitive
<1> HIDE DEF e
<1>4. e > 0 /\ e \in 1..Len(a)
  BY <1>2, <1>3
<1>5. First(x, {"="}) = e /\ \A i \in 1..e : x[i] = Slashed(a)[i]
  BY <1>4, NameKept DEF e
<1>6. \A i \in 1..e : x[i] = IF a[i] \in Separators THEN "/" ELSE a[i]
  <2>1. \A i \in 1..e : i \in 1..Len(a)
    BY <1>2
  <2>2. \A i \in 1..Len(a) : Slashed(a)[i] = IF a[i] \in Separators THEN "/" ELSE a[i]
    BY <1>1, SlashedTyped
  <2> QED BY <1>5, <2>1, <2>2
<1> HIDE DEF x
<1>7. /\ e \in 1..Len(x) /\ Len(Key(x)) = e - 1 /\ Key(x) \in Strings
      /\ \A i \in 1..e - 1 : Key(x)[i] = x[i]
      /\ Key(x) \o <<"=", Mark>> = key \o <<Mark>>
  <2>1. First(x, {"="}) # 0
    BY <1>4, <1>5
  <2>2. /\ First(x, {"="}) \in 1..Len(x) /\ Len(Key(x)) = First(x, {"="}) - 1
        /\ Key(x) \in Strings
        /\ \A i \in 1..First(x, {"="}) - 1 : Key(x)[i] = x[i]
        /\ Key(x) \o <<"=", Mark>> = SubSeq(x, 1, First(x, {"="})) \o <<Mark>>
    BY <1>1, <2>1, KeyIs, Zenon
  <2> QED BY <1>5, <2>2
<1>8. SensitiveInline(x)
  <2>1. w \in 1..e /\ w \in DOMAIN Key(x)
    BY <1>2, <1>3, <1>7 DEF Strings
  <2>2. x[w] = a[w]
    BY <1>3, <1>6, <2>1, KeyWordsAre
  <2>3. a[w] \in Range(Key(x))
    BY <1>3, <1>7, <2>1, <2>2 DEF Range
  <2>4. SensitiveKey(Key(x))
    BY <1>3, <2>3 DEF SensitiveKey
  <2> QED BY <1>4, <1>5, <2>4 DEF SensitiveInline
<1>9. inline = key \o <<Mark>>
  BY <1>7, <1>8 DEF ShownInline
<1>10. key \in Strings /\ Len(key) = e /\ \A i \in 1..e : key[i] = x[i]
  <2>1. e \in 0..Len(x)
    BY <1>7
  <2> QED BY <1>1, <2>1, Prefix
<1>11. given \in Strings /\ Len(given) = e /\ \A i \in 1..e : given[i] = a[i]
  BY <1>1, <1>2, Prefix
<1> HIDE DEF key, given
<1>12. Range(key) \subseteq Range(given) \cup {"/"}
  <2>1. ASSUME NEW i \in 1..e PROVE key[i] \in Range(given) \cup {"/"}
    <3>1. given[i] \in Range(given)
      BY <1>11 DEF Range, Strings
    <3> QED BY <1>6, <1>10, <1>11, <3>1
  <2> QED BY <1>10, <2>1 DEF Range, Strings
<1>13. Mark \in Tokens /\ Mark \in Markers
  BY MarkersAre, TokensAre
<1>14. inline \in Strings /\ Range(inline) = Range(key) \cup {Mark}
  BY <1>9, <1>10, <1>13, OneMore, RangeMore
<1> HIDE DEF inline
<1>15. RedactUrl(inline) \in Strings /\ Masked(RedactUrl(inline), inline)
  BY <1>14, UrlIs
<1>16. Range(RedactUrl(inline)) \subseteq Range(inline) \cup Markers
  BY <1>14, <1>15, MaskedTokens
<1>17. Shown(custom, a).shown = RedactUrl(inline)
  BY Zenon DEF Shown, inline, x
<1> QED BY <1>12, <1>13, <1>14, <1>16, <1>17 DEF given, e

\* One argument: what is shown of it, and whether that is all of it.
LEMMA ShownIs ==
  ASSUME NEW values, Values(values), NEW a \in Texts \cup {NonUtf8}
  PROVE  /\ Shown(values, a).shown \in Strings /\ Shown(values, a).hidden \in BOOLEAN
         /\ Shown(values, a).hidden <=> a = NonUtf8 \/ Shown(values, a).shown # Slashed(a)
         /\ \A v \in Range(values) :
              Range(v) \cap Separators = {} => ~Occurs(v, Shown(values, a).shown)
         /\ Shown(values, a).shown = <<Mark>> =>
              a # NonUtf8 /\ \E v \in Range(values) : Occurs(v, a)
<1>1. CASE a = NonUtf8
  BY <1>1, ShownNonUtf8
<1>2. CASE a # NonUtf8
  <2> DEFINE y == Shown(values, a).shown
             x == Text(values, a).shown
  <2>1. /\ y \in Strings /\ Masked(y, x) /\ Shown(values, a).hidden \in BOOLEAN
        /\ Shown(values, a).hidden <=> y # Slashed(a)
        /\ y = <<Mark>> => x = <<Mark>>
    BY <1>2, HiddenIsNoted
  <2>2. /\ \A v \in Range(values) : Range(v) \cap Separators = {} => ~Occurs(v, x)
        /\ (\A v \in Range(values) : ~Occurs(v, a)) => Mark \notin Range(x)
    BY <1>2, TextIs
  <2>3. Mark \in Range(<<Mark>>)
    BY OneMarker, MarkersAre
  <2> HIDE DEF x
  <2>4. \A v \in Range(values) : Range(v) \cap Separators = {} => ~Occurs(v, y)
    BY <2>1, <2>2, ValuesAre DEF Masked
  <2>5. y = <<Mark>> => \E v \in Range(values) : Occurs(v, a)
    BY <2>1, <2>2, <2>3
  <2> QED BY <1>2, <2>1, <2>4, <2>5
<1> QED BY <1>1, <1>2

-----------------------------------------------------------------------------
(* The flags before an argument.                                           *)

\* The same by what the code looks at, the arguments as they are shown so far.
Armed(values, a) == ArmsNext(Text(values, a).shown)
Run(values, xs, k) == {j \in 1..(k - 1) : \A i \in j..(k - 1) : Armed(values, xs[i])}
InTurn(values, xs, k) == Cardinality(Run(values, xs, k)) % 2 = 1

\* A run of flags can be counted.
LEMMA RunIsFinite ==
  ASSUME NEW values, NEW xs, NEW k \in Nat
  PROVE  IsFiniteSet(Run(values, xs, k)) /\ Cardinality(Run(values, xs, k)) \in Nat
<1>1. IsFiniteSet(1..(k - 1))
  BY FS_Interval
<1>2. Run(values, xs, k) \subseteq 1..(k - 1)
  BY DEF Run
<1> QED BY <1>1, <1>2, FS_Subset, FS_CardinalityType

\* Append.
LEMMA OneArgumentMore ==
  ASSUME NEW S, NEW xs \in Seq(S), NEW a \in S
  PROVE  /\ Append(xs, a) \in Seq(S) /\ Len(Append(xs, a)) = Len(xs) + 1
         /\ Append(xs, a)[Len(xs) + 1] = a
         /\ \A i \in 1..Len(xs) : Append(xs, a)[i] = xs[i]
OBVIOUS

\* An argument changes nothing before it.
LEMMA RunKept ==
  ASSUME NEW values, NEW S, NEW xs \in Seq(S), NEW a \in S, NEW k \in 1..Len(xs) + 1
  PROVE  Run(values, Append(xs, a), k) = Run(values, xs, k)
<1> DEFINE ys == Append(xs, a)
<1>1. \A i \in 1..Len(xs) : ys[i] = xs[i]
  BY OneArgumentMore
<1>2. Len(xs) \in Nat
  OBVIOUS
<1> HIDE DEF ys
<1>3. \A j \in 1..(k - 1) : \A i \in j..(k - 1) : ys[i] = xs[i]
  BY <1>1, <1>2
<1>4. Run(values, ys, k) = Run(values, xs, k)
  BY <1>3 DEF Run
<1> QED BY <1>4 DEF ys

\* A flag makes the run of flags longer, anything else ends it.
LEMMA RunMore ==
  ASSUME NEW values, NEW S, NEW xs \in Seq(S), NEW a \in S
  PROVE  /\ Armed(values, a) =>
              /\ Run(values, Append(xs, a), Len(xs) + 2)
                   = Run(values, xs, Len(xs) + 1) \cup {Len(xs) + 1}
              /\ Len(xs) + 1 \notin Run(values, xs, Len(xs) + 1)
         /\ ~Armed(values, a) => Run(values, Append(xs, a), Len(xs) + 2) = {}
<1> DEFINE ys == Append(xs, a)
           n == Len(xs) + 1
<1>1. \A i \in 1..Len(xs) : ys[i] = xs[i]
  BY OneArgumentMore
<1>2. ys[n] = a
  BY OneArgumentMore
<1>3. Len(xs) \in Nat /\ n \in Nat /\ n - 1 = Len(xs) /\ Len(xs) + 2 - 1 = n /\ n \in 1..n
  OBVIOUS
<1> HIDE DEF ys, n
<1>4. Run(values, ys, Len(xs) + 2) = {j \in 1..n : \A i \in j..n : Armed(values, ys[i])}
  BY <1>3 DEF Run
<1>5. Run(values, xs, n) = {j \in 1..(n - 1) : \A i \in j..(n - 1) : Armed(values, xs[i])}
  BY DEF Run
<1>6. \A i \in 1..(n - 1) : ys[i] = xs[i]
  BY <1>1, <1>3
<1>7. n \notin Run(values, xs, n)
  BY <1>3, <1>5
<1>8. ASSUME Armed(values, a)
      PROVE  Run(values, ys, Len(xs) + 2) = Run(values, xs, n) \cup {n}
  <2>1. ASSUME NEW j \in 1..n, \A i \in j..n : Armed(values, ys[i]), j # n
        PROVE  j \in Run(values, xs, n)
    <3>1. j \in 1..(n - 1)
      BY <1>3, <2>1
    <3>2. \A i \in j..(n - 1) : i \in j..n /\ i \in 1..(n - 1)
      BY <1>3, <3>1
    <3> QED BY <1>5, <1>6, <2>1, <3>1, <3>2
  <2>2. ASSUME NEW j \in Run(values, xs, n)
        PROVE  j \in 1..n /\ \A i \in j..n : Armed(values, ys[i])
    <3>1. j \in 1..(n - 1) /\ \A i \in j..(n - 1) : Armed(values, xs[i])
      BY <1>5, <2>2
    <3>2. \A i \in j..n : i = n \/ (i \in j..(n - 1) /\ i \in 1..(n - 1))
      BY <1>3, <3>1
    <3>3. j \in 1..n
      BY <1>3, <3>1
    <3> QED BY <1>2, <1>6, <1>8, <3>1, <3>2, <3>3
  <2>3. \A i \in n..n : Armed(values, ys[i])
    BY <1>2, <1>3, <1>8
  <2> QED BY <1>3, <1>4, <2>1, <2>2, <2>3
<1>9. ASSUME ~Armed(values, a) PROVE Run(values, ys, Len(xs) + 2) = {}
  <2>1. \A j \in 1..n : n \in j..n
    BY <1>3
  <2> QED BY <1>2, <1>4, <1>9, <2>1
<1> QED BY <1>7, <1>8, <1>9 DEF ys, n

\* The alternation: a flag whose value is not yet there makes its successor one, and only that.
LEMMA TurnMore ==
  ASSUME NEW values, NEW S, NEW xs \in Seq(S), NEW a \in S
  PROVE  InTurn(values, Append(xs, a), Len(xs) + 2) <=>
           Armed(values, a) /\ ~InTurn(values, xs, Len(xs) + 1)
<1> DEFINE old == Run(values, xs, Len(xs) + 1)
           new == Run(values, Append(xs, a), Len(xs) + 2)
           n == Len(xs) + 1
<1>1. n \in Nat
  OBVIOUS
<1>2. IsFiniteSet(old) /\ Cardinality(old) \in Nat
  <2> HIDE DEF n
  <2> QED BY <1>1, RunIsFinite DEF n
<1>3. Armed(values, a) => new = old \cup {n} /\ n \notin old
  BY RunMore
<1>4. ~Armed(values, a) => new = {}
  BY RunMore
<1> HIDE DEF old, new, n
<1>5. CASE Armed(values, a)
  <2>1. Cardinality(new) = Cardinality(old) + 1
    BY <1>2, <1>3, <1>5, FS_AddElement
  <2>2. \A c \in Nat : (c + 1) % 2 = 1 <=> ~(c % 2 = 1)
    OBVIOUS
  <2>3. Cardinality(new) % 2 = 1 <=> ~(Cardinality(old) % 2 = 1)
    BY <1>2, <2>1, <2>2
  <2> QED BY <1>5, <2>3 DEF InTurn, new, old
<1>6. CASE ~Armed(values, a)
  <2>1. Cardinality(new) = 0
    BY <1>4, <1>6, FS_EmptySet
  <2>2. ~(Cardinality(new) % 2 = 1)
    BY <2>1
  <2> QED BY <1>6, <2>2 DEF InTurn, new
<1> QED BY <1>5, <1>6

-----------------------------------------------------------------------------
(* The invariant.                                                          *)

\* An argument is a flag's value and hidden, or shown by the rules.
DisplayedByTurn(k) ==
  IF InTurn(custom, args, k) THEN displays[k] = <<Mark>> /\ digests[k] = FALSE
  ELSE /\ displays[k] = Shown(custom, args[k]).shown
       /\ digests[k] = ~Shown(custom, args[k]).hidden

RedactionType ==
  /\ Configured(custom) /\ executable \in Executables /\ args \in Seq(Arguments)
  /\ displays \in Seq(Strings) /\ Len(displays) = Len(args)
  /\ digests \in Seq(BOOLEAN) /\ Len(digests) = Len(args)
  /\ redactNext \in BOOLEAN /\ redacted \in Nat

TurnIsKnown == redactNext = InTurn(custom, args, Len(args) + 1)
DisplaysByTurn == \A k \in 1..Len(args) : DisplayedByTurn(k)
HiddenAreCounted == redacted = Cardinality({k \in 1..Len(args) : ~digests[k]})

RedactionInv == RedactionType /\ TurnIsKnown /\ DisplaysByTurn /\ HiddenAreCounted

\* from_environment_names: texts, and none of them empty.
LEMMA NamedAreConfigured ==
  ASSUME NEW names \in NameLists, NEW values \in FromEnvironmentNames(names)
  PROVE  Configured(values)
<1> DEFINE S == {Environment[n] : n \in Range(names)}
<1>1. names \in Seq(DOMAIN Environment)
      /\ \A n \in DOMAIN Environment : Environment[n] \in Texts \cup {None}
  BY RedactionAssumption
<1>2. Range(names) \subseteq DOMAIN Environment
  BY <1>1 DEF Range
<1>3. IsFiniteSet(S) /\ Cardinality(S) \in Nat
  <2>1. IsFiniteSet(1..Len(names))
    BY <1>1, FS_Interval
  <2> DEFINE D == 1..Len(names)
             f == [i \in D |-> Environment[names[i]]]
             T == {f[i] : i \in D}
  <2>2. S = T
    BY <1>1 DEF Range
  <2>3. IsFiniteSet(T)
    <3>1. f \in [D -> T]
      OBVIOUS
    <3>2. f \in Surjection(D, T)
      BY <3>1 DEF Surjection
    <3> HIDE DEF D, f, T
    <3> QED BY <2>1, <3>2, FS_Surjection DEF D
  <2>4. IsFiniteSet(S)
    BY <2>2, <2>3
  <2> QED BY <2>4, FS_CardinalityType
<1>4. S \cap {None, <<>>} = {} /\ values \in [1..Cardinality(S) -> S]
  <2> DEFINE sorted == {s \in [1..Cardinality(S) -> S] :
                          \A i, j \in DOMAIN s : i < j => Precedes(s[i], s[j])}
  <2>1. FromEnvironmentNames(names)
          = IF "" \in Range(names) \/ S \cap {None, <<>>} # {} THEN {} ELSE sorted
    BY Zenon DEF FromEnvironmentNames
  <2>2. sorted \subseteq [1..Cardinality(S) -> S]
    OBVIOUS
  <2> HIDE DEF sorted, S
  <2> QED BY <2>1, <2>2
<1>5. \A x \in S : x \in Texts /\ x # <<>>
  <2>1. \A x \in S : x \in Texts \cup {None}
    BY <1>1, <1>2
  <2> HIDE DEF S
  <2> QED BY <1>4, <2>1
<1> HIDE DEF S
<1> DEFINE m == Cardinality(S)
<1>6. m \in Nat /\ values \in [1..m -> S]
  BY <1>3, <1>4
<1> HIDE DEF m
<1>7. values \in Seq(Texts) /\ Len(values) = m /\ \A n \in 1..m : values[n] \in S
  <2>1. values \in [1..m -> Texts]
    BY <1>5, <1>6
  <2> QED BY <1>6, <2>1
<1>8. \A n \in 1..Len(values) : values[n] # <<>>
  BY <1>5, <1>7
<1> QED BY <1>7, <1>8 DEF Configured

\* The first argument is no flag's value.
LEMMA NoTurnFirst == \A values, xs : ~InTurn(values, xs, 1)
<1>1. ASSUME NEW values, NEW xs PROVE ~InTurn(values, xs, 1)
  <2>1. Run(values, xs, 1) = {}
    BY DEF Run
  <2>2. Cardinality(Run(values, xs, 1)) = 0
    BY <2>1, FS_EmptySet
  <2> QED BY <2>2 DEF InTurn
<1> QED BY <1>1

\* The invariant holds before the first argument.
LEMMA RedactionInit == Init => RedactionInv
<1> SUFFICES ASSUME Init PROVE RedactionInv
  OBVIOUS
<1>1. Configured(custom)
  BY NamedAreConfigured DEF Init
<1>2. /\ args = <<>> /\ displays = <<>> /\ digests = <<>>
      /\ redactNext = FALSE /\ redacted = 0 /\ executable \in Executables
  BY DEF Init
<1>3. RedactionType
  <2>1. <<>> \in Seq(Arguments) /\ <<>> \in Seq(Strings) /\ <<>> \in Seq(BOOLEAN) /\ Len(<<>>) = 0
    OBVIOUS
  <2>2. FALSE \in BOOLEAN /\ 0 \in Nat
    OBVIOUS
  <2> QED BY <1>1, <1>2, <2>1, <2>2, Zenon DEF RedactionType
<1>4. Len(args) + 1 = 1 /\ 1..Len(args) = {}
  BY <1>2
<1>5. TurnIsKnown
  <2>1. InTurn(custom, args, Len(args) + 1) = FALSE
    <3>1. ~InTurn(custom, args, 1)
      BY NoTurnFirst
    <3> QED BY <1>4, <3>1 DEF InTurn
  <2> QED BY <1>2, <2>1, Zenon DEF TurnIsKnown
<1>6. DisplaysByTurn
  BY <1>4 DEF DisplaysByTurn
<1>7. {k \in 1..Len(args) : ~digests[k]} = {}
  BY <1>4
<1>8. HiddenAreCounted
  BY <1>2, <1>7, FS_EmptySet DEF HiddenAreCounted
<1> QED BY <1>3, <1>5, <1>6, <1>8 DEF RedactionInv

\* What Pushes does to the sequences.
LEMMA Pushed ==
  ASSUME RedactionInv, NEW a \in Arguments, NEW shown \in Strings, NEW hidden \in BOOLEAN,
         Pushes(a, shown, hidden)
  PROVE  /\ custom' = custom /\ executable' = executable
         /\ args' = Append(args, a) /\ args' \in Seq(Arguments) /\ Len(args') = Len(args) + 1
         /\ args'[Len(args) + 1] = a /\ \A k \in 1..Len(args) : args'[k] = args[k]
         /\ displays' \in Seq(Strings) /\ Len(displays') = Len(args')
         /\ displays'[Len(args) + 1] = shown
         /\ \A k \in 1..Len(args) : displays'[k] = displays[k]
         /\ digests' \in Seq(BOOLEAN) /\ Len(digests') = Len(args')
         /\ digests'[Len(args) + 1] = ~hidden
         /\ \A k \in 1..Len(args) : digests'[k] = digests[k]
         /\ redacted' = IF hidden THEN redacted + 1 ELSE redacted
         /\ Len(args) \in Nat /\ redacted \in Nat
<1>1. /\ args \in Seq(Arguments) /\ displays \in Seq(Strings) /\ Len(displays) = Len(args)
      /\ digests \in Seq(BOOLEAN) /\ Len(digests) = Len(args) /\ redacted \in Nat
  BY DEF RedactionInv, RedactionType
<1>2. /\ args' = Append(args, a) /\ displays' = Append(displays, shown)
      /\ digests' = Append(digests, ~hidden) /\ custom' = custom /\ executable' = executable
      /\ redacted' = IF hidden THEN redacted + 1 ELSE redacted
  BY DEF Pushes
<1> DEFINE kept == ~hidden
<1>3. kept = TRUE \/ kept = FALSE
  <2>1. CASE hidden
    BY <2>1, Zenon
  <2>2. CASE ~hidden
    BY <2>2, Zenon
  <2> QED BY <2>1, <2>2
<1>4. kept \in BOOLEAN /\ digests' = Append(digests, kept)
  <2>1. digests' = Append(digests, kept)
    BY <1>2
  <2> HIDE DEF kept
  <2> QED BY <1>3, <2>1
<1> HIDE DEF kept
<1>5. /\ args' \in Seq(Arguments) /\ Len(args') = Len(args) + 1
      /\ args'[Len(args) + 1] = a /\ \A k \in 1..Len(args) : args'[k] = args[k]
  BY <1>1, <1>2, OneArgumentMore
<1>6. /\ displays' \in Seq(Strings) /\ Len(displays') = Len(displays) + 1
      /\ displays'[Len(displays) + 1] = shown
      /\ \A k \in 1..Len(displays) : displays'[k] = displays[k]
  BY <1>1, <1>2, OneArgumentMore
<1>7. /\ digests' \in Seq(BOOLEAN) /\ Len(digests') = Len(digests) + 1
      /\ digests'[Len(digests) + 1] = kept
      /\ \A k \in 1..Len(digests) : digests'[k] = digests[k]
  BY <1>1, <1>4, OneArgumentMore
<1>8. Len(args) \in Nat
  BY <1>1
<1>9. digests'[Len(args) + 1] = ~hidden
  BY <1>1, <1>7, Zenon DEF kept
<1> QED BY <1>1, <1>2, <1>5, <1>6, <1>7, <1>8, <1>9

\* What a push does to the count of the hidden.
LEMMA CountMore ==
  ASSUME RedactionInv, NEW a \in Arguments, NEW shown \in Strings, NEW hidden \in BOOLEAN,
         Pushes(a, shown, hidden)
  PROVE  HiddenAreCounted' /\ redacted' \in Nat
<1> DEFINE n == Len(args)
           old == {k \in 1..Len(args) : ~digests[k]}
           new == {k \in 1..Len(args') : ~digests'[k]}
<1>1. /\ n \in Nat /\ Len(args') = n + 1
      /\ \A k \in 1..n : digests'[k] = digests[k]
      /\ redacted' = IF hidden THEN redacted + 1 ELSE redacted
      /\ redacted \in Nat
  BY Pushed
<1>2. digests'[n + 1] = ~hidden
  BY Pushed
<1>3. redacted = Cardinality(old)
  BY DEF RedactionInv, HiddenAreCounted
<1>4. IsFiniteSet(old)
  <2>1. IsFiniteSet(1..n)
    BY <1>1, FS_Interval
  <2> QED BY <2>1, FS_Subset
<1>5. n + 1 \notin old /\ \A k : k \in 1..n + 1 <=> (k \in 1..n \/ k = n + 1)
  BY <1>1
<1>6. \A k : k \in old <=> k \in 1..n /\ ~digests[k]
  OBVIOUS
<1>7. \A k : k \in new <=> k \in 1..n + 1 /\ ~digests'[k]
  BY <1>1
<1> HIDE DEF old, new, n
<1>8. CASE hidden
  <2>1. ~digests'[n + 1]
    BY <1>2, <1>8, Zenon
  <2>2. \A k \in 1..n : ~digests'[k] <=> ~digests[k]
    BY <1>1, Zenon
  <2>3. new = old \cup {n + 1}
    BY <1>5, <1>6, <1>7, <2>1, <2>2, Zenon
  <2>4. Cardinality(new) = Cardinality(old) + 1
    BY <1>4, <1>5, <2>3, FS_AddElement
  <2>5. redacted' = redacted + 1
    BY <1>1, <1>8
  <2>6. redacted' = Cardinality(new) /\ redacted' \in Nat
    BY <1>1, <1>3, <2>4, <2>5
  <2> QED BY <2>6 DEF HiddenAreCounted, new
<1>9. CASE ~hidden
  <2>1. digests'[n + 1]
    BY <1>2, <1>9, Zenon
  <2>2. \A k \in 1..n : ~digests'[k] <=> ~digests[k]
    BY <1>1, Zenon
  <2>3. new = old
    BY <1>5, <1>6, <1>7, <2>1, <2>2, Zenon
  <2>4. redacted' = redacted
    BY <1>1, <1>9
  <2>5. redacted' = Cardinality(new) /\ redacted' \in Nat
    BY <1>1, <1>3, <2>3, <2>4
  <2> QED BY <2>5 DEF HiddenAreCounted, new
<1> QED BY <1>8, <1>9

\* What is displayed so far stays as it was.
LEMMA DisplaysKept ==
  ASSUME RedactionInv, NEW a \in Arguments, NEW shown \in Strings, NEW hidden \in BOOLEAN,
         Pushes(a, shown, hidden)
  PROVE  /\ \A k \in 1..Len(args) : DisplayedByTurn(k)'
         /\ InTurn(custom', args', Len(args) + 1) <=> redactNext
         /\ InTurn(custom', args', Len(args') + 1) <=> Armed(custom, a) /\ ~redactNext
<1>1. /\ args \in Seq(Arguments) /\ redactNext = InTurn(custom, args, Len(args) + 1)
      /\ \A k \in 1..Len(args) : DisplayedByTurn(k) /\ redactNext \in BOOLEAN
  BY DEF RedactionInv, RedactionType, TurnIsKnown, DisplaysByTurn
<1>2. /\ custom' = custom /\ args' = Append(args, a) /\ Len(args') = Len(args) + 1
      /\ \A k \in 1..Len(args) : /\ args'[k] = args[k] /\ displays'[k] = displays[k]
                                 /\ digests'[k] = digests[k]
      /\ Len(args) \in Nat
  BY Pushed
<1>3. \A k \in 1..Len(args) + 1 : Run(custom, args', k) = Run(custom, args, k)
  BY <1>1, <1>2, RunKept
<1>4. \A k \in 1..Len(args) + 1 : InTurn(custom, args', k) <=> InTurn(custom, args, k)
  BY <1>3, Zenon DEF InTurn
<1>5. ASSUME NEW k \in 1..Len(args) PROVE DisplayedByTurn(k)'
  <2>1. k \in 1..Len(args) + 1
    BY <1>2
  <2>2. DisplayedByTurn(k)
    BY <1>1
  <2>3. /\ custom' = custom /\ args'[k] = args[k] /\ displays'[k] = displays[k]
        /\ digests'[k] = digests[k]
        /\ (InTurn(custom, args', k) <=> InTurn(custom, args, k))
    BY <1>2, <1>4, <2>1
  <2> QED BY <2>2, <2>3, Zenon DEF DisplayedByTurn
<1>6. Len(args) + 1 \in 1..Len(args) + 1 /\ Len(args') + 1 = Len(args) + 2
  BY <1>2
<1>7. InTurn(custom', args', Len(args) + 1) <=> redactNext
  BY <1>1, <1>2, <1>4, <1>6, Zenon
<1>8. InTurn(custom, args', Len(args) + 2) <=> Armed(custom, a) /\ ~redactNext
  <2>1. InTurn(custom, Append(args, a), Len(args) + 2) <=>
          Armed(custom, a) /\ ~InTurn(custom, args, Len(args) + 1)
    BY <1>1, TurnMore
  <2> QED BY <1>1, <1>2, <2>1, Zenon
<1> QED BY <1>2, <1>5, <1>6, <1>7, <1>8, Zenon

\* A pushed argument, displayed by its turn, leads to the invariant.
LEMMA PushKeeps ==
  ASSUME RedactionInv, NEW a \in Arguments, NEW shown \in Strings, NEW hidden \in BOOLEAN,
         Pushes(a, shown, hidden), redactNext' \in BOOLEAN,
         redactNext' <=> Armed(custom, a) /\ ~redactNext,
         IF redactNext THEN shown = <<Mark>> /\ hidden = TRUE
         ELSE shown = Shown(custom, a).shown /\ hidden = Shown(custom, a).hidden
  PROVE  RedactionInv'
<1> DEFINE n == Len(args)
           m == Len(args) + 1
<1>1. /\ custom' = custom /\ executable' = executable
      /\ args' = Append(args, a) /\ args' \in Seq(Arguments) /\ Len(args') = Len(args) + 1
      /\ args'[m] = a
      /\ displays' \in Seq(Strings) /\ Len(displays') = Len(args') /\ displays'[m] = shown
      /\ digests' \in Seq(BOOLEAN) /\ Len(digests') = Len(args') /\ digests'[m] = ~hidden
      /\ Len(args) \in Nat
  BY Pushed
<1>2. HiddenAreCounted' /\ redacted' \in Nat
  BY CountMore
<1>3. /\ \A k \in 1..n : DisplayedByTurn(k)'
      /\ InTurn(custom', args', m) <=> redactNext
      /\ InTurn(custom', args', Len(args') + 1) <=> Armed(custom, a) /\ ~redactNext
  BY DisplaysKept
<1>4. RedactionType'
  <2>1. Configured(custom) /\ executable \in Executables
    BY DEF RedactionInv, RedactionType
  <2> QED BY <1>1, <1>2, <2>1, Zenon DEF RedactionType
<1>5. TurnIsKnown'
  <2>1. InTurn(custom', args', Len(args') + 1) \in BOOLEAN
    BY DEF InTurn
  <2>2. redactNext' = InTurn(custom', args', Len(args') + 1)
    <3> DEFINE turn == InTurn(custom', args', Len(args') + 1)
    <3>1. turn \in BOOLEAN /\ (turn <=> redactNext')
      BY <1>3, <2>1, Zenon
    <3> HIDE DEF turn
    <3>2. redactNext' = turn
      BY <3>1
    <3> QED BY <3>2 DEF turn
  <2> QED BY <2>2 DEF TurnIsKnown
<1>6. ASSUME NEW k, k = m PROVE DisplayedByTurn(k)'
  <2>1. /\ args'[k] = a /\ displays'[k] = shown /\ digests'[k] = ~hidden
        /\ (InTurn(custom', args', k) <=> redactNext)
    BY <1>1, <1>3, <1>6
  <2>2. CASE redactNext
    <3>1. shown = <<Mark>> /\ (~hidden) = FALSE
      BY <2>2, Zenon
    <3> QED BY <1>1, <2>1, <2>2, <3>1, Zenon DEF DisplayedByTurn
  <2>3. CASE ~redactNext
    <3>1. shown = Shown(custom, a).shown /\ (~hidden) = ~Shown(custom, a).hidden
      BY <2>3, Zenon
    <3> QED BY <1>1, <2>1, <2>3, <3>1, Zenon DEF DisplayedByTurn
  <2> QED BY <2>2, <2>3
<1>7. DisplaysByTurn'
  <2>1. \A k \in 1..Len(args') : k \in 1..n \/ k = m
    BY <1>1
  <2>2. ASSUME NEW k \in 1..Len(args') PROVE DisplayedByTurn(k)'
    BY <1>3, <1>6, <2>1, Zenon
  <2> QED BY <2>2 DEF DisplaysByTurn
<1> QED BY <1>2, <1>4, <1>5, <1>7 DEF RedactionInv

\* An argument is a text or not Unicode.
LEMMA ArgumentsAre == Arguments \subseteq Texts \cup {NonUtf8}
BY RedactionAssumption

\* ArmsNext is a condition.
LEMMA ArmsNextIs == \A t : ArmsNext(t) \in BOOLEAN
BY DEF ArmsNext

\* The invariant is inductive.
LEMMA RedactionStep == RedactionInv /\ [Next]_vars => RedactionInv'
<1> SUFFICES ASSUME RedactionInv, [Next]_vars PROVE RedactionInv'
  OBVIOUS
<1>1. Values(custom) /\ redactNext \in BOOLEAN
  BY ConfiguredAreValues DEF RedactionInv, RedactionType
<1>2. ASSUME NEW a \in Arguments, HideValue(a) PROVE RedactionInv'
  <2>1. redactNext /\ Pushes(a, <<Mark>>, TRUE) /\ redactNext' = FALSE
    BY <1>2 DEF HideValue
  <2>2. <<Mark>> \in Strings
    BY OneMarker, MarkersAre
  <2>3. TRUE \in BOOLEAN /\ redactNext' \in BOOLEAN
    BY <2>1
  <2>4. redactNext' <=> Armed(custom, a) /\ ~redactNext
    BY <2>1, Zenon
  <2>5. IF redactNext THEN <<Mark>> = <<Mark>> /\ TRUE = TRUE
        ELSE <<Mark>> = Shown(custom, a).shown /\ TRUE = Shown(custom, a).hidden
    BY <2>1, Zenon
  <2> QED BY <2>1, <2>2, <2>3, <2>4, <2>5, PushKeeps, Zenon
<1>3. ASSUME NEW a \in Arguments, ShowArgument(a) PROVE RedactionInv'
  <2> DEFINE shown == Shown(custom, a).shown
             hidden == Shown(custom, a).hidden
  <2>1. /\ ~redactNext /\ Pushes(a, shown, hidden)
        /\ redactNext' = Armed(custom, a)
    BY <1>3, Zenon DEF ShowArgument, Armed
  <2>2. shown \in Strings /\ hidden \in BOOLEAN
    BY <1>1, ArgumentsAre, ShownIs
  <2>3. redactNext' \in BOOLEAN
    <3>1. Armed(custom, a) \in BOOLEAN
      BY ArmsNextIs DEF Armed
    <3> QED BY <2>1, <3>1, Zenon
  <2>4. redactNext' <=> Armed(custom, a) /\ ~redactNext
    BY <2>1, Zenon
  <2>5. IF redactNext THEN shown = <<Mark>> /\ hidden = TRUE
        ELSE shown = Shown(custom, a).shown /\ hidden = Shown(custom, a).hidden
    BY <2>1, Zenon
  <2> HIDE DEF shown, hidden
  <2> QED BY <2>1, <2>2, <2>3, <2>4, <2>5, PushKeeps, Zenon
<1>4. CASE UNCHANGED vars
  <2>1. /\ custom' = custom /\ executable' = executable /\ args' = args
        /\ displays' = displays /\ digests' = digests
        /\ redactNext' = redactNext /\ redacted' = redacted
    BY <1>4 DEF vars
  <2>2. RedactionType' /\ HiddenAreCounted' /\ TurnIsKnown'
    BY <2>1, Zenon DEF RedactionInv, RedactionType, HiddenAreCounted, TurnIsKnown
  <2>3. DisplaysByTurn'
    BY <2>1, Zenon DEF RedactionInv, DisplaysByTurn, DisplayedByTurn
  <2> QED BY <2>2, <2>3 DEF RedactionInv
<1> QED BY <1>2, <1>3, <1>4, Zenon DEF Next, Done

\* What is displayed and kept of each argument is what its turn says: the mark for the value
\* of a flag, the rules of Shown for any other; and the report counts what is hidden.
THEOREM RedactionInvariant == Spec => []RedactionInv
BY RedactionInit, RedactionStep, PTL DEF Spec

\* The shown argument k.
LEMMA ArgumentIs ==
  ASSUME RedactionInv, NEW k \in DOMAIN args
  PROVE  /\ k \in 1..Len(args) /\ DisplayedByTurn(k) /\ Values(custom)
         /\ args[k] \in Texts \cup {NonUtf8} /\ DOMAIN args = 1..Len(args)
<1>1. args \in Seq(Arguments) /\ Values(custom) /\ DisplaysByTurn
  BY ConfiguredAreValues DEF RedactionInv, RedactionType
<1>2. k \in 1..Len(args) /\ args[k] \in Arguments /\ DOMAIN args = 1..Len(args)
  BY <1>1
<1> QED BY <1>1, <1>2, ArgumentsAre DEF DisplaysByTurn

\* An argument whose name stands makes the next one its value exactly when it is a flag.
LEMMA ArmedIsFlag ==
  ASSUME Values(custom), NEW a \in Texts \cup {NonUtf8}, NameStands(a)
  PROVE  Armed(custom, a) <=> Flag(a)
<1> DEFINE x == Text(custom, a).shown
<1>1. Armed(custom, a) <=> ArmsNext(x)
  BY Zenon DEF Armed
<1>2. CASE a = NonUtf8
  <2>1. x = <<"[non_utf8_hash]">>
    BY <1>2, TextNonUtf8
  <2>2. x[1] = "[non_utf8_hash]"
    BY <2>1, OneToken
  <2>3. x[1] # "-"
    BY <2>2, NoMarkers, MarkersAre
  <2>4. ~ArmsNext(x)
    BY <2>3, Zenon DEF ArmsNext
  <2> QED BY <1>1, <1>2, <2>4 DEF Flag
<1>3. CASE a # NonUtf8 /\ ~SensitiveKey(a)
  <2>1. Range(x) \subseteq Range(a) \cup {"/"} \cup Markers
    BY <1>3, TextTokens
  <2>2. "/" \in Separators
    BY DEF Separators
  <2> HIDE DEF x
  <2>3. ~SensitiveKey(x)
    BY <1>3, <2>1, <2>2, KeyWordsAre DEF SensitiveKey
  <2> QED BY <1>1, <1>3, <2>3 DEF Flag, ArmsNext
<1>4. CASE a # NonUtf8 /\ KeyStands(a)
  <2>1. /\ First(a, {"="}) = 0 => x = Slashed(a)
        /\ First(a, {"="}) > 0 => First(x, {"="}) = First(a, {"="})
    BY <1>4, NameKept
  <2>2. a \in Strings /\ DOMAIN a = 1..Len(a) /\ Len(a) \in Nat
    BY <1>4, TextsAre DEF Strings
  <2>3. First(a, {"="}) \in 0..Len(a)
    BY <2>2, FirstIs
  <2> HIDE DEF x
  <2>4. CASE First(a, {"="}) > 0
    <3>1. ~(First(x, {"="}) = 0) /\ ~(First(a, {"="}) = 0)
      BY <2>1, <2>3, <2>4
    <3> QED BY <1>1, <3>1 DEF Flag, ArmsNext
  <2>5. CASE First(a, {"="}) = 0
    <3> DEFINE y == Slashed(a)
    <3>1. x = y
      BY <2>1, <2>5
    <3>2. /\ y \in Strings /\ Len(y) = Len(a) /\ DOMAIN y = 1..Len(a)
          /\ \A i \in 1..Len(a) : y[i] = IF a[i] \in Separators THEN "/" ELSE a[i]
      BY <2>2, SlashedTyped DEF Strings
    <3> HIDE DEF y
    <3>3. \A i \in 1..Len(a) : a[i] # "="
      BY <2>2, <2>5, FirstIs
    <3>4. First(y, {"="}) = 0
      <4>1. \A i \in 1..Len(y) : y[i] \notin {"="}
        BY <3>2, <3>3
      <4> QED BY <3>2, <4>1, FirstIs
    <3>5. SensitiveKey(y) <=> SensitiveKey(a)
      <4>1. \A i \in 1..Len(a) : y[i] \in KeyWords <=> a[i] \in KeyWords
        BY <3>2, KeyWordsAre DEF Separators
      <4>2. SensitiveKey(y) <=> \E i \in 1..Len(a) : y[i] \in KeyWords
        BY <3>2 DEF SensitiveKey, Range
      <4>3. SensitiveKey(a) <=> \E i \in 1..Len(a) : a[i] \in KeyWords
        BY <2>2 DEF SensitiveKey, Range
      <4> QED BY <4>1, <4>2, <4>3
    <3>6. CASE a = <<>>
      <4>1. Len(a) = 0
        BY <3>6, EmptyString
      <4>2. y = <<>>
        BY <3>2, <4>1, EmptyString, SameString
      <4>3. ~ArmsNext(y) /\ ~ArmsNext(a)
        BY <3>6, <4>2 DEF ArmsNext
      <4> QED BY <1>1, <3>1, <4>3 DEF Flag
    <3>7. CASE a # <<>>
      <4>1. 1 \in 1..Len(a)
        BY <2>2, <3>7
      <4>2. y # <<>>
        <5>1. Len(y) # 0
          BY <2>2, <3>2, <4>1
        <5> QED BY <5>1, EmptyString
      <4>3. y[1] = "-" <=> a[1] = "-"
        BY <3>2, <4>1 DEF Separators
      <4>4. ArmsNext(y) <=> ArmsNext(a)
        BY <2>5, <3>4, <3>5, <3>7, <4>2, <4>3 DEF ArmsNext
      <4> QED BY <1>1, <1>4, <3>1, <4>4 DEF Flag
    <3> QED BY <3>6, <3>7
  <2> QED BY <2>3, <2>4, <2>5
<1> QED BY <1>2, <1>3, <1>4 DEF NameStands

\* Behind flags whose names stand the flags of the arguments given count the turns.
LEMMA IsFlagValueIs ==
  ASSUME RedactionInv, NEW k \in DOMAIN args, FlagsStand(k)
  PROVE  IsFlagValue(k) <=> InTurn(custom, args, k)
<1>1. Values(custom) /\ k \in 1..Len(args)
  BY ArgumentIs
<1>2. \A j \in 1..Len(args) : args[j] \in Texts \cup {NonUtf8}
  <2>1. DOMAIN args = 1..Len(args)
    BY ArgumentIs
  <2> QED BY <2>1, ArgumentIs
<1> DEFINE n == k - 1
           Same(j) == (\A i \in j..n : Armed(custom, args[i])) <=> \A i \in j..n : Flag(args[i])
           S == {j \in 1..n : Same(j)}
<1>3. n \in Nat /\ \A j \in 1..n : j \in 1..Len(args)
  BY <1>1 DEF RedactionInv, RedactionType
<1>4. \A j \in 1..n : (\A i \in (j + 1)..n : Flag(args[i])) => NameStands(args[j])
  BY DEF FlagsStand
<1>5. \A j \in 1..n : NameStands(args[j]) => (Armed(custom, args[j]) <=> Flag(args[j]))
  BY <1>1, <1>2, <1>3, ArmedIsFlag
<1> HIDE DEF n
<1>6. ASSUME NEW j \in 1..n, \A m \in j + 1..n : m \in S PROVE j \in S
  <2>1. (\A i \in j + 1..n : Armed(custom, args[i])) <=> \A i \in j + 1..n : Flag(args[i])
    <3>1. CASE j = n
      BY <1>3, <3>1
    <3>2. CASE j # n
      <4>1. j + 1 \in j + 1..n
        BY <1>3, <3>2
      <4>2. Same(j + 1)
        BY <1>6, <4>1
      <4> QED BY <4>2
    <3> QED BY <3>1, <3>2
  <2>2. j \in j..n /\ \A i \in j..n : i = j \/ i \in j + 1..n
    BY <1>3
  <2>3. \A i \in j + 1..n : i \in j..n
    BY <1>3
  <2>4. (\A i \in j..n : Armed(custom, args[i]))
          <=> Armed(custom, args[j]) /\ \A i \in j + 1..n : Armed(custom, args[i])
    BY <2>2, <2>3
  <2>5. (\A i \in j..n : Flag(args[i])) <=> Flag(args[j]) /\ \A i \in j + 1..n : Flag(args[i])
    BY <2>2, <2>3
  <2>6. (\A i \in j + 1..n : Flag(args[i])) => (Armed(custom, args[j]) <=> Flag(args[j]))
    BY <1>4, <1>5
  <2>7. Same(j)
    BY <2>1, <2>4, <2>5, <2>6
  <2> HIDE DEF Same
  <2> QED BY <2>7
<1>7. \A j \in 1..n : Same(j)
  <2>1. \A j \in 1..n : j \in S
    <3> HIDE DEF S
    <3> QED BY <1>3, <1>6, DownFrom
  <2> HIDE DEF Same
  <2> QED BY <2>1
<1>8. Run(custom, args, k) = {j \in 1..n : \A i \in j..n : Flag(args[i])}
  BY <1>7 DEF Run, n
<1>9. FlagsBefore(k) = Cardinality(Run(custom, args, k))
  BY <1>8 DEF FlagsBefore, n
<1> QED BY <1>9 DEF IsFlagValue, InTurn

\* By its turn the value of a flag is the mark; an argument shown as the mark holds a value.
LEMMA SecretsHidden == RedactionInv => SecretArgumentsAreHidden
<1> SUFFICES ASSUME RedactionInv PROVE SecretArgumentsAreHidden
  OBVIOUS
<1>1. FlagValueIsHidden
  <2> SUFFICES ASSUME NEW k \in DOMAIN args, FlagsStand(k)
               PROVE  /\ IsFlagValue(k) => displays[k] = <<Mark>>
                      /\ displays[k] = <<Mark>> => IsFlagValue(k) \/ HoldsValue(args[k])
    BY DEF FlagValueIsHidden
  <2>1. DisplayedByTurn(k) /\ Values(custom) /\ args[k] \in Texts \cup {NonUtf8}
    BY ArgumentIs
  <2>2. IsFlagValue(k) <=> InTurn(custom, args, k)
    BY IsFlagValueIs
  <2>3. IsFlagValue(k) => displays[k] = <<Mark>>
    BY <2>1, <2>2, Zenon DEF DisplayedByTurn
  <2>4. ASSUME displays[k] = <<Mark>>, ~IsFlagValue(k) PROVE HoldsValue(args[k])
    <3>1. Shown(custom, args[k]).shown = <<Mark>>
      BY <2>1, <2>2, <2>4, Zenon DEF DisplayedByTurn
    <3>2. args[k] # NonUtf8 /\ \E v \in Range(custom) : Occurs(v, args[k])
      BY <2>1, <3>1, ShownIs
    <3> QED BY <3>2 DEF HoldsValue
  <2> QED BY <2>3, <2>4
<1>2. InlineValueIsHidden
  <2> SUFFICES ASSUME NEW k \in DOMAIN args, args[k] # NonUtf8, KeyIsSensitive(args[k]),
                      KeyStands(args[k])
               PROVE  Range(displays[k]) \subseteq
                        Range(SubSeq(args[k], 1, First(args[k], {"="}))) \cup {"/"} \cup Markers
    BY DEF InlineValueIsHidden
  <2>1. DisplayedByTurn(k) /\ Values(custom) /\ args[k] \in Texts
    BY ArgumentIs
  <2>2. CASE InTurn(custom, args, k)
    <3>1. displays[k] = <<Mark>>
      BY <2>1, <2>2, Zenon DEF DisplayedByTurn
    <3>2. Range(displays[k]) = {Mark} /\ Mark \in Markers
      BY <3>1, OneMarker, MarkersAre
    <3> QED BY <3>2
  <2>3. CASE ~InTurn(custom, args, k)
    <3>1. displays[k] = Shown(custom, args[k]).shown
      BY <2>1, <2>3, Zenon DEF DisplayedByTurn
    <3> QED BY <2>1, <3>1, InlineValue
  <2> QED BY <2>2, <2>3
<1> QED BY <1>1, <1>2 DEF SecretArgumentsAreHidden

\* For all words, values and arguments: behind flags whose names stand the value of a flag is
\* never shown and nothing else is hidden as one, and of an argument with a sensitive key that
\* stands nothing behind the equals sign is shown, also when it has separators or values there.
THEOREM SecretArgumentsStayHidden == Spec => []SecretArgumentsAreHidden
BY RedactionInvariant, SecretsHidden, PTL

\* A mark or note is in no text, so a display is the argument only if nothing is hidden.
LEMMA DigestsShown == RedactionInv => DigestsAreOfShownText
<1> SUFFICES ASSUME RedactionInv PROVE DigestsAreOfShownText
  OBVIOUS
<1>1. /\ args \in Seq(Arguments)
      /\ displays \in Seq(Strings) /\ Len(displays) = Len(args)
      /\ digests \in Seq(BOOLEAN) /\ Len(digests) = Len(args)
      /\ HiddenAreCounted
  BY DEF RedactionInv, RedactionType
<1>2. DOMAIN args = 1..Len(args) /\ DOMAIN displays = DOMAIN args /\ DOMAIN digests = DOMAIN args
  BY <1>1
<1>3. ASSUME NEW k \in DOMAIN args
      PROVE  digests[k] <=> args[k] # NonUtf8 /\ displays[k] = Slashed(args[k])
  <2>1. DisplayedByTurn(k) /\ Values(custom) /\ args[k] \in Texts \cup {NonUtf8}
    BY <1>3, ArgumentIs
  <2>2. CASE InTurn(custom, args, k)
    <3>1. displays[k] = <<Mark>> /\ digests[k] = FALSE
      BY <2>1, <2>2, Zenon DEF DisplayedByTurn
    <3>2. args[k] # NonUtf8 => <<Mark>> # Slashed(args[k])
      <4>1. Noted(<<Mark>>)
        <5>1. Mark \in Markers
          BY MarkersAre
        <5>2. Range(<<Mark>>) = {Mark}
          BY <5>1, OneMarker
        <5> QED BY <5>1, <5>2 DEF Noted
      <4>2. args[k] # NonUtf8 => ~Noted(Slashed(args[k]))
        BY <2>1, SlashedUnnoted
      <4> QED BY <4>1, <4>2, Zenon
    <3> QED BY <3>1, <3>2, Zenon
  <2>3. CASE ~InTurn(custom, args, k)
    <3>1. displays[k] = Shown(custom, args[k]).shown /\ digests[k] = ~Shown(custom, args[k]).hidden
      BY <2>1, <2>3, Zenon DEF DisplayedByTurn
    <3>2. Shown(custom, args[k]).hidden <=>
            args[k] = NonUtf8 \/ Shown(custom, args[k]).shown # Slashed(args[k])
      BY <2>1, ShownIs
    <3> QED BY <3>1, <3>2, Zenon
  <2> QED BY <2>2, <2>3
<1>4. redacted = Cardinality({k \in DOMAIN args : ~digests[k]})
  BY <1>1, <1>2, Zenon DEF HiddenAreCounted
<1> QED BY <1>2, <1>3, <1>4, Zenon DEF DigestsAreOfShownText

\* For all commands: a digest is kept exactly of the arguments shown in full, and the others
\* are counted.
THEOREM DigestsStayOfShownText == Spec => []DigestsAreOfShownText
BY RedactionInvariant, DigestsShown, PTL

\* A part of a text is a text.
LEMMA PartsAreTexts ==
  ASSUME NEW t \in Texts, NEW separators, NEW i \in 1..Len(Parts(t, separators))
  PROVE  Parts(t, separators)[i] \in Texts
<1> DEFINE x == Parts(t, separators)[i]
<1>1. t \in Strings
  BY TextsAre
<1>2. x \in Strings /\ Within(x, t)
  <2>1. Parts(t, separators) \in Seq(Strings)
    BY <1>1, PartsAre DEF PartLists
  <2> QED BY <1>1, <2>1, PartsAre
<1> HIDE DEF x
<1>3. Range(x) \subseteq Range(t)
  BY <1>1, <1>2, RangeWithin
<1>4. Range(t) \subseteq DOMAIN Rank
  BY DEF Texts, Range
<1>5. x \in Seq(Tokens) /\ \A j \in 1..Len(x) : x[j] \in DOMAIN Rank
  BY <1>2, <1>3, <1>4 DEF Strings, Range
<1>6. x \in Texts
  BY <1>5 DEF Texts
<1> QED BY <1>6 DEF x

\* Redactor::text leaves no value without a separator, whatever it is given.
LEMMA TextReads ==
  ASSUME NEW values, Values(values), NEW t \in Texts \cup {NonUtf8},
         NEW v \in Range(values), Range(v) \cap Separators = {}
  PROVE  ~Occurs(v, Text(values, t).shown)
<1>1. CASE t = NonUtf8
  <2>1. Text(values, t).shown = <<"[non_utf8_hash]">>
    BY <1>1, TextNonUtf8
  <2>2. v \in Strings /\ Bare(v)
    BY ValuesAre
  <2> QED BY <2>1, <2>2, OneMarker, MarkersAre
<1>2. CASE t # NonUtf8
  <2>1. t \in Texts
    BY <1>2
  <2> QED BY <1>2, <2>1, TextIs
<1> QED BY <1>1, <1>2

\* The executable's name has no value without a separator.
LEMMA ExecutableReads ==
  ASSUME RedactionInv, NEW v \in Range(custom), Range(v) \cap Separators = {}
  PROVE  ~Occurs(v, ExecutableDisplay)
<1> DEFINE parts == Parts(executable, {"/"})
           named == {i \in DOMAIN parts : parts[i] # <<>>}
<1>1. Values(custom) /\ executable \in Texts \cup {NonUtf8} /\ v \in Strings /\ Bare(v)
  <2>1. Values(custom) /\ executable \in Executables
    BY ConfiguredAreValues DEF RedactionInv, RedactionType
  <2> QED BY <2>1, RedactionAssumption, ValuesAre
<1>2. ExecutableDisplay = IF executable = NonUtf8 THEN Text(custom, NonUtf8).shown
                          ELSE IF named = {} THEN <<"[non-utf8-executable]">>
                          ELSE Text(custom, parts[Max(named)]).shown
  BY Zenon DEF ExecutableDisplay
<1>3. CASE executable = NonUtf8
  BY <1>1, <1>2, <1>3, TextReads
<1>4. CASE executable # NonUtf8 /\ named = {}
  <2>1. ExecutableDisplay = <<"[non-utf8-executable]">>
    BY <1>2, <1>4
  <2> QED BY <1>1, <2>1, OneMarker, MarkersAre
<1>5. CASE executable # NonUtf8 /\ named # {}
  <2>1. executable \in Texts
    BY <1>1, <1>5
  <2>2. DOMAIN parts = 1..Len(parts) /\ Len(parts) \in Nat
    <3>1. executable \in Strings
      BY <2>1, TextsAre
    <3> QED BY <3>1, PartsAre DEF PartLists
  <2>3. Max(named) \in named
    <3>1. named \subseteq 1..Len(parts)
      BY <2>2
    <3> HIDE DEF named, parts
    <3> QED BY <1>5, <2>2, <3>1, Largest
  <2>4. Max(named) \in 1..Len(parts)
    BY <2>2, <2>3
  <2>5. parts[Max(named)] \in Texts
    <3> DEFINE i == Max(named)
    <3>1. i \in 1..Len(parts)
      BY <2>4
    <3> HIDE DEF i
    <3>2. parts[i] \in Texts
      BY <2>1, <3>1, PartsAreTexts
    <3> QED BY <3>2 DEF i
  <2>6. ExecutableDisplay = Text(custom, parts[Max(named)]).shown
    BY <1>2, <1>5
  <2> HIDE DEF parts, named
  <2> QED BY <1>1, <2>5, <2>6, TextReads
<1> QED BY <1>3, <1>4, <1>5

\* And so it is with every argument.
LEMMA ValuesHidden == RedactionInv => ConfiguredValuesAreHidden
<1> SUFFICES ASSUME RedactionInv, NEW v \in Range(custom), Range(v) \cap Separators = {}
             PROVE  /\ ~Occurs(v, ExecutableDisplay)
                    /\ \A k \in DOMAIN displays : ~Occurs(v, displays[k])
  BY DEF ConfiguredValuesAreHidden
<1>1. ASSUME NEW k \in DOMAIN displays PROVE ~Occurs(v, displays[k])
  <2>1. k \in DOMAIN args
    BY DEF RedactionInv, RedactionType
  <2>2. DisplayedByTurn(k) /\ Values(custom) /\ args[k] \in Texts \cup {NonUtf8}
    BY <2>1, ArgumentIs
  <2>3. v \in Strings /\ Bare(v)
    BY <2>2, ValuesAre
  <2>4. ~Occurs(v, <<Mark>>)
    BY <2>3, OneMarker, MarkersAre
  <2>5. ~Occurs(v, Shown(custom, args[k]).shown)
    BY <2>2, ShownIs
  <2>6. displays[k] = <<Mark>> \/ displays[k] = Shown(custom, args[k]).shown
    BY <2>2, Zenon DEF DisplayedByTurn
  <2> QED BY <2>4, <2>5, <2>6, Zenon
<1> QED BY <1>1, ExecutableReads

\* No configured value without a separator can be read in any display, for all values,
\* executables and arguments: neither a marker beside it nor a later rule brings one back.
THEOREM ConfiguredValuesStayHidden == Spec => []ConfiguredValuesAreHidden
BY RedactionInvariant, ValuesHidden, PTL

\* A component of a text is shown as something else exactly when it is to be hidden.
LEMMA ComponentHidden ==
  ASSUME NEW values, Values(values), NEW c \in Strings, Range(c) \cap Markers = {}
  PROVE  ShownComponent(values, c) # c <=>
           SensitiveComponent(c) \/ \E v \in Range(values) : Occurs(v, c)
<1>1. CASE SensitiveComponent(c)
  <2>1. ShownComponent(values, c) = <<"[redacted_hash]">>
    BY <1>1 DEF ShownComponent
  <2>2. "[redacted_hash]" \in Markers
    BY MarkersAre
  <2>3. Range(<<"[redacted_hash]">>) = {"[redacted_hash]"}
    BY <2>2, OneMarker
  <2>4. ShownComponent(values, c) # c
    BY <2>1, <2>2, <2>3
  <2> QED BY <1>1, <2>4
<1>2. CASE ~SensitiveComponent(c)
  <2>1. ShownComponent(values, c) = HideValues(values, c)
    BY <1>2 DEF ShownComponent
  <2>2. /\ \A v \in Range(values) : ~Occurs(v, HideValues(values, c))
        /\ (\A v \in Range(values) : ~Occurs(v, c)) => HideValues(values, c) = c
    BY Hidden
  <2>3. HideValues(values, c) # c <=> \E v \in Range(values) : Occurs(v, c)
    BY <2>2, Zenon
  <2> QED BY <1>2, <2>1, <2>3
<1> QED BY <1>1, <1>2

\* A path without a backslash has the same parts for both judgements.
LEMMA PathJudged ==
  ASSUME NEW values, Values(values), NEW p \in Texts, "\\" \notin Range(p)
  PROVE  PathIsSensitive(values, p) <=> PathDisplay(values, p).hidden > 0
<1> DEFINE parts == Parts(p, Separators)
           Hides(c) == SensitiveComponent(c) \/ \E v \in Range(values) : Occurs(v, c)
<1>1. p \in Strings
  BY TextsAre
<1>2. Parts(p, {"/"}) = parts
  BY <1>1, PartsWithoutBackslash
<1>3. parts \in Seq(Strings) /\ DOMAIN parts = 1..Len(parts)
  BY <1>1, PartsAre DEF PartLists
<1>4. \A i \in 1..Len(parts) : parts[i] \in Strings /\ Range(parts[i]) \cap Markers = {}
  BY PartsAreTexts, TextsAre
<1>5. PathDisplay(values, p).hidden > 0 <=> \E i \in 1..Len(parts) : Hides(parts[i])
  <2>1. PathDisplay(values, p).hidden > 0 <=>
          \E i \in 1..Len(parts) : ShownComponent(values, parts[i]) # parts[i]
    BY <1>1, PathHidden
  <2>2. \A i \in 1..Len(parts) : ShownComponent(values, parts[i]) # parts[i] <=> Hides(parts[i])
    BY <1>4, ComponentHidden
  <2> HIDE DEF parts, Hides
  <2> QED BY <2>1, <2>2, Zenon
<1>6. ~Hides(<<>>)
  <2>1. Range(<<>>) = {}
    BY EmptyString
  <2>2. \A v : ~Occurs(v, <<>>)
    BY DEF Occurs
  <2> QED BY <2>1, <2>2 DEF SensitiveComponent
<1>7. PathIsSensitive(values, p) <=> \E c \in Range(parts) \ {<<>>} : Hides(c)
  BY <1>2, Zenon DEF PathIsSensitive, PathComponents
<1> HIDE DEF Hides, parts
<1>8. Range(parts) = {parts[i] : i \in 1..Len(parts)}
  BY <1>3 DEF Range
<1>9. (\E c \in Range(parts) \ {<<>>} : Hides(c)) <=> \E i \in 1..Len(parts) : Hides(parts[i])
  BY <1>6, <1>8
<1> QED BY <1>5, <1>7, <1>9

\* And so has every path below a root.
LEMMA PathsJudged == RedactionInv => HiddenPathsAreNotHashed
<1> SUFFICES ASSUME RedactionInv, NEW p \in PathTexts, "\\" \notin Range(p)
             PROVE  PathIsSensitive(custom, p) <=> PathDisplay(custom, p).hidden > 0
  BY DEF HiddenPathsAreNotHashed
<1>1. Values(custom)
  BY ConfiguredAreValues DEF RedactionInv, RedactionType
<1>2. p \in Texts
  BY RedactionAssumption
<1> QED BY <1>1, <1>2, PathJudged

\* For all values and paths without a backslash: path_is_sensitive keeps exactly the files
\* from being hashed whose path path_display does not show in full.
THEOREM HiddenPathsStayUnhashed == Spec => []HiddenPathsAreNotHashed
BY RedactionInvariant, PathsJudged, PTL

=============================================================================
