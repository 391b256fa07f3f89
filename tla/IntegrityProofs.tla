-------------------------- MODULE IntegrityProofs --------------------------
(***************************************************************************)
(* Theorems about Integrity, for any number of recorders, events of any    *)
(* content and any number of alterations: what is sealed verifies, what    *)
(* verifies was sealed, and a verifying event list is a beginning of one   *)
(* recorder's log.                                                         *)
(***************************************************************************)
EXTENDS Integrity, SequenceTheorems, WellFoundedInduction, TLAPS

-----------------------------------------------------------------------------
(* Digests.                                                                *)

\* A digest determines its domain and what it was taken of.
LEMMA HashInjective ==
  ASSUME NEW a, NEW b, NEW x, NEW y, Hash(a, x) = Hash(b, y)
  PROVE  a = b /\ x = y
BY DEF Hash

LEMMA HashIsSome ==
  ASSUME NEW a, NEW x
  PROVE  Hash(a, x) # NoDigest
BY DEF Hash, NoDigest

\* The digest of an event determines its number, its link and its content.
LEMMA EventInjective ==
  ASSUME NEW i, NEW j, NEW p, NEW q, NEW c, NEW d, HashEvent(i, p, c) = HashEvent(j, q, d)
  PROVE  i = j /\ p = q /\ c = d
<1>1. <<i, p, c>> = <<j, q, d>>
  BY HashInjective DEF HashEvent
<1> QED
  BY <1>1

IsEvent(e) == e = [seq |-> e.seq, prev |-> e.prev, data |-> e.data, digest |-> e.digest]

IsReceipt(r) ==
    r = [schema |-> r.schema, body |-> r.body, events |-> r.events,
         eventsDigest |-> r.eventsDigest, head |-> r.head, digest |-> r.digest, id |-> r.id]

-----------------------------------------------------------------------------
(* The inductive invariant.                                                *)

\* The first events are numbered and linked, each to the one before.
Chained(events, n) == \A k \in 1..n : IsEvent(events[k]) /\ LinkValid(events, k)

\* A log is a sequence of events, all of them chained.
LogInv(events) ==
    /\ events \in Seq(Elements(events))
    /\ Chained(events, Len(events))

ReceiptInv(w) ==
    /\ IsReceipt(receipt[w]) /\ receipt[w].schema = "v1" /\ LogInv(receipt[w].events)
    /\ w \in sealed => IntegrityValid(receipt[w])

\* Every event of the copy was found in a sealed receipt, but perhaps for its content, and
\* the digest of a copy that was not sealed again was found in one.
CopyInv ==
    copy # None =>
      /\ IsReceipt(copy) /\ copy.events \in Seq(KnownEvents)
      /\ ~resealed => copy.digest \in KnownDigests

IntegrityInv ==
    /\ receipt = [w \in Recorders |-> receipt[w]] /\ sealed \subseteq Recorders
    /\ \A w \in Recorders : ReceiptInv(w)
    /\ CopyInv

\* An event is known with its own content or with another one under the same digest.
LEMMA KnownEvent ==
  ASSUME IntegrityInv, NEW e \in KnownEvents
  PROVE  /\ IsEvent(e)
         /\ \E w \in sealed, j \in Nat :
               j \in 1..Len(receipt[w].events) /\ e.digest = receipt[w].events[j].digest
<1>1. PICK w \in sealed, j \in Nat :
        /\ j \in 1..Len(receipt[w].events)
        /\ e = receipt[w].events[j] \/ \E d \in Data : e = [receipt[w].events[j] EXCEPT !.data = d]
  <2>1. PICK v \in sealed : \E f \in Elements(receipt[v].events) :
           e = f \/ \E d \in Data : e = [f EXCEPT !.data = d]
    BY DEF KnownEvents
  <2>2. Len(receipt[v].events) \in Nat
    BY DEF IntegrityInv, ReceiptInv, LogInv
  <2> QED
    BY <2>1, <2>2 DEF Elements
<1>2. IsEvent(receipt[w].events[j])
  <2>1. ReceiptInv(w)
    BY DEF IntegrityInv
  <2> QED
    BY <1>1, <2>1 DEF ReceiptInv, LogInv, Chained
<1>3. CASE e = receipt[w].events[j]
  BY <1>1, <1>2, <1>3
<1>4. ASSUME NEW d \in Data, e = [receipt[w].events[j] EXCEPT !.data = d]
      PROVE  IsEvent(e) /\ e.digest = receipt[w].events[j].digest
  BY <1>2, <1>4 DEF IsEvent
<1> QED
  BY <1>1, <1>2, <1>3, <1>4

LEMMA Initially == Init => IntegrityInv
<1> SUFFICES ASSUME Init PROVE IntegrityInv
  OBVIOUS
<1>1. ASSUME NEW w \in Recorders PROVE ReceiptInv(w)
  <2>1. PICK b \in Bodies : receipt[w] = Draft(b)
    BY DEF Init
  <2>2. LogInv(<<>>)
    BY DEF LogInv, Elements, Chained
  <2> QED
    BY <2>1, <2>2 DEF ReceiptInv, IsReceipt, Draft, Init
<1> QED
  BY <1>1 DEF Init, IntegrityInv, CopyInv

-----------------------------------------------------------------------------
(* Recorders.                                                              *)

\* Appending keeps a log a log.
LEMMA LogGrows ==
  ASSUME NEW events, LogInv(events), NEW d
  PROVE  LogInv(Append(events, NewEvent(events, d)))
<1> DEFINE e == NewEvent(events, d)
           more == Append(events, e)
           n == Len(events)
<1>1. IsEvent(e)
  BY DEF NewEvent, IsEvent
<1>2. events \in Seq(Elements(events) \cup {e}) /\ n \in Nat
  BY DEF LogInv
<1>3. /\ more \in Seq(Elements(events) \cup {e}) /\ Len(more) = n + 1
      /\ \A k \in 1..n : more[k] = events[k]
      /\ more[n + 1] = e
  BY <1>2, AppendProperties
<1> HIDE DEF more, e
<1>4. more \in Seq(Elements(more))
  <2>1. \A k \in 1..Len(more) : more[k] \in Elements(more)
    BY DEF Elements
  <2> QED
    BY <1>3, <2>1
<1>5. ASSUME NEW k \in 1..n PROVE IsEvent(more[k]) /\ LinkValid(more, k)
  <2>1. more[k] = events[k] /\ (k # 1 => more[k - 1] = events[k - 1])
    BY <1>2, <1>3
  <2> QED
    BY <2>1 DEF LogInv, Chained, LinkValid
<1>6. LinkValid(more, n + 1)
  <2>1. e.seq = n /\ e.prev = LastDigest(events) /\ e.digest = HashEvent(e.seq, e.prev, e.data)
    BY DEF e, NewEvent
  <2>2. LastDigest(events) = IF n + 1 = 1 THEN NoDigest ELSE more[n + 1 - 1].digest
    BY <1>2, <1>3 DEF LastDigest
  <2> QED
    BY <1>2, <1>3, <2>1, <2>2 DEF LinkValid
<1>7. \A k \in 1..Len(more) : IsEvent(more[k]) /\ LinkValid(more, k)
  BY <1>1, <1>2, <1>3, <1>5, <1>6
<1> QED
  BY <1>4, <1>7 DEF LogInv, Chained, more, e

\* A sealed log verifies.
LEMMA SealingVerifies ==
  ASSUME NEW r, r.schema = "v1", LogInv(r.events)
  PROVE  /\ IsReceipt(Sealed(r)) /\ IntegrityValid(Sealed(r))
         /\ Sealed(r).schema = "v1" /\ Sealed(r).events = r.events
BY DEF Sealed, IsReceipt, IntegrityValid, SchemaSupported, EventsDigestValid, EventChainValid,
   ReceiptDigestValid, ReceiptIdValid, Material, LogInv, Chained

\* What a recorder does leaves sealed receipts, and so what is known of them, in place.
LEMMA RecorderStep ==
  ASSUME IntegrityInv, NEW w \in Recorders, w \notin sealed, NEW r, IsReceipt(r),
         r.schema = "v1", LogInv(r.events), receipt' = [receipt EXCEPT ![w] = r],
         \/ sealed' = sealed
         \/ sealed' = sealed \cup {w} /\ IntegrityValid(r),
         UNCHANGED <<copy, changes, resealed>>
  PROVE  IntegrityInv'
<1>1. receipt'[w] = r /\ \A v \in Recorders \ {w} : receipt'[v] = receipt[v]
  BY DEF IntegrityInv
<1>2. ASSUME NEW v \in Recorders PROVE ReceiptInv(v)'
  BY <1>1 DEF IntegrityInv, ReceiptInv
<1>3. \A v \in sealed : v \in sealed' /\ receipt'[v] = receipt[v]
  BY <1>1 DEF IntegrityInv
<1>4. KnownEvents \subseteq KnownEvents'
  BY <1>3 DEF KnownEvents
<1>5. KnownDigests \subseteq KnownDigests'
  BY <1>3 DEF KnownDigests
<1>6. CopyInv'
  <2>1. \A s \in Seq(KnownEvents) : s \in Seq(KnownEvents')
    BY <1>4
  <2> QED
    BY <1>5, <2>1 DEF IntegrityInv, CopyInv
<1>7. receipt' = [v \in Recorders |-> receipt'[v]] /\ sealed' \subseteq Recorders
  BY DEF IntegrityInv
<1> QED
  BY <1>2, <1>6, <1>7 DEF IntegrityInv

LEMMA AppendStep ==
  ASSUME IntegrityInv, NEW w \in Recorders, NEW d \in Data, AppendEvent(w, d)
  PROVE  IntegrityInv'
<1> DEFINE r == WithEvent(receipt[w], d)
<1>1. IsReceipt(receipt[w]) /\ receipt[w].schema = "v1" /\ LogInv(receipt[w].events)
  BY DEF IntegrityInv, ReceiptInv
<1>2. /\ IsReceipt(r) /\ r.schema = "v1"
      /\ r.events = Append(receipt[w].events, NewEvent(receipt[w].events, d))
  <2>1. ASSUME NEW s, IsReceipt(s), NEW events
        PROVE  /\ IsReceipt([s EXCEPT !.events = events])
               /\ [s EXCEPT !.events = events].schema = s.schema
               /\ [s EXCEPT !.events = events].events = events
    BY <2>1 DEF IsReceipt
  <2> QED
    BY <1>1, <2>1 DEF WithEvent
<1>3. LogInv(r.events)
  BY <1>1, <1>2, LogGrows
<1>4. /\ w \notin sealed /\ receipt' = [receipt EXCEPT ![w] = r] /\ sealed' = sealed
      /\ UNCHANGED <<copy, changes, resealed>>
  BY DEF AppendEvent
<1> QED
  BY <1>2, <1>3, <1>4, RecorderStep

LEMMA FinalizeStep ==
  ASSUME IntegrityInv, NEW w \in Recorders, FinalizeReceipt(w)
  PROVE  IntegrityInv'
<1>1. receipt[w].schema = "v1" /\ LogInv(receipt[w].events)
  BY DEF IntegrityInv, ReceiptInv
<1>2. /\ IsReceipt(Sealed(receipt[w])) /\ IntegrityValid(Sealed(receipt[w]))
      /\ Sealed(receipt[w]).schema = "v1" /\ LogInv(Sealed(receipt[w]).events)
  BY <1>1, SealingVerifies
<1>3. /\ w \notin sealed /\ receipt' = [receipt EXCEPT ![w] = Sealed(receipt[w])]
      /\ sealed' = sealed \cup {w} /\ UNCHANGED <<copy, changes, resealed>>
  BY DEF FinalizeReceipt
<1> QED
  BY <1>2, <1>3, RecorderStep

-----------------------------------------------------------------------------
(* Copies.                                                                 *)

\* A step that leaves the recorders alone has to care for the copy only.
LEMMA CopyStep ==
  ASSUME IntegrityInv, UNCHANGED <<receipt, sealed>>, CopyInv'
  PROVE  IntegrityInv'
BY DEF IntegrityInv, ReceiptInv

LEMMA TakeStep ==
  ASSUME IntegrityInv, NEW w \in Recorders, Take(w)
  PROVE  IntegrityInv'
<1>1. w \in sealed /\ copy' = receipt[w] /\ UNCHANGED <<receipt, sealed, resealed>>
  BY DEF Take
<1>2. IsReceipt(receipt[w]) /\ receipt[w].events \in Seq(Elements(receipt[w].events))
  BY DEF IntegrityInv, ReceiptInv, LogInv
<1>3. Elements(receipt[w].events) \subseteq KnownEvents
  BY <1>1 DEF KnownEvents
<1>4. receipt[w].events \in Seq(KnownEvents)
  BY <1>2, <1>3
<1>5. receipt[w].digest \in KnownDigests
  BY <1>1 DEF KnownDigests
<1>6. CopyInv'
  BY <1>1, <1>2, <1>4, <1>5 DEF CopyInv, KnownEvents, KnownDigests
<1> QED
  BY <1>1, <1>6, CopyStep

LEMMA EnvelopeStep ==
  ASSUME IntegrityInv, AlterEnvelope
  PROVE  IntegrityInv'
<1>1. /\ copy # None /\ UNCHANGED <<receipt, sealed, resealed>>
      /\ IsReceipt(copy) /\ copy.events \in Seq(KnownEvents)
      /\ ~resealed => copy.digest \in KnownDigests
  BY DEF AlterEnvelope, Altered, IntegrityInv, CopyInv
<1>2. /\ IsReceipt(copy') /\ copy'.events = copy.events
      /\ copy'.digest = copy.digest \/ copy'.digest \in KnownDigests
  BY <1>1 DEF AlterEnvelope, IsReceipt
<1>3. KnownEvents' = KnownEvents /\ KnownDigests' = KnownDigests
  BY <1>1 DEF KnownEvents, KnownDigests
<1> QED
  BY <1>1, <1>2, <1>3, CopyStep DEF CopyInv

\* One event dropped, replaced or added leaves a sequence of known events.
LEMMA Splices ==
  ASSUME NEW S, NEW s \in Seq(S), NEW k \in 1..(Len(s) + 1), NEW e \in S
  PROVE  /\ SubSeq(s, 1, k - 1) \o SubSeq(s, k + 1, Len(s)) \in Seq(S)
         /\ SubSeq(s, 1, k - 1) \o <<e>> \o SubSeq(s, k + 1, Len(s)) \in Seq(S)
<1>1. SubSeq(s, 1, k - 1) \in Seq(S)
  BY SubSeqProperties
<1>2. SubSeq(s, k + 1, Len(s)) \in Seq(S)
  BY SubSeqProperties
<1>3. <<e>> \in Seq(S)
  OBVIOUS
<1> QED
  BY <1>1, <1>2, <1>3, ConcatProperties

LEMMA EventsStep ==
  ASSUME IntegrityInv, AlterEvents
  PROVE  IntegrityInv'
<1>1. /\ copy # None /\ UNCHANGED <<receipt, sealed, resealed>>
      /\ IsReceipt(copy) /\ copy.events \in Seq(KnownEvents)
      /\ ~resealed => copy.digest \in KnownDigests
  BY DEF AlterEvents, Altered, IntegrityInv, CopyInv
<1>2. \E s \in Seq(KnownEvents) : copy' = [copy EXCEPT !.events = s]
  <2>1. PICK k \in 1..(Len(copy.events) + 1) :
           \/ /\ k \in DOMAIN copy.events
              /\ copy' = [copy EXCEPT !.events = SubSeq(copy.events, 1, k - 1)
                                                   \o SubSeq(copy.events, k + 1, Len(copy.events))]
           \/ \E e \in KnownEvents :
                copy' = [copy EXCEPT !.events = SubSeq(copy.events, 1, k - 1) \o <<e>>
                                                   \o SubSeq(copy.events, k + 1, Len(copy.events))]
    BY DEF AlterEvents
  <2>2. ASSUME NEW e \in KnownEvents
        PROVE  /\ SubSeq(copy.events, 1, k - 1) \o SubSeq(copy.events, k + 1, Len(copy.events))
                     \in Seq(KnownEvents)
               /\ SubSeq(copy.events, 1, k - 1) \o <<e>> \o SubSeq(copy.events, k + 1, Len(copy.events))
                     \in Seq(KnownEvents)
    BY <1>1, Splices
  <2>3. k \in DOMAIN copy.events => copy.events[k] \in KnownEvents
    BY <1>1
  <2> QED
    BY <2>1, <2>2, <2>3
<1>3. PICK s \in Seq(KnownEvents) : copy' = [copy EXCEPT !.events = s]
  BY <1>2
<1>4. IsReceipt(copy') /\ copy'.events = s /\ copy'.digest = copy.digest
  BY <1>1, <1>3 DEF IsReceipt
<1>5. KnownEvents' = KnownEvents /\ KnownDigests' = KnownDigests
  BY <1>1 DEF KnownEvents, KnownDigests
<1> QED
  BY <1>1, <1>4, <1>5, CopyStep DEF CopyInv

LEMMA ResealStep ==
  ASSUME IntegrityInv, Reseal
  PROVE  IntegrityInv'
<1>1. /\ copy # None /\ UNCHANGED <<receipt, sealed>> /\ resealed'
      /\ copy' = Sealed(copy) /\ copy.events \in Seq(KnownEvents)
  BY DEF Reseal, Altered, IntegrityInv, CopyInv
<1>2. IsReceipt(copy') /\ copy'.events = copy.events
  BY <1>1 DEF Sealed, IsReceipt
<1>3. KnownEvents' = KnownEvents
  BY <1>1 DEF KnownEvents
<1> QED
  BY <1>1, <1>2, <1>3, CopyStep DEF CopyInv

LEMMA Inductive == Spec => []IntegrityInv
<1>1. IntegrityInv /\ [Next]_vars => IntegrityInv'
  <2> SUFFICES ASSUME IntegrityInv, [Next]_vars PROVE IntegrityInv'
    OBVIOUS
  <2>1. ASSUME NEW w \in Recorders, FinalizeReceipt(w) PROVE IntegrityInv'
    BY <2>1, FinalizeStep
  <2>2. ASSUME NEW w \in Recorders, Take(w) PROVE IntegrityInv'
    BY <2>2, TakeStep
  <2>3. ASSUME NEW w \in Recorders, NEW d \in Data, AppendEvent(w, d) PROVE IntegrityInv'
    BY <2>3, AppendStep
  <2>4. CASE AlterEnvelope \/ AlterEvents \/ Reseal
    BY <2>4, EnvelopeStep, EventsStep, ResealStep
  <2>5. CASE UNCHANGED vars
    BY <2>5, CopyStep DEF vars, IntegrityInv, CopyInv, KnownEvents, KnownDigests
  <2> QED
    BY <2>1, <2>2, <2>3, <2>4, <2>5 DEF Next, Done
<1> QED
  BY <1>1, Initially, PTL DEF Spec

-----------------------------------------------------------------------------
(* What verifies.                                                          *)

\* A verifying copy with a digest from a sealed receipt is that receipt, whole.
LEMMA DigestPinsReceipt ==
  ASSUME IntegrityInv, IsReceipt(copy), IntegrityValid(copy), copy.digest \in KnownDigests
  PROVE  \E w \in sealed : copy = receipt[w]
<1>1. copy.digest = Hash("receipt", Material(copy)) /\ copy.id = Handle(copy.digest)
  BY DEF IntegrityValid, ReceiptDigestValid, ReceiptIdValid
<1>2. ASSUME NEW w \in sealed
      PROVE  /\ IsReceipt(receipt[w])
             /\ receipt[w].eventsDigest = Hash("events", receipt[w].events)
             /\ receipt[w].head = NoDigest \/ \E x : receipt[w].head = Hash("event", x)
             /\ receipt[w].digest = Hash("receipt", Material(receipt[w]))
             /\ receipt[w].id = Handle(receipt[w].digest)
  <2>1. ReceiptInv(w) /\ IntegrityValid(receipt[w])
    BY DEF IntegrityInv, ReceiptInv
  <2>2. receipt[w].head = NoDigest \/ \E x : receipt[w].head = Hash("event", x)
    <3> DEFINE events == receipt[w].events
               n == Len(events)
    <3>1. receipt[w].head = LastDigest(events)
      BY <2>1 DEF IntegrityValid, EventChainValid
    <3>2. CASE events = <<>>
      BY <3>1, <3>2 DEF LastDigest
    <3>3. CASE events # <<>>
      <4>1. n \in 1..n
        BY <2>1, <3>3 DEF ReceiptInv, LogInv
      <4>2. events[n].digest = HashEvent(events[n].seq, events[n].prev, events[n].data)
        BY <2>1, <4>1 DEF ReceiptInv, LogInv, Chained, LinkValid
      <4> QED
        BY <3>1, <3>3, <4>2 DEF LastDigest, HashEvent
    <3> QED
      BY <3>2, <3>3
  <2> QED
    BY <2>1, <2>2 DEF ReceiptInv, IntegrityValid, EventsDigestValid, ReceiptDigestValid,
       ReceiptIdValid
<1>3. PICK w \in sealed : copy.digest \in {receipt[w].eventsDigest, receipt[w].head, receipt[w].digest}
  BY DEF KnownDigests
<1>4. copy.digest = receipt[w].digest
  <2>1. "receipt" # "events" /\ "receipt" # "event"
    OBVIOUS
  <2>2. copy.digest # receipt[w].eventsDigest
    BY <1>1, <1>2, <2>1, HashInjective
  <2>3. copy.digest # receipt[w].head
    BY <1>1, <1>2, <2>1, HashInjective, HashIsSome
  <2> QED
    BY <1>3, <2>2, <2>3
<1>5. Material(copy) = Material(receipt[w])
  BY <1>1, <1>2, <1>4, HashInjective
<1>6. /\ copy.schema = receipt[w].schema /\ copy.body = receipt[w].body
      /\ copy.events = receipt[w].events /\ copy.eventsDigest = receipt[w].eventsDigest
      /\ copy.head = receipt[w].head
  BY <1>5 DEF Material
<1>7. copy.id = receipt[w].id
  BY <1>1, <1>2, <1>4
<1> QED
  BY <1>2, <1>4, <1>6, <1>7 DEF IsReceipt

\* If the last event of a valid chain is in a log at its place, so is the whole chain.
LEMMA LinksPin ==
  ASSUME NEW c, NEW n \in Nat, NEW events, NEW m \in Nat, n <= m,
         Chained(c, n), Chained(events, m),
         n > 0, c[n].digest = events[n].digest
  PROVE  \A k \in 1..n : c[k] = events[k]
<1>1. ASSUME NEW k \in 1..n, c[k].digest = events[k].digest
      PROVE  c[k] = events[k] /\ (k > 1 => c[k - 1].digest = events[k - 1].digest)
  <2>1. IsEvent(c[k]) /\ IsEvent(events[k]) /\ LinkValid(c, k) /\ LinkValid(events, k)
    BY DEF Chained
  <2>2. /\ c[k].digest = HashEvent(c[k].seq, c[k].prev, c[k].data)
        /\ events[k].digest = HashEvent(events[k].seq, events[k].prev, events[k].data)
        /\ k > 1 => c[k].prev = c[k - 1].digest /\ events[k].prev = events[k - 1].digest
    BY <2>1 DEF LinkValid
  <2>3. HashEvent(c[k].seq, c[k].prev, c[k].data)
          = HashEvent(events[k].seq, events[k].prev, events[k].data)
    BY <1>1, <2>2
  <2>4. c[k].seq = events[k].seq /\ c[k].prev = events[k].prev /\ c[k].data = events[k].data
    BY <2>3, EventInjective
  <2> QED
    BY <1>1, <2>1, <2>2, <2>4 DEF IsEvent
<1> DEFINE T == {i \in Nat : i < n /\ c[n - i].digest # events[n - i].digest}
<1>2. T = {}
  <2> SUFFICES ASSUME T # {} PROVE FALSE
    OBVIOUS
  <2>1. PICK i \in T : \A j \in T : ~(<<j, i>> \in OpToRel(<, Nat))
    BY NatLessThanWellFounded, WFMin
  <2>2. i \in Nat /\ i < n /\ i # 0 /\ c[n - i].digest # events[n - i].digest
    <3>1. i \in Nat /\ i < n /\ c[n - i].digest # events[n - i].digest
      OBVIOUS
    <3>2. n - 0 = n
      OBVIOUS
    <3> QED
      BY <3>1, <3>2
  <2>3. i - 1 \in Nat /\ <<i - 1, i>> \in OpToRel(<, Nat)
    BY <2>2 DEF OpToRel
  <2>4. i - 1 \notin T
    BY <2>1, <2>3
  <2>5. n - (i - 1) \in 1..n /\ n - (i - 1) > 1 /\ (n - (i - 1)) - 1 = n - i
    BY <2>2
  <2>6. c[n - (i - 1)].digest = events[n - (i - 1)].digest
    <3>1. i - 1 < n
      BY <2>2
    <3> QED
      BY <2>3, <2>4, <3>1
  <2> QED
    BY <1>1, <2>2, <2>5, <2>6
<1>3. ASSUME NEW k \in 1..n PROVE c[k].digest = events[k].digest
  <2>1. n - k \in Nat /\ n - k < n /\ n - (n - k) = k
    OBVIOUS
  <2> QED
    BY <1>2, <2>1
<1> QED
  BY <1>1, <1>3

\* What is sealed verifies, and what verifies and was not sealed again was sealed.
THEOREM VerdictExact == Spec => []VerdictIsExact
<1>1. IntegrityInv => SealedVerifies
  BY DEF IntegrityInv, ReceiptInv, SealedVerifies
<1>2. IntegrityInv => AlterationIsDetected
  BY DigestPinsReceipt DEF IntegrityInv, CopyInv, AlterationIsDetected
<1> QED
  BY <1>1, <1>2, Inductive, PTL DEF VerdictIsExact

\* The events of a copy that verifies are the first events of one recorder's log.
THEOREM HistoryIsPinned == Spec => []ChainPinsHistory
<1>1. ASSUME IntegrityInv, copy # None, IntegrityValid(copy), copy.events # <<>>
      PROVE  \E w \in sealed : IsPrefixOf(copy.events, receipt[w].events)
  <2> DEFINE c == copy.events
             n == Len(c)
  <2>1. c \in Seq(KnownEvents) /\ n \in Nat /\ n > 0 /\ c[n] \in KnownEvents
    BY <1>1 DEF IntegrityInv, CopyInv
  <2>2. Chained(c, n)
    <3>1. \A k \in 1..n : c[k] \in KnownEvents
      BY <2>1
    <3> QED
      BY <1>1, <3>1, KnownEvent DEF IntegrityValid, EventChainValid, Chained
  <2>3. PICK w \in sealed, j \in Nat :
           j \in 1..Len(receipt[w].events) /\ c[n].digest = receipt[w].events[j].digest
    BY <1>1, <2>1, KnownEvent
  <2> DEFINE events == receipt[w].events
             m == Len(events)
  <2>4. m \in Nat /\ Chained(events, m)
    <3>1. ReceiptInv(w)
      BY <1>1 DEF IntegrityInv
    <3> QED
      BY <3>1 DEF ReceiptInv, LogInv
  <2>5. j = n
    <3>1. /\ c[n].digest = HashEvent(c[n].seq, c[n].prev, c[n].data) /\ c[n].seq = n - 1
          /\ events[j].digest = HashEvent(events[j].seq, events[j].prev, events[j].data)
          /\ events[j].seq = j - 1
      <4>1. LinkValid(c, n) /\ LinkValid(events, j)
        BY <2>1, <2>2, <2>3, <2>4 DEF Chained
      <4> QED
        BY <4>1 DEF LinkValid
    <3>2. HashEvent(c[n].seq, c[n].prev, c[n].data)
            = HashEvent(events[j].seq, events[j].prev, events[j].data)
      BY <2>3, <3>1
    <3>3. c[n].seq = events[j].seq
      BY <3>2, EventInjective
    <3> QED
      BY <2>1, <2>3, <3>1, <3>3
  <2>6. \A k \in 1..n : c[k] = events[k]
    <3>1. n <= m /\ c[n].digest = events[n].digest
      BY <2>1, <2>3, <2>4, <2>5
    <3> HIDE DEF c, n, events, m
    <3> QED
      BY <2>1, <2>2, <2>4, <3>1, LinksPin
  <2> QED
    BY <2>1, <2>3, <2>4, <2>5, <2>6 DEF IsPrefixOf
<1>2. IntegrityInv => ChainPinsHistory
  BY <1>1 DEF ChainPinsHistory
<1> QED
  BY <1>2, Inductive, PTL

=============================================================================
