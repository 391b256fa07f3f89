------------------------------ MODULE Integrity ------------------------------
(***************************************************************************)
(* Sealing and verifying receipts (src/integrity.rs): every event carries  *)
(* its number, the digest of the event before it and its own digest; the   *)
(* receipt carries the digest of the event array, the digest of its last   *)
(* event, its own digest and an identifier derived from that.              *)
(*                                                                         *)
(* RFC 8785 encoding and SHA-256 under a domain are symbolic: the digest   *)
(* of a value is the value tagged with its domain, so different values     *)
(* have different digests.  Recorders seal receipts; then copies are       *)
(* altered piece by piece, and verified.                                   *)
(***************************************************************************)
EXTENDS Naturals, Sequences

CONSTANTS
    Recorders,
    Data,        \* contents an event may have
    Bodies,      \* everything in a receipt but its events and digests
    None,        \* no copy
    MaxEvents,   \* bound on the events of a receipt
    MaxChanges   \* bound on the alterations of a copy

ASSUME IntegrityAssumption == MaxEvents \in Nat /\ MaxChanges \in Nat

VARIABLES
    receipt,   \* what each recorder is building or has sealed
    sealed,    \* recorders that have sealed their receipt
    copy,      \* a receipt in other hands, None before there is one
    changes,   \* alterations so far
    resealed   \* history: finalize_receipt was run on the altered copy

vars == <<receipt, sealed, copy, changes, resealed>>

-----------------------------------------------------------------------------
(* src/integrity.rs.                                                       *)

\* The digest fields are optional; no digest is equal to none.
NoDigest == <<>>

\* hash_serializable, with the domain that separates events, arrays and receipts.
Hash(domain, value) == <<domain, value>>

LastDigest(events) == IF events = <<>> THEN NoDigest ELSE events[Len(events)].digest

\* hash_event: everything in the event but the digest.
HashEvent(seq, prev, data) == Hash("event", <<seq, prev, data>>)

\* append_event numbers the event, links it to the one before and seals it.
NewEvent(events, data) ==
    LET seq == Len(events)
        prev == LastDigest(events)
    IN  [seq |-> seq, prev |-> prev, data |-> data, digest |-> HashEvent(seq, prev, data)]

WithEvent(r, data) == [r EXCEPT !.events = Append(@, NewEvent(@, data))]

\* The hashed material of a receipt: its identifier and its digest are cleared.
Material(r) == <<r.schema, r.body, r.events, r.eventsDigest, r.head>>

Handle(digest) == <<"ct", digest>>

\* Mutant: the digest is taken before the chain head is recorded.
SealedHeadLate(r) ==
    LET s == [r EXCEPT !.eventsDigest = Hash("events", r.events)]
        digest == Hash("receipt", Material(s))
    IN  [s EXCEPT !.digest = digest, !.id = Handle(digest), !.head = LastDigest(r.events)]

\* finalize_receipt: the array and the head first, then digest and identifier over them.
Sealed(r) ==
    LET array  == Hash("events", r.events)
        head   == LastDigest(r.events)
        digest == Hash("receipt", <<r.schema, r.body, r.events, array, head>>)
    IN  [schema |-> r.schema, body |-> r.body, events |-> r.events, eventsDigest |-> array,
         head |-> head, digest |-> digest, id |-> Handle(digest)]

\* verify_receipt, one operator for each of its verdicts.
SchemaSupported(r) == r.schema = "v1"
EventsDigestValid(r) == r.eventsDigest = Hash("events", r.events)

\* Mutant: events are checked one by one and the links between them are not.
LinkUnchecked(events, k) ==
    events[k].digest = HashEvent(events[k].seq, events[k].prev, events[k].data)

LinkValid(events, k) ==
    /\ events[k].seq = k - 1
    /\ events[k].prev = IF k = 1 THEN NoDigest ELSE events[k - 1].digest
    /\ events[k].digest = HashEvent(events[k].seq, events[k].prev, events[k].data)

EventChainValid(r) ==
    /\ \A k \in 1..Len(r.events) : LinkValid(r.events, k)
    /\ r.head = LastDigest(r.events)

ReceiptDigestValid(r) == r.digest = Hash("receipt", Material(r))
ReceiptIdValid(r) == r.id = Handle(Hash("receipt", Material(r)))

IntegrityValid(r) ==
    SchemaSupported(r) /\ ReceiptDigestValid(r) /\ ReceiptIdValid(r)
      /\ EventsDigestValid(r) /\ EventChainValid(r)

-----------------------------------------------------------------------------
(* Recorders build and seal receipts.                                      *)

Draft(b) == [schema |-> "v1", body |-> b, events |-> <<>>, eventsDigest |-> NoDigest,
             head |-> NoDigest, digest |-> NoDigest, id |-> NoDigest]

Init ==
    /\ receipt \in [Recorders -> {Draft(b) : b \in Bodies}]
    /\ sealed = {} /\ copy = None /\ changes = 0 /\ resealed = FALSE

AppendEvent(w, d) ==
    /\ w \notin sealed /\ Len(receipt[w].events) < MaxEvents
    /\ receipt' = [receipt EXCEPT ![w] = WithEvent(@, d)]
    /\ UNCHANGED <<sealed, copy, changes, resealed>>

FinalizeReceipt(w) ==
    /\ w \notin sealed
    /\ receipt' = [receipt EXCEPT ![w] = Sealed(@)] /\ sealed' = sealed \cup {w}
    /\ UNCHANGED <<copy, changes, resealed>>

-----------------------------------------------------------------------------
(* A copy is altered with pieces of what was sealed, or with other content.*)

Elements(s) == {s[k] : k \in 1..Len(s)}

KnownEvents ==
    LET made == UNION {Elements(receipt[w].events) : w \in sealed} IN
    made \cup {[e EXCEPT !.data = d] : e \in made, d \in Data}

KnownDigests == {receipt[w].eventsDigest : w \in sealed} \cup {receipt[w].head : w \in sealed}
                  \cup {receipt[w].digest : w \in sealed}

Take(w) ==
    /\ w \in sealed /\ copy = None /\ copy' = receipt[w]
    /\ UNCHANGED <<receipt, sealed, changes, resealed>>

Altered ==
    /\ copy # None /\ changes < MaxChanges /\ changes' = changes + 1
    /\ UNCHANGED <<receipt, sealed>>

AlterEnvelope ==
    /\ Altered /\ UNCHANGED resealed
    /\ \/ \E b \in Bodies : copy' = [copy EXCEPT !.body = b]
       \/ copy' = [copy EXCEPT !.schema = "other"]
       \/ \E d \in KnownDigests :
            \/ copy' = [copy EXCEPT !.eventsDigest = d]
            \/ copy' = [copy EXCEPT !.head = d]
            \/ copy' = [copy EXCEPT !.digest = d]
            \/ copy' = [copy EXCEPT !.id = Handle(d)]

AlterEvents ==
    /\ Altered /\ UNCHANGED resealed
    /\ \E k \in 1..(Len(copy.events) + 1) :
         \/ /\ k \in DOMAIN copy.events
            /\ copy' = [copy EXCEPT !.events = SubSeq(@, 1, k - 1) \o SubSeq(@, k + 1, Len(@))]
         \/ \E e \in KnownEvents :
              copy' = [copy EXCEPT !.events = SubSeq(@, 1, k - 1) \o <<e>> \o SubSeq(@, k + 1, Len(@))]

\* Whoever alters a receipt may seal the envelope again, the events being left as they are.
Reseal ==
    /\ Altered /\ copy' = Sealed(copy) /\ resealed' = TRUE

Done == changes = MaxChanges /\ UNCHANGED vars

Next ==
    \/ \E w \in Recorders : FinalizeReceipt(w) \/ Take(w) \/ (\E d \in Data : AppendEvent(w, d))
    \/ AlterEnvelope \/ AlterEvents \/ Reseal \/ Done

Spec == Init /\ [][Next]_vars

-----------------------------------------------------------------------------
(* Properties.                                                             *)

IsPrefixOf(s, t) == Len(s) <= Len(t) /\ \A k \in 1..Len(s) : s[k] = t[k]

\* What a recorder seals, a verifier accepts.
SealedVerifies == \A w \in sealed : IntegrityValid(receipt[w])

\* A copy that verifies and was not sealed again is one of the sealed receipts, whole:
\* no piece of it was changed, dropped, reordered or taken from another receipt.
AlterationIsDetected ==
    (copy # None /\ ~resealed /\ IntegrityValid(copy)) => \E w \in sealed : copy = receipt[w]

\* Exactly: what was sealed verifies, and what verifies was sealed.
VerdictIsExact == SealedVerifies /\ AlterationIsDetected

\* Even a copy that was sealed again verifies only if its events are the first events of
\* one recorder's log, in their order: each link pins everything before it.
ChainPinsHistory ==
    (copy # None /\ IntegrityValid(copy)) =>
        copy.events = <<>> \/ \E w \in sealed : IsPrefixOf(copy.events, receipt[w].events)

=============================================================================
