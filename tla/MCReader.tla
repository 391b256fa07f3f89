------------------------------ MODULE MCReader ------------------------------
(* Two names, receipts that fit, are too long, dropped effects or were altered. *)
EXTENDS Reader

CONSTANTS one, two, k1, k2

MCNames == {one, two}

MCCommands == {[verb |-> "show", names |-> <<one>>], [verb |-> "verify", names |-> <<one>>],
               [verb |-> "diff", names |-> <<one, two>>], [verb |-> "diff", names |-> <<one, one>>]}

Ran == [{k1, k2} -> {None} \cup {<<0, 1>>, <<2, 1>>}]
Had(ran) == {key \in {k1, k2} : ran[key] # None}

Receipt(size, ran, kept, outcome) ==
    [size |-> size, receipt |-> TRUE, valid |-> TRUE, ran |-> ran, outcome |-> outcome,
     capabilities |-> "same",
     events |-> IF kept = {} THEN <<>>
                ELSE IF Cardinality(kept) = 1
                THEN <<[key |-> CHOOSE k \in kept : TRUE, states |-> ran[CHOOSE k \in kept : TRUE]]>>
                ELSE <<[key |-> k2, states |-> ran[k2]], [key |-> k1, states |-> ran[k1]]>>]

\* A receipt of every run, whole or with one effect dropped.
OfRuns == {Receipt(2, ran, Had(ran), "exited") : ran \in Ran}
            \cup {Receipt(2, ran, {k1}, "failed") : ran \in {r \in Ran : Had(r) = {k1, k2}}}

None1 == [key \in {k1, k2} |-> None]
AtTheLimit == Receipt(3, None1, {}, "exited")
PastTheLimit == Receipt(4, None1, {}, "exited")
TooLarge == Receipt(5, None1, {}, "exited")
Altered == [Receipt(2, None1, {}, "exited") EXCEPT !.valid = FALSE]
Notes == [Receipt(2, None1, {}, "exited") EXCEPT !.valid = FALSE, !.receipt = FALSE]
Twice == [Receipt(2, None1, {}, "exited") EXCEPT !.ran = None,
            !.events = <<[key |-> k1, states |-> <<0, 1>>], [key |-> k1, states |-> <<2, 1>>]>>]

MCDocuments == OfRuns \cup {AtTheLimit, PastTheLimit, TooLarge, Altered, Notes, Twice}

Holding(d, n) == [kind |-> "file", doc |-> d, length |-> n]
Other(kind) == [kind |-> kind, doc |-> None, length |-> 0]

MCNewFiles == {Holding(AtTheLimit, 1), Holding(TooLarge, 5), Holding(Altered, 2),
               Other("directory"), Other("pipe")}
MCFirstFiles == {None, Other("directory")} \cup {Holding(d, d.size) : d \in MCDocuments}
                  \cup {Holding(d, 1) : d \in {AtTheLimit, PastTheLimit}}

=============================================================================
