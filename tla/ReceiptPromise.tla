--------------------------- MODULE ReceiptPromise ---------------------------
(***************************************************************************)
(* What the receipt files of `cmdtrail record` promise to whoever reads    *)
(* the exit code (src/record.rs, src/receipt.rs, seen from outside *)
(* the process): a name is claimed only while it is free, belongs to one   *)
(* owner until somebody else removes the file, and a recorder says "kept"  *)
(* or "recovered" only of a receipt it finished.  ReceiptStore implements  *)
(* this.                                                                   *)
(***************************************************************************)
CONSTANTS
    Recorders,   \* processes running `cmdtrail record`
    Paths,       \* names a caller may ask for
    Ids,         \* receipt identifiers
    Foreign,     \* the owner of files no recorder made
    None

Recovery(i) == <<"recovery", i>>
Names == Paths \cup {Recovery(i) : i \in Ids}

VARIABLES
    stage,     \* what each recorder has come to
    holder,    \* whose file each name is
    finished,  \* names whose file is a whole receipt
    removed    \* history: files of recorders that somebody removed

vars == <<stage, holder, finished, removed>>

Final == {"unrecorded", "kept", "recovered", "lost", "died"}

Init ==
    /\ stage = [r \in Recorders |-> "unsealed"]
    /\ holder \in [Names -> {None, Foreign}]
    /\ finished = {} /\ removed = {}

Becomes(r, s) ==
    /\ stage' = [stage EXCEPT ![r] = s]
    /\ UNCHANGED <<holder, finished, removed>>

\* Nothing was claimed by a recorder that ends before it sealed a receipt.
Refuse(r) == stage[r] = "unsealed" /\ Becomes(r, "unrecorded")

Seal(r) == stage[r] = "unsealed" /\ Becomes(r, "sealed")

Claim(r, n) ==
    /\ stage[r] = "sealed" /\ holder[n] = None
    /\ holder' = [holder EXCEPT ![n] = r]
    /\ UNCHANGED <<stage, finished, removed>>

Complete(r, n) ==
    /\ stage[r] = "sealed" /\ holder[n] = r
    /\ finished' = finished \cup {n}
    /\ UNCHANGED <<stage, holder, removed>>

Finished(r, n) == (holder[n] = r /\ n \in finished) \/ <<r, n>> \in removed

Keep(r) ==
    /\ stage[r] = "sealed" /\ \E n \in Paths : Finished(r, n)
    /\ Becomes(r, "kept")

Recover(r) ==
    /\ stage[r] = "sealed" /\ \E i \in Ids : Finished(r, Recovery(i))
    /\ Becomes(r, "recovered")

GiveUp(r) == stage[r] = "sealed" /\ Becomes(r, "lost")
Die(r)    == stage[r] \in {"unsealed", "sealed"} /\ Becomes(r, "died")

Place(n) ==
    /\ holder[n] = None
    /\ holder' = [holder EXCEPT ![n] = Foreign]
    /\ UNCHANGED <<stage, finished, removed>>

Remove(n) ==
    /\ holder[n] # None
    /\ removed' = IF holder[n] = Foreign THEN removed ELSE removed \cup {<<holder[n], n>>}
    /\ holder' = [holder EXCEPT ![n] = None] /\ finished' = finished \ {n}
    /\ UNCHANGED stage

Next ==
    \/ \E r \in Recorders :
          \/ Refuse(r) \/ Seal(r) \/ Keep(r) \/ Recover(r) \/ GiveUp(r) \/ Die(r)
          \/ \E n \in Names : Claim(r, n) \/ Complete(r, n)
    \/ \E n \in Names : Place(n) \/ Remove(n)

Spec == Init /\ [][Next]_vars
=============================================================================
