----------------------------- MODULE MCIntegrity -----------------------------
(* Two recorders, two event contents, two bodies. *)
EXTENDS Integrity, TLC
CONSTANTS w1, w2, d1, d2, b1, b2
MCRecorders == {w1, w2}
MCData == {d1, d2}
MCBodies == {b1, b2}
MCSymmetry == Permutations(MCRecorders) \cup Permutations(MCData) \cup Permutations(MCBodies)
=============================================================================
