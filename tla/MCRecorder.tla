----------------------------- MODULE MCRecorder -----------------------------
(* One root holding one path. *)
EXTENDS Recorder

CONSTANTS a

MCPaths    == 1..1
MCRootOf   == <<1>>
MCParentOf == <<0>>
MCBelow    == <<{}>>
MCSizeOf   == [d \in {a} |-> 1]

Node(k, d) == [kind |-> k, stamp |-> 0, data |-> d]
MCNodes    == {Node("file", a), Node("symlink", a)}
=============================================================================
