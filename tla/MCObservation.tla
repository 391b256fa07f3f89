--------------------------- MODULE MCObservation ---------------------------
(* One root holding a directory 1 with the child 2, and the path 3.          *)
EXTENDS Observation

CONSTANTS a, b      \* two file contents of one byte

MCPaths    == 1..3
MCRootOf   == <<1, 1, 1>>
MCParentOf == <<0, 1, 0>>
MCBelow    == <<{2}, {}, {}>>

MCSizeOf == [d \in {a, b} |-> 1]

Node(k, d)     == [kind |-> k, stamp |-> 0, data |-> d]
MCNodes        == {Node("file", a), Node("file", b), Node("directory", None)}
=============================================================================
