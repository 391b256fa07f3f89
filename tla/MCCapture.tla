----------------------------- MODULE MCCapture -----------------------------
(* A first root holding a directory 1 with the child 2, a second root holding *)
(* the path 3, and an empty third one.                                       *)
EXTENDS Capture

CONSTANTS a, b, c   \* contents of two, three and one bytes; the last is only met in reads

MCPaths    == 1..3
MCRootOf   == <<1, 1, 2>>
MCParentOf == <<0, 1, 0>>
MCBelow    == <<{2}, {}, {}>>

MCSizeOf == [d \in {a, b, c} |-> CASE d = a -> 2 [] d = b -> 3 [] OTHER -> 1]

Node(k, d) == [kind |-> k, stamp |-> 0, data |-> d]
MCNodes    == {Node("file", a), Node("file", b), Node("directory", None), Node("symlink", c),
               Node("other", None)}
=============================================================================
