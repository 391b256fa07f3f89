------------------------------ MODULE MCSetup ------------------------------
(* A directory a with b in it, a second place c and a link l; words of eight bits. *)
EXTENDS Setup

MCPlaces == {<<>>, <<"a">>, <<"a", "b">>, <<"c">>, <<"l">>}
Link(p)  == [kind |-> "link", to |-> p]
MCNodes  == {Directory, [kind |-> "file", to |-> <<>>], Link(<<"a">>), Link(<<"c">>)}

MCUnits == [u \in {"ms", "s", "m", "h"} |->
              CASE u = "ms" -> 1 [] u = "s" -> 10 [] u = "m" -> 60 [] u = "h" -> 200]

Text(n, letters) == [digits |-> n, letters |-> letters]
Rel(p) == [absolute |-> FALSE, path |-> p]
Abs(p) == [absolute |-> TRUE, path |-> p]
Asked  == {Rel(<<"b">>), Rel(<<"..", "c">>), Abs(<<"a">>), Abs(<<"l">>)}

Default == [words |-> 1, entries |-> 1, events |-> 2, file |-> 0, total |-> 0, duration |-> None,
            output |-> <<"o">>, working |-> <<"a">>, roots |-> <<>>]
Bad == {[Default EXCEPT !.words = 0], [Default EXCEPT !.entries = 0], [Default EXCEPT !.entries = 4],
        [Default EXCEPT !.events = 1], [Default EXCEPT !.events = 4], [Default EXCEPT !.file = 2],
        [Default EXCEPT !.total = 2], [Default EXCEPT !.output = <<"..">>],
        [Default EXCEPT !.output = <<"c">>], [Default EXCEPT !.output = <<"l">>]}
Timed == {[Default EXCEPT !.duration = Text(n, w)] :
            n \in {0, 1, 2, 10, 60, 64, 255, 256, 300}, w \in {<<"m", "s">>, <<"h">>}}
         \cup {[Default EXCEPT !.duration = Text(5, w)] :
                 w \in {<<>>, <<"s">>, <<"m">>, <<"s", "s">>, <<"h", "m", "s">>}}
Rooted == {[Default EXCEPT !.working = w, !.roots = rs] :
             w \in {<<"a">>, <<"l">>}, rs \in SeqOf(Asked, 2)}
MCCommandLines == Bad \cup Timed \cup Rooted
=============================================================================
