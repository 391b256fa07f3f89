---------------------------- MODULE MCRedaction ----------------------------
(* Short commands over a small vocabulary: flags, keys, URLs, paths, values that overlap. *)
EXTENDS Redaction

MCEnvironment == [n \in {"", "A", "B", "C", "D", "E", "F"} |->
    CASE n = "A" -> <<"x">> [] n = "B" -> <<"x", "y">> [] n = "C" -> <<"/", "z">>
      [] n \in {"", "D"} -> <<>> [] n = "E" -> None [] n = "F" -> <<"z", "\\">>]
MCNameLists == {<<>>, <<"A">>, <<"B", "A", "B">>, <<"C">>, <<"F">>, <<"A", "D">>, <<"E">>, <<"">>}

MCRank == [c \in {"#", "-", "/", ":", "=", "?", "@", "\\", "token", "password", "cfg",
                  "x", "y", "z"} |->
    CASE c = "#" -> 1 [] c = "-" -> 2 [] c = "/" -> 3 [] c = ":" -> 4 [] c = "=" -> 5
      [] c = "?" -> 6 [] c = "@" -> 7 [] c = "\\" -> 8 [] c = "cfg" -> 9
      [] c = "password" -> 10 [] c = "token" -> 11 [] c = "x" -> 12 [] c = "y" -> 13
      [] c = "z" -> 14]

MCExecutables == {<<"/">>, <<"/", "x", "/", "y", "x">>}

Url == <<":", "/", "/">>
MCArguments == {
    NonUtf8, <<>>, <<"z">>, <<"x", "y">>, <<"y", "x">>,
    <<"-", "token">>, <<"-", "cfg">>,
    <<"-", "token", "=", "z", "=", "y">>, <<"cfg", "=", "y">>,
    <<"cfg", "=", "token", "=", "z">>,
    <<"z">> \o Url \o <<"y", "@", "z", "@", "cfg", "/", "z", "?", "y", "#", "z">>,
    <<"cfg", "=", "z">> \o Url \o <<"y", "?", "token", "=", "z">>,
    <<"z">> \o Url \o <<"cfg", "#", "y", "?", "z">>, <<"z">> \o Url \o <<"cfg">>,
    <<"z", "\\", "cfg">>, <<"z", "/", "password", "/", "y">>,
    <<"-", "token", "/", "z">>, <<"-", "password", "/", "z">>,
    <<"-", "token", "=", "z", "/", "password", "/", "y">>}

MCSlashedSecret == {<<"-", "password", "=", "y", "/", "z">>, <<"-", "password", "=", "y">>}

MCPathTexts == {<<"z">>, <<"y", "x", "y">>, <<"z", "/", "password">>, <<"cfg", "/", "z">>,
                <<"y", "/", "z", "x">>, <<"z", "\\", "y">>}
=============================================================================
