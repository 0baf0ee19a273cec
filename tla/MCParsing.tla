----------------------------- MODULE MCParsing -----------------------------
(* Instance for TLC: every text up to a length over the characters that     *)
(* the parser in question tells apart, behind a few beginnings that lead    *)
(* into its later parts.                                                    *)
EXTENDS Parsing

Texts(alphabet, n) == UNION {[1..k -> alphabet] : k \in 0..n}

MCRequests == {head \o tail :
    head \in {<<>>, <<"a", ":", "/", "/">>, <<"/", "/", "a", "@">>, <<"/", "a", "?", "a">>},
    tail \in Texts({"a", " ", ":", "/", "?", "#", "@", "&", "=", "[", "]", ";", "\\"}, 3)}

MCCommandLines == {<<"a", " ">> \o tail : tail \in Texts({"-", "=", "a", " "}, 7)}

MCLo == -128

MCNumbers == Texts({"0", "1", "2", "7", "8", "-", "+", " "}, 4)

MCPorts == Texts({"0", "5", "6", "a"}, 7)

MCMessages == Texts({0, 1, 255}, 3) \cup {[i \in 1..n |-> i % 256] : n \in {16, 254, 255}}

MCFiles == Texts({"a", "b", "/", ".", " "}, 4)

MCPatterns == Texts({"a", "/", "?", "*"}, 3)
=============================================================================
