----------------------------- MODULE MCCommands -----------------------------
(***************************************************************************)
(* Lines for the model checker: every way to write up to three words of    *)
(* the characters of PUT and another one, and numerals on both sides of    *)
(* what an int of seven bits holds.                                        *)
(***************************************************************************)
EXTENDS Commands

Strings(chars, n) == UNION {[1 .. m -> chars] : m \in 0 .. n}

Put3 == <<"P", "u", "T">>

MCLines ==
    {Put3 \o <<Space>> \o s : s \in Strings({"T", "x", " "}, 4)}
        \cup {w \o <<Space>> \o k : w \in {Word.GET, <<"d", "e", "l", "e", "t", "e">>},
                                    k \in Strings({"T", "x"}, 1)}
        \cup {Word.MERKLE \o <<Space>> \o n : n \in Strings({"1", "2", "9"}, 3) \cup {<<"0">>, <<"1", "x">>}}
        \cup {<<>>, <<Space>>, Put3 \o <<"x">>, <<Space>> \o Word.TABLES, Word.TABLES \o <<Space, "x">>,
              <<"e", "x", "i", "t">>, Word.QUIT \o <<Space, "x">>}

MCReservedKeys == {<<"x", "x">>}
=============================================================================
