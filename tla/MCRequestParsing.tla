------------------------- MODULE MCRequestParsing ---------------------------
(* Arguments for TLC: numbers that are proper, empty, not positive, too large *)
(* or malformed, and lists: all of up to MaxLen characters, and the longest.  *)
EXTENDS RequestParsing

CONSTANT MaxLen

MCNumbers == {<<>>, <<"0">>, <<"1">>, <<"3">>, <<" ", "2">>, <<"-", "1">>, <<"1", "x">>}

MCLists == UNION {[1..n -> {"0", "3", "-", " ", "x"}] : n \in 0..MaxLen}
             \cup {<<"3", "3", " ", "0", "1">>, <<"2", " ", "1", " ", "3">>}

MCArgs == MCNumbers \X MCLists
=============================================================================
