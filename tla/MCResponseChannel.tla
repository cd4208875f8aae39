------------------------- MODULE MCResponseChannel --------------------------
(* Answers for TLC: two seats, one, none, and an error (NAV). *)
EXTENDS ResponseChannel

MCAnswers == {<<AYE, 2, 7, 3>>, <<AYE, 1, 5>>, <<AYE, 0>>, <<-5>>}

\* Those with seats.
MCSeatAnswers == {a \in MCAnswers : Len(a) > 2}
=============================================================================
