-------------------------- MODULE MCTicketOffices --------------------------
(* Small rooms for TLC. *)
EXTENDS TicketOffices, TLC

CONSTANTS o1, o2, p1, p2

MCOffice == {o1, o2}
MCPid    == {p1, p2}
OnePid   == {p1}

\* Both seats; one of them, starting from the other end.
MCRequest == {[wanted |-> 2, prefs |-> <<1, 2>>],
              [wanted |-> 1, prefs |-> <<2, 1>>]}

\* Every verdict of verifyRequestErrors and a seat named twice.
AllVerdicts == {[wanted |-> 1, prefs |-> <<1, 2>>],
                [wanted |-> 2, prefs |-> <<2, 2>>],
                [wanted |-> 1, prefs |-> <<>>],
                [wanted |-> 1, prefs |-> <<1, 0>>],
                [wanted |-> 2, prefs |-> <<1>>],
                [wanted |-> 3, prefs |-> <<1, 2, 2>>],
                [wanted |-> 4, prefs |-> <<1>>]}

Symmetry == Permutations(MCOffice) \cup Permutations(MCPid)
=============================================================================
