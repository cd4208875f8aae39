---------------------------- MODULE Reservations ----------------------------
(***************************************************************************)
(* What the reservation service promises, without offices, locks, FIFOs or *)
(* semaphores.  Each client asked once for a number of seats out of a list *)
(* of preferred ones.  The service may grant it exactly that many seats,   *)
(* all preferred and none of them granted to anyone else; it may tell the  *)
(* client; it may withdraw a grant it has not told of (the client left     *)
(* before the answer), never one the client knows about.                   *)
(***************************************************************************)
EXTENDS Naturals, FiniteSets, Functions

CONSTANTS Pid,      \* the client processes
          Seat      \* the seats of the room

VARIABLES asked,    \* asked[p].wanted seats out of Range(asked[p].prefs)
          granted,  \* the seats the service holds for p
          told      \* the clients that have read that they have seats

vars == <<asked, granted, told>>

Init == /\ \A p \in Pid : asked[p].wanted \in Nat
        /\ granted = [p \in Pid |-> {}]
        /\ told = {}

Grant(p, S) == /\ granted[p] = {}
               /\ S \subseteq Range(asked[p].prefs)
               /\ Cardinality(S) = asked[p].wanted
               /\ \A q \in Pid : S \cap granted[q] = {}
               /\ granted' = [granted EXCEPT ![p] = S]
               /\ UNCHANGED <<asked, told>>

Tell(p) == /\ Cardinality(granted[p]) = asked[p].wanted
           /\ told' = told \cup {p}
           /\ UNCHANGED <<asked, granted>>

Withdraw(p) == /\ p \notin told
               /\ granted' = [granted EXCEPT ![p] = {}]
               /\ UNCHANGED <<asked, told>>

Next == \E p \in Pid : \/ \E S \in SUBSET Seat : Grant(p, S)
                       \/ Tell(p)
                       \/ Withdraw(p)

Spec == Init /\ [][Next]_vars
=============================================================================
