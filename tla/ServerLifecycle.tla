--------------------------- MODULE ServerLifecycle --------------------------
(***************************************************************************)
(* Successive runs of the ticket server (Part2/Server: main.c, initServer, *)
(* timeCounter.c) and what one leaves to the next in the file system: the  *)
(* FIFO "/tmp/requests", whose mkfifo is the only lock between two servers, *)
(* and the seat semaphores "/sem<seat>".  A server may be killed anywhere. *)
(*                                                                         *)
(* What offices do with requests is TicketOffices; here an office only     *)
(* takes and posts the semaphores of seats.                                *)
(***************************************************************************)
EXTENDS Integers, FiniteSets

CONSTANTS
  Server,      \* runs of the server
  Office,      \* the offices of each
  NSeats,      \* argv[1] of each
  MaxUses,     \* bound: how often the offices of a server test a seat
  None

\* The names "/sem<i>" a run uses; seats are numbered from 1.
Seat == UNION {0..NSeats[s] : s \in Server}

\* A semaphore: who made it, for which seat, and which of its making.
Semaphore == Server \X Seat \X (0..Cardinality(Server))

ASSUME ConstantsAssumption ==
  /\ NSeats \in [Server -> Nat \ {0}]
  /\ MaxUses \in Nat /\ None \notin Server \cup Semaphore
  /\ IsFiniteSet(Office)

VARIABLES
  pc,          \* where the main thread of each server is
  i,           \* the index of its sem_unlink loops
  closed,      \* its offices are closed: ~g_tickets_are_open
  fired,       \* its timer process has sent SIGUSR1
  office,      \* what each office of each server does, with which semaphore
  uses,        \* seats tested so far
  fifo,        \* who made the FIFO at "/tmp/requests", or None
  name,        \* the semaphore at "/sem<i>", or None
  overlapped   \* servers that started while another was still sweeping

offices == <<office, uses>>
files == <<fifo, name>>
vars == <<pc, i, closed, fired, offices, files, overlapped>>

Up == {"fork", "mkfifo", "start", "clean", "serve", "close", "unlink", "sweep"}
Over == {"refused", "ended", "killed"}
AtWork == {"start", "clean", "serve", "close"}

TypeOK ==
  /\ pc \in [Server -> {"off"} \cup Up \cup Over]
  /\ i \in [Server -> Nat] /\ \A s \in Server : i[s] <= NSeats[s]
  /\ closed \in [Server -> BOOLEAN] /\ fired \in [Server -> BOOLEAN]
  /\ office \in [Server -> [Office ->
       [at : {"idle", "wait", "in", "ended"}, sem : Semaphore \cup {None}]]]
  /\ uses \in [Server -> 0..MaxUses]
  /\ fifo \in Server \cup {None}
  /\ name \in [Seat -> Semaphore \cup {None}]
  /\ overlapped \subseteq Server

Init ==
  /\ pc = [s \in Server |-> "off"] /\ i = [s \in Server |-> 0]
  /\ closed = [s \in Server |-> FALSE] /\ fired = [s \in Server |-> FALSE]
  /\ office = [s \in Server |-> [o \in Office |-> [at |-> "idle", sem |-> None]]]
  /\ uses = [s \in Server |-> 0]
  /\ fifo = None /\ name = [k \in Seat |-> None]
  /\ overlapped = {}

-----------------------------------------------------------------------------
(* The main thread: main, initRequestsFifo, initServer                     *)

Goto(s, from, to) == pc[s] = from /\ pc' = [pc EXCEPT ![s] = to]

Start(s) ==
  /\ Goto(s, "off", "fork")
  /\ UNCHANGED <<i, closed, fired, offices, files, overlapped>>

\* Mutant of MakeFifo: the FIFO of another server is used.
MakeFifoAnyway(s) ==
  /\ Goto(s, "fork", "mkfifo")
  /\ fifo' = s
  /\ overlapped' = overlapped
  /\ UNCHANGED <<i, closed, fired, offices, name>>

\* mkfifo fails on an existing FIFO, stale or not.
MakeFifo(s) ==
  /\ Goto(s, "fork", IF fifo = None THEN "mkfifo" ELSE "refused")
  /\ fifo' = IF fifo = None THEN s ELSE fifo
  /\ overlapped' = IF \E r \in Server : pc[r] = "sweep" THEN overlapped \cup {s}
                                                       ELSE overlapped
  /\ UNCHANGED <<i, closed, fired, offices, name>>

OpenFifo(s) ==
  /\ Goto(s, "mkfifo", "start")
  /\ UNCHANGED <<i, closed, fired, offices, files, overlapped>>

\* Mutant of InstallHandler: stale semaphores are left to the final sweep.
SkipCleaning(s) ==
  /\ Goto(s, "start", "serve")
  /\ UNCHANGED <<i, closed, fired, offices, files, overlapped>>

InstallHandler(s) ==
  /\ Goto(s, "start", "clean")
  /\ UNCHANGED <<i, closed, fired, offices, files, overlapped>>

\* Mutant of UnlinkSemaphore: the second loop goes on with the index of the first.
UnlinkWithoutReset(s, from, to) ==
  /\ Goto(s, from, IF i[s] + 1 = NSeats[s] THEN to ELSE from)
  /\ name' = [name EXCEPT ![i[s]] = None]
  /\ i' = [i EXCEPT ![s] = @ + 1]
  /\ UNCHANGED <<closed, fired, offices, fifo, overlapped>>

\* A turn of a loop over 0..nSeats - 1, the last going on to state to.
UnlinkSemaphore(s, from, to) ==
  /\ Goto(s, from, IF i[s] + 1 = NSeats[s] THEN to ELSE from)
  /\ name' = [name EXCEPT ![i[s]] = None]
  /\ i' = [i EXCEPT ![s] = IF @ + 1 = NSeats[s] THEN 0 ELSE @ + 1]
  /\ UNCHANGED <<closed, fired, offices, fifo, overlapped>>

Clean(s) == UnlinkSemaphore(s, "clean", "serve")

\* Mutant of JoinOffices: one office is enough.
JoinOne(s) ==
  /\ Goto(s, "serve", "close")
  /\ \E o \in Office : office[s][o].at = "ended"
  /\ UNCHANGED <<i, closed, fired, offices, files, overlapped>>

JoinOffices(s) ==
  /\ Goto(s, "serve", "close")
  /\ \A o \in Office : office[s][o].at = "ended"
  /\ UNCHANGED <<i, closed, fired, offices, files, overlapped>>

CloseFifo(s) ==
  /\ Goto(s, "close", "unlink")
  /\ UNCHANGED <<i, closed, fired, offices, files, overlapped>>

\* Mutant of UnlinkFifo: unlink is left out.
LeaveFifo(s) ==
  /\ Goto(s, "unlink", "sweep")
  /\ UNCHANGED <<i, closed, fired, offices, files, overlapped>>

UnlinkFifo(s) ==
  /\ Goto(s, "unlink", "sweep")
  /\ fifo' = None
  /\ UNCHANGED <<i, closed, fired, offices, name, overlapped>>

Sweep(s) == UnlinkSemaphore(s, "sweep", "ended")

-----------------------------------------------------------------------------
(* SIGUSR1, and a server killed                                            *)

\* Mutant of TimerFires: the handler does not close the offices.
TimerIgnored(s) ==
  /\ pc[s] # "off" /\ ~fired[s]
  /\ fired' = [fired EXCEPT ![s] = TRUE]
  /\ UNCHANGED <<pc, closed, i, offices, files, overlapped>>

\* Before activateSignalHandler the signal kills.
TimerFires(s) ==
  /\ pc[s] # "off" /\ ~fired[s]
  /\ fired' = [fired EXCEPT ![s] = TRUE]
  /\ pc' = IF pc[s] \in {"fork", "mkfifo", "start"}
           THEN [pc EXCEPT ![s] = "killed"] ELSE pc
  /\ closed' = [closed EXCEPT ![s] = pc[s] \in {"clean", "serve"}]
  /\ UNCHANGED <<i, offices, files, overlapped>>

\* SIGPIPE, SIGINT, or an exit on the error of a call.
Kill(s) ==
  /\ pc[s] \in Up
  /\ pc' = [pc EXCEPT ![s] = "killed"]
  /\ UNCHANGED <<i, closed, fired, offices, files, overlapped>>

-----------------------------------------------------------------------------
(* The offices: get_seat_semaphore, allocSeat                              *)

Using(m) == {p \in Server \X Office : office[p[1]][p[2]].sem = m}

\* Its value is 1: nobody, dead or alive, is between sem_wait and sem_post.
Free(m) == \A p \in Using(m) : office[p[1]][p[2]].at # "in"

SetOffice(s, o, at, sem) ==
  office' = [office EXCEPT ![s][o] = [at |-> at, sem |-> sem]]

\* sem_open(O_CREAT): the semaphore of that name, or a new one.
OpenSeat(s, o, k) ==
  /\ pc[s] = "serve" /\ ~closed[s]
  /\ office[s][o].at = "idle" /\ uses[s] < MaxUses
  /\ uses' = [uses EXCEPT ![s] = @ + 1]
  /\ IF name[k] # None
     THEN SetOffice(s, o, "wait", name[k]) /\ UNCHANGED name
     ELSE \E m \in {s} \X {k} \X (0..Cardinality(Server)) :
            /\ Using(m) = {}
            /\ \A g \in 0..(m[3] - 1) : Using(<<s, k, g>>) # {}
            /\ SetOffice(s, o, "wait", m)
            /\ name' = [name EXCEPT ![k] = m]
  /\ UNCHANGED <<pc, i, closed, fired, fifo, overlapped>>

TakeSeat(s, o) ==
  /\ pc[s] = "serve"
  /\ office[s][o].at = "wait" /\ Free(office[s][o].sem)
  /\ SetOffice(s, o, "in", office[s][o].sem)
  /\ UNCHANGED <<pc, i, closed, fired, uses, files, overlapped>>

PostSeat(s, o) ==
  /\ pc[s] = "serve"
  /\ office[s][o].at = "in"
  /\ SetOffice(s, o, "idle", None)
  /\ UNCHANGED <<pc, i, closed, fired, uses, files, overlapped>>

OfficeEnds(s, o) ==
  /\ pc[s] = "serve" /\ closed[s]
  /\ office[s][o].at = "idle"
  /\ SetOffice(s, o, "ended", None)
  /\ UNCHANGED <<pc, i, closed, fired, uses, files, overlapped>>

-----------------------------------------------------------------------------
(* The user                                                                *)

\* rm /tmp/requests, by a user who sees that no server is up.
RemoveStaleFifo ==
  /\ fifo # None /\ \A s \in Server : pc[s] \notin Up
  /\ fifo' = None
  /\ UNCHANGED <<pc, i, closed, fired, offices, name, overlapped>>

-----------------------------------------------------------------------------
(* The specification                                                       *)

MainStep(s) == \/ MakeFifo(s) \/ OpenFifo(s) \/ InstallHandler(s) \/ Clean(s)
               \/ JoinOffices(s) \/ CloseFifo(s) \/ UnlinkFifo(s) \/ Sweep(s)

\* What an office finishes once it has begun; no request need come.
OfficeGoesOn(s, o) == TakeSeat(s, o) \/ PostSeat(s, o) \/ OfficeEnds(s, o)

OfficeStep(s, o) == (\E k \in 1..NSeats[s] : OpenSeat(s, o, k)) \/ OfficeGoesOn(s, o)

Next ==
  \/ \E s \in Server : \/ Start(s) \/ MainStep(s) \/ TimerFires(s) \/ Kill(s)
                       \/ \E o \in Office : OfficeStep(s, o)
  \/ RemoveStaleFifo

Spec == Init /\ [][Next]_vars

\* sleep ends, and the kernel runs the threads of a server.
FairSpec ==
  /\ Spec
  /\ \A s \in Server :
       /\ WF_vars(MainStep(s)) /\ WF_vars(TimerFires(s))
       /\ \A o \in Office : WF_vars(OfficeGoesOn(s, o))

-----------------------------------------------------------------------------
(* Properties                                                              *)

\* mkfifo lets one server at a time work, as long as nobody removes the FIFO
\* under it; and a FIFO that nobody will read or remove (a client that opens it
\* waits, without a time out) is a killed server's.
Holding == AtWork \cup {"mkfifo", "unlink"}

FifoIsLock ==
  /\ \A s \in Server : pc[s] \in Holding => fifo = s
  /\ fifo # None => pc[fifo] \in Holding \cup {"killed"}

\* Two offices of a server are at the same seat together only if the server was
\* started before its predecessor had unlinked its last semaphore: the
\* predecessor then unlinks one that is in use, and O_CREAT makes a second.
SeatLockKept ==
  \A s \in Server, k \in Seat :
    Cardinality({o \in Office : /\ office[s][o].at = "in"
                                /\ office[s][o].sem[2] = k}) > 1
      => s \in overlapped

\* Of the semaphores other runs left, an office only ever meets its last seat's,
\* which the bound of the loop leaves out.
SemaphoresFresh ==
  \A s \in Server, o \in Office :
    LET m == office[s][o].sem IN m # None /\ m[1] # s => m[2] = NSeats[s]

\* When no server was killed, what is left when all are over does not disturb
\* the next: no FIFO, and of the semaphores only last seats', with value 1.
LeftOvers ==
  (\A s \in Server : pc[s] \in Over \ {"killed"}) =>
    /\ fifo = None
    /\ \A k \in Seat : name[k] # None =>
         Free(name[k]) /\ \E s \in Server : k = NSeats[s]

\* An office waits for a semaphore a killed server's office had taken.
WaitsForDead(s) ==
  \E o \in Office, p \in Server \X Office :
    /\ office[s][o].at = "wait" /\ p \in Using(office[s][o].sem)
    /\ pc[p[1]] = "killed" /\ office[p[1]][p[2]].at = "in"

\* A server that starts is over in the end, refused, killed or joined, but for
\* one whose last seat's semaphore was left taken.
ServerEnds == \A s \in Server : pc[s] = "fork" ~> pc[s] \in Over \/ WaitsForDead(s)
=============================================================================
