----------------------- MODULE ServerLifecycle_proofs -----------------------
(***************************************************************************)
(* Proofs about ServerLifecycle for any number of runs of the server, each *)
(* with any number of seats and offices.  IInv adds to the properties what *)
(* a server knows of the names in the file system in each phase.           *)
(***************************************************************************)
EXTENDS ServerLifecycle, FiniteSetTheorems, TLAPS

\* The loops go from 0 to nSeats - 1.
IndexOK ==
  \A s \in Server :
    /\ i[s] < NSeats[s]
    /\ pc[s] \notin {"clean", "sweep", "killed"} => i[s] = 0

\* "/sem<k>" is a semaphore of seat k, made by a run that has such a seat.
NameOK ==
  \A k \in Seat : name[k] # None =>
    name[k][2] = k /\ k >= 1 /\ k <= NSeats[name[k][1]]

\* Before it serves, a server has unlinked what others left, and nobody makes
\* a semaphore but itself.
CleanOK ==
  \A s \in Server :
    /\ pc[s] = "clean" => \A k \in Seat : k < i[s] => name[k] = None
    /\ pc[s] = "serve" =>
         \A k \in Seat : k < NSeats[s] /\ name[k] # None => name[k][1] = s

\* After the last sem_unlink no name but the last seat's is its own.
SweptOK ==
  \A k \in Seat : name[k] # None /\ k # NSeats[name[k][1]] =>
    LET s == name[k][1]
    IN pc[s] \in {"serve", "close", "unlink", "sweep", "killed"}
       /\ (pc[s] = "sweep" => i[s] <= k)

Before == {"off", "fork", "mkfifo", "start", "clean", "refused"}
After == {"close", "unlink", "sweep", "ended"}

\* An office has a semaphore only while it uses it, and there are offices at
\* work only while the server serves.
OfficesOK ==
  \A s \in Server, o \in Office :
    /\ office[s][o].at \in {"wait", "in"} <=> office[s][o].sem # None
    /\ pc[s] \in Before => office[s][o].at = "idle"
    /\ pc[s] \in After => office[s][o].at = "ended"

\* Nobody sweeps under a server that is not in overlapped.
NoSweep ==
  \A s \in Server \ overlapped :
    pc[s] \in Holding => \A r \in Server : pc[r] # "sweep"

\* Its offices mean the same semaphore by a seat: the one with its name.
OneSemaphore ==
  \A s \in Server \ overlapped, o \in Office :
    office[s][o].sem # None =>
      /\ pc[s] = "serve" => name[office[s][o].sem[2]] = office[s][o].sem
      /\ \A p \in Office :
           office[s][p].sem # None /\ office[s][p].sem[2] = office[s][o].sem[2]
             => office[s][p].sem = office[s][o].sem

\* One process at a time is past sem_wait.
OneInside ==
  \A s, r \in Server, o, p \in Office :
    /\ office[s][o].at = "in" /\ office[r][p].at = "in"
    /\ office[s][o].sem = office[r][p].sem
    => s = r /\ o = p

IInv == /\ TypeOK /\ IndexOK /\ FifoIsLock /\ NameOK /\ CleanOK /\ SweptOK
        /\ SemaphoresFresh /\ OfficesOK /\ NoSweep /\ OneSemaphore /\ OneInside

-----------------------------------------------------------------------------
(* Initially                                                               *)

LEMMA SeatIsNat == Seat \subseteq Nat
BY ConstantsAssumption DEF Seat

LEMMA InitInv == Init => IInv
<1> SUFFICES ASSUME Init PROVE IInv
  OBVIOUS
<1> USE ConstantsAssumption DEF Init
<1>1. TypeOK
  BY DEF TypeOK
<1>2. IndexOK /\ FifoIsLock /\ NameOK /\ CleanOK /\ SweptOK
  BY DEF IndexOK, FifoIsLock, Holding, AtWork, NameOK, CleanOK, SweptOK
<1>3. SemaphoresFresh /\ OfficesOK /\ NoSweep /\ OneSemaphore /\ OneInside
  BY DEF SemaphoresFresh, OfficesOK, Before, After, NoSweep, Holding, AtWork,
         OneSemaphore, OneInside
<1> QED BY <1>1, <1>2, <1>3 DEF IInv


-----------------------------------------------------------------------------
(* Every step                                                              *)

\* What an action of the offices does to the table of offices.
LEMMA OfficeAfter ==
  ASSUME TypeOK, NEW s \in Server, NEW o \in Office,
         NEW at \in {"idle", "wait", "in", "ended"},
         NEW sem \in Semaphore \cup {None}, SetOffice(s, o, at, sem)
  PROVE  /\ office' \in [Server -> [Office ->
              [at : {"idle", "wait", "in", "ended"}, sem : Semaphore \cup {None}]]]
         /\ office'[s][o].at = at /\ office'[s][o].sem = sem
         /\ \A r \in Server, p \in Office :
              r # s \/ p # o => office'[r][p] = office[r][p]
BY DEF TypeOK, SetOffice

\* The numbers of an entry of NSeats.
LEMMA NSeatsPositive == \A s \in Server : NSeats[s] \in Nat \ {0}
BY ConstantsAssumption

LEMMA SeatRange == \A s \in Server : 0..NSeats[s] \subseteq Seat
BY DEF Seat

\* A loop that has not come to its end stays below it.
LEMMA NotLast ==
  ASSUME NEW a \in Nat, NEW b \in Nat, a < b, a + 1 # b
  PROVE  a + 1 < b
OBVIOUS

\* A new semaphore is one.
LEMMA NewSemaphore ==
  ASSUME NEW s \in Server, NEW k \in Seat,
         NEW m \in {s} \X {k} \X (0..Cardinality(Server))
  PROVE  m \in Semaphore /\ m # None /\ m[1] = s /\ m[2] = k
BY ConstantsAssumption DEF Semaphore

\* Turns of the two loops.
LEMMA LoopType ==
  ASSUME TypeOK, IndexOK, NEW s \in Server, NEW from, NEW to \in Up \cup Over,
         from \in Up, UnlinkSemaphore(s, from, to)
  PROVE  TypeOK'
<1> USE NSeatsPositive, SeatRange, SeatIsNat DEF TypeOK
<1>1. i[s] \in Nat /\ NSeats[s] \in Nat /\ i[s] < NSeats[s]
  BY DEF IndexOK
<1>2. (IF i[s] + 1 = NSeats[s] THEN 0 ELSE i[s] + 1) \in 0..NSeats[s]
  BY <1>1
<1>3. i' \in [Server -> Nat] /\ \A r \in Server : i'[r] <= NSeats[r]
  BY <1>2 DEF UnlinkSemaphore
<1>4. pc' \in [Server -> {"off"} \cup Up \cup Over]
  BY DEF UnlinkSemaphore, Goto
<1>5. name' \in [Seat -> Semaphore \cup {None}]
  BY DEF UnlinkSemaphore
<1> QED BY <1>3, <1>4, <1>5 DEF UnlinkSemaphore, offices

LEMMA TypeStep == IInv /\ [Next]_vars => TypeOK'
<1> SUFFICES ASSUME IInv, [Next]_vars PROVE TypeOK'
  OBVIOUS
<1> USE DEF IInv
<1>1. CASE UNCHANGED vars
  BY <1>1 DEF TypeOK, vars, offices, files
<1>2. CASE RemoveStaleFifo
  BY <1>2 DEF RemoveStaleFifo, TypeOK, offices
<1>3. ASSUME NEW s \in Server,
             Start(s) \/ MakeFifo(s) \/ OpenFifo(s) \/ InstallHandler(s)
               \/ JoinOffices(s) \/ CloseFifo(s) \/ UnlinkFifo(s) \/ Kill(s)
      PROVE  TypeOK'
  <2>1. pc' \in [Server -> {"off"} \cup Up \cup Over]
    BY <1>3 DEF TypeOK, Goto, Up, Over, Start, MakeFifo, OpenFifo, InstallHandler,
                JoinOffices, CloseFifo, UnlinkFifo, Kill
  <2>2. fifo' \in Server \cup {None} /\ overlapped' \subseteq Server
    BY <1>3 DEF TypeOK, files, Start, MakeFifo, OpenFifo, InstallHandler,
                JoinOffices, CloseFifo, UnlinkFifo, Kill
  <2>3. UNCHANGED <<i, closed, fired, office, uses, name>>
    BY <1>3 DEF offices, files, Start, MakeFifo, OpenFifo, InstallHandler,
                JoinOffices, CloseFifo, UnlinkFifo, Kill
  <2> QED BY <2>1, <2>2, <2>3 DEF TypeOK
<1>4. ASSUME NEW s \in Server, Clean(s) \/ Sweep(s) PROVE TypeOK'
  BY <1>4, LoopType DEF Clean, Sweep, Up, Over
<1>5. ASSUME NEW s \in Server, TimerFires(s) PROVE TypeOK'
  BY <1>5 DEF TimerFires, TypeOK, Over, offices, files
<1>6. ASSUME NEW s \in Server, NEW o \in Office, NEW k \in 1..NSeats[s],
             OpenSeat(s, o, k)
      PROVE  TypeOK'
  <2>1. k \in Seat
    BY SeatRange, NSeatsPositive
  <2>2. PICK m \in Semaphore : /\ SetOffice(s, o, "wait", m)
                               /\ name' = name \/ name' = [name EXCEPT ![k] = m]
    BY <1>6, <2>1, NewSemaphore DEF OpenSeat, TypeOK
  <2>3. uses' \in [Server -> 0..MaxUses]
    BY <1>6, ConstantsAssumption DEF OpenSeat, TypeOK
  <2>4. name' \in [Seat -> Semaphore \cup {None}]
    BY <2>2 DEF TypeOK
  <2> QED BY <1>6, <2>2, <2>3, <2>4, OfficeAfter DEF OpenSeat, TypeOK
<1>7. ASSUME NEW s \in Server, NEW o \in Office,
             TakeSeat(s, o) \/ PostSeat(s, o) \/ OfficeEnds(s, o)
      PROVE  TypeOK'
  <2>1. office[s][o].sem \in Semaphore \cup {None}
    BY DEF TypeOK
  <2> QED BY <1>7, <2>1, OfficeAfter
          DEF TakeSeat, PostSeat, OfficeEnds, TypeOK, files
<1> QED BY <1>1, <1>2, <1>3, <1>4, <1>5, <1>6, <1>7
        DEF Next, MainStep, OfficeStep, OfficeGoesOn

\* Loops: the index is moved by its own server only, and reset at the end.
LEMMA IndexStep == IInv /\ [Next]_vars => IndexOK'
<1> SUFFICES ASSUME IInv, [Next]_vars, NEW r \in Server
             PROVE  /\ i'[r] < NSeats[r]
                    /\ pc'[r] \notin {"clean", "sweep", "killed"} => i'[r] = 0
  BY DEF IndexOK
<1> USE NSeatsPositive DEF IInv, IndexOK, TypeOK
<1>1. CASE UNCHANGED vars \/ RemoveStaleFifo
  BY <1>1 DEF vars, RemoveStaleFifo
<1>2. ASSUME NEW s \in Server,
             Start(s) \/ MakeFifo(s) \/ OpenFifo(s) \/ InstallHandler(s)
               \/ JoinOffices(s) \/ CloseFifo(s) \/ UnlinkFifo(s) \/ Kill(s)
               \/ TimerFires(s)
      PROVE  /\ i'[r] < NSeats[r]
             /\ pc'[r] \notin {"clean", "sweep", "killed"} => i'[r] = 0
  BY <1>2 DEF Goto, Start, MakeFifo, OpenFifo, InstallHandler, JoinOffices,
              CloseFifo, UnlinkFifo, Kill, TimerFires
<1>3. ASSUME NEW s \in Server, Clean(s) \/ Sweep(s)
      PROVE  /\ i'[r] < NSeats[r]
             /\ pc'[r] \notin {"clean", "sweep", "killed"} => i'[r] = 0
  <2>1. CASE r # s
    BY <1>3, <2>1 DEF Clean, Sweep, UnlinkSemaphore, Goto
  <2>2. CASE r = s /\ i[s] + 1 = NSeats[s]
    BY <1>3, <2>2 DEF Clean, Sweep, UnlinkSemaphore, Goto
  <2>3. CASE r = s /\ i[s] + 1 # NSeats[s]
    <3>1. i'[s] = i[s] + 1 /\ pc'[s] \in {"clean", "sweep"}
      BY <1>3, <2>3 DEF Clean, Sweep, UnlinkSemaphore, Goto
    <3>2. i[s] \in Nat /\ i[s] < NSeats[s] /\ NSeats[s] \in Nat
      OBVIOUS
    <3>3. i[s] + 1 < NSeats[s]
      BY <2>3, <3>2, NotLast
    <3> QED BY <2>3, <3>1, <3>3
  <2> QED BY <2>1, <2>2, <2>3
<1>4. ASSUME NEW s \in Server, NEW o \in Office, OfficeStep(s, o)
      PROVE  UNCHANGED <<pc, i>>
  BY <1>4 DEF OfficeStep, OfficeGoesOn, OpenSeat, TakeSeat, PostSeat, OfficeEnds
<1> QED BY <1>1, <1>2, <1>3, <1>4 DEF Next, MainStep

\* mkfifo is the lock: who holds it made the FIFO.
LEMMA FifoStep == IInv /\ [Next]_vars => FifoIsLock'
<1> SUFFICES ASSUME IInv, [Next]_vars PROVE FifoIsLock'
  OBVIOUS
<1> USE ConstantsAssumption DEF IInv, FifoIsLock, Holding, AtWork, TypeOK
<1>1. CASE UNCHANGED vars
  BY <1>1 DEF vars, files
<1>2. CASE RemoveStaleFifo
  BY <1>2 DEF RemoveStaleFifo, Up
<1>3. ASSUME NEW s \in Server, Start(s) \/ MakeFifo(s) \/ OpenFifo(s)
      PROVE  FifoIsLock'
  BY <1>3 DEF Start, MakeFifo, OpenFifo, Goto, files
<1>4. ASSUME NEW s \in Server,
             InstallHandler(s) \/ JoinOffices(s) \/ CloseFifo(s)
      PROVE  FifoIsLock'
  BY <1>4 DEF InstallHandler, JoinOffices, CloseFifo, Goto, files
<1>8. ASSUME NEW s \in Server, UnlinkFifo(s) PROVE FifoIsLock'
  <2>1. pc[s] = "unlink" /\ fifo = s /\ fifo' = None
    BY <1>8 DEF UnlinkFifo, Goto
  <2>2. pc' = [pc EXCEPT ![s] = "sweep"]
    BY <1>8 DEF UnlinkFifo, Goto
  <2> QED BY <2>1, <2>2
<1>5. ASSUME NEW s \in Server, Clean(s) \/ Sweep(s) PROVE FifoIsLock'
  BY <1>5 DEF Clean, Sweep, UnlinkSemaphore, Goto
<1>6. ASSUME NEW s \in Server, Kill(s) \/ TimerFires(s) PROVE FifoIsLock'
  BY <1>6 DEF Kill, TimerFires, files
<1>7. ASSUME NEW s \in Server, NEW o \in Office, OfficeStep(s, o)
      PROVE  UNCHANGED <<pc, fifo>>
  BY <1>7 DEF OfficeStep, OfficeGoesOn, OpenSeat, TakeSeat, PostSeat, OfficeEnds,
              files
<1> QED BY <1>1, <1>2, <1>3, <1>4, <1>5, <1>6, <1>7, <1>8 DEF Next, MainStep

\* A loop of one server, seen from the names: it frees the one at its index.
LEMMA LoopNames ==
  ASSUME TypeOK, IndexOK, NEW s \in Server, NEW from, NEW to,
         UnlinkSemaphore(s, from, to)
  PROVE  /\ i[s] \in Seat
         /\ \A k \in Seat : name'[k] = IF k = i[s] THEN None ELSE name[k]
         /\ pc[s] = from
         /\ \A r \in Server : r # s => pc'[r] = pc[r] /\ i'[r] = i[r]
         /\ IF i[s] + 1 = NSeats[s] THEN pc'[s] = to
                                    ELSE pc'[s] = from /\ i'[s] = i[s] + 1
         /\ UNCHANGED <<office, fifo, overlapped>>
<1>1. i[s] \in 0..NSeats[s]
  BY NSeatsPositive DEF TypeOK, IndexOK
<1>2. i[s] \in Seat
  BY <1>1, SeatRange
<1> QED BY <1>2 DEF UnlinkSemaphore, Goto, TypeOK, offices

\* An office that opens a seat gets the semaphore of that name, its own new
\* one if there was none.
LEMMA OpenSeatNames ==
  ASSUME IInv, NEW s \in Server, NEW o \in Office, NEW k \in 1..NSeats[s],
         OpenSeat(s, o, k)
  PROVE  /\ k \in Seat /\ pc[s] = "serve"
         /\ office[s][o].at = "idle" /\ office[s][o].sem = None
         /\ name'[k] \in Semaphore /\ name'[k] # None /\ name'[k][2] = k
         /\ name[k] = None => name'[k][1] = s
         /\ name[k] # None => name'[k] = name[k]
         /\ \A j \in Seat : j # k => name'[j] = name[j]
         /\ SetOffice(s, o, "wait", name'[k])
         /\ UNCHANGED <<pc, i, fifo, overlapped>>
<1>1. k \in Seat /\ k \in Nat
  BY SeatRange, NSeatsPositive
<1>2. pc[s] = "serve" /\ office[s][o].at = "idle" /\ office[s][o].sem = None
  BY DEF OpenSeat, IInv, OfficesOK
<1>3. CASE name[k] # None
  BY <1>1, <1>2, <1>3 DEF OpenSeat, IInv, TypeOK, NameOK
<1>4. CASE name[k] = None
  <2>1. PICK m \in {s} \X {k} \X (0..Cardinality(Server)) :
               SetOffice(s, o, "wait", m) /\ name' = [name EXCEPT ![k] = m]
    BY <1>4 DEF OpenSeat
  <2>2. m \in Semaphore /\ m # None /\ m[1] = s /\ m[2] = k
    BY <1>1, NewSemaphore
  <2>3. name'[k] = m /\ \A j \in Seat : j # k => name'[j] = name[j]
    BY <1>1, <2>1 DEF IInv, TypeOK
  <2> QED BY <1>1, <1>2, <1>4, <2>1, <2>2, <2>3 DEF OpenSeat
<1> QED BY <1>3, <1>4

\* Names are made by OpenSeat only.
LEMMA NameStep == IInv /\ [Next]_vars => NameOK'
<1> SUFFICES ASSUME IInv, [Next]_vars PROVE NameOK'
  OBVIOUS
<1>1. ASSUME UNCHANGED name PROVE NameOK'
  BY <1>1 DEF IInv, NameOK
<1>2. ASSUME NEW s \in Server, Clean(s) \/ Sweep(s) PROVE NameOK'
  BY <1>2, LoopNames DEF IInv, NameOK, Clean, Sweep
<1>3. ASSUME NEW s \in Server, NEW o \in Office, NEW k \in 1..NSeats[s],
             OpenSeat(s, o, k)
      PROVE  NameOK'
  <2>1. k >= 1 /\ k <= NSeats[s]
    BY NSeatsPositive
  <2> QED BY <1>3, <2>1, OpenSeatNames DEF IInv, NameOK
<1>4. ASSUME NEW s \in Server, NEW o \in Office, OfficeGoesOn(s, o)
      PROVE  UNCHANGED name
  BY <1>4 DEF OfficeGoesOn, TakeSeat, PostSeat, OfficeEnds, files
<1>5. ASSUME NEW s \in Server, Start(s) \/ MakeFifo(s) \/ OpenFifo(s)
                \/ InstallHandler(s) \/ JoinOffices(s) \/ CloseFifo(s)
                \/ UnlinkFifo(s) \/ Kill(s) \/ TimerFires(s)
      PROVE  UNCHANGED name
  BY <1>5 DEF Start, MakeFifo, OpenFifo, InstallHandler, JoinOffices, CloseFifo,
              UnlinkFifo, Kill, TimerFires, files
<1>6. CASE UNCHANGED vars \/ RemoveStaleFifo
  BY <1>1, <1>6 DEF vars, files, RemoveStaleFifo
<1> QED BY <1>1, <1>2, <1>3, <1>4, <1>5, <1>6 DEF Next, MainStep, OfficeStep

\* A server that cleans or serves is alone with the names.
LEMMA CleanStep == IInv /\ [Next]_vars => CleanOK'
<1> SUFFICES ASSUME IInv, [Next]_vars PROVE CleanOK'
  OBVIOUS
<1>1. CASE UNCHANGED vars \/ RemoveStaleFifo
  BY <1>1 DEF vars, files, RemoveStaleFifo, IInv, CleanOK
<1>2. ASSUME NEW s \in Server, Start(s) \/ MakeFifo(s) \/ OpenFifo(s)
                \/ JoinOffices(s) \/ CloseFifo(s)
                \/ UnlinkFifo(s) \/ Kill(s) \/ TimerFires(s)
      PROVE  CleanOK'
  <2>1. UNCHANGED <<name, i>>
    BY <1>2 DEF Start, MakeFifo, OpenFifo, JoinOffices, CloseFifo, UnlinkFifo,
                Kill, TimerFires, files
  <2>2. \A r \in Server : pc'[r] \in {"clean", "serve"} => pc'[r] = pc[r]
    BY <1>2 DEF IInv, TypeOK, Goto, Start, MakeFifo, OpenFifo, JoinOffices,
                CloseFifo, UnlinkFifo, Kill, TimerFires
  <2> QED BY <2>1, <2>2 DEF IInv, CleanOK
<1>3. ASSUME NEW s \in Server, InstallHandler(s) PROVE CleanOK'
  <2>1. i[s] = 0 /\ UNCHANGED <<name, i>>
    BY <1>3 DEF InstallHandler, Goto, files, IInv, IndexOK
  <2>2. pc' = [pc EXCEPT ![s] = "clean"]
    BY <1>3 DEF InstallHandler, Goto
  <2> QED BY <2>1, <2>2, SeatIsNat DEF IInv, CleanOK, TypeOK
<1>4. ASSUME NEW s \in Server, Sweep(s) PROVE CleanOK'
  BY <1>4, LoopNames DEF Sweep, IInv, CleanOK
<1>5. ASSUME NEW s \in Server, Clean(s) PROVE CleanOK'
  <2>1. ASSUME NEW r \in Server, r # s
        PROVE  pc'[r] # "clean" /\ pc'[r] # "serve"
    <3>1. pc[s] = "clean" /\ pc'[r] = pc[r]
      BY <1>5, <2>1, LoopNames DEF Clean, IInv
    <3> QED BY <2>1, <3>1 DEF IInv, FifoIsLock, Holding, AtWork
  <2>3. i[s] \in Nat /\ NSeats[s] \in Nat
    BY NSeatsPositive DEF IInv, TypeOK
  <2>2. ASSUME NEW k \in Seat, k <= i[s] PROVE name'[k] = None
    <3>1. k = i[s] \/ k < i[s]
      BY <2>2, <2>3, SeatIsNat
    <3>2. k < i[s] => name[k] = None
      BY <1>5, LoopNames DEF Clean, IInv, CleanOK
    <3> QED BY <1>5, <3>1, <3>2, LoopNames DEF Clean, IInv
  <2>4. CASE i[s] + 1 = NSeats[s]
    <3>1. pc'[s] = "serve"
      BY <1>5, <2>4, LoopNames DEF Clean, IInv
    <3>2. \A k \in Seat : k < NSeats[s] => name'[k] = None
      BY <2>2, <2>3, <2>4, SeatIsNat
    <3> QED BY <2>1, <3>1, <3>2 DEF CleanOK
  <2>5. CASE i[s] + 1 # NSeats[s]
    <3>1. pc'[s] = "clean" /\ i'[s] = i[s] + 1
      BY <1>5, <2>5, LoopNames DEF Clean, IInv
    <3>2. \A k \in Seat : k < i'[s] => name'[k] = None
      BY <2>2, <2>3, <3>1, SeatIsNat
    <3> QED BY <2>1, <3>1, <3>2 DEF CleanOK
  <2> QED BY <2>4, <2>5
<1>6. ASSUME NEW s \in Server, NEW o \in Office, NEW k \in 1..NSeats[s],
             OpenSeat(s, o, k)
      PROVE  CleanOK'
  <2>1. UNCHANGED <<pc, i>> /\ pc[s] = "serve"
    BY <1>6, OpenSeatNames
  <2>2. \A r \in Server : r # s => pc[r] # "clean" /\ pc[r] # "serve"
    BY <2>1 DEF IInv, FifoIsLock, Holding, AtWork
  <2>3. \A j \in Seat : name'[j] # name[j] => name'[j][1] = s
    BY <1>6, OpenSeatNames
  <2> QED BY <2>1, <2>2, <2>3 DEF IInv, CleanOK
<1>7. ASSUME NEW s \in Server, NEW o \in Office, OfficeGoesOn(s, o)
      PROVE  CleanOK'
  BY <1>7 DEF OfficeGoesOn, TakeSeat, PostSeat, OfficeEnds, files, IInv, CleanOK
<1> QED BY <1>1, <1>2, <1>3, <1>4, <1>5, <1>6, <1>7
        DEF Next, MainStep, OfficeStep

\* A name is its owner's from OpenSeat to the turn of the sweep that frees it.
LEMMA SweptStep == IInv /\ [Next]_vars => SweptOK'
<1> SUFFICES ASSUME IInv, [Next]_vars PROVE SweptOK'
  OBVIOUS
<1> USE DEF IInv
<1>0. \A k \in Seat : name[k] # None => name[k][1] \in Server
  BY DEF TypeOK, Semaphore
<1>1. CASE UNCHANGED vars \/ RemoveStaleFifo
  BY <1>1 DEF vars, files, RemoveStaleFifo, SweptOK
<1>2. ASSUME NEW s \in Server, Start(s) \/ MakeFifo(s) \/ OpenFifo(s)
                \/ InstallHandler(s)
      PROVE  SweptOK'
  <2>1. /\ UNCHANGED <<name, i>> /\ pc[s] \in {"off", "fork", "mkfifo", "start"}
        /\ \A r \in Server : r # s => pc'[r] = pc[r]
    BY <1>2 DEF Start, MakeFifo, OpenFifo, InstallHandler, Goto, files, TypeOK
  <2> QED BY <1>0, <2>1 DEF SweptOK
<1>3. ASSUME NEW s \in Server, JoinOffices(s) \/ CloseFifo(s) \/ Kill(s)
                \/ TimerFires(s)
      PROVE  SweptOK'
  <2>1. /\ UNCHANGED <<name, i>>
        /\ \/ pc'[s] \in {"close", "unlink", "killed"}
           \/ pc'[s] = pc[s]
        /\ \A r \in Server : r # s => pc'[r] = pc[r]
    BY <1>3 DEF JoinOffices, CloseFifo, Kill, TimerFires, Goto, files, TypeOK
  <2> QED BY <1>0, <2>1 DEF SweptOK
<1>4. ASSUME NEW s \in Server, UnlinkFifo(s) PROVE SweptOK'
  <2>1. /\ UNCHANGED <<name, i>> /\ pc[s] = "unlink" /\ pc'[s] = "sweep" /\ i[s] = 0
        /\ \A r \in Server : r # s => pc'[r] = pc[r]
    BY <1>4 DEF UnlinkFifo, Goto, files, TypeOK, IndexOK
  <2>2. \A k \in Seat : 0 <= k
    BY SeatIsNat
  <2> QED BY <1>0, <2>1, <2>2 DEF SweptOK
<1>5. ASSUME NEW s \in Server, Clean(s) PROVE SweptOK'
  <2>1. /\ pc[s] = "clean" /\ \A r \in Server : r # s => pc'[r] = pc[r] /\ i'[r] = i[r]
        /\ \A k \in Seat : name'[k] \in {None, name[k]}
    BY <1>5, LoopNames DEF Clean
  <2> QED BY <1>0, <2>1 DEF SweptOK
<1>6. ASSUME NEW s \in Server, Sweep(s) PROVE SweptOK'
  <2>1. /\ pc[s] = "sweep" /\ i[s] \in Seat
        /\ \A r \in Server : r # s => pc'[r] = pc[r] /\ i'[r] = i[r]
        /\ \A k \in Seat : name'[k] = IF k = i[s] THEN None ELSE name[k]
        /\ IF i[s] + 1 = NSeats[s] THEN pc'[s] = "ended"
                                   ELSE pc'[s] = "sweep" /\ i'[s] = i[s] + 1
    BY <1>6, LoopNames DEF Sweep
  <2>2. ASSUME NEW k \in Seat, name'[k] # None, name'[k][1] = s, k # NSeats[s]
        PROVE  pc'[s] = "sweep" /\ i'[s] <= k
    <3>1. name[k] = name'[k] /\ k # i[s]
      BY <2>1, <2>2
    <3>2. i[s] <= k /\ k <= NSeats[s]
      BY <2>1, <2>2, <3>1 DEF SweptOK, NameOK
    <3>3. i[s] \in Nat /\ k \in Nat /\ NSeats[s] \in Nat
      BY <2>1, SeatIsNat, NSeatsPositive
    <3>4. i[s] + 1 <= k /\ k < NSeats[s]
      BY <2>2, <3>1, <3>2, <3>3
    <3> QED BY <2>1, <3>3, <3>4
  <2>3. \A k \in Seat : name'[k] \in {None, name[k]}
    BY <2>1
  <2> QED BY <1>0, <2>1, <2>2, <2>3 DEF SweptOK
<1>7. ASSUME NEW s \in Server, NEW o \in Office, NEW k \in 1..NSeats[s],
             OpenSeat(s, o, k)
      PROVE  SweptOK'
  <2>1. UNCHANGED <<pc, i>> /\ pc[s] = "serve"
    BY <1>7, OpenSeatNames
  <2>2. \A j \in Seat : name'[j] # name[j] => name'[j][1] = s
    BY <1>7, OpenSeatNames
  <2> QED BY <2>1, <2>2 DEF SweptOK
<1>8. ASSUME NEW s \in Server, NEW o \in Office, OfficeGoesOn(s, o)
      PROVE  SweptOK'
  BY <1>8 DEF OfficeGoesOn, TakeSeat, PostSeat, OfficeEnds, files, SweptOK
<1> QED BY <1>1, <1>2, <1>3, <1>4, <1>5, <1>6, <1>7, <1>8
        DEF Next, MainStep, OfficeStep

-----------------------------------------------------------------------------
(* The offices                                                             *)

\* What the steps of an office that already has its semaphore do.
LEMMA GoesOn ==
  ASSUME TypeOK, NEW s \in Server, NEW o \in Office, OfficeGoesOn(s, o)
  PROVE  /\ pc[s] = "serve" /\ UNCHANGED <<pc, i, fifo, name, overlapped>>
         /\ \A r \in Server, p \in Office :
              r # s \/ p # o => office'[r][p] = office[r][p]
         /\ \/ /\ office[s][o].at = "wait" /\ office'[s][o].at = "in"
               /\ office'[s][o].sem = office[s][o].sem /\ Free(office[s][o].sem)
            \/ /\ office[s][o].at = "in" /\ office'[s][o].at = "idle"
               /\ office'[s][o].sem = None
            \/ /\ office[s][o].at = "idle" /\ office'[s][o].at = "ended"
               /\ office'[s][o].sem = None
<1>1. office[s][o].sem \in Semaphore \cup {None}
  BY DEF TypeOK
<1>2. CASE TakeSeat(s, o)
  <2>1. /\ SetOffice(s, o, "in", office[s][o].sem) /\ pc[s] = "serve"
        /\ office[s][o].at = "wait" /\ Free(office[s][o].sem)
        /\ UNCHANGED <<pc, i, fifo, name, overlapped>>
    BY <1>2 DEF TakeSeat, files
  <2> QED BY <1>1, <2>1, OfficeAfter
<1>3. CASE PostSeat(s, o)
  <2>1. /\ SetOffice(s, o, "idle", None) /\ pc[s] = "serve"
        /\ office[s][o].at = "in"
        /\ UNCHANGED <<pc, i, fifo, name, overlapped>>
    BY <1>3 DEF PostSeat, files
  <2> QED BY <2>1, OfficeAfter
<1>4. CASE OfficeEnds(s, o)
  <2>1. /\ SetOffice(s, o, "ended", None) /\ pc[s] = "serve"
        /\ office[s][o].at = "idle"
        /\ UNCHANGED <<pc, i, fifo, name, overlapped>>
    BY <1>4 DEF OfficeEnds, files
  <2> QED BY <2>1, OfficeAfter
<1> QED BY <1>2, <1>3, <1>4 DEF OfficeGoesOn

\* All other steps leave the offices alone.
LEMMA NoOfficeStep ==
  ASSUME IInv, [Next]_vars,
         ~\E s \in Server, o \in Office : OfficeStep(s, o)
  PROVE  UNCHANGED office
<1>1. ASSUME NEW s \in Server, Start(s) \/ MainStep(s) \/ TimerFires(s) \/ Kill(s)
      PROVE  UNCHANGED office
  BY <1>1 DEF MainStep, Start, MakeFifo, OpenFifo, InstallHandler, Clean, Sweep,
              UnlinkSemaphore, JoinOffices, CloseFifo, UnlinkFifo, TimerFires,
              Kill, offices
<1> QED BY <1>1 DEF Next, vars, offices, RemoveStaleFifo

\* What others left never comes to an office, but for the last seat.
LEMMA FreshStep == IInv /\ [Next]_vars => SemaphoresFresh'
<1> SUFFICES ASSUME IInv, [Next]_vars PROVE SemaphoresFresh'
  OBVIOUS
<1>1. CASE UNCHANGED office
  BY <1>1 DEF IInv, SemaphoresFresh
<1>2. ASSUME NEW s \in Server, NEW o \in Office, NEW k \in 1..NSeats[s],
             OpenSeat(s, o, k)
      PROVE  SemaphoresFresh'
  <2>1. /\ \A r \in Server, p \in Office :
             r # s \/ p # o => office'[r][p] = office[r][p]
        /\ office'[s][o].sem = name'[k]
    BY <1>2, OpenSeatNames, OfficeAfter DEF IInv
  <2>2. name'[k][2] = k /\ (name'[k][1] # s => name[k] # None /\ name'[k] = name[k])
    BY <1>2, OpenSeatNames
  <2>3. name[k] # None /\ name[k][1] # s => k = NSeats[s]
    <3>1. pc[s] = "serve" /\ k \in Seat
      BY <1>2, OpenSeatNames
    <3>2. name[k] # None /\ name[k][1] # s => ~(k < NSeats[s])
      BY <3>1 DEF IInv, CleanOK
    <3> QED BY <3>2, NSeatsPositive
  <2> QED BY <2>1, <2>2, <2>3 DEF IInv, SemaphoresFresh
<1>3. ASSUME NEW s \in Server, NEW o \in Office, OfficeGoesOn(s, o)
      PROVE  SemaphoresFresh'
  BY <1>3, GoesOn DEF IInv, SemaphoresFresh
<1> QED BY <1>1, <1>2, <1>3, NoOfficeStep DEF OfficeStep

LEMMA OfficesStep == IInv /\ [Next]_vars => OfficesOK'
<1> SUFFICES ASSUME IInv, [Next]_vars PROVE OfficesOK'
  OBVIOUS
<1> USE DEF IInv
<1>1. CASE UNCHANGED vars \/ RemoveStaleFifo
  BY <1>1 DEF vars, offices, RemoveStaleFifo, OfficesOK
<1>2. ASSUME NEW s \in Server, Start(s) \/ MakeFifo(s) \/ OpenFifo(s)
                \/ InstallHandler(s) \/ Clean(s) \/ CloseFifo(s) \/ UnlinkFifo(s)
                \/ Sweep(s) \/ Kill(s) \/ TimerFires(s)
      PROVE  OfficesOK'
  <2>1. /\ UNCHANGED office /\ \A r \in Server : r # s => pc'[r] = pc[r]
        /\ \/ pc[s] \in Before /\ pc'[s] \in Before \cup {"serve"}
           \/ pc[s] \in After /\ pc'[s] \in After
           \/ pc'[s] = "killed" \/ pc'[s] = pc[s]
    BY <1>2 DEF TypeOK, Before, After, Goto, Start, MakeFifo, OpenFifo,
                InstallHandler, Clean, CloseFifo, UnlinkFifo, Sweep,
                UnlinkSemaphore, Kill, TimerFires, offices
  <2>2. \A r \in Server : pc'[r] \in Before => pc[r] \in Before
    BY <2>1 DEF Before, After
  <2>3. \A r \in Server : pc'[r] \in After => pc[r] \in After
    BY <2>1 DEF Before, After
  <2> QED BY <2>1, <2>2, <2>3 DEF OfficesOK
<1>3. ASSUME NEW s \in Server, JoinOffices(s) PROVE OfficesOK'
  <2>1. /\ UNCHANGED office /\ \A r \in Server : r # s => pc'[r] = pc[r]
        /\ pc'[s] = "close" /\ \A o \in Office : office[s][o].at = "ended"
    BY <1>3 DEF JoinOffices, Goto, offices, TypeOK
  <2> QED BY <2>1 DEF OfficesOK, Before
<1>4. ASSUME NEW s \in Server, NEW o \in Office, NEW k \in 1..NSeats[s],
             OpenSeat(s, o, k)
      PROVE  OfficesOK'
  <2>1. /\ \A r \in Server, p \in Office :
             r # s \/ p # o => office'[r][p] = office[r][p]
        /\ office'[s][o].sem # None /\ office'[s][o].at = "wait"
        /\ pc' = pc /\ pc[s] = "serve"
    BY <1>4, OpenSeatNames, OfficeAfter
  <2> QED BY <2>1 DEF OfficesOK, Before, After
<1>5. ASSUME NEW s \in Server, NEW o \in Office, OfficeGoesOn(s, o)
      PROVE  OfficesOK'
  BY <1>5, GoesOn DEF OfficesOK, Before, After
<1> QED BY <1>1, <1>2, <1>3, <1>4, <1>5 DEF Next, MainStep, OfficeStep

\* The server that unlinks the FIFO was alone; one that makes it under a sweep
\* goes into overlapped.
LEMMA NoSweepStep == IInv /\ [Next]_vars => NoSweep'
<1> SUFFICES ASSUME IInv, [Next]_vars PROVE NoSweep'
  OBVIOUS
<1> USE DEF IInv, NoSweep, Holding, AtWork, TypeOK
<1>1. CASE UNCHANGED vars \/ RemoveStaleFifo
  BY <1>1 DEF vars, RemoveStaleFifo
<1>2. ASSUME NEW s \in Server, MakeFifo(s) PROVE NoSweep'
  BY <1>2 DEF MakeFifo, Goto
<1>3. ASSUME NEW s \in Server, UnlinkFifo(s) PROVE NoSweep'
  <2>1. /\ pc[s] = "unlink" /\ pc' = [pc EXCEPT ![s] = "sweep"]
        /\ UNCHANGED overlapped
    BY <1>3 DEF UnlinkFifo, Goto
  <2>2. \A r \in Server : r # s => pc[r] \notin Holding
    BY <2>1 DEF FifoIsLock
  <2> QED BY <2>1, <2>2
<1>4. ASSUME NEW s \in Server, Start(s) \/ OpenFifo(s) \/ InstallHandler(s)
                \/ Clean(s) \/ JoinOffices(s) \/ CloseFifo(s) \/ Sweep(s)
                \/ Kill(s) \/ TimerFires(s)
      PROVE  NoSweep'
  <2>1. /\ UNCHANGED overlapped /\ \A r \in Server : r # s => pc'[r] = pc[r]
        /\ pc'[s] \in Holding => pc[s] \in Holding
        /\ pc'[s] = "sweep" => pc[s] = "sweep"
    BY <1>4 DEF Goto, Start, OpenFifo, InstallHandler, Clean, JoinOffices,
                CloseFifo, Sweep, UnlinkSemaphore, Kill, TimerFires
  <2> QED BY <2>1
<1>5. ASSUME NEW s \in Server, NEW o \in Office, OfficeStep(s, o)
      PROVE  UNCHANGED <<pc, overlapped>>
  BY <1>5 DEF OfficeStep, OfficeGoesOn, OpenSeat, TakeSeat, PostSeat, OfficeEnds
<1> QED BY <1>1, <1>2, <1>3, <1>4, <1>5 DEF Next, MainStep

\* Only the server's own offices open seats, and nobody unlinks, while a server
\* outside overlapped serves.
LEMMA OneSemaphoreStep == IInv /\ [Next]_vars => OneSemaphore'
<1> SUFFICES ASSUME IInv, [Next]_vars PROVE OneSemaphore'
  OBVIOUS
<1> USE DEF IInv
<1>1. ASSUME UNCHANGED <<office, name>>, overlapped \subseteq overlapped',
             \A r \in Server : pc'[r] = "serve" => pc[r] = "serve"
      PROVE  OneSemaphore'
  BY <1>1 DEF OneSemaphore
<1>2. CASE UNCHANGED vars \/ RemoveStaleFifo
  BY <1>1, <1>2 DEF vars, offices, files, RemoveStaleFifo
<1>3. ASSUME NEW s \in Server, Start(s) \/ MakeFifo(s) \/ OpenFifo(s)
                \/ InstallHandler(s) \/ JoinOffices(s) \/ CloseFifo(s)
                \/ UnlinkFifo(s) \/ Kill(s) \/ TimerFires(s)
      PROVE  OneSemaphore'
  <2>1. UNCHANGED <<office, name>> /\ overlapped \subseteq overlapped'
    BY <1>3 DEF Start, MakeFifo, OpenFifo, InstallHandler, JoinOffices, CloseFifo,
                UnlinkFifo, Kill, TimerFires, offices, files
  <2>2. \A r \in Server : pc'[r] = "serve" => pc[r] = "serve"
    BY <1>3 DEF Start, MakeFifo, OpenFifo, InstallHandler, JoinOffices, CloseFifo,
                UnlinkFifo, Kill, TimerFires, Goto, TypeOK
  <2> QED BY <1>1, <2>1, <2>2
<1>4. ASSUME NEW s \in Server, Clean(s) PROVE OneSemaphore'
  <2>1. /\ UNCHANGED <<office, overlapped>> /\ pc[s] = "clean"
        /\ \A r \in Server : r # s => pc'[r] = pc[r]
    BY <1>4, LoopNames DEF Clean
  <2>2. \A o \in Office : office[s][o].sem = None
    BY <2>1 DEF OfficesOK, Before
  <2>3. \A r \in Server : r # s => pc'[r] # "serve"
    BY <2>1 DEF FifoIsLock, Holding, AtWork
  <2> QED BY <2>1, <2>2, <2>3 DEF OneSemaphore
<1>5. ASSUME NEW s \in Server, Sweep(s) PROVE OneSemaphore'
  <2>1. /\ UNCHANGED <<office, overlapped>> /\ pc[s] = "sweep"
        /\ \A r \in Server : r # s => pc'[r] = pc[r]
        /\ pc'[s] # "serve"
    BY <1>5, LoopNames DEF Sweep
  <2>2. \A r \in Server \ overlapped : pc'[r] # "serve"
    BY <2>1 DEF NoSweep, Holding, AtWork
  <2> QED BY <2>1, <2>2 DEF OneSemaphore
<1>6. ASSUME NEW s \in Server, NEW o \in Office, NEW k \in 1..NSeats[s],
             OpenSeat(s, o, k)
      PROVE  OneSemaphore'
  <2>1. /\ \A r \in Server, p \in Office :
             r # s \/ p # o => office'[r][p] = office[r][p]
        /\ office'[s][o].sem = name'[k]
    BY <1>6, OpenSeatNames, OfficeAfter
  <2>2. /\ pc' = pc /\ overlapped' = overlapped /\ pc[s] = "serve" /\ k \in Seat
        /\ name'[k] # None /\ name'[k][2] = k
        /\ name[k] # None => name'[k] = name[k]
        /\ \A j \in Seat : j # k => name'[j] = name[j]
    BY <1>6, OpenSeatNames
  <2>3. \A r \in Server, p \in Office :
          office[r][p].sem # None => office[r][p].sem[2] \in Seat
    BY DEF TypeOK, Semaphore
  <2>4. \A r \in Server : r # s => pc[r] # "serve"
    BY <2>2 DEF FifoIsLock, Holding, AtWork
  <2>5. ASSUME s \notin overlapped, NEW p \in Office, office[s][p].sem # None
        PROVE  name'[office[s][p].sem[2]] = office[s][p].sem
    <3>1. name[office[s][p].sem[2]] = office[s][p].sem
      BY <2>2, <2>5 DEF OneSemaphore
    <3>2. office[s][p].sem[2] \in Seat
      BY <2>3, <2>5
    <3> QED BY <2>2, <2>5, <3>1, <3>2
  <2>6. ASSUME s \notin overlapped, NEW p \in Office, office'[s][p].sem # None
        PROVE  name'[office'[s][p].sem[2]] = office'[s][p].sem
    BY <2>1, <2>2, <2>5, <2>6
  <2>7. ASSUME NEW r \in Server \ overlapped, r # s, NEW p \in Office,
               office'[r][p].sem # None
        PROVE  /\ pc'[r] # "serve"
               /\ \A q \in Office :
                    office'[r][q].sem # None
                      /\ office'[r][q].sem[2] = office'[r][p].sem[2]
                    => office'[r][q].sem = office'[r][p].sem
    BY <2>1, <2>2, <2>4, <2>7 DEF OneSemaphore
  <2> QED BY <2>2, <2>6, <2>7 DEF OneSemaphore
<1>7. ASSUME NEW s \in Server, NEW o \in Office, OfficeGoesOn(s, o)
      PROVE  OneSemaphore'
  <2>1. /\ UNCHANGED <<pc, name, overlapped>>
        /\ \A r \in Server, p \in Office :
             office'[r][p].sem \in {None, office[r][p].sem}
    BY <1>7, GoesOn
  <2> QED BY <2>1 DEF OneSemaphore
<1> QED BY <1>2, <1>3, <1>4, <1>5, <1>6, <1>7 DEF Next, MainStep, OfficeStep

\* sem_wait lets an office in only when the semaphore is free.
LEMMA OneInsideStep == IInv /\ [Next]_vars => OneInside'
<1> SUFFICES ASSUME IInv, [Next]_vars PROVE OneInside'
  OBVIOUS
<1>1. CASE UNCHANGED office
  BY <1>1 DEF IInv, OneInside
<1>2. ASSUME NEW s \in Server, NEW o \in Office, NEW k \in 1..NSeats[s],
             OpenSeat(s, o, k)
      PROVE  OneInside'
  <2>1. /\ \A r \in Server, p \in Office :
             r # s \/ p # o => office'[r][p] = office[r][p]
        /\ office'[s][o].at = "wait"
    BY <1>2, OpenSeatNames, OfficeAfter DEF IInv
  <2> QED BY <2>1 DEF IInv, OneInside
<1>3. ASSUME NEW s \in Server, NEW o \in Office, OfficeGoesOn(s, o)
      PROVE  OneInside'
  <2>1. /\ \A r \in Server, p \in Office :
             r # s \/ p # o => office'[r][p] = office[r][p]
        /\ \/ office'[s][o].at # "in"
           \/ office'[s][o].sem = office[s][o].sem /\ Free(office[s][o].sem)
    BY <1>3, GoesOn DEF IInv
  <2>2. ASSUME Free(office[s][o].sem), NEW r \in Server, NEW p \in Office,
               office[r][p].sem = office[s][o].sem
        PROVE  office[r][p].at # "in"
    <3>1. <<r, p>> \in Using(office[s][o].sem)
      BY <2>2 DEF Using
    <3> QED BY <2>2, <3>1 DEF Free
  <2> QED BY <2>1, <2>2 DEF IInv, OneInside
<1> QED BY <1>1, <1>2, <1>3, NoOfficeStep DEF OfficeStep

-----------------------------------------------------------------------------
(* Theorems                                                                *)

\* The inductive invariant holds in every reachable state.
THEOREM Invariance == Spec => []IInv
<1>1. IInv /\ [Next]_vars => IInv'
  BY TypeStep, IndexStep, FifoStep, NameStep, CleanStep, SweptStep, FreshStep,
     OfficesStep, NoSweepStep, OneSemaphoreStep, OneInsideStep DEF IInv
<1> QED BY <1>1, InitInv, PTL DEF Spec

\* Types and index ranges.
THEOREM TypeCorrect == Spec => []TypeOK
<1>1. IInv => TypeOK
  BY DEF IInv
<1> QED BY <1>1, Invariance, PTL

\* mkfifo (server.c:311) keeps one server at a time between it and unlink, and
\* only a killed server leaves the FIFO.
THEOREM FifoIsLockHolds == Spec => []FifoIsLock
<1>1. IInv => FifoIsLock
  BY DEF IInv
<1> QED BY <1>1, Invariance, PTL

\* No semaphore another run left comes to an office, but the last seat's.
THEOREM SemaphoresFreshHolds == Spec => []SemaphoresFresh
<1>1. IInv => SemaphoresFresh
  BY DEF IInv
<1> QED BY <1>1, Invariance, PTL

\* Two offices are at one seat together only in a server that started under
\* the sweep of another.
THEOREM SeatLockKeptHolds == Spec => []SeatLockKept
<1>1. ASSUME IInv, NEW s \in Server \ overlapped, NEW k \in Seat
      PROVE  Cardinality({o \in Office : /\ office[s][o].at = "in"
                                         /\ office[s][o].sem[2] = k}) <= 1
  <2> DEFINE S == {o \in Office : office[s][o].at = "in" /\ office[s][o].sem[2] = k}
  <2>1. ASSUME NEW o \in S, NEW p \in S PROVE o = p
    <3>1. office[s][o].sem # None /\ office[s][p].sem # None
      BY <1>1 DEF IInv, OfficesOK
    <3>2. office[s][o].sem = office[s][p].sem
      BY <1>1, <3>1 DEF IInv, OneSemaphore
    <3> QED BY <1>1, <3>2 DEF IInv, OneInside
  <2>2. S = {} \/ \E o : S = {o}
    BY <2>1
  <2> HIDE DEF S
  <2>3. Cardinality(S) <= 1
    <3>1. CASE S = {}
      <4>1. Cardinality(S) = 0
        BY <3>1, FS_EmptySet
      <4> QED BY <4>1
    <3>2. ASSUME NEW o, S = {o} PROVE Cardinality(S) <= 1
      <4>1. Cardinality(S) = 1
        BY <3>2, FS_Singleton
      <4> QED BY <4>1
    <3> QED BY <2>2, <3>1, <3>2
  <2> QED BY <2>3 DEF S
<1>2. ASSUME IInv PROVE SeatLockKept
  <2> SUFFICES ASSUME NEW s \in Server \ overlapped, NEW k \in Seat
               PROVE  ~(Cardinality({o \in Office :
                          /\ office[s][o].at = "in"
                          /\ office[s][o].sem[2] = k}) > 1)
    BY DEF SeatLockKept
  <2> DEFINE n == Cardinality({o \in Office : office[s][o].at = "in"
                                              /\ office[s][o].sem[2] = k})
  <2>1. n <= 1
    BY <1>1, <1>2
  <2>2. n \in Nat
    BY ConstantsAssumption, FS_Subset, FS_CardinalityType
  <2> HIDE DEF n
  <2>3. ~(n > 1)
    BY <2>1, <2>2
  <2> QED BY <2>3 DEF n
<1> QED BY <1>2, Invariance, PTL

\* Runs that all ended, none killed, leave no FIFO, and of the semaphores only
\* those of last seats, free.
THEOREM LeftOversHolds == Spec => []LeftOvers
<1>1. ASSUME IInv, \A s \in Server : pc[s] \in Over \ {"killed"}
      PROVE  /\ fifo = None
             /\ \A k \in Seat : name[k] # None =>
                  Free(name[k]) /\ \E s \in Server : k = NSeats[s]
  <2>1. \A s \in Server : pc[s] \in {"refused", "ended"}
    BY <1>1 DEF Over
  <2>2. fifo = None
    BY <1>1, <2>1 DEF IInv, FifoIsLock, Holding, AtWork, TypeOK
  <2>3. \A m : Free(m)
    BY <1>1, <2>1 DEF IInv, OfficesOK, Before, After, Free, Using
  <2>4. ASSUME NEW k \in Seat, name[k] # None
        PROVE  \E s \in Server : k = NSeats[s]
    <3>1. name[k][1] \in Server
      BY <1>1, <2>4 DEF IInv, TypeOK, Semaphore
    <3>2. k = NSeats[name[k][1]]
      BY <1>1, <2>1, <2>4, <3>1 DEF IInv, SweptOK
    <3> QED BY <3>1, <3>2
  <2> QED BY <2>2, <2>3, <2>4
<1>2. IInv => LeftOvers
  BY <1>1 DEF LeftOvers
<1> QED BY <1>2, Invariance, PTL
=============================================================================
