------------------------ MODULE TicketOffices_proofs ------------------------
(***************************************************************************)
(* Proofs about TicketOffices for any number of offices, clients and       *)
(* seats.  The inductive invariant IInv says, beside the types, how far an *)
(* office has come with its request, that a request is in one place only,  *)
(* that the semaphores protect the test and booking of a seat, and who     *)
(* owns each entry of seatList.                                            *)
(***************************************************************************)
EXTENDS TicketOffices, FiniteSetTheorems, FunctionTheorems, SequenceTheorems, TLAPS

\* The office works on the request of serving[o].
Busy == {"verify", "book", "test", "take", "rollback",
         "answer", "open", "release", "reply"}

Idle == {"new", "loop", "check", "lockRead", "relock", "recheck", "read",
         "verify", "exited"}

Answering(o) == pc[o] \in {"answer", "open", "reply"}

\* Only requests with positive identifiers get as far as booking.
ServingOK ==
  \A o \in Office :
    /\ pc[o] \in Busy => serving[o] \in Pid
    /\ pc[o] \in {"book", "test", "take", "rollback", "release"} \/ Committed(o)
         => ~BadIdentifier(asked[serving[o]])
    /\ pc[o] \in {"book", "test", "take"} => error[o] = "AYE"
    /\ pc[o] = "rollback" => error[o] = "NAV"
    /\ pc[o] \in {"test", "take"} => ~EndOfBooking(o)

\* An office holds seats only between booking and answering, and answers AYE
\* only with as many as were wanted.
ResultOK ==
  \A o \in Office :
    /\ pc[o] \in Idle => requestResult[o] = <<>>
    /\ Answering(o) /\ error[o] # "AYE" => requestResult[o] = <<>>
    /\ Committed(o) => Len(requestResult[o]) = wanted(o)

\* A request is in the FIFO or with one office, and not at all before it is
\* sent or once it is answered (the answer that crashes the server aside).
PidOnce ==
  /\ \A o, x \in Office :
       pc[o] \in Busy /\ pc[x] \in Busy /\ serving[o] = serving[x] => o = x
  /\ \A o \in Office : \A k \in 1..Len(requests) :
       pc[o] \in Busy => requests[k] # serving[o]
  /\ \A j, k \in 1..Len(requests) :
       requests[j] = requests[k] /\ requests[j] # Star => j = k
  /\ \A p \in Pid : client[p] = "idle" \/ answer[p] # "none" =>
       \A k \in 1..Len(requests) : requests[k] # p
  /\ \A p \in Pid : client[p] = "idle" =>
       /\ answer[p] = "none"
       /\ \A o \in Office : pc[o] \in Busy => serving[o] # p
  /\ \A p \in Pid : answer[p] # "none" =>
       \A o \in Office : pc[o] \in Busy /\ serving[o] = p => crashed

\* The semaphore of a seat is down while an office tests or books it.
Inside(o) == pc[o] \in {"test", "take"}
SeatOf(o) == prefs(o)[i[o]]

SeatSemOK ==
  /\ \A s \in Seat : seatSem[s] \in {0, 1}
  /\ \A o \in Office : Inside(o) => seatSem[SeatOf(o)] = 0
  /\ \A o, x \in Office :
       Inside(o) /\ Inside(x) /\ SeatOf(o) = SeatOf(x) => o = x
  /\ \A o \in Office : pc[o] = "take" => isSeatFree(SeatOf(o))

\* seatList names the owner of each seat, and each name has an owner behind it.
Ownership ==
  /\ \A o \in Office : \A s \in Held(o) : seatList[s] = serving[o]
  /\ \A o \in Office : IsInjective(requestResult[o])
  /\ \A p \in Pid : \A s \in Promised(p) : seatList[s] = p
  /\ \A p \in Pid : answer[p] = "AYE" =>
       IsInjective(reserved[p]) /\ Len(reserved[p]) = asked[p].wanted
  /\ \A s \in Seat, p \in Pid : seatList[s] = p =>
       \/ s \in Promised(p)
       \/ \E o \in Office : pc[o] \in Busy /\ serving[o] = p /\ s \in Held(o)

IInv == TypeOK /\ ServingOK /\ ResultOK /\ PidOnce /\ SeatSemOK /\ Ownership

-----------------------------------------------------------------------------
(* Counters: a table of naturals, one of its entries changed               *)

\* Posting a semaphore or adding to a counter keeps the table's type.
LEMMA CountUp ==
  ASSUME NEW S, NEW f \in [S -> Nat], NEW x \in S, NEW n \in Nat
  PROVE  /\ [f EXCEPT ![x] = @ + n] \in [S -> Nat]
         /\ [f EXCEPT ![x] = @ + 1] \in [S -> Nat]
OBVIOUS

\* So does moving an index that starts at 1.
LEMMA CountUpPositive ==
  ASSUME NEW S, NEW f \in [S -> Nat \ {0}], NEW x \in S
  PROVE  [f EXCEPT ![x] = @ + 1] \in [S -> Nat \ {0}]
<1>1. f[x] + 1 \in Nat \ {0}
  OBVIOUS
<1> QED BY <1>1

\* So does waiting for a semaphore that is positive.
LEMMA CountDown ==
  ASSUME NEW S, NEW f \in [S -> Nat], NEW x \in S, f[x] > 0
  PROVE  [f EXCEPT ![x] = @ - 1] \in [S -> Nat]
<1>1. f[x] - 1 \in Nat
  OBVIOUS
<1> QED BY <1>1

-----------------------------------------------------------------------------
(* Types                                                                   *)

\* Verify always ends with one of the codes of macros.h, AYE only for a list
\* of positive identifiers.
LEMMA VerdictIsCode ==
  ASSUME NEW r, NEW n
  PROVE  /\ VerifyRequest(r, n) \in Code
         /\ VerifyRequest(r, n) # "NAV"
         /\ VerifyRequest(r, n) = "AYE" => ~BadIdentifier(r)
BY DEF VerifyRequest, Code

\* A request asks for a natural number of seats from a finite list.
LEMMA RequestType ==
  ASSUME TypeOK, NEW o \in Office, serving[o] \in Pid
  PROVE  /\ wanted(o) \in Nat
         /\ prefs(o) \in Seq(0..NSeats)
BY ConstantsAssumption DEF TypeOK, wanted, prefs

\* The seat an office is about to test, tests or books is a seat of the room.
LEMMA SeatOfIsSeat ==
  ASSUME TypeOK, ServingOK, NEW o \in Office,
         pc[o] \in {"book", "test", "take"}, ~EndOfBooking(o)
  PROVE  SeatOf(o) \in Seat
<1>1. serving[o] \in Pid /\ ~BadIdentifier(asked[serving[o]])
  BY DEF ServingOK, Busy
<1>2. prefs(o) \in Seq(0..NSeats) /\ i[o] \in 1..Len(prefs(o))
  <2>1. i[o] \in Nat \ {0}
    BY DEF TypeOK
  <2>2. prefs(o) \in Seq(0..NSeats) /\ Len(prefs(o)) \in Nat
    BY <1>1, RequestType, LenProperties
  <2> QED BY <2>1, <2>2 DEF EndOfBooking
<1>3. SeatOf(o) \in 0..NSeats
  BY <1>2, ElementOfSeq DEF SeatOf
<1>4. DOMAIN prefs(o) = 1..Len(prefs(o))
  BY <1>2, LenProperties
<1>5. SeatOf(o) # 0
  BY <1>1, <1>2, <1>4 DEF SeatOf, BadIdentifier, prefs, Range
<1> QED BY <1>3, <1>5, ConstantsAssumption DEF Seat

\* So is the next seat freeSeats gives back.
LEMMA FreedIsSeat ==
  ASSUME TypeOK, NEW o \in Office, i[o] <= Len(requestResult[o])
  PROVE  /\ i[o] \in 1..Len(requestResult[o])
         /\ requestResult[o][i[o]] \in Seat
<1>1. requestResult[o] \in Seq(Seat) /\ i[o] \in 1..Len(requestResult[o])
  BY LenProperties DEF TypeOK
<1> QED BY <1>1, ElementOfSeq

\* The server starts with every office new, every seat free and nothing asked.
LEMMA InitInv == Init => IInv
<1> SUFFICES ASSUME Init PROVE IInv
  OBVIOUS
<1> USE ConstantsAssumption DEF Init
<1>1. TypeOK
  <2>1. /\ seatList \in [0..NSeats -> Pid \cup {Free}]
        /\ seatSem \in [Seat -> Nat]
        /\ asked \in [Pid -> Request] /\ answerSem \in [Pid -> Nat]
    OBVIOUS
  <2>2. /\ serving \in [Office -> Pid \cup {Nobody}]
        /\ i \in [Office -> Nat \ {0}] /\ error \in [Office -> Code]
        /\ nOccupiedSeats \in [Office -> Nat] /\ pc \in [Office -> OfficePc]
    BY DEF Code, OfficePc
  <2>3. /\ requestResult \in [Office -> Seq(Seat)]
        /\ reserved \in [Pid -> Seq(Seat)]
        /\ requests \in Seq(Pid \cup {Star})
    BY EmptySeq
  <2>4. client \in [Pid -> ClientState] /\ answer \in [Pid -> Code \cup {"none"}]
    BY DEF ClientState
  <2> QED BY <2>1, <2>2, <2>3, <2>4 DEF TypeOK
<1>2. ServingOK /\ ResultOK /\ PidOnce /\ SeatSemOK
  BY DEF ServingOK, ResultOK, PidOnce, SeatSemOK, Busy, Idle, Answering,
         Committed, Inside
<1>3. Ownership
  <2>1. \A o \in Office : Len(requestResult[o]) = 0 /\ DOMAIN requestResult[o] = {}
    OBVIOUS
  <2>2. \A s \in Seat, p \in Pid : seatList[s] # p
    BY DEF Seat
  <2>3. \A o \in Office : FirstHeld(o) = 1 /\ IsInjective(requestResult[o])
    BY <2>1 DEF FirstHeld, IsInjective
  <2>4. \A p \in Pid : answer[p] # "AYE" /\ Promised(p) = {}
    BY DEF Promised
  <2>5. \A o \in Office : Held(o) = {}
    <3> HIDE DEF Init
    <3> QED BY <2>1, <2>3 DEF Held
  <2> HIDE DEF Init
  <2> QED BY <2>2, <2>3, <2>4, <2>5 DEF Ownership
<1> QED BY <1>1, <1>2, <1>3 DEF IInv

\* Every step keeps the types: an index in use stays in range, and nothing but
\* the seats of the room is ever booked.
LEMMA TypeStep == ASSUME IInv, [Next]_vars PROVE TypeOK'
<1> USE DEF IInv, TypeOK, Goto, locks, seats, office, shutdown, clients,
            OfficePc, ClientState
<1>1. CASE MainStep \/ TimerExpires
  <2>1. requests \in Seq(Pid \cup {Star}) => Append(requests, Star) \in Seq(Pid \cup {Star})
    OBVIOUS
  <2>2. CASE TimerExpires \/ HandlerClose
    BY <2>2 DEF TimerExpires, HandlerClose
  <2>3. CASE HandlerWake
    BY <2>1, <2>3 DEF HandlerWake
  <2>4. CASE CloseServer
    BY <2>4 DEF CloseServer, BookedSeats
  <2>5. ASSUME NEW o \in Office, CreateOffice(o) PROVE TypeOK'
    BY <2>5 DEF CreateOffice
  <2> QED BY <1>1, <2>2, <2>3, <2>4, <2>5 DEF MainStep
<1>2. ASSUME NEW o \in Office,
             \/ LockOffice(o) \/ CheckOpen(o) \/ LockRequests(o)
             \/ RelockOffice(o) \/ RecheckOpen(o)
      PROVE  TypeOK'
  <2>1. CASE LockOffice(o)
    BY <2>1 DEF LockOffice
  <2>2. CASE CheckOpen(o)
    BY <2>2 DEF CheckOpen
  <2>3. CASE LockRequests(o)
    BY <2>3 DEF LockRequests
  <2>4. CASE RelockOffice(o)
    BY <2>4 DEF RelockOffice
  <2>5. CASE RecheckOpen(o)
    BY <2>5 DEF RecheckOpen
  <2> QED BY <1>2, <2>1, <2>2, <2>3, <2>4, <2>5
<1>3. ASSUME NEW o \in Office, ReadRequest(o) PROVE TypeOK'
  <2>1. Tail(requests) \in Seq(Pid \cup {Star}) /\ Head(requests) \in Pid \cup {Star}
    BY <1>3, HeadTailProperties DEF ReadRequest
  <2> QED BY <1>3, <2>1 DEF ReadRequest
<1>4. ASSUME NEW o \in Office, Verify(o) PROVE TypeOK'
  <2>1. error' \in [Office -> Code] /\ i' \in [Office -> Nat \ {0}]
    BY <1>4, VerdictIsCode DEF Verify
  <2>2. pc' \in [Office -> OfficePc]
    BY <1>4 DEF Verify
  <2> QED BY <1>4, <2>1, <2>2 DEF Verify
<1>5. ASSUME NEW o \in Office, WaitSeat(o) \/ TestSeat(o) PROVE TypeOK'
  <2>1. SeatOf(o) \in Seat
    BY <1>5, SeatOfIsSeat DEF WaitSeat, TestSeat, ServingOK
  <2>2. CASE WaitSeat(o)
    <3>1. seatSem' \in [Seat -> Nat]
      BY <2>1, <2>2, CountDown DEF WaitSeat, SeatOf
    <3> QED BY <2>2, <3>1 DEF WaitSeat
  <2>3. CASE TestSeat(o)
    <3>1. seatSem' \in [Seat -> Nat]
      BY <2>1, <2>3, CountUp DEF TestSeat, SeatOf
    <3>2. i' \in [Office -> Nat \ {0}]
      BY <2>3, CountUpPositive DEF TestSeat
    <3> QED BY <2>3, <3>1, <3>2 DEF TestSeat
  <2> QED BY <1>5, <2>2, <2>3
<1>6. ASSUME NEW o \in Office, TakeSeat(o) PROVE TypeOK'
  <2>1. SeatOf(o) \in Seat /\ serving[o] \in Pid
    BY <1>6, SeatOfIsSeat DEF TakeSeat, ServingOK, Busy
  <2>2. Append(requestResult[o], SeatOf(o)) \in Seq(Seat)
    BY <2>1, AppendProperties
  <2>3. requestResult' \in [Office -> Seq(Seat)]
    BY <1>6, <2>2 DEF TakeSeat, SeatOf
  <2>4. seatList' \in [0..NSeats -> Pid \cup {Free}]
    BY <1>6, <2>1 DEF TakeSeat
  <2>5. seatSem' \in [Seat -> Nat] /\ i' \in [Office -> Nat \ {0}]
    BY <1>6, <2>1, CountUp, CountUpPositive DEF TakeSeat, SeatOf
  <2> QED BY <1>6, <2>3, <2>4, <2>5 DEF TakeSeat
<1>7. ASSUME NEW o \in Office, AllBooked(o) \/ TooFewBooked(o) PROVE TypeOK'
  <2>1. wanted(o) \in Nat
    BY <1>7, RequestType DEF AllBooked, TooFewBooked, ServingOK, Busy
  <2>2. CASE AllBooked(o)
    <3>1. nOccupiedSeats' \in [Office -> Nat]
      BY <2>1, <2>2, CountUp DEF AllBooked
    <3> QED BY <2>2, <3>1 DEF AllBooked
  <2>3. CASE TooFewBooked(o)
    BY <2>3 DEF TooFewBooked, Code
  <2> QED BY <1>7, <2>2, <2>3
<1>8. ASSUME NEW o \in Office, FreeSeat(o) \/ EndOfFreeSeats(o) PROVE TypeOK'
  <2>1. CASE FreeSeat(o)
    <3>1. i' \in [Office -> Nat \ {0}]
      BY <2>1, CountUpPositive DEF FreeSeat
    <3>2. seatList' \in [0..NSeats -> Pid \cup {Free}]
      BY <2>1, FreedIsSeat DEF FreeSeat, Seat
    <3> QED BY <2>1, <3>1, <3>2 DEF FreeSeat
  <2>2. CASE EndOfFreeSeats(o)
    BY <2>2, EmptySeq DEF EndOfFreeSeats
  <2> QED BY <1>8, <2>1, <2>2
<1>9. ASSUME NEW o \in Office, ResponseStep(o) PROVE TypeOK'
  <2>1. serving[o] \in Pid
    BY <1>9 DEF ResponseStep, WaitAnswerSem, OpenResponse, OpenResponseFails,
       Reply, ReplyBadIdentifier, ReplyNoReader, ServingOK, Busy
  <2>2. CASE WaitAnswerSem(o)
    <3>1. answerSem' \in [Pid -> Nat]
      BY <2>1, <2>2, CountDown DEF WaitAnswerSem
    <3> QED BY <2>2, <3>1 DEF WaitAnswerSem
  <2>3. CASE OpenResponse(o)
    BY <2>3 DEF OpenResponse
  <2>4. CASE OpenResponseFails(o)
    BY <2>4 DEF OpenResponseFails
  <2>5. CASE Reply(o)
    <3>1. answerSem' \in [Pid -> Nat]
      BY <2>1, <2>5, CountUp DEF Reply
    <3> QED BY <2>1, <2>5, <3>1, EmptySeq DEF Reply, WriteAnswer
  <2>6. CASE ReplyBadIdentifier(o) \/ ReplyNoReader(o)
    BY <2>1, <2>6 DEF ReplyBadIdentifier, ReplyNoReader, WriteAnswer
  <2> QED BY <1>9, <2>2, <2>3, <2>4, <2>5, <2>6 DEF ResponseStep
<1>10. ASSUME NEW p \in Pid, SendRequest(p) PROVE TypeOK'
  <2>1. Append(requests, p) \in Seq(Pid \cup {Star})
    BY AppendProperties
  <2> QED BY <1>10, <2>1 DEF SendRequest, Become, ServerOnly
<1>11. ASSUME NEW p \in Pid, ClientStep(p) PROVE TypeOK'
  <2> USE DEF Become, ServerOnly
  <2>1. client' \in [Pid -> ClientState] /\ answerSem' \in [Pid -> Nat]
    <3>1. CASE ReadAnswer(p)
      BY <3>1, CountUp DEF ReadAnswer
    <3>2. CASE TimeOut(p)
      BY <3>2, CountDown DEF TimeOut
    <3>3. CASE Leave(p)
      BY <3>3, CountUp DEF Leave
    <3>4. CASE UnlinkOrExit(p)
      BY <3>4 DEF UnlinkOrExit
    <3> QED BY <1>11, <3>1, <3>2, <3>3, <3>4 DEF ClientStep
  <2>2. told' \subseteq Pid /\ UNCHANGED <<ServerOnly, requests, asked, answer, reserved>>
    BY <1>11 DEF ClientStep, ReadAnswer, TimeOut, Leave, UnlinkOrExit
  <2> QED BY <2>1, <2>2
<1>12. CASE UNCHANGED vars
  BY <1>12 DEF vars
<1> QED
  BY <1>1, <1>2, <1>3, <1>4, <1>5, <1>6, <1>7, <1>8, <1>9, <1>10, <1>11, <1>12
  DEF Next, OfficeStep, BookingStep, Stopped

-----------------------------------------------------------------------------
(* How far an office has come with its request                             *)

\* The steps before a request is read.
LockingStep(o) == \/ CreateOffice(o) \/ LockOffice(o) \/ CheckOpen(o)
                  \/ LockRequests(o) \/ RelockOffice(o) \/ RecheckOpen(o)

\* Such a step moves an office that has no request, and nothing else.
LEMMA LockingFrame ==
  ASSUME NEW o \in Office, LockingStep(o)
  PROVE  /\ pc[o] \in Idle \ {"verify"}
         /\ \E to \in Idle \ {"verify"} : pc' = [pc EXCEPT ![o] = to]
         /\ UNCHANGED <<requests, seats, office, shutdown, clients>>
<1> USE DEF Goto, Idle
<1>1. CASE CreateOffice(o) \/ LockOffice(o) \/ LockRequests(o) \/ RelockOffice(o)
  BY <1>1 DEF CreateOffice, LockOffice, LockRequests, RelockOffice
<1>2. CASE CheckOpen(o)
  BY <1>2 DEF CheckOpen
<1>3. CASE RecheckOpen(o)
  BY <1>3 DEF RecheckOpen
<1> QED BY <1>1, <1>2, <1>3 DEF LockingStep

\* Verify lets only good requests through, and the booking steps keep to it.
LEMMA ServingStep == ASSUME IInv, [Next]_vars PROVE ServingOK'
<1> USE DEF IInv, TypeOK, Goto, ServingOK, locks, seats, office, shutdown,
            clients, Committed, Busy, EndOfBooking, prefs, wanted
<1>1. CASE UNCHANGED <<pc, office, asked>>
  BY <1>1
<1>2. ASSUME NEW o \in Office, LockingStep(o) PROVE ServingOK'
  <2>1. UNCHANGED <<serving, i, error, requestResult, asked>>
    BY <1>2, LockingFrame
  <2>2. \A x \in Office : pc'[x] = pc[x] \/ pc'[x] \in Idle \ {"verify"}
    BY <1>2, LockingFrame
  <2> QED BY <2>1, <2>2 DEF Idle
<1>3. ASSUME NEW o \in Office, ReadRequest(o) PROVE ServingOK'
  <2>1. Head(requests) \in Pid \cup {Star}
    BY <1>3, HeadTailProperties DEF ReadRequest
  <2> QED BY <1>3, <2>1 DEF ReadRequest
<1>4. ASSUME NEW o \in Office, Verify(o) PROVE ServingOK'
  BY <1>4, VerdictIsCode DEF Verify
<1>5. ASSUME NEW o \in Office, WaitSeat(o) PROVE ServingOK'
  BY <1>5 DEF WaitSeat
<1>6. ASSUME NEW o \in Office, TestSeat(o) PROVE ServingOK'
  BY <1>6 DEF TestSeat
<1>7. ASSUME NEW o \in Office, TakeSeat(o) PROVE ServingOK'
  BY <1>7 DEF TakeSeat
<1>8. ASSUME NEW o \in Office, AllBooked(o) \/ TooFewBooked(o) PROVE ServingOK'
  <2>1. CASE AllBooked(o)
    BY <2>1 DEF AllBooked
  <2>2. CASE TooFewBooked(o)
    BY <2>2 DEF TooFewBooked
  <2> QED BY <1>8, <2>1, <2>2
<1>9. ASSUME NEW o \in Office, FreeSeat(o) \/ EndOfFreeSeats(o) PROVE ServingOK'
  <2>1. CASE FreeSeat(o)
    BY <2>1 DEF FreeSeat
  <2>2. CASE EndOfFreeSeats(o)
    BY <2>2 DEF EndOfFreeSeats
  <2> QED BY <1>9, <2>1, <2>2
<1>10. ASSUME NEW o \in Office, ResponseStep(o) PROVE ServingOK'
  <2>1. CASE WaitAnswerSem(o)
    BY <2>1 DEF WaitAnswerSem
  <2>2. CASE OpenResponse(o)
    BY <2>2 DEF OpenResponse
  <2>3. CASE OpenResponseFails(o)
    BY <2>3 DEF OpenResponseFails
  <2>4. CASE Reply(o)
    BY <2>4 DEF Reply
  <2>5. CASE ReplyBadIdentifier(o) \/ ReplyNoReader(o)
    BY <2>5 DEF ReplyBadIdentifier, ReplyNoReader
  <2> QED BY <1>10, <2>1, <2>2, <2>3, <2>4, <2>5 DEF ResponseStep
<1> QED
  BY <1>1, <1>2, <1>3, <1>4, <1>5, <1>6, <1>7, <1>8, <1>9, <1>10
  DEF Next, MainStep, TimerExpires, HandlerClose, HandlerWake, CloseServer,
      OfficeStep, LockingStep, BookingStep, SendRequest, ClientStep, ReadAnswer, TimeOut,
      Leave, UnlinkOrExit, ServerOnly, Stopped, vars

\* requestResult is filled by booking and emptied by freeSeats or the answer.
LEMMA ResultStep == ASSUME IInv, [Next]_vars PROVE ResultOK'
<1> USE DEF IInv, TypeOK, Goto, ResultOK, locks, seats, office, shutdown,
            clients, Committed, Answering, Idle, wanted
<1>1. CASE UNCHANGED <<pc, office, asked>>
  BY <1>1
<1>2. ASSUME NEW o \in Office, LockingStep(o) PROVE ResultOK'
  <2>1. UNCHANGED <<serving, error, requestResult, asked>>
    BY <1>2, LockingFrame
  <2>2. /\ \A x \in Office \ {o} : pc'[x] = pc[x]
        /\ pc[o] \in Idle /\ pc'[o] \in Idle \ {"verify"}
    BY <1>2, LockingFrame
  <2> QED BY <2>1, <2>2
<1>3. ASSUME NEW o \in Office, ReadRequest(o) PROVE ResultOK'
  BY <1>3 DEF ReadRequest
<1>4. ASSUME NEW o \in Office, Verify(o) PROVE ResultOK'
  BY <1>4 DEF Verify
<1>5. ASSUME NEW o \in Office, WaitSeat(o) \/ TestSeat(o) \/ TakeSeat(o)
      PROVE  ResultOK'
  <2>1. CASE WaitSeat(o)
    BY <2>1 DEF WaitSeat
  <2>2. CASE TestSeat(o)
    BY <2>2 DEF TestSeat
  <2>3. CASE TakeSeat(o)
    BY <2>3 DEF TakeSeat
  <2> QED BY <1>5, <2>1, <2>2, <2>3
<1>6. ASSUME NEW o \in Office, AllBooked(o) \/ TooFewBooked(o) PROVE ResultOK'
  <2>1. CASE AllBooked(o)
    BY <2>1 DEF AllBooked, ServingOK
  <2>2. CASE TooFewBooked(o)
    BY <2>2 DEF TooFewBooked
  <2> QED BY <1>6, <2>1, <2>2
<1>7. ASSUME NEW o \in Office, FreeSeat(o) \/ EndOfFreeSeats(o) PROVE ResultOK'
  <2>1. CASE FreeSeat(o)
    BY <2>1 DEF FreeSeat
  <2>2. CASE EndOfFreeSeats(o)
    BY <2>2 DEF EndOfFreeSeats, ServingOK
  <2> QED BY <1>7, <2>1, <2>2
<1>8. ASSUME NEW o \in Office, ResponseStep(o) PROVE ResultOK'
  <2>1. CASE WaitAnswerSem(o)
    BY <2>1 DEF WaitAnswerSem
  <2>2. CASE OpenResponse(o)
    BY <2>2 DEF OpenResponse
  <2>3. CASE OpenResponseFails(o)
    BY <2>3 DEF OpenResponseFails
  <2>4. CASE Reply(o)
    BY <2>4 DEF Reply
  <2>5. CASE ReplyBadIdentifier(o) \/ ReplyNoReader(o)
    BY <2>5 DEF ReplyBadIdentifier, ReplyNoReader
  <2> QED BY <1>8, <2>1, <2>2, <2>3, <2>4, <2>5 DEF ResponseStep
<1> QED
  BY <1>1, <1>2, <1>3, <1>4, <1>5, <1>6, <1>7, <1>8
  DEF Next, MainStep, TimerExpires, HandlerClose, HandlerWake, CloseServer,
      OfficeStep, LockingStep, BookingStep, SendRequest, ClientStep, ReadAnswer, TimeOut,
      Leave, UnlinkOrExit, ServerOnly, Stopped, vars

-----------------------------------------------------------------------------
(* A request is in one place                                               *)

\* Reading takes the request out of the FIFO, answering out of the office.
LEMMA PidStep == ASSUME IInv, [Next]_vars PROVE PidOnce'
<1> USE DEF IInv, TypeOK, Goto, PidOnce, Busy, locks, seats, office, shutdown,
            clients
<1>1. CASE UNCHANGED <<pc, serving, requests, client, answer, crashed>>
  BY <1>1
<1>2. ASSUME NEW o \in Office, LockingStep(o) PROVE PidOnce'
  <2>1. UNCHANGED <<requests, serving, client, answer, crashed>>
    BY <1>2, LockingFrame
  <2>2. \A x \in Office : pc'[x] \in Busy <=> pc[x] \in Busy
    BY <1>2, LockingFrame DEF Idle
  <2> HIDE DEF Busy, TypeOK
  <2> QED BY <2>1, <2>2
<1>3. CASE HandlerWake
  <2>1. /\ Len(requests') = Len(requests) + 1
        /\ requests'[Len(requests) + 1] = Star
        /\ \A k \in 1..Len(requests) : requests'[k] = requests[k]
    BY <1>3, AppendProperties DEF HandlerWake
  <2>2. Len(requests) \in Nat /\ \A p \in Pid : p # Star
    BY ConstantsAssumption, LenProperties
  <2>3. UNCHANGED <<pc, serving, client, answer, crashed>>
    BY <1>3 DEF HandlerWake
  <2>4. \A o \in Office : pc[o] \in Busy => serving[o] # Star
    BY <2>2 DEF ServingOK
  <2> HIDE DEF Busy, TypeOK
  <2> QED BY <2>1, <2>2, <2>3, <2>4
<1>4. ASSUME NEW o \in Office, ReadRequest(o) PROVE PidOnce'
  <2>1. /\ Len(requests) \in Nat \ {0} /\ Len(requests') = Len(requests) - 1
        /\ Head(requests) = requests[1] /\ Head(requests) \in Pid \cup {Star}
        /\ \A k \in 1..Len(requests') : requests'[k] = requests[k + 1]
    BY <1>4, HeadTailProperties, LenProperties DEF ReadRequest
  <2>2. CASE Head(requests) = Star
    BY <1>4, <2>1, <2>2 DEF ReadRequest
  <2>3. CASE Head(requests) # Star
    <3>1. /\ pc' = [pc EXCEPT ![o] = "verify"]
          /\ serving' = [serving EXCEPT ![o] = requests[1]]
          /\ pc[o] = "read" /\ UNCHANGED <<client, answer, crashed>>
      BY <1>4, <2>1, <2>3 DEF ReadRequest
    <3>2. /\ \A k \in 1..Len(requests') : k \in Int /\ k + 1 \in 1..Len(requests)
          /\ 1 \in 1..Len(requests)
      BY <2>1
    <3>3. /\ \A k \in 1..Len(requests') : requests'[k] # requests[1]
          /\ \A j, k \in 1..Len(requests') :
               requests'[j] = requests'[k] /\ requests'[j] # Star => j = k
      <4> HIDE DEF TypeOK
      <4>1. ASSUME NEW k \in 1..Len(requests') PROVE requests'[k] # requests[1]
        <5>1. k + 1 # 1 /\ requests'[k] = requests[k + 1]
          BY <2>1
        <5> QED BY <2>1, <2>3, <3>2, <5>1
      <4>2. ASSUME NEW j \in 1..Len(requests'), NEW k \in 1..Len(requests'),
                   requests'[j] = requests'[k], requests'[j] # Star
            PROVE  j = k
        <5>1. j + 1 = k + 1
          BY <2>1, <3>2, <4>2
        <5> QED BY <3>2, <5>1
      <4> QED BY <4>1, <4>2
    <3>4. /\ \A x \in Office : pc[x] \in Busy => serving[x] # requests[1]
          /\ \A p \in Pid : requests[1] = p => client[p] # "idle" /\ answer[p] = "none"
      BY <3>2
    <3>5. \A x \in Office : /\ pc'[x] \in Busy <=> pc[x] \in Busy \/ x = o
                           /\ serving'[x] = IF x = o THEN requests[1] ELSE serving[x]
      BY <3>1
    <3> HIDE DEF Busy, TypeOK
    <3>6. \A x, y \in Office :
            pc'[x] \in Busy /\ pc'[y] \in Busy /\ serving'[x] = serving'[y] => x = y
      BY <3>4, <3>5
    <3>7. \A x \in Office : \A k \in 1..Len(requests') :
            pc'[x] \in Busy => requests'[k] # serving'[x]
      BY <2>1, <3>2, <3>3, <3>5
    <3>8. \A p \in Pid : client'[p] = "idle" \/ answer'[p] # "none" =>
            \A k \in 1..Len(requests') : requests'[k] # p
      BY <2>1, <3>1, <3>2
    <3>9. \A p \in Pid : client'[p] = "idle" \/ answer'[p] # "none" =>
            \A x \in Office : pc'[x] \in Busy /\ serving'[x] = p =>
              client'[p] # "idle" /\ crashed'
      BY <3>1, <3>4, <3>5
    <3> QED BY <3>1, <3>3, <3>6, <3>7, <3>8, <3>9
  <2> QED BY <2>2, <2>3
<1>5. ASSUME NEW o \in Office, pc[o] \in Busy,
             \E to \in OfficePc : pc' = [pc EXCEPT ![o] = to],
             UNCHANGED <<serving, requests, client, answer, crashed>>
      PROVE  PidOnce'
  <2>1. \A x \in Office : pc'[x] \in Busy => pc[x] \in Busy
    BY <1>5
  <2> HIDE DEF Busy, TypeOK
  <2> QED BY <1>5, <2>1
<1>6. ASSUME NEW o \in Office, Verify(o) \/ WaitAnswerSem(o) \/ OpenResponse(o)
      PROVE  PidOnce'
  BY <1>5, <1>6 DEF Verify, WaitAnswerSem, OpenResponse, OfficePc
<1>7. ASSUME NEW o \in Office, OpenResponseFails(o) PROVE PidOnce'
  BY <1>5, <1>7 DEF OpenResponseFails, OfficePc
<1>8. ASSUME NEW o \in Office, BookingStep(o) PROVE PidOnce'
  <2>1. CASE FreeSeat(o)
    BY <1>1, <2>1 DEF FreeSeat
  <2>2. CASE TestSeat(o) \/ EndOfFreeSeats(o)
    BY <1>5, <2>2 DEF TestSeat, EndOfFreeSeats, OfficePc
  <2>3. CASE WaitSeat(o) \/ TakeSeat(o) \/ AllBooked(o) \/ TooFewBooked(o)
    BY <1>5, <2>3 DEF WaitSeat, TakeSeat, AllBooked, TooFewBooked, OfficePc
  <2> QED BY <1>8, <2>1, <2>2, <2>3 DEF BookingStep
<1>9. ASSUME NEW o \in Office, Reply(o) PROVE PidOnce'
  <2>1. /\ pc[o] = "reply" /\ pc' = [pc EXCEPT ![o] = "loop"]
        /\ serving[o] \in Pid /\ error[o] # "none"
        /\ answer' = [answer EXCEPT ![serving[o]] = error[o]]
        /\ UNCHANGED <<serving, requests, client, crashed>>
    BY <1>9 DEF Reply, WriteAnswer, ServingOK, Code
  <2>2. /\ pc[o] \in Busy /\ pc'[o] \notin Busy
        /\ \A x \in Office \ {o} : pc'[x] = pc[x]
        /\ \A p \in Pid : answer'[p] # "none" => answer[p] # "none" \/ p = serving[o]
        /\ \A p \in Pid \ {serving[o]} : answer'[p] = answer[p]
    BY <2>1
  <2> HIDE DEF Busy, TypeOK
  <2> QED BY <2>1, <2>2
<1>10. ASSUME NEW o \in Office, ReplyBadIdentifier(o) PROVE PidOnce'
  <2>1. /\ pc[o] = "reply" /\ crashed' = TRUE /\ serving[o] \in Pid
        /\ answer' = [answer EXCEPT ![serving[o]] = error[o]]
        /\ UNCHANGED <<pc, serving, requests, client>>
    BY <1>10 DEF ReplyBadIdentifier, WriteAnswer, ServingOK
  <2>2. pc[o] \in Busy /\ \A p \in Pid \ {serving[o]} : answer'[p] = answer[p]
    BY <2>1
  <2> HIDE DEF Busy, TypeOK
  <2> QED BY <2>1, <2>2
<1>11. ASSUME NEW o \in Office, ReplyNoReader(o) PROVE PidOnce'
  BY <1>11 DEF ReplyNoReader
<1>12. ASSUME NEW p \in Pid, SendRequest(p) PROVE PidOnce'
  <2>1. /\ client[p] = "idle" /\ client' = [client EXCEPT ![p] = "waiting"]
        /\ UNCHANGED <<pc, serving, answer, crashed>>
    BY <1>12 DEF SendRequest, Become, ServerOnly
  <2>2. CASE requests' = requests
    <3>1. \A q \in Pid : client'[q] = "idle" => client[q] = "idle"
      BY <2>1
    <3> HIDE DEF Busy, TypeOK
    <3> QED BY <2>1, <2>2, <3>1
  <2>3. CASE requests' = Append(requests, p)
    <3>1. /\ Len(requests') = Len(requests) + 1
          /\ requests'[Len(requests) + 1] = p
          /\ \A k \in 1..Len(requests) : requests'[k] = requests[k]
      BY <2>3, AppendProperties
    <3>2. Len(requests) \in Nat /\ answer[p] = "none"
      BY <2>1, LenProperties
    <3>3. \A q \in Pid : client'[q] = IF q = p THEN "waiting" ELSE client[q]
      BY <2>1
    <3> HIDE DEF Busy, TypeOK
    <3> QED BY <2>1, <3>1, <3>2, <3>3
  <2> QED BY <1>12, <2>2, <2>3 DEF SendRequest
<1>13. ASSUME NEW p \in Pid, ClientStep(p) PROVE PidOnce'
  <2>1. /\ client[p] # "idle"
        /\ \E to \in ClientState \ {"idle"} : client' = [client EXCEPT ![p] = to]
        /\ UNCHANGED <<pc, serving, requests, answer, crashed>>
    BY <1>13 DEF ClientStep, ReadAnswer, TimeOut, Leave, UnlinkOrExit, Become,
       ServerOnly, ClientState
  <2> QED BY <2>1
<1> QED
  BY <1>1, <1>2, <1>3, <1>4, <1>6, <1>7, <1>8, <1>9, <1>10, <1>11, <1>12, <1>13
  DEF Next, MainStep, TimerExpires, HandlerClose, CloseServer, LockingStep,
      OfficeStep, ResponseStep, Stopped, vars

-----------------------------------------------------------------------------
(* The seat semaphores                                                     *)

\* An office gets a seat's semaphore only when no other has it, and posts it
\* when it is done; freeSeats, which does not take it, only makes seats free.
LEMMA SeatSemStep == ASSUME IInv, [Next]_vars PROVE SeatSemOK'
<1> USE DEF IInv
<1>1. ASSUME NEW o \in Office, ~Inside(o), ~Inside(o)', UNCHANGED <<seats, asked>>,
             \A x \in Office \ {o} : /\ pc'[x] = pc[x] /\ i'[x] = i[x]
                                     /\ serving'[x] = serving[x]
      PROVE  SeatSemOK'
  <2>1. \A x \in Office : Inside(x)' => Inside(x) /\ SeatOf(x)' = SeatOf(x)
    BY <1>1 DEF SeatOf, prefs, Inside
  <2>2. \A x \in Office : pc'[x] = "take" => pc[x] = "take"
    BY <1>1 DEF Inside
  <2> QED BY <1>1, <2>1, <2>2 DEF SeatSemOK, seats, isSeatFree, Inside
<1>2. CASE UNCHANGED <<pc, serving, i, asked, seats>>
  BY <1>2 DEF SeatSemOK, Inside, SeatOf, prefs, seats, isSeatFree
<1>3. ASSUME NEW o \in Office, LockingStep(o) PROVE SeatSemOK'
  <2>1. pc[o] \notin {"test", "take"} /\ pc'[o] \notin {"test", "take"}
    BY <1>3, LockingFrame DEF Idle, TypeOK
  <2> QED BY <1>1, <1>3, <2>1, LockingFrame DEF Inside, office, clients, TypeOK
<1>4. ASSUME NEW o \in Office,
             \/ ReadRequest(o) \/ Verify(o) \/ AllBooked(o) \/ TooFewBooked(o)
      PROVE  SeatSemOK'
  <2> USE DEF Goto, Inside, TypeOK, office, clients
  <2>1. CASE ReadRequest(o)
    BY <1>1, <2>1 DEF ReadRequest
  <2>2. CASE Verify(o)
    BY <1>1, <2>2 DEF Verify
  <2>3. CASE AllBooked(o) \/ TooFewBooked(o)
    BY <1>1, <2>3 DEF AllBooked, TooFewBooked
  <2> QED BY <1>4, <2>1, <2>2, <2>3
<1>5. ASSUME NEW o \in Office, EndOfFreeSeats(o) \/ ResponseStep(o)
      PROVE  SeatSemOK'
  <2> USE DEF Goto, Inside, TypeOK, office, clients
  <2>1. CASE EndOfFreeSeats(o)
    BY <1>1, <2>1 DEF EndOfFreeSeats
  <2>2. CASE WaitAnswerSem(o) \/ OpenResponse(o)
    BY <1>1, <2>2 DEF WaitAnswerSem, OpenResponse
  <2>3. CASE OpenResponseFails(o)
    BY <1>1, <2>3 DEF OpenResponseFails
  <2>4. CASE Reply(o)
    BY <1>1, <2>4 DEF Reply
  <2>5. CASE ReplyBadIdentifier(o) \/ ReplyNoReader(o)
    BY <1>2, <2>5 DEF ReplyBadIdentifier, ReplyNoReader
  <2> QED BY <1>5, <2>1, <2>2, <2>3, <2>4, <2>5 DEF ResponseStep
<1>6. ASSUME NEW o \in Office, FreeSeat(o) PROVE SeatSemOK'
  <2>1. /\ seatList' = [seatList EXCEPT ![requestResult[o][i[o]]] = Free]
        /\ UNCHANGED <<pc, serving, asked, seatSem>> /\ ~Inside(o)
        /\ \A x \in Office \ {o} : i'[x] = i[x]
    BY <1>6 DEF FreeSeat, Inside, clients, TypeOK
  <2>2. \A x \in Office : Inside(x)' => Inside(x) /\ SeatOf(x)' = SeatOf(x)
    BY <2>1 DEF SeatOf, prefs, Inside
  <2>3. \A x \in Office : pc[x] = "take" => SeatOf(x) \in DOMAIN seatList
    <3>1. \A x \in Office : pc[x] = "take" => SeatOf(x) \in Seat
      BY SeatOfIsSeat DEF ServingOK
    <3>2. Seat \subseteq DOMAIN seatList
      BY ConstantsAssumption DEF TypeOK, Seat
    <3> QED BY <3>1, <3>2
  <2>4. \A s \in DOMAIN seatList : seatList[s] = Free => seatList'[s] = Free
    BY <2>1
  <2>5. \A x \in Office : pc'[x] = "take" => pc[x] = "take" /\ Inside(x)'
    BY <2>1 DEF Inside
  <2> QED BY <2>1, <2>2, <2>3, <2>4, <2>5 DEF SeatSemOK, isSeatFree
<1>7. ASSUME NEW o \in Office, WaitSeat(o) \/ TestSeat(o) \/ TakeSeat(o),
             NEW s, s = SeatOf(o), s \in Seat
      PROVE  SeatSemOK'
  <2>1. \A x \in Office \ {o} : /\ pc'[x] = pc[x] /\ Inside(x)' = Inside(x)
                                /\ SeatOf(x)' = SeatOf(x)
    BY <1>7 DEF WaitSeat, TestSeat, TakeSeat, Goto, Inside, SeatOf, prefs, office,
       clients, TypeOK
  <2>2. CASE WaitSeat(o)
    <3>1. /\ seatSem[s] = 1 /\ seatSem' = [seatSem EXCEPT ![s] = 0]
          /\ pc'[o] = "test" /\ seatList' = seatList /\ SeatOf(o)' = s
      <4>1. /\ seatSem[s] > 0 /\ seatSem' = [seatSem EXCEPT ![s] = seatSem[s] - 1]
            /\ pc'[o] = "test" /\ seatList' = seatList /\ SeatOf(o)' = s
        BY <1>7, <2>2 DEF WaitSeat, Goto, SeatOf, prefs, TypeOK, office, clients
      <4>2. seatSem[s] = 1
        BY <1>7, <4>1 DEF SeatSemOK
      <4> QED BY <4>1, <4>2
    <3>2. \A x \in Office \ {o} : Inside(x) => SeatOf(x) # s
      BY <3>1 DEF SeatSemOK
    <3>3. \A r \in Seat : seatSem'[r] = IF r = s THEN 0 ELSE seatSem[r]
      BY <3>1 DEF TypeOK
    <3>4. \A x \in Office : Inside(x) => SeatOf(x) \in Seat
      BY SeatOfIsSeat DEF Inside, ServingOK
    <3> QED BY <1>7, <2>1, <3>1, <3>2, <3>3, <3>4 DEF SeatSemOK, isSeatFree, Inside
  <2>3. CASE TestSeat(o) /\ isSeatFree(s)
    <3>1. /\ seatSem' = seatSem /\ pc[o] = "test" /\ pc'[o] = "take"
          /\ seatList' = seatList /\ SeatOf(o)' = s
      BY <1>7, <2>3 DEF TestSeat, Goto, SeatOf, prefs, TypeOK, clients
    <3> QED BY <1>7, <2>1, <2>3, <3>1 DEF SeatSemOK, isSeatFree, Inside
  <2>4. CASE (TestSeat(o) /\ ~isSeatFree(s)) \/ TakeSeat(o)
    <3>1. /\ pc[o] \in {"test", "take"} /\ pc'[o] = "book"
          /\ seatSem' = [seatSem EXCEPT ![s] = @ + 1]
      BY <1>7, <2>4 DEF TestSeat, TakeSeat, Goto, SeatOf, TypeOK
    <3>2. \A x \in Office \ {o} : Inside(x) => SeatOf(x) # s /\ SeatOf(x) \in Seat
      BY <1>7, <3>1, SeatOfIsSeat DEF SeatSemOK, Inside, ServingOK
    <3>3. \A r \in Seat : seatSem'[r] = IF r = s THEN 1 ELSE seatSem[r]
      BY <1>7, <3>1 DEF TypeOK, SeatSemOK, Inside
    <3>4. \A r \in Seat \ {s} : seatList'[r] = seatList[r]
      <4>1. /\ seatList \in [0..NSeats -> Pid \cup {Free}]
            /\ \/ seatList' = seatList
               \/ seatList' = [seatList EXCEPT ![s] = serving[o]]
        BY <1>7, <2>4 DEF TestSeat, TakeSeat, SeatOf, TypeOK
      <4>2. Seat \subseteq 0..NSeats
        BY ConstantsAssumption DEF Seat
      <4> HIDE DEF IInv
      <4> QED BY <4>1, <4>2
    <3> QED BY <1>7, <2>1, <3>1, <3>2, <3>3, <3>4 DEF SeatSemOK, isSeatFree, Inside
  <2> QED BY <1>7, <2>2, <2>3, <2>4
<1>8. ASSUME NEW o \in Office, WaitSeat(o) \/ TestSeat(o) \/ TakeSeat(o)
      PROVE  SeatSemOK'
  <2>1. SeatOf(o) \in Seat
    BY <1>8, SeatOfIsSeat DEF WaitSeat, TestSeat, TakeSeat, Goto, ServingOK
  <2> QED BY <1>7, <1>8, <2>1
<1> QED
  BY <1>2, <1>3, <1>4, <1>5, <1>6, <1>8
  DEF Next, MainStep, TimerExpires, HandlerClose, HandlerWake, CloseServer,
      OfficeStep, LockingStep, BookingStep, SendRequest, ClientStep, ReadAnswer,
      TimeOut, Leave, UnlinkOrExit, ServerOnly, Stopped, vars, office, clients

-----------------------------------------------------------------------------
(* Who owns each seat                                                      *)

\* What the offices other than o have is as it was.
OthersKeep(o) ==
  \A x \in Office \ {o} : /\ pc'[x] = pc[x] /\ i'[x] = i[x]
                          /\ serving'[x] = serving[x]
                          /\ requestResult'[x] = requestResult[x]

\* So the others hold the seats they held.
LEMMA OthersHold ==
  ASSUME NEW o \in Office, OthersKeep(o), NEW x \in Office, x # o
  PROVE  /\ Held(x)' = Held(x) /\ serving'[x] = serving[x] /\ pc'[x] = pc[x]
         /\ requestResult'[x] = requestResult[x]
BY DEF OthersKeep, Held, FirstHeld

\* Steps that change neither a seat nor an answer and keep what o holds, or
\* start and end with o holding nothing.
LEMMA SameHoldings ==
  ASSUME Ownership, NEW o \in Office, OthersKeep(o),
         UNCHANGED <<seatList, answer, reserved, asked>>,
         IsInjective(requestResult'[o]), Held(o)' = Held(o),
         (serving'[o] = serving[o] /\ pc'[o] \in Busy) \/ Held(o) = {}
  PROVE  Ownership'
<1>1. \A p \in Pid : Promised(p)' = Promised(p)
  BY DEF Promised
<1>2. \A x \in Office : Held(x)' = Held(x)
  BY OthersHold
<1>3. \A x \in Office : \A s \in Held(x) :
        serving'[x] = serving[x] /\ (pc[x] \in Busy => pc'[x] \in Busy)
  BY OthersHold
<1>4. \A x \in Office : IsInjective(requestResult'[x])
  BY OthersHold DEF Ownership
<1> QED BY <1>1, <1>2, <1>3, <1>4 DEF Ownership

\* Without booked seats an office holds none.
LEMMA EmptyHolding ==
  ASSUME NEW o \in Office, requestResult[o] = <<>>, i[o] \in Nat \ {0}
  PROVE  Held(o) = {} /\ IsInjective(requestResult[o])
<1>1. Len(requestResult[o]) = 0 /\ DOMAIN requestResult[o] = {}
  OBVIOUS
<1>2. FirstHeld(o) \in Nat \ {0}
  BY DEF FirstHeld
<1> QED BY <1>1, <1>2 DEF Held, IsInjective

\* What is held or promised are seats of the room, and whoever holds one is
\* working on a client's request.
LEMMA HoldingTypes ==
  ASSUME TypeOK, ServingOK, ResultOK
  PROVE  /\ \A x \in Office : Held(x) \subseteq Seat
         /\ \A x \in Office : Held(x) # {} => pc[x] \in Busy /\ serving[x] \in Pid
         /\ \A p \in Pid : Promised(p) \subseteq Seat
<1>1. \A x \in Office : \A k \in FirstHeld(x)..Len(requestResult[x]) :
        k \in 1..Len(requestResult[x])
  BY LenProperties DEF FirstHeld, TypeOK
<1>2. \A x \in Office : Held(x) \subseteq Seat
  BY <1>1, ElementOfSeq DEF Held, TypeOK
<1>3. \A x \in Office : pc[x] \in Idle => Held(x) = {}
  BY EmptyHolding DEF ResultOK, TypeOK
<1>4. \A x \in Office : Held(x) # {} => pc[x] \in Busy /\ serving[x] \in Pid
  BY <1>3 DEF TypeOK, OfficePc, Idle, ServingOK, Busy
<1>5. \A p \in Pid : Promised(p) \subseteq Seat
  BY LenProperties, ElementOfSeq DEF Promised, Range, TypeOK
<1> QED BY <1>2, <1>4, <1>5

\* A client an office works for has not been promised anything yet.
LEMMA NothingPromised ==
  ASSUME TypeOK, ServingOK, PidOnce, NEW o \in Office, pc[o] \in Busy, ~crashed
  PROVE  answer[serving[o]] = "none" /\ Promised(serving[o]) = {}
BY DEF PidOnce, Promised, ServingOK, TypeOK

\* A step of an office about its own request.
LEMMA QuietOwnership ==
  ASSUME IInv, TypeOK', NEW o \in Office,
         \/ LockingStep(o) \/ ReadRequest(o) \/ Verify(o) \/ WaitSeat(o)
         \/ TestSeat(o) \/ AllBooked(o) \/ TooFewBooked(o) \/ EndOfFreeSeats(o)
         \/ WaitAnswerSem(o) \/ OpenResponse(o) \/ OpenResponseFails(o)
  PROVE  Ownership'
<1> USE DEF IInv, Goto
<1>1. i[o] \in Nat \ {0} /\ i'[o] \in Nat \ {0}
  BY DEF TypeOK
<1>2. CASE requestResult[o] = <<>> /\ requestResult'[o] = <<>> /\ OthersKeep(o)
           /\ UNCHANGED <<seatList, answer, reserved, asked>>
  <2>1. Held(o) = {} /\ Held(o)' = {} /\ IsInjective(requestResult'[o])
    BY <1>1, <1>2, EmptyHolding DEF Held, FirstHeld, IsInjective
  <2> QED BY <1>2, <2>1, SameHoldings
<1>3. CASE LockingStep(o)
  <2>1. requestResult[o] = <<>> /\ UNCHANGED requestResult
    BY <1>3, LockingFrame DEF ResultOK, office
  <2> QED BY <1>2, <1>3, <2>1, LockingFrame DEF OthersKeep, office, clients, seats, TypeOK
<1>4. CASE ReadRequest(o)
  BY <1>2, <1>4 DEF ReadRequest, ResultOK, OthersKeep, clients, seats, TypeOK, Idle
<1>5. CASE Verify(o)
  BY <1>2, <1>5 DEF Verify, ResultOK, OthersKeep, clients, seats, TypeOK, Idle
<1>6. ASSUME UNCHANGED <<requestResult, serving, answer, reserved, asked, seatList>>,
             OthersKeep(o), pc'[o] \in Busy, FirstHeld(o)' = FirstHeld(o)
      PROVE  Ownership'
  BY <1>6, SameHoldings DEF Ownership, Held
<1>7. CASE WaitSeat(o) \/ TestSeat(o) \/ AllBooked(o)
  <2> USE DEF OthersKeep, FirstHeld, Busy, TypeOK, clients, office, seats
  <2>1. CASE WaitSeat(o)
    BY <1>6, <2>1 DEF WaitSeat
  <2>2. CASE TestSeat(o)
    BY <1>6, <2>2 DEF TestSeat
  <2>3. CASE AllBooked(o)
    BY <1>6, <2>3 DEF AllBooked
  <2> QED BY <1>7, <2>1, <2>2, <2>3
<1>8. CASE TooFewBooked(o)
  BY <1>6, <1>8 DEF TooFewBooked, OthersKeep, FirstHeld, Busy, TypeOK, clients, seats
<1>9. CASE EndOfFreeSeats(o)
  <2>1. OthersKeep(o) /\ requestResult'[o] = <<>> /\ i'[o] \in Nat \ {0}
        /\ UNCHANGED <<answer, reserved, asked, seatList>>
    BY <1>9 DEF EndOfFreeSeats, OthersKeep, clients, seats, TypeOK
  <2>2. Held(o)' = {} /\ IsInjective(requestResult'[o])
    BY <2>1, EmptyHolding DEF Held, FirstHeld, IsInjective
  <2>3. FirstHeld(o) = i[o] /\ i[o] > Len(requestResult[o]) /\ Len(requestResult[o]) \in Nat
    BY <1>9, LenProperties DEF EndOfFreeSeats, FirstHeld, TypeOK
  <2>4. Held(o) = {}
    BY <1>1, <2>3 DEF Held
  <2> QED BY <2>1, <2>2, <2>4, SameHoldings
<1>10. CASE WaitAnswerSem(o) \/ OpenResponse(o)
  BY <1>6, <1>10 DEF WaitAnswerSem, OpenResponse, OthersKeep, FirstHeld, Busy,
     TypeOK, clients, office, seats
<1>11. CASE OpenResponseFails(o) /\ error[o] = "AYE"
  BY <1>6, <1>11 DEF OpenResponseFails, OthersKeep, FirstHeld, Busy, TypeOK,
     clients, seats
<1>12. CASE OpenResponseFails(o) /\ error[o] # "AYE"
  BY <1>2, <1>12 DEF OpenResponseFails, ResultOK, Answering, OthersKeep, TypeOK,
     clients, seats
<1> QED BY <1>3, <1>4, <1>5, <1>7, <1>8, <1>9, <1>10, <1>11, <1>12

\* Booking: the seat was nobody's and is now the office's.
LEMMA TakeOwnership ==
  ASSUME IInv, NEW o \in Office, TakeSeat(o)
  PROVE  Ownership'
<1> USE DEF IInv, Goto
<1> DEFINE s == SeatOf(o)
           r == requestResult[o]
<1>1. s \in Seat /\ serving[o] \in Pid /\ seatList[s] = Free
  BY SeatOfIsSeat DEF TakeSeat, ServingOK, SeatSemOK, isSeatFree, Busy
<1>2. /\ pc[o] = "take" /\ pc'[o] = "book" /\ OthersKeep(o)
      /\ UNCHANGED <<serving, answer, reserved, asked>>
      /\ seatList' = [seatList EXCEPT ![s] = serving[o]]
      /\ requestResult'[o] = Append(r, s)
  BY DEF TakeSeat, OthersKeep, clients, SeatOf, TypeOK
<1>3. \A q \in Seat : seatList'[q] = IF q = s THEN serving[o] ELSE seatList[q]
  <2> HIDE DEF IInv, r, s
  <2>1. seatList \in [0..NSeats -> Pid \cup {Free}]
    BY DEF IInv, TypeOK
  <2>2. Seat \subseteq 0..NSeats
    BY ConstantsAssumption DEF Seat
  <2> QED BY <1>2, <2>1, <2>2
<1>4. /\ r \in Seq(Seat) /\ Len(r) \in Nat
      /\ DOMAIN r = 1..Len(r) /\ DOMAIN requestResult'[o] = 1..(Len(r) + 1)
      /\ Len(requestResult'[o]) = Len(r) + 1
      /\ requestResult'[o][Len(r) + 1] = s
      /\ \A k \in 1..Len(r) : requestResult'[o][k] = r[k]
  <2>1. r \in Seq(Seat)
    BY DEF TypeOK
  <2> QED BY <1>1, <1>2, <2>1, AppendProperties, LenProperties
<1>5. /\ FirstHeld(o) = 1 /\ FirstHeld(o)' = 1
  BY <1>2 DEF FirstHeld
<1>6. /\ Held(o) = {r[k] : k \in 1..Len(r)}
      /\ Held(o)' = {requestResult'[o][k] : k \in 1..(Len(r) + 1)}
  BY <1>4, <1>5 DEF Held
<1>7. Held(o)' = Held(o) \cup {s}
  <2> HIDE DEF r, s
  <2>1. \A q : q \in Held(o)' => q \in Held(o) \cup {s}
    <3> SUFFICES ASSUME NEW k \in 1..(Len(r) + 1)
                 PROVE  requestResult'[o][k] \in Held(o) \cup {s}
      BY <1>6
    <3>1. k = Len(r) + 1 \/ k \in 1..Len(r)
      BY <1>4
    <3> QED BY <1>4, <1>6, <3>1
  <2>2. \A k \in 1..Len(r) : k \in 1..(Len(r) + 1)
    BY <1>4
  <2>3. Len(r) + 1 \in 1..(Len(r) + 1)
    BY <1>4
  <2> QED BY <1>4, <1>6, <2>1, <2>2, <2>3
<1>8. \A x \in Office : Held(x) \subseteq Seat /\ s \notin Held(x)
  BY <1>1, HoldingTypes, ConstantsAssumption DEF Ownership
<1>9. \A p \in Pid : /\ Promised(p)' = Promised(p)
                     /\ Promised(p) \subseteq Seat /\ s \notin Promised(p)
  <2>1. \A p \in Pid : Promised(p)' = Promised(p)
    BY <1>2 DEF Promised
  <2> QED BY <1>1, <2>1, HoldingTypes, ConstantsAssumption DEF Ownership
<1>10. IsInjective(requestResult'[o])
  <2>1. \A k \in 1..Len(r) : r[k] # s
    BY <1>6, <1>8
  <2>2. \A j, k \in 1..Len(r) : r[j] = r[k] => j = k
    BY <1>4 DEF Ownership, IsInjective
  <2>3. \A k \in 1..(Len(r) + 1) : k \in 1..Len(r) \/ k = Len(r) + 1
    BY <1>4
  <2> HIDE DEF r, s
  <2> QED BY <1>4, <2>1, <2>2, <2>3 DEF IsInjective
<1>11. \A x \in Office : IsInjective(requestResult'[x])
  BY <1>2, <1>10, OthersHold DEF Ownership
<1>12. \A x \in Office : \A q \in Held(x)' : seatList'[q] = serving'[x]
  <2> HIDE DEF r, s
  <2>1. \A x \in Office \ {o} : Held(x)' = Held(x)
    BY <1>2, OthersHold
  <2> QED BY <1>1, <1>2, <1>3, <1>7, <1>8, <2>1 DEF Ownership
<1>13. \A p \in Pid : \A q \in Promised(p)' : seatList'[q] = p
  BY <1>3, <1>9 DEF Ownership
<1>14. ASSUME NEW q \in Seat, NEW p \in Pid, seatList'[q] = p
       PROVE  \/ q \in Promised(p)'
              \/ \E x \in Office : pc'[x] \in Busy /\ serving'[x] = p /\ q \in Held(x)'
  <2>1. CASE q = s
    BY <1>2, <1>3, <1>7, <1>14, <2>1 DEF Busy
  <2>2. CASE q # s
    <3>1. seatList[q] = p
      BY <1>3, <1>14, <2>2
    <3>2. \A x \in Office : pc[x] \in Busy /\ serving[x] = p /\ q \in Held(x)
            => pc'[x] \in Busy /\ serving'[x] = p /\ q \in Held(x)'
      BY <1>2, <1>7, OthersHold DEF Busy
    <3> QED BY <1>9, <3>1, <3>2 DEF Ownership
  <2> QED BY <2>1, <2>2
<1> QED BY <1>2, <1>11, <1>12, <1>13, <1>14 DEF Ownership

\* Giving back: the seat was the office's and is nobody's.
LEMMA FreeOwnership ==
  ASSUME IInv, NEW o \in Office, FreeSeat(o)
  PROVE  Ownership'
<1> USE DEF IInv
<1> DEFINE r == requestResult[o]
           s == r[i[o]]
<1>1. /\ i[o] \in 1..Len(r) /\ s \in Seat /\ Len(r) \in Nat
      /\ DOMAIN r = 1..Len(r)
  BY FreedIsSeat, LenProperties DEF FreeSeat, TypeOK
<1>2. /\ pc[o] \in {"rollback", "release"} /\ ~crashed
      /\ UNCHANGED <<pc, serving, requestResult, answer, reserved, asked>>
      /\ seatList' = [seatList EXCEPT ![s] = Free]
      /\ i'[o] = i[o] + 1 /\ \A x \in Office \ {o} : i'[x] = i[x]
  BY DEF FreeSeat, clients, TypeOK
<1>3. \A q \in Seat : seatList'[q] = IF q = s THEN Free ELSE seatList[q]
  <2> HIDE DEF IInv, r, s
  <2>1. seatList \in [0..NSeats -> Pid \cup {Free}]
    BY DEF IInv, TypeOK
  <2>2. Seat \subseteq 0..NSeats
    BY ConstantsAssumption DEF Seat
  <2> QED BY <1>2, <2>1, <2>2
<1>4. /\ Held(o) = {r[k] : k \in i[o]..Len(r)}
      /\ Held(o)' = {r[k] : k \in (i[o] + 1)..Len(r)}
  BY <1>2 DEF Held, FirstHeld
<1>5. s \in Held(o) /\ Held(o)' = Held(o) \ {s}
  <2>1. \A k \in i[o]..Len(r) : k \in 1..Len(r) /\ (k = i[o] \/ k \in (i[o] + 1)..Len(r))
    BY <1>1
  <2>2. \A k \in (i[o] + 1)..Len(r) : k \in i[o]..Len(r) /\ k # i[o] /\ k \in 1..Len(r)
    BY <1>1
  <2>3. i[o] \in i[o]..Len(r)
    BY <1>1
  <2>4. \A j, k \in 1..Len(r) : r[j] = r[k] => j = k
    BY <1>1 DEF Ownership, IsInjective
  <2> HIDE DEF r
  <2>5. \A k \in (i[o] + 1)..Len(r) : r[k] # s
    BY <1>1, <2>2, <2>4
  <2> QED BY <1>4, <2>1, <2>2, <2>3, <2>5
<1>6. seatList[s] = serving[o] /\ serving[o] \in Pid /\ pc[o] \in Busy
  BY <1>2, <1>5 DEF Ownership, ServingOK, Busy
<1>7. \A x \in Office \ {o} : Held(x)' = Held(x) /\ s \notin Held(x)
  <2>1. \A x \in Office \ {o} : Held(x)' = Held(x)
    BY <1>2 DEF Held, FirstHeld
  <2>2. \A x \in Office \ {o} : s \in Held(x) => serving[x] = serving[o] /\ pc[x] \in Busy
    BY <1>6, HoldingTypes DEF Ownership
  <2>3. \A x \in Office \ {o} : pc[x] \in Busy => serving[x] # serving[o]
    BY <1>6 DEF PidOnce
  <2> QED BY <2>1, <2>2, <2>3
<1>8. \A p \in Pid : Promised(p)' = Promised(p) /\ s \notin Promised(p)
  <2>1. \A p \in Pid : s \in Promised(p) => p = serving[o]
    BY <1>6 DEF Ownership
  <2>2. Promised(serving[o]) = {}
    BY <1>2, <1>6, NothingPromised
  <2> QED BY <1>2, <2>1, <2>2 DEF Promised
<1> HIDE DEF r, s
<1>9. \A x \in Office : Held(x)' \subseteq Held(x) \ {s} /\ Held(x) \subseteq Seat
  BY <1>5, <1>7, HoldingTypes
<1>10. \A x \in Office : \A q \in Held(x)' : seatList'[q] = serving'[x]
  BY <1>2, <1>3, <1>9 DEF Ownership
<1>11. \A p \in Pid : \A q \in Promised(p)' : seatList'[q] = p
  BY <1>3, <1>8, HoldingTypes DEF Ownership
<1>12. ASSUME NEW q \in Seat, NEW p \in Pid, seatList'[q] = p
       PROVE  \/ q \in Promised(p)'
              \/ \E x \in Office : pc'[x] \in Busy /\ serving'[x] = p /\ q \in Held(x)'
  <2>1. q # s /\ seatList[q] = p
    BY <1>3, <1>12, ConstantsAssumption
  <2>2. \A x \in Office : q \in Held(x) => q \in Held(x)'
    BY <1>5, <1>7, <2>1
  <2> QED BY <1>2, <1>8, <2>1, <2>2 DEF Ownership
<1> QED BY <1>2, <1>10, <1>11, <1>12 DEF Ownership

\* Answering: what the office held is promised, or it held nothing.
LEMMA ReplyOwnership ==
  ASSUME IInv, NEW o \in Office, Reply(o) \/ ReplyBadIdentifier(o),
         NEW p \in Pid, p = serving[o], NEW r, r = requestResult[o]
  PROVE  Ownership'
<1> USE DEF IInv
<1>1. /\ pc[o] = "reply" /\ ~crashed /\ Promised(p) = {}
      /\ UNCHANGED <<seatList, serving, asked>>
      /\ answer' = [answer EXCEPT ![p] = error[o]]
      /\ reserved' = [reserved EXCEPT ![p] = r]
      /\ r \in Seq(Seat) /\ DOMAIN r = 1..Len(r) /\ i[o] \in Nat \ {0}
  BY NothingPromised, LenProperties DEF Reply, ReplyBadIdentifier, WriteAnswer, Goto,
     ServingOK, Busy, office, clients, seats, TypeOK
<1>2. \A q \in Pid \ {p} : /\ Promised(q)' = Promised(q) /\ answer'[q] = answer[q]
                           /\ reserved'[q] = reserved[q]
  BY <1>1 DEF Promised, TypeOK
<1>3. answer'[p] = error[o] /\ reserved'[p] = r
  BY <1>1 DEF TypeOK
<1>4. Held(o) = Range(r)
  BY <1>1 DEF Held, FirstHeld, Range
<1>5. CASE ReplyBadIdentifier(o)
  <2>1. error[o] # "AYE"
    BY <1>1, <1>5 DEF ReplyBadIdentifier, ServingOK, Committed
  <2>2. Promised(p)' = {}
    BY <1>3, <2>1 DEF Promised
  <2>3. UNCHANGED <<pc, i, requestResult>>
    BY <1>5 DEF ReplyBadIdentifier, office
  <2>4. \A x \in Office : Held(x)' = Held(x)
    BY <2>3 DEF Held, FirstHeld
  <2>5. \A q \in Pid : Promised(q)' = Promised(q)
    BY <1>1, <1>2, <2>2
  <2>6. \A q \in Pid : answer'[q] = "AYE" => answer[q] = "AYE" /\ reserved'[q] = reserved[q]
    BY <1>2, <1>3, <2>1
  <2> QED BY <1>1, <2>3, <2>4, <2>5, <2>6 DEF Ownership
<1>6. CASE Reply(o)
  <2>1. /\ OthersKeep(o) /\ requestResult'[o] = <<>> /\ i'[o] \in Nat \ {0}
        /\ pc'[o] = "loop"
    BY <1>1, <1>6 DEF Reply, Goto, OthersKeep, TypeOK
  <2>2. Held(o)' = {} /\ IsInjective(requestResult'[o])
    BY <2>1, EmptyHolding DEF Held, FirstHeld, IsInjective
  <2>3. \A x \in Office \ {o} : /\ Held(x)' = Held(x) /\ pc'[x] = pc[x]
                                /\ requestResult'[x] = requestResult[x]
    BY <2>1, OthersHold
  <2>4. Promised(p)' = Held(o)
    <3>1. CASE error[o] = "AYE"
      BY <1>3, <1>4, <3>1 DEF Promised
    <3>2. CASE error[o] # "AYE"
      <4>1. Promised(p)' = {}
        BY <1>3, <3>2 DEF Promised
      <4>2. r = <<>>
        BY <1>1, <3>2 DEF ResultOK, Answering
      <4> QED BY <1>1, <4>1, <4>2, EmptyHolding
    <3> QED BY <3>1, <3>2
  <2>5. error[o] = "AYE" => IsInjective(r) /\ Len(r) = asked[p].wanted
    BY <1>1 DEF Ownership, ResultOK, Committed, wanted
  <2>6. \A x \in Office : IsInjective(requestResult'[x])
    BY <2>2, <2>3 DEF Ownership
  <2>7. \A x \in Office : \A s \in Held(x)' : seatList'[s] = serving'[x]
    BY <1>1, <2>2, <2>3 DEF Ownership
  <2>8. \A q \in Pid : \A s \in Promised(q)' : seatList'[s] = q
    <3>1. \A s \in Held(o) : seatList[s] = p
      BY DEF Ownership
    <3> QED BY <1>1, <1>2, <2>4, <3>1 DEF Ownership
  <2>9. \A q \in Pid : answer'[q] = "AYE" =>
          IsInjective(reserved'[q]) /\ Len(reserved'[q]) = asked'[q].wanted
    BY <1>1, <1>2, <1>3, <2>5 DEF Ownership
  <2>10. ASSUME NEW s \in Seat, NEW q \in Pid, seatList'[s] = q
         PROVE  \/ s \in Promised(q)'
                \/ \E x \in Office : pc'[x] \in Busy /\ serving'[x] = q /\ s \in Held(x)'
    <3>1. CASE s \in Promised(q)
      BY <1>1, <1>2, <3>1
    <3>2. ASSUME NEW x \in Office, pc[x] \in Busy, serving[x] = q, s \in Held(x)
          PROVE  \/ s \in Promised(q)'
                 \/ \E y \in Office : pc'[y] \in Busy /\ serving'[y] = q /\ s \in Held(y)'
      <4>1. CASE x = o
        BY <2>4, <3>2, <4>1
      <4>2. CASE x # o
        BY <1>1, <2>3, <3>2, <4>2
      <4> QED BY <4>1, <4>2
    <3> QED BY <1>1, <2>10, <3>1, <3>2 DEF Ownership
  <2> QED BY <2>6, <2>7, <2>8, <2>9, <2>10 DEF Ownership
<1> QED BY <1>5, <1>6

\* Every step keeps the owners of the seats: booking, giving back and answering
\* move seats, no other step does.
LEMMA OwnershipStep == ASSUME IInv, [Next]_vars, TypeOK' PROVE Ownership'
<1>1. CASE UNCHANGED <<seatList, requestResult, serving, pc, i, answer, reserved, asked>>
  <2>1. /\ \A o \in Office : Held(o)' = Held(o)
        /\ \A p \in Pid : Promised(p)' = Promised(p)
    BY <1>1 DEF Held, FirstHeld, Promised
  <2> QED BY <1>1, <2>1 DEF IInv, Ownership
<1>2. ASSUME NEW o \in Office, BookingStep(o) PROVE Ownership'
  BY <1>2, QuietOwnership, TakeOwnership, FreeOwnership DEF BookingStep
<1>3. ASSUME NEW o \in Office, ResponseStep(o) PROVE Ownership'
  <2>1. CASE Reply(o) \/ ReplyBadIdentifier(o)
    <3>1. serving[o] \in Pid
      BY <2>1 DEF Reply, ReplyBadIdentifier, Goto, IInv, ServingOK, Busy
    <3> QED BY <2>1, <3>1, ReplyOwnership
  <2>2. CASE ReplyNoReader(o)
    BY <1>1, <2>2 DEF ReplyNoReader, seats, office, clients
  <2> QED BY <1>3, <2>1, <2>2, QuietOwnership DEF ResponseStep
<1>4. ASSUME NEW o \in Office,
             LockingStep(o) \/ ReadRequest(o) \/ Verify(o)
      PROVE  Ownership'
  BY <1>4, QuietOwnership
<1> QED
  BY <1>1, <1>2, <1>3, <1>4
  DEF Next, MainStep, TimerExpires, HandlerClose, HandlerWake, CloseServer,
      OfficeStep, LockingStep, SendRequest, ClientStep, ReadAnswer, TimeOut,
      Leave, UnlinkOrExit, ServerOnly, Stopped, vars, seats, office, clients

-----------------------------------------------------------------------------
(* The theorems                                                            *)

\* IInv is inductive: it holds from the start and every step keeps it.
THEOREM Invariance == Spec => []IInv
<1>1. IInv /\ [Next]_vars => IInv'
  BY TypeStep, ServingStep, ResultStep, PidStep, SeatSemStep, OwnershipStep DEF IInv
<1> QED BY InitInv, <1>1, PTL DEF Spec

\* Types, and no office ever indexes a list or a seat out of range.
THEOREM TypeCorrect == Spec => []TypeOK
<1>1. IInv => TypeOK
  BY DEF IInv
<1> QED BY Invariance, <1>1, PTL

\* A list without repetitions has as many members as entries.
LEMMA InjectiveRange ==
  ASSUME NEW S, NEW r \in Seq(S), IsInjective(r)
  PROVE  Cardinality(Range(r)) = Len(r)
<1>1. r \in [1..Len(r) -> S] /\ Len(r) \in Nat
  BY LenProperties
<1>2. r \in Injection(1..Len(r), S)
  BY <1>1, Fun_IsInj DEF IsInjective
<1>3. r \in Bijection(1..Len(r), Range(r))
  BY <1>2, Fun_InjMeansBijImage
<1>4. ExistsBijection(1..Len(r), Range(r))
  BY <1>3 DEF ExistsBijection
<1> QED BY <1>1, <1>4, FS_CountingElements

\* Every seat set aside for a client carries its name in seatList.
LEMMA SeatsOfNamed ==
  ASSUME IInv, NEW p \in Pid, NEW s \in SeatsOf(p)
  PROVE  seatList[s] = p
<1>1. CASE s \in Promised(p)
  BY <1>1 DEF IInv, Ownership
<1>2. ASSUME NEW o \in Office, serving[o] = p, s \in Held(o) PROVE seatList[s] = p
  BY <1>2 DEF IInv, Ownership
<1> QED BY <1>1, <1>2 DEF SeatsOf

\* No seat is set aside for two clients and AYE comes with the number wanted,
\* for any number of offices, clients and seats.
THEOREM NoDoubleBookingHolds == Spec => []NoDoubleBooking
<1>1. IInv => NoDoubleBooking
  <2> SUFFICES ASSUME IInv PROVE NoDoubleBooking
    OBVIOUS
  <2>1. \A p, q \in Pid : p # q => SeatsOf(p) \cap SeatsOf(q) = {}
    BY SeatsOfNamed
  <2>2. ASSUME NEW p \in Pid, answer[p] = "AYE"
        PROVE  Cardinality(Promised(p)) = asked[p].wanted
    <3>1. /\ reserved[p] \in Seq(Seat) /\ IsInjective(reserved[p])
          /\ Len(reserved[p]) = asked[p].wanted
      BY <2>2 DEF IInv, TypeOK, Ownership
    <3> QED BY <2>2, <3>1, InjectiveRange DEF Promised
  <2> QED BY <2>1, <2>2 DEF NoDoubleBooking
<1> QED BY Invariance, <1>1, PTL

\* seatList has no entry without an owner and no owner without an entry.
THEOREM SeatsAccountedHolds == Spec => []SeatsAccounted
<1>1. IInv => SeatsAccounted
  BY DEF IInv, Ownership, SeatsAccounted
<1> QED BY Invariance, <1>1, PTL

-----------------------------------------------------------------------------
(* The mutexes of the offices                                              *)

\* Who is between lock and unlock is the holder.
MutexOK ==
  \A o \in Office :
    /\ pc[o] \in {"check", "recheck"} => ticketOfficeMutex = o
    /\ pc[o] \in {"relock", "recheck", "read"} => readRequestsMutex = o

\* The locking steps keep it; what comes after a request is read runs without
\* either mutex.
LEMMA MutexStep == ASSUME TypeOK, MutexOK, [Next]_vars PROVE MutexOK'
<1> USE DEF TypeOK, MutexOK, Goto, locks
<1>1. CASE UNCHANGED <<locks, pc>>
  BY <1>1
<1>2. ASSUME NEW o \in Office,
             \/ CreateOffice(o) \/ LockOffice(o) \/ CheckOpen(o)
             \/ LockRequests(o) \/ RelockOffice(o) \/ RecheckOpen(o)
      PROVE  MutexOK'
  <2>1. CASE CreateOffice(o) \/ LockOffice(o) \/ LockRequests(o) \/ RelockOffice(o)
    BY <1>2, <2>1, ConstantsAssumption
    DEF CreateOffice, LockOffice, LockRequests, RelockOffice
  <2>2. CASE CheckOpen(o)
    BY <2>2, ConstantsAssumption DEF CheckOpen
  <2>3. CASE RecheckOpen(o)
    BY <2>3, ConstantsAssumption DEF RecheckOpen
  <2> QED BY <1>2, <2>1, <2>2, <2>3
<1>3. ASSUME NEW o \in Office, ReadRequest(o) PROVE MutexOK'
  BY <1>3 DEF ReadRequest
<1>4. ASSUME NEW o \in Office, UNCHANGED locks,
             \E to \in OfficePc \ {"check", "relock", "recheck", "read"} :
               pc' = [pc EXCEPT ![o] = to]
      PROVE  MutexOK'
  BY <1>4
<1>5. ASSUME NEW o \in Office, Verify(o) \/ BookingStep(o) PROVE MutexOK'
  <2>1. CASE Verify(o)
    BY <1>4, <2>1 DEF Verify, OfficePc
  <2>2. CASE FreeSeat(o)
    BY <1>1, <2>2 DEF FreeSeat
  <2>3. CASE TestSeat(o) \/ EndOfFreeSeats(o)
    BY <1>4, <2>3 DEF TestSeat, EndOfFreeSeats, OfficePc
  <2>4. CASE WaitSeat(o) \/ TakeSeat(o) \/ AllBooked(o) \/ TooFewBooked(o)
    BY <1>4, <2>4 DEF WaitSeat, TakeSeat, AllBooked, TooFewBooked, OfficePc
  <2> QED BY <1>5, <2>1, <2>2, <2>3, <2>4 DEF BookingStep
<1>6. ASSUME NEW o \in Office, ResponseStep(o) PROVE MutexOK'
  <2>1. CASE WaitAnswerSem(o) \/ OpenResponse(o) \/ Reply(o)
    BY <1>4, <2>1 DEF WaitAnswerSem, OpenResponse, Reply, OfficePc
  <2>2. CASE OpenResponseFails(o)
    BY <1>4, <2>2 DEF OpenResponseFails, OfficePc
  <2>3. CASE ReplyBadIdentifier(o) \/ ReplyNoReader(o)
    BY <1>1, <2>3 DEF ReplyBadIdentifier, ReplyNoReader
  <2> QED BY <1>6, <2>1, <2>2, <2>3 DEF ResponseStep
<1>7. CASE HandlerClose
  BY <1>7 DEF HandlerClose
<1> QED
  BY <1>1, <1>2, <1>3, <1>5, <1>6, <1>7
  DEF Next, MainStep, TimerExpires, HandlerWake, CloseServer, OfficeStep,
      SendRequest, ClientStep, ReadAnswer, TimeOut, Leave, UnlinkOrExit,
      ServerOnly, Stopped, vars

\* readRequestsMutex keeps the offices from reading the FIFO together.
THEOREM OneReaderHolds == Spec => []OneReader
<1>1. Init => MutexOK
  BY DEF Init, MutexOK
<1>2. TypeOK /\ MutexOK /\ [Next]_vars => MutexOK'
  BY MutexStep
<1>3. MutexOK => OneReader
  BY DEF MutexOK, OneReader
<1> QED BY TypeCorrect, <1>1, <1>2, <1>3, PTL DEF Spec
=============================================================================
