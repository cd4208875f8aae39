-------------------- MODULE TicketOffices_service_proofs --------------------
(***************************************************************************)
(* What the clients and the main thread see of the ticket offices, proved  *)
(* on top of TicketOffices_proofs: the semaphores balance, the counters    *)
(* cover the seats taken, sbook.txt lists what was answered, and the       *)
(* offices together implement Reservations.                                *)
(***************************************************************************)
EXTENDS TicketOffices_proofs, InductionLemmas

\* Offices book only seats their client asked for.
Preferred ==
  \A o \in Office :
    pc[o] \in Busy => Range(requestResult[o]) \subseteq Range(prefs(o))

\* A client answered AYE is done with; only answers that were written are read.
AnsweredOK ==
  /\ \A p \in Pid : answer[p] = "AYE" =>
       \A o \in Office : pc[o] \in Busy => serving[o] # p
  /\ \A p \in told : answer[p] # "none"

\* Nothing happens to the seats after sbook.txt.
ClosedOK == BookMatchesAnswers /\ (closed => \A o \in Office : pc[o] = "exited")

\* A seat's semaphore is down only while an office is inside.
SeatSemHeld == \A s \in Seat : seatSem[s] = 0 => \E o \in Office : InSeat(o, s)

\* The semaphore of an answer is up, or an office or the client has it, or the
\* client has no use for it any more.
AnswerSemOK ==
  \A p \in Pid :
    /\ answerSem[p] \in {0, 1}
    /\ answerSem[p] = 1 \/ client[p] = "closing" =>
         \A o \in Office : ~InAnswer(o, p)
    /\ answerSem[p] = 1 => client[p] # "closing"
    /\ client[p] \in {"idle", "waiting", "leaving"} /\ answerSem[p] = 0 =>
         \E o \in Office : InAnswer(o, p)

\* An office books only what it has room for by its own counter.
RoomOK ==
  \A o \in Office :
    /\ nOccupiedSeats[o] <= NSeats
    /\ pc[o] \in {"book", "test", "take"} => nOccupiedSeats[o] + wanted(o) <= NSeats

\* The seats taken for good.
Taken == UNION {SeatsOf(p) : p \in Pid}

CountersCover == SumFunction(nOccupiedSeats) >= Cardinality(Taken)

ServiceInv == /\ Preferred /\ AnsweredOK /\ ClosedOK /\ SeatSemHeld
              /\ AnswerSemOK /\ RoomOK /\ CountersCover

-----------------------------------------------------------------------------
(* Who changes what                                                        *)

\* What the offices other than o have is as it was.
OthersUntouched(o) ==
  \A x \in Office \ {o} :
    /\ pc'[x] = pc[x] /\ i'[x] = i[x] /\ serving'[x] = serving[x]
    /\ error'[x] = error[x] /\ requestResult'[x] = requestResult[x]
    /\ nOccupiedSeats'[x] = nOccupiedSeats[x]

\* An office changes its own entries, the seats and the answers, while the
\* server lives and before the office has ended.
LEMMA OfficeFrame ==
  ASSUME TypeOK, NEW o \in Office, LockingStep(o) \/ OfficeStep(o)
  PROVE  /\ OthersUntouched(o) /\ ~crashed /\ pc[o] # "exited"
         /\ UNCHANGED <<asked, client, told, handler, closed, book>>
<1> USE DEF OthersUntouched, TypeOK, Goto, office, clients, shutdown, seats
<1>1. CASE LockingStep(o)
  <2>1. ~crashed
    BY <1>1 DEF LockingStep, CreateOffice, LockOffice, CheckOpen, LockRequests,
       RelockOffice, RecheckOpen
  <2>2. pc[o] # "exited"
    BY <1>1 DEF LockingStep, CreateOffice, LockOffice, CheckOpen, LockRequests,
       RelockOffice, RecheckOpen
  <2> QED BY <1>1, <2>1, <2>2, LockingFrame
<1>2. CASE ReadRequest(o)
  BY <1>2 DEF ReadRequest
<1>3. CASE Verify(o)
  BY <1>3 DEF Verify
<1>4. CASE WaitSeat(o)
  BY <1>4 DEF WaitSeat
<1>5. CASE TestSeat(o)
  BY <1>5 DEF TestSeat
<1>6. CASE TakeSeat(o)
  BY <1>6 DEF TakeSeat
<1>7. CASE AllBooked(o) \/ TooFewBooked(o)
  BY <1>7 DEF AllBooked, TooFewBooked
<1>8. CASE FreeSeat(o) \/ EndOfFreeSeats(o)
  BY <1>8 DEF FreeSeat, EndOfFreeSeats
<1>9. CASE WaitAnswerSem(o) \/ OpenResponse(o)
  BY <1>9 DEF WaitAnswerSem, OpenResponse
<1>10. CASE OpenResponseFails(o)
  BY <1>10 DEF OpenResponseFails
<1>11. CASE Reply(o) \/ ReplyBadIdentifier(o)
  BY <1>11 DEF Reply, ReplyBadIdentifier, WriteAnswer
<1>12. CASE ReplyNoReader(o)
  BY <1>12 DEF ReplyNoReader
<1> QED
  BY <1>1, <1>2, <1>3, <1>4, <1>5, <1>6, <1>7, <1>8, <1>9, <1>10, <1>11, <1>12
  DEF OfficeStep, BookingStep, ResponseStep, LockingStep

\* Everything else an office does with a request is as it was for the others.
LEMMA OthersSame ==
  ASSUME NEW o \in Office, OthersUntouched(o), UNCHANGED asked,
         NEW x \in Office, x # o
  PROVE  /\ prefs(x)' = prefs(x) /\ wanted(x)' = wanted(x) /\ Held(x)' = Held(x)
         /\ Committed(x)' = Committed(x)
         /\ \A s : InSeat(x, s)' = InSeat(x, s)
         /\ \A p : InAnswer(x, p)' = InAnswer(x, p)
         /\ pc'[x] = pc[x] /\ serving'[x] = serving[x]
         /\ requestResult'[x] = requestResult[x]
         /\ nOccupiedSeats'[x] = nOccupiedSeats[x]
BY DEF OthersUntouched, prefs, wanted, Held, FirstHeld, Committed, InSeat, InAnswer

\* The other steps leave the offices and the seats alone.
LEMMA StepKinds ==
  ASSUME [Next]_vars
  PROVE  \/ \E o \in Office : LockingStep(o) \/ OfficeStep(o)
         \/ \E p \in Pid : SendRequest(p) \/ ClientStep(p)
         \/ UNCHANGED <<seats, pc, office, clients>> /\ (closed' = closed \/ CloseServer)
            /\ (book' = book \/ CloseServer)
BY DEF Next, MainStep, LockingStep, TimerExpires, HandlerClose, HandlerWake,
   CloseServer, Stopped, vars, shutdown

LEMMA ClientFrame ==
  ASSUME NEW p \in Pid, SendRequest(p) \/ ClientStep(p)
  PROVE  UNCHANGED <<seats, pc, office, shutdown, asked, answer, reserved>>
BY DEF SendRequest, ClientStep, ReadAnswer, TimeOut, Leave, UnlinkOrExit,
   ServerOnly, seats, office, shutdown

-----------------------------------------------------------------------------
(* The steps of the inductive invariant                                    *)

\* Only preferred seats are added, and the list is empty before a request.
LEMMA PreferredStep == ASSUME IInv, Preferred, [Next]_vars PROVE Preferred'
<1>1. ASSUME NEW o \in Office, LockingStep(o) \/ OfficeStep(o) PROVE Preferred'
  <2>1. \A x \in Office \ {o} : /\ pc'[x] = pc[x] /\ prefs(x)' = prefs(x)
                                /\ requestResult'[x] = requestResult[x]
    BY <1>1, OfficeFrame, OthersSame DEF IInv
  <2>2. SUFFICES ASSUME pc'[o] \in Busy
                 PROVE  Range(requestResult'[o]) \subseteq Range(prefs(o)')
    BY <2>1 DEF Preferred
  <2> USE DEF IInv, TypeOK, Goto, prefs, clients, office
  <2>3. CASE LockingStep(o)
    BY <1>1, <2>2, <2>3, LockingFrame DEF Busy, Idle
  <2>4. CASE ReadRequest(o)
    <3>1. requestResult'[o] = <<>>
      BY <2>4 DEF ReadRequest, ResultOK, Idle
    <3> QED BY <3>1 DEF Range
  <2>5. CASE TakeSeat(o)
    <3> DEFINE s == SeatOf(o)
               r == requestResult[o]
    <3>1. /\ s \in Seat /\ r \in Seq(Seat) /\ requestResult'[o] = Append(r, s)
          /\ prefs(o)' = prefs(o) /\ pc[o] = "take"
      BY <2>5, SeatOfIsSeat DEF TakeSeat, ServingOK, SeatOf
    <3>2. s \in Range(prefs(o))
      <4>1. prefs(o) \in Seq(0..NSeats) /\ i[o] \in Nat \ {0}
        BY <3>1, RequestType DEF ServingOK, Busy
      <4>2. ~(i[o] > Len(prefs(o)))
        BY <3>1 DEF ServingOK, EndOfBooking
      <4> HIDE DEF TypeOK, prefs
      <4>3. i[o] \in DOMAIN prefs(o)
        BY <4>1, <4>2, LenProperties
      <4> QED BY <4>3 DEF SeatOf, Range
    <3>3. Range(r) \subseteq Range(prefs(o))
      BY <3>1 DEF Preferred, Busy
    <3> HIDE DEF s, r, TypeOK, prefs
    <3>4. \A q \in Range(Append(r, s)) : q \in Range(r) \/ q = s
      BY <3>1, AppendProperties, LenProperties DEF Range
    <3> QED BY <3>1, <3>2, <3>3, <3>4
  <2>6. CASE EndOfFreeSeats(o)
    <3>1. requestResult'[o] = <<>>
      BY <2>6 DEF EndOfFreeSeats
    <3> QED BY <3>1 DEF Range
  <2>7. CASE Reply(o)
    BY <2>2, <2>7 DEF Reply, Busy
  <2>8. CASE Verify(o) \/ WaitSeat(o) \/ TestSeat(o)
    BY <2>8 DEF Verify, WaitSeat, TestSeat, Preferred, Busy
  <2>9. CASE AllBooked(o) \/ TooFewBooked(o) \/ FreeSeat(o)
    BY <2>9 DEF AllBooked, TooFewBooked, FreeSeat, Preferred, Busy
  <2>10. CASE WaitAnswerSem(o) \/ OpenResponse(o) \/ OpenResponseFails(o)
    BY <2>10 DEF WaitAnswerSem, OpenResponse, OpenResponseFails, Preferred, Busy
  <2>11. CASE ReplyBadIdentifier(o) \/ ReplyNoReader(o)
    BY <2>11 DEF ReplyBadIdentifier, ReplyNoReader, Preferred, Busy
  <2> QED
    BY <1>1, <2>3, <2>4, <2>5, <2>6, <2>7, <2>8, <2>9, <2>10, <2>11
    DEF OfficeStep, BookingStep, ResponseStep, LockingStep
<1>2. CASE UNCHANGED <<pc, office, asked>>
  BY <1>2 DEF Preferred, prefs, office
<1> QED BY <1>1, <1>2, StepKinds, ClientFrame DEF clients

\* An answer AYE ends the office's work for that client.
LEMMA AnsweredStep == ASSUME IInv, AnsweredOK, [Next]_vars PROVE AnsweredOK'
<1> USE DEF IInv
<1>1. ASSUME NEW o \in Office, Reply(o) \/ ReplyBadIdentifier(o) PROVE AnsweredOK'
  <2>1. /\ pc[o] = "reply" /\ ~crashed /\ UNCHANGED <<serving, told>>
        /\ answer' = [answer EXCEPT ![serving[o]] = error[o]]
        /\ serving[o] \in Pid /\ error[o] # "none" /\ answer \in [Pid -> Code \cup {"none"}]
        /\ pc \in [Office -> OfficePc]
    <3>1. /\ pc[o] = "reply" /\ ~crashed /\ UNCHANGED <<serving, told>>
          /\ answer' = [answer EXCEPT ![serving[o]] = error[o]]
      BY <1>1 DEF Reply, ReplyBadIdentifier, WriteAnswer, Goto, office
    <3>2. error[o] \in Code /\ "none" \notin Code
      BY DEF TypeOK, Code
    <3> QED BY <3>1, <3>2 DEF ServingOK, Busy, TypeOK
  <2>2. \A x \in Office : pc'[x] \in Busy => pc[x] \in Busy
    BY <1>1, <2>1 DEF Reply, ReplyBadIdentifier, Goto, Busy
  <2>3. \A x \in Office : pc[x] \in Busy /\ serving[x] = serving[o] => x = o
    BY <2>1 DEF PidOnce, Busy
  <2>4. error[o] = "AYE" => pc'[o] \notin Busy
    <3>1. CASE Reply(o)
      BY <2>1, <3>1 DEF Reply, Goto, Busy
    <3>2. CASE ReplyBadIdentifier(o)
      BY <2>1, <3>2 DEF ReplyBadIdentifier, ServingOK, Committed
    <3> QED BY <1>1, <3>1, <3>2
  <2> QED BY <2>1, <2>2, <2>3, <2>4 DEF AnsweredOK
<1>2. ASSUME NEW o \in Office, ReadRequest(o) PROVE AnsweredOK'
  <2>1. /\ pc \in [Office -> OfficePc] /\ serving \in [Office -> Pid \cup {Nobody}]
        /\ UNCHANGED <<answer, told>> /\ Head(requests) = requests[1]
        /\ 1 \in 1..Len(requests)
    BY <1>2, LenProperties, HeadTailProperties DEF ReadRequest, TypeOK, clients
  <2>2. \A x \in Office : pc'[x] \in Busy =>
          \/ pc[x] \in Busy /\ serving'[x] = serving[x]
          \/ serving'[x] = requests[1]
    BY <1>2, <2>1 DEF ReadRequest, Goto, Busy
  <2>3. \A p \in Pid : answer[p] # "none" => requests[1] # p
    BY <2>1 DEF PidOnce
  <2> QED BY <2>1, <2>2, <2>3 DEF AnsweredOK
<1>3. ASSUME UNCHANGED <<serving, answer>>,
             \A x \in Office : pc'[x] \in Busy => pc[x] \in Busy,
             \A p \in told' : p \in told \/ answer[p] # "none"
      PROVE  AnsweredOK'
  BY <1>3 DEF AnsweredOK
<1>4. ASSUME NEW o \in Office, Verify(o) \/ BookingStep(o) PROVE AnsweredOK'
  <2>1. pc[o] \in Busy /\ UNCHANGED <<serving, answer, told>>
    BY <1>4 DEF Verify, BookingStep, WaitSeat, TestSeat, TakeSeat, AllBooked,
       TooFewBooked, FreeSeat, EndOfFreeSeats, Goto, Busy, office, clients
  <2>2. \A x \in Office \ {o} : pc'[x] = pc[x]
    BY <1>4, OfficeFrame, OthersSame DEF OfficeStep
  <2> QED BY <1>3, <2>1, <2>2
<1>5. ASSUME NEW o \in Office,
             WaitAnswerSem(o) \/ OpenResponse(o) \/ OpenResponseFails(o) \/ ReplyNoReader(o)
      PROVE  AnsweredOK'
  <2>1. pc[o] \in Busy /\ UNCHANGED <<serving, answer, told>>
    BY <1>5 DEF WaitAnswerSem, OpenResponse, OpenResponseFails, ReplyNoReader,
       Goto, Busy, office, clients
  <2>2. \A x \in Office \ {o} : pc'[x] = pc[x]
    BY <1>5, OfficeFrame, OthersSame DEF OfficeStep, ResponseStep
  <2> QED BY <1>3, <2>1, <2>2
<1>6. ASSUME NEW o \in Office, LockingStep(o) PROVE AnsweredOK'
  <2>1. \A x \in Office : pc'[x] \in Busy => pc[x] \in Busy
    BY <1>6, LockingFrame DEF Idle, Busy, TypeOK
  <2> QED BY <1>3, <1>6, <2>1, LockingFrame DEF office, clients
<1>7. ASSUME NEW p \in Pid, SendRequest(p) \/ ClientStep(p) PROVE AnsweredOK'
  <2>1. \A q \in told' : q \in told \/ answer[q] # "none"
    BY <1>7 DEF SendRequest, ClientStep, ReadAnswer, TimeOut, Leave, UnlinkOrExit
  <2> QED BY <1>3, <1>7, <2>1, ClientFrame DEF office
<1>8. CASE UNCHANGED <<pc, office, clients>>
  BY <1>8, <1>3 DEF office, clients
<1> QED
  BY <1>1, <1>2, <1>4, <1>5, <1>6, <1>7, <1>8, StepKinds
  DEF OfficeStep, ResponseStep, LockingStep

\* When all offices have ended, each booked seat was promised to somebody.
LEMMA ClosedStep == ASSUME IInv, ClosedOK, [Next]_vars PROVE ClosedOK'
<1> USE DEF IInv
<1>1. ASSUME NEW o \in Office, LockingStep(o) \/ OfficeStep(o) PROVE ClosedOK'
  <2>1. pc[o] # "exited" /\ closed' = closed
    BY <1>1, OfficeFrame
  <2> QED BY <2>1 DEF ClosedOK, BookMatchesAnswers
<1>2. CASE CloseServer
  <2>1. /\ \A o \in Office : pc[o] = "exited"
        /\ closed' /\ book' = BookedSeats /\ UNCHANGED <<seats, pc, clients>>
    BY <1>2 DEF CloseServer
  <2>2. \A p \in Pid : Promised(p)' = Promised(p) /\ Promised(p) \subseteq Seat
    BY <2>1, HoldingTypes DEF Promised, clients
  <2>3. ASSUME NEW s \in Seat PROVE ~isSeatFree(s) <=> \E p \in Pid : s \in Promised(p)
    <3>1. seatList[s] \in Pid \cup {Free}
      BY ConstantsAssumption DEF TypeOK, Seat
    <3>2. \A o \in Office : pc[o] \notin Busy
      BY <2>1 DEF Busy
    <3>3. \A p \in Pid : seatList[s] = p <=> s \in Promised(p)
      BY <3>2 DEF Ownership
    <3> QED BY <3>1, <3>3, ConstantsAssumption DEF isSeatFree
  <2>4. BookedSeats = {s \in UNION {Promised(p) : p \in Pid} : s < NSeats}
    BY <2>2, <2>3 DEF BookedSeats
  <2> QED BY <2>1, <2>2, <2>4 DEF ClosedOK, BookMatchesAnswers
<1>3. CASE UNCHANGED <<closed, book, pc, answer, reserved>>
  BY <1>3 DEF ClosedOK, BookMatchesAnswers, Promised
<1> QED BY <1>1, <1>2, <1>3, StepKinds, ClientFrame DEF clients, shutdown

\* Who takes a seat's semaphore down is inside until it posts it.
LEMMA SeatHeldStep == ASSUME IInv, SeatSemHeld, [Next]_vars PROVE SeatSemHeld'
<1> USE DEF IInv
<1>1. ASSUME NEW o \in Office, LockingStep(o) \/ OfficeStep(o) PROVE SeatSemHeld'
  <2>1. \A x \in Office \ {o} : \A s : InSeat(x, s)' = InSeat(x, s)
    BY <1>1, OfficeFrame, OthersSame
  <2>2. ASSUME UNCHANGED seatSem, \A s \in Seat : InSeat(o, s) => InSeat(o, s)'
        PROVE  SeatSemHeld'
    BY <2>1, <2>2 DEF SeatSemHeld
  <2>3. ASSUME NEW s \in Seat, NEW up \in Nat, s = SeatOf(o),
               seatSem' = [seatSem EXCEPT ![s] = up], up = 0 => InSeat(o, s)',
               \A t \in Seat : InSeat(o, t) => t = s
        PROVE  SeatSemHeld'
    <3>1. \A t \in Seat : seatSem'[t] = IF t = s THEN up ELSE seatSem[t]
      BY <2>3 DEF TypeOK
    <3> QED BY <2>1, <2>3, <3>1 DEF SeatSemHeld
  <2>4. CASE LockingStep(o)
    BY <2>2, <2>4, LockingFrame DEF Idle, InSeat, seats
  <2>5. CASE WaitSeat(o)
    <3>1. SeatOf(o) \in Seat /\ seatSem[SeatOf(o)] = 1 /\ pc[o] = "book"
      <4>1. SeatOf(o) \in Seat
        BY <2>5, SeatOfIsSeat DEF WaitSeat
      <4>2. seatSem[SeatOf(o)] \in {0, 1} /\ seatSem[SeatOf(o)] > 0
        BY <2>5, <4>1 DEF WaitSeat, SeatOf, SeatSemOK
      <4> QED BY <2>5, <4>1, <4>2 DEF WaitSeat
    <3>2. /\ seatSem' = [seatSem EXCEPT ![SeatOf(o)] = seatSem[SeatOf(o)] - 1]
          /\ \A t \in Seat : t = SeatOf(o) => InSeat(o, t)'
      BY <2>5 DEF WaitSeat, InSeat, SeatOf, Goto, prefs, office, clients, TypeOK
    <3>3. seatSem' = [seatSem EXCEPT ![SeatOf(o)] = 0]
      BY <3>1, <3>2
    <3>4. \A t \in Seat : ~InSeat(o, t)
      BY <3>1 DEF InSeat
    <3> HIDE DEF IInv
    <3> QED BY <2>3, <3>1, <3>2, <3>3, <3>4
  <2>6. CASE TestSeat(o) /\ isSeatFree(SeatOf(o))
    BY <2>2, <2>6 DEF TestSeat, InSeat, SeatOf, Goto, prefs, clients, TypeOK
  <2>7. CASE (TestSeat(o) /\ ~isSeatFree(SeatOf(o))) \/ TakeSeat(o)
    <3>1. SeatOf(o) \in Seat
      BY <2>7, SeatOfIsSeat DEF TestSeat, TakeSeat, Goto, ServingOK
    <3>2. seatSem' = [seatSem EXCEPT ![SeatOf(o)] = seatSem[SeatOf(o)] + 1]
      BY <2>7 DEF TestSeat, TakeSeat, SeatOf
    <3>3. seatSem[SeatOf(o)] \in {0, 1}
      BY <3>1 DEF SeatSemOK
    <3>4. \A t \in Seat : InSeat(o, t) => t = SeatOf(o)
      BY DEF InSeat, SeatOf
    <3>5. seatSem[SeatOf(o)] + 1 \in Nat \ {0}
      BY <3>3
    <3> HIDE DEF IInv
    <3> QED BY <2>3, <3>1, <3>2, <3>4, <3>5
  <2>8. ASSUME UNCHANGED seatSem, pc[o] \notin {"test", "take"} PROVE SeatSemHeld'
    BY <2>2, <2>8 DEF InSeat
  <2>9. CASE ReadRequest(o) \/ Verify(o) \/ AllBooked(o) \/ TooFewBooked(o)
    BY <2>8, <2>9 DEF ReadRequest, Verify, AllBooked, TooFewBooked, Goto, seats
  <2>10. CASE FreeSeat(o) \/ EndOfFreeSeats(o) \/ ResponseStep(o)
    BY <2>8, <2>10
    DEF FreeSeat, EndOfFreeSeats, ResponseStep, WaitAnswerSem, OpenResponse,
        OpenResponseFails, Reply, ReplyBadIdentifier, ReplyNoReader, Goto, seats
  <2> QED
    BY <1>1, <2>4, <2>5, <2>6, <2>7, <2>9, <2>10
    DEF OfficeStep, BookingStep, LockingStep
<1>2. CASE UNCHANGED <<seats, pc, office, asked>>
  BY <1>2 DEF SeatSemHeld, InSeat, prefs, seats, office
<1> QED BY <1>1, <1>2, StepKinds, ClientFrame DEF clients

\* The room of an office shrinks only by what Verify found room for.
LEMMA RoomStep == ASSUME IInv, RoomOK, [Next]_vars PROVE RoomOK'
<1> USE DEF IInv
<1>1. ASSUME NEW o \in Office, LockingStep(o) \/ OfficeStep(o) PROVE RoomOK'
  <2>1. \A x \in Office \ {o} : /\ nOccupiedSeats'[x] = nOccupiedSeats[x]
                                /\ pc'[x] = pc[x] /\ wanted(x)' = wanted(x)
    BY <1>1, OfficeFrame, OthersSame
  <2>2. SUFFICES /\ nOccupiedSeats'[o] <= NSeats
                 /\ pc'[o] \in {"book", "test", "take"} =>
                      nOccupiedSeats'[o] + wanted(o)' <= NSeats
    BY <2>1 DEF RoomOK
  <2>3. ASSUME nOccupiedSeats'[o] = nOccupiedSeats[o],
               pc'[o] \in {"book", "test", "take"} =>
                 pc[o] \in {"book", "test", "take"} /\ wanted(o)' = wanted(o)
        PROVE  /\ nOccupiedSeats'[o] <= NSeats
               /\ pc'[o] \in {"book", "test", "take"} =>
                    nOccupiedSeats'[o] + wanted(o)' <= NSeats
    BY <2>3 DEF RoomOK
  <2>4. CASE LockingStep(o)
    BY <2>3, <2>4, LockingFrame DEF Idle, office, TypeOK
  <2>5. CASE Verify(o)
    <3>1. /\ pc[o] = "verify" /\ serving[o] \in Pid /\ wanted(o)' = wanted(o)
          /\ nOccupiedSeats'[o] = nOccupiedSeats[o] /\ nOccupiedSeats[o] \in Nat
          /\ pc'[o] = "book" =>
               VerifyRequest(asked[serving[o]], nOccupiedSeats[o]) = "AYE"
          /\ pc'[o] \in {"book", "answer"}
      BY <2>5 DEF Verify, Goto, ServingOK, Busy, TypeOK, wanted, clients
    <3>2. VerifyRequest(asked[serving[o]], nOccupiedSeats[o]) = "AYE" =>
            ~(NSeats - nOccupiedSeats[o] < wanted(o))
      BY DEF VerifyRequest, wanted
    <3>3. nOccupiedSeats[o] <= NSeats
      BY DEF RoomOK
    <3>4. wanted(o) \in Nat
      BY <3>1, RequestType
    <3> HIDE DEF IInv
    <3> QED BY <3>1, <3>2, <3>3, <3>4, ConstantsAssumption
  <2>6. CASE AllBooked(o)
    <3>1. /\ pc[o] = "book" /\ pc'[o] = "answer"
          /\ nOccupiedSeats'[o] = nOccupiedSeats[o] + wanted(o)
      BY <2>6 DEF AllBooked, Goto, TypeOK
    <3> QED BY <3>1 DEF RoomOK
  <2> USE DEF Goto, TypeOK, wanted, office, clients
  <2>7. CASE ReadRequest(o)
    BY <2>3, <2>7 DEF ReadRequest
  <2>8. CASE WaitSeat(o) \/ TestSeat(o) \/ TakeSeat(o)
    BY <2>3, <2>8 DEF WaitSeat, TestSeat, TakeSeat
  <2>9. CASE TooFewBooked(o) \/ FreeSeat(o) \/ EndOfFreeSeats(o)
    BY <2>3, <2>9 DEF TooFewBooked, FreeSeat, EndOfFreeSeats
  <2>10. CASE WaitAnswerSem(o) \/ OpenResponse(o) \/ OpenResponseFails(o)
    BY <2>3, <2>10 DEF WaitAnswerSem, OpenResponse, OpenResponseFails
  <2>11. CASE Reply(o) \/ ReplyBadIdentifier(o) \/ ReplyNoReader(o)
    BY <2>3, <2>11 DEF Reply, ReplyBadIdentifier, ReplyNoReader
  <2> QED
    BY <1>1, <2>4, <2>5, <2>6, <2>7, <2>8, <2>9, <2>10, <2>11
    DEF OfficeStep, BookingStep, ResponseStep, LockingStep
<1>2. CASE UNCHANGED <<pc, office, asked>>
  BY <1>2 DEF RoomOK, wanted, office
<1> QED BY <1>1, <1>2, StepKinds, ClientFrame DEF clients

\* What a semaphore of 0 or 1 is after a wait or a post.
LEMMA BinarySem ==
  ASSUME NEW f, NEW x, f[x] \in {0, 1}
  PROVE  /\ f[x] > 0 => f[x] = 1 /\ f[x] - 1 = 0
         /\ f[x] # 1 => f[x] = 0 /\ f[x] + 1 = 1
OBVIOUS

\* The semaphore of an answer passes between offices and client; only an open
\* that fails loses it, for a client that has gone.
LEMMA AnswerSemStep == ASSUME IInv, AnswerSemOK, [Next]_vars PROVE AnswerSemOK'
<1> USE DEF IInv
<1>1. ASSUME NEW o \in Office, LockingStep(o) \/ OfficeStep(o) PROVE AnswerSemOK'
  <2>1. /\ \A x \in Office \ {o} : \A p : InAnswer(x, p)' = InAnswer(x, p)
        /\ client' = client
    BY <1>1, OfficeFrame, OthersSame
  <2>2. ASSUME UNCHANGED answerSem, \A p \in Pid : InAnswer(o, p)' = InAnswer(o, p)
        PROVE  AnswerSemOK'
    <3>1. \A x \in Office, p \in Pid : InAnswer(x, p)' = InAnswer(x, p)
      BY <2>1, <2>2
    <3> QED BY <2>1, <2>2, <3>1 DEF AnswerSemOK
  <2>3. CASE WaitAnswerSem(o)
    <3>1. PICK p \in Pid : p = serving[o]
      BY <2>3 DEF WaitAnswerSem, Goto, ServingOK, Busy
    <3>2. /\ p \in Pid /\ answerSem[p] = 1 /\ answerSem' = [answerSem EXCEPT ![p] = 0]
      <4>1. /\ p \in Pid /\ answerSem[p] > 0
            /\ answerSem' = [answerSem EXCEPT ![p] = answerSem[p] - 1]
        BY <2>3, <3>1 DEF WaitAnswerSem
      <4>2. answerSem[p] \in {0, 1}
        BY <4>1 DEF AnswerSemOK
      <4> HIDE DEF IInv
      <4>3. answerSem[p] = 1 /\ answerSem[p] - 1 = 0
        BY <4>1, <4>2, BinarySem
      <4> QED BY <4>1, <4>3
    <3>3. \A q \in Pid : ~InAnswer(o, q) /\ (InAnswer(o, q)' <=> q = p)
      BY <2>3, <3>1 DEF WaitAnswerSem, Goto, InAnswer, office, TypeOK
    <3>4. \A q \in Pid : answerSem'[q] = IF q = p THEN 0 ELSE answerSem[q]
      BY <3>2 DEF TypeOK
    <3> HIDE DEF IInv
    <3>5. ASSUME NEW q \in Pid, q # p, NEW x \in Office
          PROVE  InAnswer(x, q)' <=> InAnswer(x, q)
      BY <2>1, <3>3, <3>5
    <3>6. client[p] # "closing"
      BY <3>2 DEF AnswerSemOK
    <3> QED BY <2>1, <3>2, <3>3, <3>4, <3>5, <3>6 DEF AnswerSemOK
  <2>4. CASE OpenResponseFails(o)
    <3>1. PICK p \in Pid : p = serving[o]
      BY <2>4 DEF OpenResponseFails, Goto, ServingOK, Busy
    <3>2. /\ p \in Pid /\ pc[o] = "open" /\ pc'[o] \in {"release", "loop"}
          /\ client[p] \notin {"waiting", "closing", "leaving"}
          /\ UNCHANGED <<answerSem, serving>>
      BY <2>4, <3>1 DEF OpenResponseFails, Goto, AnswerFifoLinked, clients, TypeOK
    <3>3. client[p] # "idle"
      BY <3>1, <3>2 DEF PidOnce, Busy
    <3>4. \A q \in Pid : ~InAnswer(o, q)' /\ (InAnswer(o, q) <=> q = p)
      BY <3>1, <3>2 DEF InAnswer
    <3> HIDE DEF IInv
    <3>5. ASSUME NEW q \in Pid, q # p, NEW x \in Office
          PROVE  InAnswer(x, q)' <=> InAnswer(x, q)
      BY <2>1, <3>4, <3>5
    <3>6. \A x \in Office, q \in Pid : InAnswer(x, q)' => InAnswer(x, q)
      BY <2>1, <3>4
    <3> QED BY <2>1, <3>2, <3>3, <3>5, <3>6 DEF AnswerSemOK
  <2>5. CASE Reply(o)
    <3>1. PICK p \in Pid : p = serving[o]
      BY <2>5 DEF Reply, Goto, ServingOK, Busy
    <3>2. /\ p \in Pid /\ pc[o] = "reply" /\ pc'[o] = "loop"
          /\ answerSem' = [answerSem EXCEPT ![p] = answerSem[p] + 1]
          /\ UNCHANGED serving
      BY <2>5, <3>1 DEF Reply, Goto, TypeOK
    <3>3. \A q \in Pid : ~InAnswer(o, q)' /\ (InAnswer(o, q) <=> q = p)
      BY <3>1, <3>2 DEF InAnswer
    <3>4. \A x \in Office \ {o} : ~InAnswer(x, p)
      BY <3>1, <3>2 DEF PidOnce, InAnswer, Busy
    <3> HIDE DEF IInv
    <3>5. answerSem[p] \in {0, 1} /\ answerSem[p] # 1 /\ client[p] # "closing"
      BY <3>2, <3>3 DEF AnswerSemOK
    <3>6. answerSem' = [answerSem EXCEPT ![p] = 1] /\ answerSem \in [Pid -> Nat]
      <4>1. answerSem[p] + 1 = 1
        BY <3>5, BinarySem
      <4> QED BY <3>2, <4>1 DEF IInv, TypeOK
    <3>7. \A q \in Pid : answerSem'[q] = IF q = p THEN 1 ELSE answerSem[q]
      BY <3>6
    <3>8. ASSUME NEW q \in Pid, q # p, NEW x \in Office
          PROVE  InAnswer(x, q)' <=> InAnswer(x, q)
      BY <2>1, <3>3, <3>8
    <3>9. \A x \in Office : ~InAnswer(x, p)'
      BY <2>1, <3>2, <3>3, <3>4
    <3> QED BY <2>1, <3>5, <3>7, <3>8, <3>9 DEF AnswerSemOK
  <2>6. CASE OpenResponse(o) \/ ReplyBadIdentifier(o) \/ ReplyNoReader(o)
    BY <2>2, <2>6 DEF OpenResponse, ReplyBadIdentifier, ReplyNoReader, Goto,
       InAnswer, office, clients, TypeOK
  <2>7. ASSUME UNCHANGED answerSem, pc[o] \notin {"open", "reply"},
               pc'[o] \notin {"open", "reply"}
        PROVE  AnswerSemOK'
    BY <2>2, <2>7 DEF InAnswer
  <2>8. CASE LockingStep(o)
    BY <2>7, <2>8, LockingFrame DEF Idle, clients, TypeOK
  <2>9. CASE ReadRequest(o) \/ Verify(o)
    BY <2>7, <2>9 DEF ReadRequest, Verify, Goto, clients, TypeOK
  <2>10. CASE BookingStep(o)
    <3> USE DEF Goto, clients, TypeOK
    <3>1. CASE WaitSeat(o) \/ TestSeat(o) \/ TakeSeat(o)
      BY <2>7, <3>1 DEF WaitSeat, TestSeat, TakeSeat
    <3>2. CASE AllBooked(o) \/ TooFewBooked(o)
      BY <2>7, <3>2 DEF AllBooked, TooFewBooked
    <3>3. CASE FreeSeat(o) \/ EndOfFreeSeats(o)
      BY <2>7, <3>3 DEF FreeSeat, EndOfFreeSeats
    <3> QED BY <2>10, <3>1, <3>2, <3>3 DEF BookingStep
  <2> QED
    BY <1>1, <2>3, <2>4, <2>5, <2>6, <2>8, <2>9, <2>10
    DEF OfficeStep, ResponseStep, LockingStep
<1>2. ASSUME NEW p \in Pid, SendRequest(p) \/ ClientStep(p) PROVE AnswerSemOK'
  <2>1. \A x \in Office, q \in Pid : InAnswer(x, q)' = InAnswer(x, q)
    BY <1>2, ClientFrame DEF InAnswer, office
  <2>2. ASSUME NEW to \in ClientState, client' = [client EXCEPT ![p] = to],
               NEW n \in Nat, answerSem' = [answerSem EXCEPT ![p] = n],
               /\ n \in {0, 1}
               /\ n = 1 \/ to = "closing" => \A o \in Office : ~InAnswer(o, p)
               /\ n = 1 => to # "closing"
               /\ to \in {"idle", "waiting", "leaving"} /\ n = 0 =>
                    \E o \in Office : InAnswer(o, p)
        PROVE  AnswerSemOK'
    <3>1. \A q \in Pid : /\ client'[q] = IF q = p THEN to ELSE client[q]
                         /\ answerSem'[q] = IF q = p THEN n ELSE answerSem[q]
      BY <2>2 DEF TypeOK
    <3> QED BY <2>1, <2>2, <3>1 DEF AnswerSemOK
  <2>3. /\ answerSem[p] \in {0, 1} /\ answerSem \in [Pid -> Nat]
        /\ answerSem[p] = 1 \/ client[p] = "closing" =>
             \A o \in Office : ~InAnswer(o, p)
        /\ answerSem[p] = 1 => client[p] # "closing"
        /\ client[p] \in {"idle", "waiting", "leaving"} /\ answerSem[p] = 0 =>
             \E o \in Office : InAnswer(o, p)
    BY DEF AnswerSemOK, TypeOK
  <2> HIDE DEF IInv
  <2>4. answerSem = [answerSem EXCEPT ![p] = answerSem[p]]
    BY <2>3
  <2>5. CASE SendRequest(p)
    <3>1. /\ client[p] = "idle" /\ client' = [client EXCEPT ![p] = "waiting"]
          /\ answerSem' = answerSem
      BY <2>5 DEF SendRequest, Become
    <3> QED BY <2>2, <2>3, <2>4, <3>1 DEF ClientState
  <2>6. CASE TimeOut(p)
    <3>1. /\ client' = [client EXCEPT ![p] = "closing"] /\ answerSem[p] > 0
          /\ answerSem' = [answerSem EXCEPT ![p] = answerSem[p] - 1]
      BY <2>6 DEF TimeOut, Become
    <3>2. answerSem[p] = 1 /\ answerSem[p] - 1 = 0
      BY <2>3, <3>1, BinarySem
    <3>3. answerSem' = [answerSem EXCEPT ![p] = 0]
      BY <3>1, <3>2
    <3>4. \A o \in Office : ~InAnswer(o, p)
      BY <2>3, <3>2
    <3>5. \A q \in Pid : /\ client'[q] = IF q = p THEN "closing" ELSE client[q]
                         /\ answerSem'[q] = IF q = p THEN 0 ELSE answerSem[q]
      BY <2>3, <3>1, <3>3 DEF IInv, TypeOK
    <3> QED BY <2>1, <3>4, <3>5 DEF AnswerSemOK
  <2>7. CASE (ReadAnswer(p) \/ Leave(p)) /\ client[p] = "closing"
    <3>1. /\ client' = [client EXCEPT ![p] = "leaving"]
          /\ answerSem' = [answerSem EXCEPT ![p] = answerSem[p] + 1]
      BY <2>7 DEF ReadAnswer, Leave, Become
    <3>2. answerSem' = [answerSem EXCEPT ![p] = 1]
      <4>1. answerSem[p] + 1 = 1
        BY <2>3, <2>7, BinarySem
      <4> QED BY <3>1, <4>1
    <3> QED BY <2>2, <2>3, <2>7, <3>1, <3>2 DEF ClientState
  <2>8. CASE ReadAnswer(p) /\ client[p] # "closing"
    <3>1. /\ client' = [client EXCEPT ![p] = "served"]
          /\ answerSem' = [answerSem EXCEPT ![p] = answerSem[p]]
      BY <2>8 DEF ReadAnswer, Become
    <3> QED BY <2>2, <2>3, <3>1 DEF ClientState
  <2>9. CASE UnlinkOrExit(p)
    <3>1. /\ \E to \in {"unlinked", "gone"} : client' = [client EXCEPT ![p] = to]
          /\ answerSem' = answerSem
      BY <2>9 DEF UnlinkOrExit, Become
    <3> QED BY <2>2, <2>3, <2>4, <3>1 DEF ClientState
  <2> QED
    BY <1>2, <2>5, <2>6, <2>7, <2>8, <2>9 DEF ClientStep, Leave, Become
<1>3. CASE UNCHANGED <<pc, office, clients>>
  BY <1>3 DEF AnswerSemOK, InAnswer, office, clients
<1> QED BY <1>1, <1>2, <1>3, StepKinds

-----------------------------------------------------------------------------
(* How the seats set aside for a client change                             *)

\* While an office works for a client, the client has what the office has
\* committed to and nothing else.
LEMMA SeatsOfServed ==
  ASSUME IInv, NEW o \in Office, pc[o] \in Busy, ~crashed, NEW p \in Pid, p = serving[o]
  PROVE  SeatsOf(p) = IF Committed(o) THEN Range(requestResult[o]) ELSE {}
<1>1. Promised(p) = {}
  BY NothingPromised DEF IInv
<1>2. \A x \in Office : Committed(x) /\ serving[x] = p => x = o
  BY DEF IInv, PidOnce, Committed, Busy
<1>3. CASE Committed(o)
  <2>1. {x \in Office : Committed(x) /\ serving[x] = p} = {o}
    BY <1>2, <1>3
  <2>2. requestResult[o] \in Seq(Seat) /\ FirstHeld(o) = 1
    BY <1>3 DEF IInv, TypeOK, Committed, FirstHeld
  <2>3. Held(o) = Range(requestResult[o])
    BY <2>2, LenProperties DEF Held, Range
  <2> QED BY <1>1, <1>3, <2>1, <2>3 DEF SeatsOf
<1>4. CASE ~Committed(o)
  <2>1. {x \in Office : Committed(x) /\ serving[x] = p} = {}
    BY <1>2, <1>4
  <2> QED BY <1>1, <1>4, <2>1 DEF SeatsOf
<1> QED BY <1>3, <1>4

\* So it is after a step.
LEMMA SeatsOfServedNext ==
  ASSUME NEW o \in Office, NEW p \in Pid
  PROVE  (IInv /\ pc[o] \in Busy /\ ~crashed /\ p = serving[o] =>
            SeatsOf(p) = IF Committed(o) THEN Range(requestResult[o]) ELSE {})'
<1>1. IInv /\ pc[o] \in Busy /\ ~crashed /\ p = serving[o] =>
        SeatsOf(p) = IF Committed(o) THEN Range(requestResult[o]) ELSE {}
  BY SeatsOfServed
<1> QED BY <1>1, PTL

\* An office's step is nothing to a client it has not committed to.
LEMMA SeatsOfOthers ==
  ASSUME NEW o \in Office, OthersUntouched(o), UNCHANGED asked, NEW q \in Pid,
         Promised(q)' = Promised(q), ~(Committed(o) /\ serving[o] = q),
         ~(Committed(o)' /\ serving'[o] = q)
  PROVE  SeatsOf(q)' = SeatsOf(q)
<1> DEFINE C == {x \in Office : Committed(x) /\ serving[x] = q}
<1>1. \A x \in Office \ {o} :
        /\ Held(x)' = Held(x) /\ serving'[x] = serving[x]
        /\ Committed(x)' = Committed(x)
  BY OthersSame
<1>2. C' = C /\ \A x \in C : Held(x)' = Held(x)
  BY <1>1
<1>3. {Held(x) : x \in C}' = {Held(x) : x \in C}
  BY <1>2
<1> QED BY <1>3 DEF SeatsOf

\* The seats of a client change in two steps only: an office has booked all it
\* wanted, or finds it gone.
LEMMA SeatsOfStep ==
  ASSUME IInv, IInv', [Next]_vars
  PROVE  \/ /\ \A o \in Office : ~AllBooked(o)
            /\ \A p \in Pid : SeatsOf(p)' = SeatsOf(p)
         \/ \E o \in Office :
              /\ AllBooked(o) /\ serving[o] \in Pid /\ SeatsOf(serving[o]) = {}
              /\ \A p \in Pid :
                   SeatsOf(p)' = IF p = serving[o] THEN Range(requestResult[o])
                                 ELSE SeatsOf(p)
         \/ \E o \in Office :
              /\ OpenResponseFails(o) /\ serving[o] \in Pid
              /\ \A p \in Pid :
                   SeatsOf(p)' = IF p = serving[o] THEN {} ELSE SeatsOf(p)
<1> DEFINE Goal == \A p \in Pid : SeatsOf(p)' = SeatsOf(p)
<1>1. ASSUME NEW o \in Office, LockingStep(o) \/ OfficeStep(o),
             UNCHANGED <<answer, reserved>>, ~Committed(o), ~Committed(o)'
      PROVE  Goal
  BY <1>1, OfficeFrame, SeatsOfOthers DEF IInv, Promised
<1>2. ASSUME UNCHANGED <<pc, office, answer, reserved>> PROVE Goal
  BY <1>2 DEF SeatsOf, Promised, Held, FirstHeld, Committed, office
<1> USE DEF IInv
<1>3. ASSUME NEW o \in Office, LockingStep(o) \/ ReadRequest(o) \/ Verify(o)
      PROVE  Goal
  <2> USE <1>1, <1>3 DEF Committed, clients, OfficeStep, TypeOK
  <2>1. CASE LockingStep(o)
    BY <2>1, LockingFrame DEF Idle
  <2>2. CASE ReadRequest(o)
    BY <2>2 DEF ReadRequest, Goto
  <2>3. CASE Verify(o)
    <3>1. /\ pc[o] = "verify" /\ pc' = [pc EXCEPT ![o] = pc'[o]]
          /\ error' = [error EXCEPT ![o] = error'[o]]
          /\ pc'[o] = IF error'[o] = "AYE" THEN "book" ELSE "answer"
          /\ UNCHANGED <<answer, reserved>>
      BY <2>3 DEF Verify, Goto
    <3>2. ~Committed(o) /\ ~Committed(o)'
      BY <3>1
    <3> QED BY <1>1, <1>3, <3>1, <3>2
  <2> QED BY <2>1, <2>2, <2>3
<1>4. ASSUME NEW o \in Office, BookingStep(o), ~AllBooked(o) PROVE Goal
  <2> USE <1>1, <1>4 DEF Committed, clients, OfficeStep, Goto, TypeOK
  <2>1. CASE WaitSeat(o) \/ TestSeat(o) \/ TakeSeat(o)
    BY <2>1 DEF WaitSeat, TestSeat, TakeSeat
  <2>2. CASE TooFewBooked(o) \/ FreeSeat(o)
    BY <2>2 DEF TooFewBooked, FreeSeat
  <2>3. CASE EndOfFreeSeats(o)
    BY <2>3 DEF EndOfFreeSeats, ServingOK
  <2> QED BY <2>1, <2>2, <2>3 DEF BookingStep
<1>5. ASSUME NEW o \in Office, pc[o] \in Busy, pc'[o] \in Busy, ~crashed, ~crashed',
             serving' = serving, OthersUntouched(o), UNCHANGED <<asked, answer, reserved>>
      PROVE  /\ serving[o] \in Pid
             /\ SeatsOf(serving[o]) = IF Committed(o) THEN Range(requestResult[o]) ELSE {}
             /\ \A p \in Pid : SeatsOf(p)' =
                  IF p # serving[o] THEN SeatsOf(p)
                  ELSE IF Committed(o)' THEN Range(requestResult'[o]) ELSE {}
  <2>1. serving[o] \in Pid
    BY <1>5 DEF ServingOK
  <2>2. ASSUME NEW p \in Pid, p # serving[o] PROVE SeatsOf(p)' = SeatsOf(p)
    BY <1>5, <2>2, SeatsOfOthers DEF Promised
  <2>3. ASSUME NEW p \in Pid, p = serving[o]
        PROVE  /\ SeatsOf(p) = IF Committed(o) THEN Range(requestResult[o]) ELSE {}
               /\ SeatsOf(p)' = IF Committed(o)' THEN Range(requestResult'[o]) ELSE {}
    <3>1. p = serving'[o]
      BY <1>5, <2>3
    <3> HIDE DEF IInv
    <3> QED BY <1>5, <2>3, <3>1, SeatsOfServed, SeatsOfServedNext
  <2> HIDE DEF IInv
  <2> QED BY <2>1, <2>2, <2>3
<1>6. ASSUME NEW o \in Office, AllBooked(o)
      PROVE  /\ serving[o] \in Pid /\ SeatsOf(serving[o]) = {}
             /\ \A p \in Pid :
                  SeatsOf(p)' = IF p = serving[o] THEN Range(requestResult[o])
                                ELSE SeatsOf(p)
  <2>1. /\ pc[o] = "book" /\ pc'[o] = "answer" /\ error'[o] = "AYE"
        /\ ~crashed /\ UNCHANGED <<serving, requestResult, crashed, asked, answer, reserved>>
    BY <1>6 DEF AllBooked, Goto, ServingOK, shutdown, clients, TypeOK
  <2>2. OthersUntouched(o)
    BY <1>6, OfficeFrame DEF OfficeStep, BookingStep
  <2>3. ~Committed(o) /\ Committed(o)' /\ pc[o] \in Busy /\ pc'[o] \in Busy
    BY <2>1 DEF Committed, Busy
  <2> HIDE DEF IInv
  <2> QED BY <1>5, <2>1, <2>2, <2>3
<1>7. ASSUME NEW o \in Office, WaitAnswerSem(o) \/ OpenResponse(o) PROVE Goal
  <2>1. /\ pc[o] \in {"answer", "open"} /\ pc'[o] \in {"open", "reply"} /\ error' = error
        /\ ~crashed /\ UNCHANGED <<serving, requestResult, crashed, asked, answer, reserved>>
    BY <1>7 DEF WaitAnswerSem, OpenResponse, Goto, shutdown, clients, office, TypeOK
  <2>2. OthersUntouched(o)
    BY <1>7, OfficeFrame DEF OfficeStep, ResponseStep
  <2>3. (Committed(o)' <=> Committed(o)) /\ pc[o] \in Busy /\ pc'[o] \in Busy
    BY <2>1 DEF Committed, Busy
  <2> HIDE DEF IInv
  <2> QED BY <1>5, <2>1, <2>2, <2>3
<1>8. ASSUME NEW o \in Office, OpenResponseFails(o)
      PROVE  \/ Goal
             \/ /\ serving[o] \in Pid
                /\ \A p \in Pid :
                     SeatsOf(p)' = IF p = serving[o] THEN {} ELSE SeatsOf(p)
  <2>1. /\ pc[o] = "open" /\ pc'[o] = (IF error[o] = "AYE" THEN "release" ELSE "loop")
        /\ ~crashed /\ UNCHANGED <<serving, crashed, asked, answer, reserved>>
        /\ error' = error
    BY <1>8 DEF OpenResponseFails, Goto, shutdown, clients, TypeOK
  <2>2. OthersUntouched(o)
    BY <1>8, OfficeFrame DEF OfficeStep, ResponseStep
  <2>3. CASE error[o] = "AYE"
    <3>1. ~Committed(o)' /\ pc[o] \in Busy /\ pc'[o] \in Busy
      BY <2>1, <2>3 DEF Committed, Busy
    <3> HIDE DEF IInv
    <3> QED BY <1>5, <2>1, <2>2, <3>1
  <2>4. CASE error[o] # "AYE"
    <3>1. ~Committed(o) /\ ~Committed(o)'
      BY <2>1, <2>4 DEF Committed
    <3> QED BY <1>1, <1>8, <2>1, <3>1 DEF OfficeStep, ResponseStep
  <2> QED BY <2>3, <2>4
<1>9. ASSUME NEW o \in Office, Reply(o) \/ ReplyBadIdentifier(o) PROVE Goal
  <2>1. PICK p \in Pid : p = serving[o]
    BY <1>9 DEF Reply, ReplyBadIdentifier, Goto, ServingOK, Busy
  <2>2. /\ pc[o] = "reply" /\ ~crashed
        /\ UNCHANGED <<serving, asked>>
        /\ answer' = [answer EXCEPT ![p] = error[o]]
        /\ reserved' = [reserved EXCEPT ![p] = requestResult[o]]
    BY <1>9, <2>1 DEF Reply, ReplyBadIdentifier, WriteAnswer, Goto, office
  <2>3. OthersUntouched(o)
    BY <1>9, OfficeFrame DEF OfficeStep, ResponseStep
  <2>4. ~Committed(o)' /\ (Committed(o) <=> error[o] = "AYE")
    <3>1. CASE Reply(o)
      BY <2>2, <3>1 DEF Reply, Goto, Committed, TypeOK
    <3>2. CASE ReplyBadIdentifier(o)
      BY <2>2, <3>2 DEF ReplyBadIdentifier, ServingOK, Committed, office
    <3> QED BY <1>9, <3>1, <3>2
  <2>5. ASSUME NEW q \in Pid, q # p PROVE SeatsOf(q)' = SeatsOf(q)
    <3>1. Promised(q)' = Promised(q)
      BY <2>2, <2>5 DEF Promised, TypeOK
    <3> QED BY <2>1, <2>2, <2>3, <2>4, <2>5, <3>1, SeatsOfOthers
  <2>6. SeatsOf(p)' = Promised(p)'
    <3>1. \A x \in Office \ {o} : serving[x] = p => ~Committed(x)
      BY <2>1, <2>2 DEF PidOnce, Committed, Busy
    <3>2. \A x \in Office : serving'[x] = p => ~Committed(x)'
      BY <2>2, <2>3, <2>4, <3>1, OthersSame
    <3> QED BY <3>2 DEF SeatsOf
  <2>7. Promised(p)' = IF error[o] = "AYE" THEN Range(requestResult[o]) ELSE {}
    BY <2>2 DEF Promised, TypeOK
  <2>8. SeatsOf(p) = IF Committed(o) THEN Range(requestResult[o]) ELSE {}
    BY <2>1, <2>2, SeatsOfServed DEF Busy
  <2> HIDE DEF IInv
  <2> QED BY <2>4, <2>5, <2>6, <2>7, <2>8
<1>10. ASSUME NEW o \in Office, ReplyNoReader(o) PROVE Goal
  BY <1>2, <1>10 DEF ReplyNoReader, clients
<1> HIDE DEF IInv, Goal
<1>11. ASSUME NEW o \in Office, LockingStep(o) \/ OfficeStep(o)
       PROVE  AllBooked(o) \/ OpenResponseFails(o) \/ Goal
  BY <1>3, <1>4, <1>7, <1>9, <1>10, <1>11
  DEF OfficeStep, ResponseStep, LockingStep
<1>12. Goal \/ \E o \in Office : AllBooked(o) \/ OpenResponseFails(o)
  BY <1>2, <1>11, StepKinds, ClientFrame DEF clients
<1> QED BY <1>6, <1>8, <1>12 DEF Goal

-----------------------------------------------------------------------------
(* The counters                                                            *)

\* The seats taken are finitely many seats of the room.
LEMMA TakenFinite ==
  ASSUME IInv
  PROVE  Taken \subseteq Seat /\ IsFiniteSet(Taken) /\ Cardinality(Taken) \in Nat
<1>1. Taken \subseteq Seat
  BY HoldingTypes DEF IInv, Taken, SeatsOf
<1>2. IsFiniteSet(Seat)
  BY FS_Interval, ConstantsAssumption DEF Seat
<1> QED BY <1>1, <1>2, FS_Subset, FS_CardinalityType

\* AllBooked adds to the counter what it adds to the seats taken; the seats of
\* a client that has gone stay counted.
LEMMA CountersStep ==
  ASSUME IInv, IInv', CountersCover, [Next]_vars PROVE CountersCover'
<1>1. ASSUME UNCHANGED nOccupiedSeats, Taken' \subseteq Taken PROVE CountersCover'
  <2>1. Cardinality(Taken') <= Cardinality(Taken) /\ Cardinality(Taken') \in Nat
    BY <1>1, TakenFinite, FS_Subset, FS_CardinalityType
  <2>2. SumFunction(nOccupiedSeats) \in Nat
    BY SumNatural, ConstantsAssumption DEF IInv, TypeOK
  <2> QED BY <1>1, <2>1, <2>2, TakenFinite DEF CountersCover
<1>2. ASSUME NEW o \in Office, AllBooked(o), serving[o] \in Pid,
             \A p \in Pid :
               SeatsOf(p)' = IF p = serving[o] THEN Range(requestResult[o]) ELSE SeatsOf(p)
      PROVE  CountersCover'
  <2> DEFINE R == Range(requestResult[o])
             w == wanted(o)
  <2>1. w \in Nat
    BY <1>2, RequestType DEF IInv
  <2>2. nOccupiedSeats \in [Office -> Nat]
    BY DEF IInv, TypeOK
  <2>3. nOccupiedSeats' = [nOccupiedSeats EXCEPT ![o] = @ + w]
    BY <1>2 DEF AllBooked
  <2>4. Cardinality(R) = w /\ IsFiniteSet(R)
    <3>1. /\ requestResult[o] \in Seq(Seat) /\ IsInjective(requestResult[o])
          /\ Len(requestResult[o]) = w
      BY <1>2 DEF IInv, TypeOK, Ownership, AllBooked
    <3>2. Range(requestResult[o]) \subseteq Seat
      BY <3>1, LenProperties, ElementOfSeq DEF Range
    <3>3. IsFiniteSet(Seat)
      BY FS_Interval, ConstantsAssumption DEF Seat
    <3> QED BY <3>1, <3>2, <3>3, InjectiveRange, FS_Subset
  <2>5. Taken' \subseteq Taken \cup R
    BY <1>2 DEF Taken
  <2> HIDE DEF R, w
  <2>6. /\ SumFunction(nOccupiedSeats) \in Nat
        /\ SumFunction(nOccupiedSeats') = SumFunction(nOccupiedSeats) + w
    <3>1. IsFiniteSet(Office)
      BY ConstantsAssumption
    <3>2. SumFunction(nOccupiedSeats) \in Nat
      BY <2>2, <3>1, SumNatural
    <3>3. SumFunction(nOccupiedSeats') = SumFunction(nOccupiedSeats) + w
      <4> DEFINE f == nOccupiedSeats
                 e == nOccupiedSeats'
      <4>1. /\ f \in [Office -> Nat] /\ e \in [Office -> Nat]
            /\ e[o] = f[o] + w /\ \A x \in Office : x # o => e[x] = f[x]
        BY <2>1, <2>2, <2>3
      <4> HIDE DEF f, e
      <4>2. SumFunction(e) = SumFunction(f) + w
        BY <2>1, <3>1, <4>1, SumIncrease
      <4> QED BY <4>2 DEF e, f
    <3> QED BY <3>2, <3>3
  <2>7. IsFiniteSet(Taken) /\ Cardinality(Taken) \in Nat
    BY TakenFinite
  <2>8. /\ IsFiniteSet(Taken \cup R)
        /\ Cardinality(Taken \cup R) = Cardinality(Taken) + Cardinality(R) - Cardinality(Taken \cap R)
    BY <2>4, <2>7, FS_Union
  <2>9. Cardinality(Taken \cap R) \in Nat
    BY <2>4, FS_Subset, FS_CardinalityType
  <2>10. Cardinality(Taken') <= Cardinality(Taken \cup R) /\ Cardinality(Taken') \in Nat
    BY <2>5, <2>8, FS_Subset, FS_CardinalityType
  <2> QED BY <2>1, <2>4, <2>6, <2>7, <2>8, <2>9, <2>10 DEF CountersCover
<1>3. (\E o \in Office : AllBooked(o)) \/ UNCHANGED nOccupiedSeats
  BY DEF Next, MainStep, CreateOffice, HandlerClose, HandlerWake, CloseServer,
     TimerExpires, OfficeStep, LockOffice, CheckOpen, LockRequests, RelockOffice,
     RecheckOpen, ReadRequest, Verify, BookingStep, WaitSeat, TestSeat, TakeSeat,
     TooFewBooked, FreeSeat, EndOfFreeSeats, ResponseStep, WaitAnswerSem,
     OpenResponse, OpenResponseFails, Reply, ReplyBadIdentifier, ReplyNoReader,
     SendRequest, ClientStep, ReadAnswer, TimeOut, Leave, UnlinkOrExit,
     ServerOnly, Stopped, vars, office
<1>4. ASSUME UNCHANGED nOccupiedSeats, NEW o \in Office, serving[o] \in Pid,
             \A p \in Pid : SeatsOf(p)' = IF p = serving[o] THEN {} ELSE SeatsOf(p)
      PROVE  CountersCover'
  BY <1>1, <1>4 DEF Taken
<1>5. ASSUME UNCHANGED nOccupiedSeats, \A p \in Pid : SeatsOf(p)' = SeatsOf(p)
      PROVE  CountersCover'
  BY <1>1, <1>5 DEF Taken
<1>6. \A o \in Office : OpenResponseFails(o) => UNCHANGED nOccupiedSeats
  BY DEF OpenResponseFails
<1> QED BY <1>2, <1>3, <1>4, <1>5, <1>6, SeatsOfStep

-----------------------------------------------------------------------------
(* The theorems                                                            *)

\* No office has committed to anything and nothing is promised at the start.
LEMMA InitSeats == Init => \A p \in Pid : SeatsOf(p) = {}
<1> SUFFICES ASSUME Init, NEW p \in Pid PROVE SeatsOf(p) = {}
  OBVIOUS
<1>1. Promised(p) = {}
  BY DEF Init, Promised
<1>2. {x \in Office : Committed(x) /\ serving[x] = p} = {}
  BY DEF Init, Committed
<1> QED BY <1>1, <1>2 DEF SeatsOf

LEMMA InitService == Init => ServiceInv
<1> SUFFICES ASSUME Init PROVE ServiceInv
  OBVIOUS
<1>1. Preferred /\ AnsweredOK /\ ClosedOK /\ SeatSemHeld
  BY DEF Init, Preferred, AnsweredOK, ClosedOK, BookMatchesAnswers, SeatSemHeld, Busy
<1>2. AnswerSemOK
  BY DEF Init, AnswerSemOK, InAnswer
<1>3. RoomOK
  BY ConstantsAssumption DEF Init, RoomOK
<1>4. CountersCover
  <2>1. nOccupiedSeats = [o \in Office |-> 0]
    BY DEF Init
  <2>2. SumFunction(nOccupiedSeats) = 0
    BY <2>1, SumOfZeros, ConstantsAssumption
  <2>3. Taken = {}
    BY InitSeats DEF Taken
  <2>4. Cardinality(Taken) = 0
    BY <2>3, FS_EmptySet
  <2> QED BY <2>2, <2>4 DEF CountersCover
<1> QED BY <1>1, <1>2, <1>3, <1>4 DEF ServiceInv

\* What the service promises is invariant on top of IInv.
THEOREM ServiceInvariance == Spec => []ServiceInv
<1>1. IInv /\ IInv' /\ ServiceInv /\ [Next]_vars => ServiceInv'
  BY PreferredStep, AnsweredStep, ClosedStep, SeatHeldStep, AnswerSemStep, RoomStep,
     CountersStep
  DEF ServiceInv
<1> QED BY Invariance, InitService, <1>1, PTL DEF Spec

\* Each seat's semaphore is up, or down with exactly one office inside.
THEOREM SeatSemaphoresHold == Spec => []SeatSemaphores
<1>1. IInv /\ ServiceInv => SeatSemaphores
  <2> SUFFICES ASSUME IInv, ServiceInv, NEW s \in Seat
               PROVE  seatSem[s] + Cardinality({o \in Office : InSeat(o, s)}) = 1
    BY DEF SeatSemaphores
  <2>1. \A o, x \in Office : InSeat(o, s) /\ InSeat(x, s) => seatSem[s] = 0 /\ o = x
    BY DEF IInv, SeatSemOK, InSeat, Inside, SeatOf
  <2>2. CASE seatSem[s] = 0
    <3>1. PICK o \in Office : InSeat(o, s)
      BY <2>2 DEF ServiceInv, SeatSemHeld
    <3>2. {x \in Office : InSeat(x, s)} = {o}
      BY <2>1, <3>1
    <3> QED BY <2>2, <3>2, FS_Singleton
  <2>3. CASE seatSem[s] # 0
    <3>1. seatSem[s] = 1
      BY <2>3 DEF IInv, SeatSemOK
    <3>2. {x \in Office : InSeat(x, s)} = {}
      BY <2>1, <2>3
    <3> QED BY <3>1, <3>2, FS_EmptySet
  <2> QED BY <2>2, <2>3
<1> QED BY Invariance, ServiceInvariance, <1>1, PTL

\* The semaphore of an answer is in one place, and lost only for a client that
\* has unlinked its FIFO.
THEOREM AnswerSemaphoresHold == Spec => []AnswerSemaphores
<1>1. IInv /\ ServiceInv => AnswerSemaphores
  <2> SUFFICES ASSUME IInv, ServiceInv, NEW p \in Pid
               PROVE  LET holders == Cardinality({o \in Office : InAnswer(o, p)})
                                     + (IF client[p] = "closing" THEN 1 ELSE 0)
                      IN /\ answerSem[p] + holders <= 1
                         /\ client[p] \in {"waiting", "closing", "leaving"} =>
                              answerSem[p] + holders = 1
    BY DEF AnswerSemaphores
  <2> DEFINE n == Cardinality({o \in Office : InAnswer(o, p)})
  <2>1. \A o, x \in Office : InAnswer(o, p) /\ InAnswer(x, p) => o = x
    BY DEF IInv, PidOnce, InAnswer, Busy
  <2>2. /\ answerSem[p] \in {0, 1}
        /\ answerSem[p] = 1 \/ client[p] = "closing" => \A o \in Office : ~InAnswer(o, p)
        /\ answerSem[p] = 1 => client[p] # "closing"
        /\ client[p] \in {"idle", "waiting", "leaving"} /\ answerSem[p] = 0 =>
             \E o \in Office : InAnswer(o, p)
    BY DEF ServiceInv, AnswerSemOK
  <2>3. CASE \A o \in Office : ~InAnswer(o, p)
    <3>1. n = 0
      <4>1. {o \in Office : InAnswer(o, p)} = {}
        BY <2>3
      <4> QED BY <4>1, FS_EmptySet
    <3> HIDE DEF n
    <3> QED BY <2>2, <2>3, <3>1 DEF n
  <2>4. ASSUME NEW o \in Office, InAnswer(o, p)
        PROVE  n = 1 /\ answerSem[p] = 0 /\ client[p] # "closing"
    <3>1. {x \in Office : InAnswer(x, p)} = {o}
      BY <2>1, <2>4
    <3> QED BY <2>2, <2>4, <3>1, FS_Singleton
  <2>5. CASE \E o \in Office : InAnswer(o, p)
    BY <2>4, <2>5
  <2> QED BY <2>3, <2>5
<1> QED BY Invariance, ServiceInvariance, <1>1, PTL

\* The counters of the offices together cover the seats taken for good.
THEOREM OccupiedCoversHolds == Spec => []OccupiedCovers
<1>1. ServiceInv => OccupiedCovers
  BY DEF ServiceInv, CountersCover, RoomOK, OccupiedCovers, Taken
<1> QED BY ServiceInvariance, <1>1, PTL

\* sbook.txt lists what the clients were answered.
THEOREM BookMatchesAnswersHolds == Spec => []BookMatchesAnswers
<1>1. ServiceInv => BookMatchesAnswers
  BY DEF ServiceInv, ClosedOK
<1> QED BY ServiceInvariance, <1>1, PTL

-----------------------------------------------------------------------------
(* The offices implement Reservations                                      *)

\* Nobody has anything when the server starts.
LEMMA InitContract == Init => Contract!Init
<1> SUFFICES ASSUME Init PROVE Contract!Init
  OBVIOUS
<1>1. \A p \in Pid : asked[p].wanted \in Nat
  BY ConstantsAssumption DEF Init
<1>2. [p \in Pid |-> SeatsOf(p)] = [p \in Pid |-> {}]
  BY InitSeats
<1>3. {p \in told : answer[p] = "AYE"} = {}
  BY DEF Init
<1> QED BY <1>1, <1>2, <1>3 DEF Contract!Init

\* The clients that know about their seats: answers that were read stay.
LEMMA ToldStep ==
  ASSUME IInv, AnsweredOK, [Next]_vars
  PROVE  \/ {p \in told' : answer'[p] = "AYE"} = {p \in told : answer[p] = "AYE"}
         \/ \E p \in Pid : ReadAnswer(p) /\ answer[p] = "AYE"
<1>1. ASSUME NEW o \in Office, Reply(o) \/ ReplyBadIdentifier(o)
      PROVE  {p \in told' : answer'[p] = "AYE"} = {p \in told : answer[p] = "AYE"}
  <2>1. /\ pc[o] \in Busy /\ ~crashed /\ told' = told
        /\ answer' = [answer EXCEPT ![serving[o]] = error[o]]
    BY <1>1 DEF Reply, ReplyBadIdentifier, WriteAnswer, Goto, Busy
  <2>2. serving[o] \notin told
    BY <2>1, NothingPromised DEF IInv, AnsweredOK
  <2>3. \A p \in told : answer'[p] = answer[p]
    BY <2>1, <2>2 DEF IInv, TypeOK
  <2> QED BY <2>1, <2>3
<1>2. ASSUME NEW p \in Pid, ReadAnswer(p), answer[p] # "AYE"
      PROVE  {q \in told' : answer'[q] = "AYE"} = {q \in told : answer[q] = "AYE"}
  BY <1>2 DEF ReadAnswer
<1>3. \/ UNCHANGED <<answer, told>>
      \/ \E o \in Office : Reply(o) \/ ReplyBadIdentifier(o)
      \/ \E p \in Pid : ReadAnswer(p)
  BY SMTT(30) DEF Next, MainStep, CreateOffice, HandlerClose, HandlerWake, CloseServer,
     TimerExpires, OfficeStep, LockOffice, CheckOpen, LockRequests, RelockOffice,
     RecheckOpen, ReadRequest, Verify, BookingStep, WaitSeat, TestSeat, TakeSeat,
     AllBooked, TooFewBooked, FreeSeat, EndOfFreeSeats, ResponseStep, WaitAnswerSem,
     OpenResponse, OpenResponseFails, ReplyNoReader, SendRequest, ClientStep,
     TimeOut, Leave, UnlinkOrExit, ServerOnly, Stopped, vars, clients
<1> QED BY <1>1, <1>2, <1>3

\* The number of seats and the members of a list are the same in both modules.
LEMMA SameOperators ==
  ASSUME NEW S
  PROVE  Contract!Cardinality(S) = Cardinality(S) /\ Contract!Range(S) = Range(S)
BY DEF Contract!Cardinality, Cardinality, Contract!Range, Range

\* AllBooked grants, a failing open withdraws, reading AYE tells, and every
\* other step changes nothing the clients see.
LEMMA ContractStep ==
  ASSUME IInv, IInv', ServiceInv, [Next]_vars
  PROVE  [Contract!Next]_(Contract!vars)
<1> DEFINE granted == [p \in Pid |-> SeatsOf(p)]
           knowing == {p \in told : answer[p] = "AYE"}
<1>1. asked' = asked
  BY OfficeFrame, ClientFrame, StepKinds DEF IInv, clients
<1>2. ASSUME NEW o \in Office, AllBooked(o), serving[o] \in Pid, SeatsOf(serving[o]) = {},
             \A p \in Pid :
               SeatsOf(p)' = IF p = serving[o] THEN Range(requestResult[o]) ELSE SeatsOf(p)
      PROVE  Contract!Next
  <2>1. PICK p \in Pid : p = serving[o]
    BY <1>2
  <2> DEFINE S == Range(requestResult[o])
  <2>2. /\ pc[o] = "book" /\ Len(requestResult[o]) = wanted(o)
        /\ UNCHANGED <<told, answer>>
    BY <1>2 DEF AllBooked, Goto, clients
  <2>3. S \subseteq Range(asked[p].prefs)
    BY <2>1, <2>2 DEF ServiceInv, Preferred, Busy, prefs
  <2>4. /\ requestResult[o] \in Seq(Seat) /\ IsInjective(requestResult[o])
    BY DEF IInv, TypeOK, Ownership
  <2>5. Cardinality(S) = asked[p].wanted
    BY <2>1, <2>2, <2>4, InjectiveRange DEF wanted
  <2>6. S \subseteq Seat
    BY <2>4, LenProperties, ElementOfSeq DEF Range
  <2>7. ASSUME NEW q \in Pid PROVE S \cap SeatsOf(q) = {}
    <3>1. \A s \in S : seatList[s] = p
      <4>1. S = Held(o)
        BY <2>2, <2>4, LenProperties DEF Held, FirstHeld, Range
      <4> QED BY <2>1, <4>1 DEF IInv, Ownership
    <3>2. CASE q = p
      BY <1>2, <2>1, <3>2
    <3>3. CASE q # p
      BY <3>1, <3>3, SeatsOfNamed
    <3> QED BY <3>2, <3>3
  <2> HIDE DEF S
  <2>8. granted[p] = {} /\ \A q \in Pid : granted[q] = SeatsOf(q)
    BY <1>2, <2>1
  <2>9. granted' = [granted EXCEPT ![p] = S]
    BY <1>2, <2>1 DEF S
  <2>10. knowing' = knowing
    BY <2>2
  <2>11. Contract!Grant(p, S)
    BY <1>1, <2>3, <2>5, <2>7, <2>8, <2>9, <2>10, SameOperators DEF Contract!Grant
  <2> QED BY <2>6, <2>11 DEF Contract!Next
<1>3. ASSUME NEW o \in Office, OpenResponseFails(o), serving[o] \in Pid,
             \A p \in Pid : SeatsOf(p)' = IF p = serving[o] THEN {} ELSE SeatsOf(p)
      PROVE  Contract!Next
  <2>1. PICK p \in Pid : p = serving[o]
    BY <1>3
  <2>2. pc[o] \in Busy /\ ~crashed /\ UNCHANGED <<told, answer>>
    BY <1>3 DEF OpenResponseFails, Goto, Busy, clients
  <2>3. p \notin knowing
    BY <2>1, <2>2, NothingPromised DEF IInv
  <2>4. granted' = [granted EXCEPT ![p] = {}] /\ knowing' = knowing
    BY <1>3, <2>1, <2>2
  <2>5. Contract!Withdraw(p)
    BY <1>1, <2>3, <2>4 DEF Contract!Withdraw
  <2> QED BY <2>5 DEF Contract!Next
<1>4. ASSUME NEW p \in Pid, ReadAnswer(p), answer[p] = "AYE"
      PROVE  Contract!Next
  <2>1. /\ told' = told \cup {p} /\ answer' = answer /\ UNCHANGED <<ServerOnly, reserved>>
    BY <1>4 DEF ReadAnswer
  <2>2. \A q \in Pid : SeatsOf(q)' = SeatsOf(q)
    BY <1>1, <2>1 DEF ServerOnly, SeatsOf, Promised, Held, FirstHeld, Committed, office
  <2>3. SeatsOf(p) = Promised(p)
    <3>1. {o \in Office : Committed(o) /\ serving[o] = p} = {}
      BY <1>4 DEF ServiceInv, AnsweredOK, Committed, Busy
    <3> QED BY <3>1 DEF SeatsOf
  <2>4. Cardinality(SeatsOf(p)) = asked[p].wanted
    <3>1. /\ reserved[p] \in Seq(Seat) /\ IsInjective(reserved[p])
          /\ Len(reserved[p]) = asked[p].wanted
      BY <1>4 DEF IInv, TypeOK, Ownership
    <3> QED BY <1>4, <2>3, <3>1, InjectiveRange DEF Promised
  <2>5. granted' = granted /\ knowing' = knowing \cup {p} /\ granted[p] = SeatsOf(p)
    BY <1>4, <2>1, <2>2
  <2>6. Contract!Tell(p)
    BY <1>1, <2>4, <2>5, SameOperators DEF Contract!Tell
  <2> QED BY <2>6 DEF Contract!Next
<1>5. CASE knowing' = knowing /\ \A p \in Pid : SeatsOf(p)' = SeatsOf(p)
  <2>1. granted' = granted
    BY <1>5
  <2> QED BY <1>1, <1>5, <2>1 DEF Contract!vars
<1> HIDE DEF granted
<1> QED BY <1>2, <1>3, <1>4, <1>5, SeatsOfStep, ToldStep DEF ServiceInv

\* Offices, semaphores and rollbacks implement Reservations.
THEOREM ImplementsReservationsHolds == Spec => ImplementsReservations
<1>1. IInv /\ IInv' /\ ServiceInv /\ [Next]_vars => [Contract!Next]_(Contract!vars)
  BY ContractStep
<1> QED
  BY Invariance, ServiceInvariance, InitContract, <1>1, PTL
  DEF Spec, ImplementsReservations, Contract!Spec
=============================================================================
