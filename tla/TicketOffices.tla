--------------------------- MODULE TicketOffices ---------------------------
(***************************************************************************)
(* The ticket server of Part2/Server/server.c: the office threads that     *)
(* take requests from one FIFO and book seats, the main thread that        *)
(* creates and joins them and runs the SIGUSR1 handler, and the clients    *)
(* as far as the server can tell them apart (Part2/Client).                *)
(*                                                                         *)
(* One action per stretch of code between two synchronisation points.  The *)
(* test of a seat and its booking are separate steps, so only the seat's   *)
(* semaphore keeps two offices apart.  Posting a semaphore is part of the  *)
(* last access it protects.  A request or an answer crosses its FIFO in    *)
(* one step (both are shorter than PIPE_BUF).  The module starts when the  *)
(* handler is installed and the seat semaphores are unlinked.              *)
(***************************************************************************)
EXTENDS Integers, Sequences, FiniteSets, Functions

CONSTANTS Office,       \* the threads running initTicketOffice
          Main,         \* the thread running initServer and the handler
          Pid,          \* the client processes, each sending one request
          Request,      \* the requests clients may send: [wanted, prefs]
          NSeats,       \* inputs.nSeats
          MaxCliSeats,  \* MAX_CLI_SEATS
          Free,         \* the 0 of an unbooked entry of seatList
          Nobody,       \* the holder of an unlocked mutex
          Star          \* the "*" line the handler writes

Seat == 1..NSeats

\* A preferred seat is 0 when its identifier is not positive (rejected by
\* stringToIntArray); identifiers above nSeats are outside this model.
ASSUME ConstantsAssumption ==
  /\ NSeats \in Nat /\ MaxCliSeats \in Nat /\ IsFiniteSet(Office)
  /\ Request \subseteq [wanted : Nat, prefs : Seq(0..NSeats)]
  /\ Main \notin Office /\ Nobody \notin Office \cup {Main} \cup Pid
  /\ Free \notin Pid /\ Star \notin Pid

VARIABLES
  g_tickets_are_open, ticketOfficeMutex, readRequestsMutex,
  requests,            \* the lines in the FIFO SERVER_FIFO
  seatList,            \* calloc(nSeats + 1): who booked each entry
  seatSem,             \* the named semaphores "/sem<seat>"
  pc,                  \* where each office is
  serving,             \* request.pid of each office
  i,                   \* the loop index of getRequestedSeats and freeSeats
  error,               \* request.error, then response.returnCode
  requestResult,       \* the seats an office has booked for its request
  nOccupiedSeats,      \* args->nOccupiedSeats, one counter per office
  handler,             \* SIGUSR1: "none", then "close", "wake", "done"
  closed, book,        \* initServer has ended; the seats of sbook.txt
  crashed,             \* the server process was killed by a signal
  asked,               \* the request of each client
  client,              \* where each client is
  answerSem,           \* the named semaphores "/semAnswer<pid>"
  answer, reserved,    \* what the server wrote for each client
  told                 \* the clients that read the answer written for them

locks    == <<g_tickets_are_open, ticketOfficeMutex, readRequestsMutex>>
seats    == <<seatList, seatSem>>
office   == <<serving, i, error, requestResult, nOccupiedSeats>>
shutdown == <<handler, closed, book, crashed>>
clients  == <<asked, client, answerSem, answer, reserved, told>>
vars == <<locks, requests, seats, pc, office, shutdown, clients>>

Code == {"AYE", "MAX", "NST", "IID", "ERR", "NAV", "FUL"}

OfficePc == {"new", "loop", "check", "lockRead", "relock", "recheck", "read",
             "verify", "book", "test", "take", "rollback",
             "answer", "open", "release", "reply", "exited"}

\* "waiting": FIFO made, request sent, child reading, parent asleep;
\* "closing": the parent holds the semaphore and has killed the child;
\* "leaving": it has posted the semaphore; "unlinked": and unlinked the FIFO;
\* "gone": it exited after that; "served": the child read the answer and
\* killed the parent.
ClientState ==
  {"idle", "waiting", "closing", "leaving", "unlinked", "gone", "served"}

Init ==
  /\ g_tickets_are_open = TRUE
  /\ ticketOfficeMutex = Nobody /\ readRequestsMutex = Nobody
  /\ requests = <<>>
  /\ seatList = [s \in 0..NSeats |-> Free]
  /\ seatSem = [s \in Seat |-> 1]
  /\ pc = [o \in Office |-> "new"]
  /\ serving = [o \in Office |-> Nobody]
  /\ i = [o \in Office |-> 1]
  /\ error = [o \in Office |-> "AYE"]
  /\ requestResult = [o \in Office |-> <<>>]
  /\ nOccupiedSeats = [o \in Office |-> 0]
  /\ handler = "none" /\ closed = FALSE /\ book = {} /\ crashed = FALSE
  /\ asked \in [Pid -> Request]
  /\ client = [p \in Pid |-> "idle"]
  /\ answerSem = [p \in Pid |-> 1]
  /\ answer = [p \in Pid |-> "none"]
  /\ reserved = [p \in Pid |-> <<>>]
  /\ told = {}

-----------------------------------------------------------------------------
(* Operators                                                               *)

Goto(o, from, to) == /\ ~crashed
                     /\ pc[o] = from
                     /\ pc' = [pc EXCEPT ![o] = to]

prefs(o)  == asked[serving[o]].prefs
wanted(o) == asked[serving[o]].wanted

isSeatFree(s) == seatList[s] = Free

\* stringToIntArray returns NULL: some identifier is not positive.
BadIdentifier(r) == 0 \in Range(r.prefs)

\* sscanf finds no seat list, then stringToIntArray, then verifyRequestErrors,
\* whose verdict replaces the former's.
VerifyRequest(r, nOccupied) ==
  CASE r.prefs = <<>>                      -> "ERR"
    [] r.wanted > MaxCliSeats              -> "MAX"
    [] Len(r.prefs) < r.wanted             -> "NST"
    [] NSeats - nOccupied < r.wanted       -> "FUL"
    [] BadIdentifier(r)                    -> "IID"
    [] OTHER                               -> "AYE"

\* open(O_WRONLY) of the answer FIFO succeeds: it is linked, and the client
\* has it open or will open it while the office waits.
AnswerFifoLinked(p) == client[p] \in {"waiting", "closing", "leaving"}

\* A descriptor the office got from it still has a reader.
AnswerFifoRead(p) == client[p] \in {"waiting", "closing", "leaving", "unlinked"}

BookedSeats == {s \in Seat : s < NSeats /\ ~isSeatFree(s)}

-----------------------------------------------------------------------------
(* The main thread: initServer and closeTicketOfficesSignalHandler         *)

HandlerRuns == handler \in {"close", "wake"}

CreateOffice(o) ==
  /\ ~HandlerRuns
  /\ Goto(o, "new", "loop")
  /\ UNCHANGED <<locks, requests, seats, office, shutdown, clients>>

\* The timer process kills the server with SIGUSR1: Main runs the handler.
TimerExpires ==
  /\ handler = "none" /\ ~crashed
  /\ handler' = "close"
  /\ UNCHANGED <<locks, requests, seats, pc, office, closed, book, crashed,
                 clients>>

HandlerClose ==
  /\ handler = "close" /\ ~crashed
  /\ ticketOfficeMutex = Nobody
  /\ g_tickets_are_open' = FALSE
  /\ handler' = "wake"
  /\ UNCHANGED <<ticketOfficeMutex, readRequestsMutex, requests, seats, pc,
                 office, closed, book, crashed, clients>>

\* Mutant of HandlerWake: nothing is written to SERVER_FIFO.
HandlerWithoutWake ==
  /\ handler = "wake" /\ ~crashed
  /\ handler' = "done"
  /\ UNCHANGED <<locks, requests, seats, pc, office, closed, book, crashed,
                 clients>>

HandlerWake ==
  /\ handler = "wake" /\ ~crashed
  /\ requests' = Append(requests, Star)
  /\ handler' = "done"
  /\ UNCHANGED <<locks, seats, pc, office, closed, book, crashed, clients>>

\* Mutant of CloseServer: one office is joined, not all.
CloseAfterFirstJoin ==
  /\ ~HandlerRuns /\ ~crashed /\ ~closed
  /\ \E o \in Office : pc[o] = "exited"
  /\ closed' = TRUE
  /\ book' = BookedSeats
  /\ UNCHANGED <<locks, requests, seats, pc, office, handler, crashed, clients>>

\* All offices joined: write sbook.txt, unlink the FIFO and the semaphores.
CloseServer ==
  /\ ~HandlerRuns /\ ~crashed /\ ~closed
  /\ \A o \in Office : pc[o] = "exited"
  /\ closed' = TRUE
  /\ book' = BookedSeats
  /\ UNCHANGED <<locks, requests, seats, pc, office, handler, crashed, clients>>

-----------------------------------------------------------------------------
(* An office: initTicketOffice and processClientMsg                        *)

LockOffice(o) ==
  /\ Goto(o, "loop", "check")
  /\ ticketOfficeMutex = Nobody
  /\ ticketOfficeMutex' = o
  /\ UNCHANGED <<g_tickets_are_open, readRequestsMutex, requests, seats,
                 office, shutdown, clients>>

CheckOpen(o) ==
  /\ Goto(o, "check", IF g_tickets_are_open THEN "lockRead" ELSE "exited")
  /\ ticketOfficeMutex' = Nobody
  /\ UNCHANGED <<g_tickets_are_open, readRequestsMutex, requests, seats,
                 office, shutdown, clients>>

\* Mutant of LockRequests: readRequestsMutex is not taken.
ReadWithoutLock(o) ==
  /\ Goto(o, "lockRead", "relock")
  /\ UNCHANGED <<locks, requests, seats, office, shutdown, clients>>

LockRequests(o) ==
  /\ Goto(o, "lockRead", "relock")
  /\ readRequestsMutex = Nobody
  /\ readRequestsMutex' = o
  /\ UNCHANGED <<g_tickets_are_open, ticketOfficeMutex, requests, seats,
                 office, shutdown, clients>>

RelockOffice(o) ==
  /\ Goto(o, "relock", "recheck")
  /\ ticketOfficeMutex = Nobody
  /\ ticketOfficeMutex' = o
  /\ UNCHANGED <<g_tickets_are_open, readRequestsMutex, requests, seats,
                 office, shutdown, clients>>

RecheckOpen(o) ==
  /\ Goto(o, "recheck", IF g_tickets_are_open THEN "read" ELSE "loop")
  /\ ticketOfficeMutex' = Nobody
  /\ readRequestsMutex' =
       IF g_tickets_are_open THEN readRequestsMutex ELSE Nobody
  /\ UNCHANGED <<g_tickets_are_open, requests, seats, office, shutdown, clients>>

\* Mutant of ReadRequest: the line "*" is taken for a request.
ReadStarAsRequest(o) ==
  /\ requests # <<>>
  /\ Goto(o, "read", "verify")
  /\ requests' = Tail(requests)
  /\ readRequestsMutex' = Nobody
  /\ serving' = [serving EXCEPT ![o] = Head(requests)]
  /\ UNCHANGED <<g_tickets_are_open, ticketOfficeMutex, seats, i, error,
                 requestResult, nOccupiedSeats, shutdown, clients>>

ReadRequest(o) ==
  /\ requests # <<>>
  /\ Goto(o, "read", IF Head(requests) = Star THEN "loop" ELSE "verify")
  /\ requests' = Tail(requests)
  /\ readRequestsMutex' = Nobody
  /\ serving' = IF Head(requests) = Star THEN serving
                ELSE [serving EXCEPT ![o] = Head(requests)]
  /\ UNCHANGED <<g_tickets_are_open, ticketOfficeMutex, seats, i, error,
                 requestResult, nOccupiedSeats, shutdown, clients>>

Verify(o) ==
  LET verdict == VerifyRequest(asked[serving[o]], nOccupiedSeats[o])
  IN /\ Goto(o, "verify", IF verdict = "AYE" THEN "book" ELSE "answer")
     /\ error' = [error EXCEPT ![o] = verdict]
     /\ i' = [i EXCEPT ![o] = 1]
     /\ UNCHANGED <<locks, requests, seats, serving, requestResult,
                    nOccupiedSeats, shutdown, clients>>

-----------------------------------------------------------------------------
(* getRequestedSeats and freeSeats                                         *)

EndOfBooking(o) == \/ Len(requestResult[o]) = wanted(o)
                   \/ i[o] > Len(prefs(o))

\* Mutant of WaitSeat: sem_wait is left out.
EnterSeatUnprotected(o) ==
  /\ pc[o] = "book" /\ ~EndOfBooking(o)
  /\ Goto(o, "book", "test")
  /\ UNCHANGED <<locks, requests, seats, office, shutdown, clients>>

WaitSeat(o) ==
  LET s == prefs(o)[i[o]]
  IN /\ pc[o] = "book" /\ ~EndOfBooking(o)
     /\ Goto(o, "book", "test")
     /\ seatSem[s] > 0
     /\ seatSem' = [seatSem EXCEPT ![s] = @ - 1]
     /\ UNCHANGED <<locks, requests, seatList, office, shutdown, clients>>

\* Mutant of TestSeat: a booked seat is skipped before sem_post.
SkipSeatWithoutPost(o) ==
  LET s == prefs(o)[i[o]]
  IN /\ Goto(o, "test", IF isSeatFree(s) THEN "take" ELSE "book")
     /\ i' = IF isSeatFree(s) THEN i ELSE [i EXCEPT ![o] = @ + 1]
     /\ UNCHANGED <<locks, requests, seats, serving, error, requestResult,
                    nOccupiedSeats, shutdown, clients>>

\* isSeatFree; a booked seat is skipped at once.
TestSeat(o) ==
  LET s == prefs(o)[i[o]]
  IN /\ Goto(o, "test", IF isSeatFree(s) THEN "take" ELSE "book")
     /\ seatSem' = IF isSeatFree(s) THEN seatSem
                   ELSE [seatSem EXCEPT ![s] = @ + 1]
     /\ i' = IF isSeatFree(s) THEN i ELSE [i EXCEPT ![o] = @ + 1]
     /\ UNCHANGED <<locks, requests, seatList, serving, error, requestResult,
                    nOccupiedSeats, shutdown, clients>>

\* bookSeat, then sem_post
TakeSeat(o) ==
  LET s == prefs(o)[i[o]]
  IN /\ Goto(o, "take", "book")
     /\ seatList' = [seatList EXCEPT ![s] = serving[o]]
     /\ requestResult' = [requestResult EXCEPT ![o] = Append(@, s)]
     /\ seatSem' = [seatSem EXCEPT ![s] = @ + 1]
     /\ i' = [i EXCEPT ![o] = @ + 1]
     /\ UNCHANGED <<locks, requests, serving, error, nOccupiedSeats, shutdown,
                    clients>>

\* Mutants of AllBooked: too few seats will do; the counter is not increased.
SomeBooked(o) ==
  /\ pc[o] = "book" /\ EndOfBooking(o)
  /\ Goto(o, "book", "answer")
  /\ nOccupiedSeats' = [nOccupiedSeats EXCEPT ![o] = @ + wanted(o)]
  /\ UNCHANGED <<locks, requests, seats, serving, i, error, requestResult,
                 shutdown, clients>>

AllBookedUncounted(o) ==
  /\ pc[o] = "book" /\ Len(requestResult[o]) = wanted(o)
  /\ Goto(o, "book", "answer")
  /\ UNCHANGED <<locks, requests, seats, office, shutdown, clients>>

AllBooked(o) ==
  /\ pc[o] = "book" /\ Len(requestResult[o]) = wanted(o)
  /\ Goto(o, "book", "answer")
  /\ nOccupiedSeats' = [nOccupiedSeats EXCEPT ![o] = @ + wanted(o)]
  /\ UNCHANGED <<locks, requests, seats, serving, i, error, requestResult,
                 shutdown, clients>>

TooFewBooked(o) ==
  /\ pc[o] = "book" /\ EndOfBooking(o)
  /\ Len(requestResult[o]) < wanted(o)
  /\ Goto(o, "book", "rollback")
  /\ error' = [error EXCEPT ![o] = "NAV"]
  /\ i' = [i EXCEPT ![o] = 1]
  /\ UNCHANGED <<locks, requests, seats, serving, requestResult,
                 nOccupiedSeats, shutdown, clients>>

\* One turn of freeSeats, from getRequestedSeats or from sendResponse.
FreeSeat(o) ==
  LET s == requestResult[o][i[o]]
  IN /\ pc[o] \in {"rollback", "release"} /\ ~crashed
     /\ i[o] <= Len(requestResult[o])
     /\ seatSem[s] > 0
     /\ seatList' = [seatList EXCEPT ![s] = Free]
     /\ i' = [i EXCEPT ![o] = @ + 1]
     /\ UNCHANGED <<locks, requests, seatSem, pc, serving, error,
                    requestResult, nOccupiedSeats, shutdown, clients>>

EndOfFreeSeats(o) ==
  /\ pc[o] \in {"rollback", "release"}
  /\ Goto(o, pc[o], IF pc[o] = "rollback" THEN "answer" ELSE "loop")
  /\ i[o] > Len(requestResult[o])
  /\ requestResult' = [requestResult EXCEPT ![o] = <<>>]
  /\ UNCHANGED <<locks, requests, seats, serving, i, error, nOccupiedSeats,
                 shutdown, clients>>

-----------------------------------------------------------------------------
(* sendResponse                                                            *)

WaitAnswerSem(o) ==
  LET p == serving[o]
  IN /\ Goto(o, "answer", "open")
     /\ answerSem[p] > 0
     /\ answerSem' = [answerSem EXCEPT ![p] = @ - 1]
     /\ UNCHANGED <<locks, requests, seats, office, shutdown, asked, client,
                    answer, reserved, told>>

\* Mutant of OpenResponse: nothing is sent for an error, nor posted.
OpenResponseOnlyForSeats(o) ==
  /\ Goto(o, "open", IF error[o] = "AYE" THEN "reply" ELSE "loop")
  /\ AnswerFifoLinked(serving[o])
  /\ UNCHANGED <<locks, requests, seats, office, shutdown, clients>>

OpenResponse(o) ==
  /\ Goto(o, "open", "reply")
  /\ AnswerFifoLinked(serving[o])
  /\ UNCHANGED <<locks, requests, seats, office, shutdown, clients>>

\* Mutant of OpenResponseFails: the booked seats are not given up.
OpenResponseFailsKeepingSeats(o) ==
  /\ Goto(o, "open", "loop")
  /\ ~AnswerFifoLinked(serving[o])
  /\ requestResult' = [requestResult EXCEPT ![o] = <<>>]
  /\ UNCHANGED <<locks, requests, seats, serving, i, error, nOccupiedSeats,
                 shutdown, clients>>

\* open fails: the booked seats are given up, the semaphore is not posted.
OpenResponseFails(o) ==
  /\ Goto(o, "open", IF error[o] = "AYE" THEN "release" ELSE "loop")
  /\ ~AnswerFifoLinked(serving[o])
  /\ i' = [i EXCEPT ![o] = 1]
  /\ UNCHANGED <<locks, requests, seats, serving, error, requestResult,
                 nOccupiedSeats, shutdown, clients>>

\* The answer is in the FIFO.
WriteAnswer(o) ==
  LET p == serving[o]
  IN /\ AnswerFifoRead(p)
     /\ answer' = [answer EXCEPT ![p] = error[o]]
     /\ reserved' = [reserved EXCEPT ![p] = requestResult[o]]

\* Mutant of Reply: the semaphore of the answer is not posted.
ReplyWithoutPost(o) ==
  /\ Goto(o, "reply", "loop")
  /\ ~BadIdentifier(asked[serving[o]])
  /\ WriteAnswer(o)
  /\ requestResult' = [requestResult EXCEPT ![o] = <<>>]
  /\ UNCHANGED <<locks, requests, seats, serving, i, error, nOccupiedSeats,
                 shutdown, asked, client, answerSem, told>>

Reply(o) ==
  /\ Goto(o, "reply", "loop")
  /\ ~BadIdentifier(asked[serving[o]])
  /\ WriteAnswer(o)
  /\ requestResult' = [requestResult EXCEPT ![o] = <<>>]
  /\ answerSem' = [answerSem EXCEPT ![serving[o]] = @ + 1]
  /\ UNCHANGED <<locks, requests, seats, serving, i, error, nOccupiedSeats,
                 shutdown, asked, client, told>>

\* The code is written, then intArrayToString reads the NULL preferredSeats.
ReplyBadIdentifier(o) ==
  /\ pc[o] = "reply" /\ ~crashed
  /\ BadIdentifier(asked[serving[o]])
  /\ WriteAnswer(o)
  /\ crashed' = TRUE
  /\ UNCHANGED <<locks, requests, seats, pc, office, handler, closed, book,
                 asked, client, answerSem, told>>

\* write to a FIFO nobody has open for reading: SIGPIPE.
ReplyNoReader(o) ==
  /\ pc[o] = "reply" /\ ~crashed
  /\ ~AnswerFifoRead(serving[o])
  /\ crashed' = TRUE
  /\ UNCHANGED <<locks, requests, seats, pc, office, handler, closed, book,
                 clients>>

-----------------------------------------------------------------------------
(* A client: attemptSend, processReponse, gracefulShutdownOnTimeout        *)

Become(p, from, to) == /\ client[p] = from
                       /\ client' = [client EXCEPT ![p] = to]

ServerOnly == <<locks, seats, pc, office, shutdown>>

\* Once the server has unlinked SERVER_FIFO the request goes nowhere; after a
\* crash nobody has it open and the client stays in open().
SendRequest(p) ==
  /\ ~crashed
  /\ Become(p, "idle", "waiting")
  /\ requests' = IF closed THEN requests ELSE Append(requests, p)
  /\ UNCHANGED <<ServerOnly, asked, answerSem, answer, reserved, told>>

\* The child, or the parent after poll, reads the answer.
ReadAnswer(p) ==
  /\ answer[p] # "none"
  /\ Become(p, "waiting", "served") \/ Become(p, "closing", "leaving")
  /\ answerSem' = [answerSem EXCEPT ![p] = IF client[p] = "closing"
                                            THEN @ + 1 ELSE @]
  /\ told' = told \cup {p}
  /\ UNCHANGED <<ServerOnly, requests, asked, answer, reserved>>

TimeOut(p) ==
  /\ Become(p, "waiting", "closing")
  /\ answerSem[p] > 0
  /\ answerSem' = [answerSem EXCEPT ![p] = @ - 1]
  /\ UNCHANGED <<ServerOnly, requests, asked, answer, reserved, told>>

\* poll found nothing in 10 ms.
Leave(p) ==
  /\ answer[p] = "none"
  /\ Become(p, "closing", "leaving")
  /\ answerSem' = [answerSem EXCEPT ![p] = @ + 1]
  /\ UNCHANGED <<ServerOnly, requests, asked, answer, reserved, told>>

UnlinkOrExit(p) ==
  /\ Become(p, "leaving", "unlinked") \/ Become(p, "unlinked", "gone")
  /\ UNCHANGED <<ServerOnly, requests, asked, answerSem, answer, reserved, told>>

-----------------------------------------------------------------------------
(* The specification                                                       *)

BookingStep(o) == \/ WaitSeat(o) \/ TestSeat(o) \/ TakeSeat(o)
                  \/ AllBooked(o) \/ TooFewBooked(o)
                  \/ FreeSeat(o) \/ EndOfFreeSeats(o)

ResponseStep(o) == \/ WaitAnswerSem(o) \/ OpenResponse(o)
                   \/ OpenResponseFails(o) \/ Reply(o)
                   \/ ReplyBadIdentifier(o) \/ ReplyNoReader(o)

OfficeStep(o) == \/ LockOffice(o) \/ CheckOpen(o) \/ LockRequests(o)
                 \/ RelockOffice(o) \/ RecheckOpen(o) \/ ReadRequest(o)
                 \/ Verify(o) \/ BookingStep(o) \/ ResponseStep(o)

MainStep == \/ \E o \in Office : CreateOffice(o)
            \/ HandlerClose \/ HandlerWake \/ CloseServer

ClientStep(p) == ReadAnswer(p) \/ TimeOut(p) \/ Leave(p) \/ UnlinkOrExit(p)

\* The server has ended; TLC is not to call that a deadlock.
Stopped ==
  /\ \/ crashed
     \/ closed /\ \A p \in Pid : client[p] \in {"served", "gone"}
  /\ UNCHANGED vars

Next == \/ MainStep \/ TimerExpires
        \/ \E o \in Office : OfficeStep(o)
        \/ \E p \in Pid : SendRequest(p) \/ ClientStep(p)
        \/ Stopped

Spec == Init /\ [][Next]_vars

\* Every thread and process that can take a step takes one in the end; only
\* sending a request is up to whoever starts the client.
Fairness == /\ WF_vars(MainStep) /\ WF_vars(TimerExpires)
            /\ \A o \in Office : WF_vars(OfficeStep(o))
            /\ \A p \in Pid : WF_vars(ClientStep(p))

FairSpec == Spec /\ Fairness

-----------------------------------------------------------------------------
(* Properties                                                              *)

\* Every variable has the values its declaration in the code allows, and
\* every index used by an enabled step is in range.
TypeOK ==
  /\ g_tickets_are_open \in BOOLEAN
  /\ ticketOfficeMutex \in Office \cup {Nobody}
  /\ readRequestsMutex \in Office \cup {Nobody}
  /\ requests \in Seq(Pid \cup {Star})
  /\ seatList \in [0..NSeats -> Pid \cup {Free}]
  /\ seatSem \in [Seat -> Nat]
  /\ pc \in [Office -> OfficePc]
  /\ serving \in [Office -> Pid \cup {Nobody}]
  /\ i \in [Office -> Nat \ {0}]
  /\ error \in [Office -> Code]
  /\ requestResult \in [Office -> Seq(Seat)]
  /\ nOccupiedSeats \in [Office -> Nat]
  /\ handler \in {"none", "close", "wake", "done"}
  /\ closed \in BOOLEAN /\ crashed \in BOOLEAN
  /\ book \subseteq Seat
  /\ asked \in [Pid -> Request]
  /\ client \in [Pid -> ClientState]
  /\ answerSem \in [Pid -> Nat]
  /\ answer \in [Pid -> Code \cup {"none"}]
  /\ reserved \in [Pid -> Seq(Seat)]
  /\ told \subseteq Pid

\* freeSeats gives back the seats of a request in order; FirstHeld is the index
\* of the first one the office still holds in seatList.
FirstHeld(o) == IF pc[o] \in {"rollback", "release"} THEN i[o] ELSE 1

Held(o) == {requestResult[o][k] : k \in FirstHeld(o)..Len(requestResult[o])}

\* The office has everything its client wanted and has not failed to answer.
Committed(o) == pc[o] \in {"answer", "open", "reply"} /\ error[o] = "AYE"

\* The answer AYE with these seats is in the FIFO of p.
Promised(p) == IF answer[p] = "AYE" THEN Range(reserved[p]) ELSE {}

\* The seats set aside for p, answered or about to be.
SeatsOf(p) == Promised(p) \cup
  UNION {Held(o) : o \in {x \in Office : Committed(x) /\ serving[x] = p}}

\* No seat is set aside for two clients, however the offices interleave in
\* getRequestedSeats and whatever they roll back, and a client answered AYE gets
\* exactly as many seats as it wanted.
NoDoubleBooking ==
  /\ \A p, q \in Pid : p # q => SeatsOf(p) \cap SeatsOf(q) = {}
  /\ \A p \in Pid :
       answer[p] = "AYE" => Cardinality(Promised(p)) = asked[p].wanted

\* seatList says p exactly for the seats an office is holding for p or p was
\* answered: no seat leaks when a booking is rolled back or its answer cannot
\* be delivered, and none is freed that somebody was promised.
SeatsAccounted ==
  \A s \in Seat, p \in Pid :
    seatList[s] = p <=> \/ s \in Promised(p)
                       \/ \E o \in Office : serving[o] = p /\ s \in Held(o)

InSeat(o, s) == pc[o] \in {"test", "take"} /\ prefs(o)[i[o]] = s

\* Each "/sem<seat>" is 1, or 0 while exactly one office looks at the seat:
\* every path through getRequestedSeats posts what it waited for.
SeatSemaphores ==
  \A s \in Seat : seatSem[s] + Cardinality({o \in Office : InSeat(o, s)}) = 1

InAnswer(o, p) == pc[o] \in {"open", "reply"} /\ serving[o] = p

\* "/semAnswer<pid>" is never posted twice; the early return of sendResponse
\* loses it only for a client that has already unlinked its FIFO, so that
\* no client is left waiting for it.
AnswerSemaphores ==
  \A p \in Pid :
    LET holders == Cardinality({o \in Office : InAnswer(o, p)})
                   + (IF client[p] = "closing" THEN 1 ELSE 0)
    IN /\ answerSem[p] + holders <= 1
       /\ client[p] \in {"waiting", "closing", "leaving"} =>
            answerSem[p] + holders = 1

\* Together the per-office counters cover every seat taken for good, so no
\* office believes there is more room than there is on account of its own
\* bookings; none exceeds the room.
OccupiedCovers ==
  /\ SumFunction(nOccupiedSeats) >= Cardinality(UNION {SeatsOf(p) : p \in Pid})
  /\ \A o \in Office : nOccupiedSeats[o] <= NSeats

\* sbook.txt, once written, lists what the clients were answered and nothing
\* else: no office is still booking, rolling back or answering by then.  (Seat
\* nSeats itself is never listed: writeSBook stops before it.)
BookMatchesAnswers ==
  closed => book = {s \in UNION {Promised(p) : p \in Pid} : s < NSeats}

\* readRequestsMutex: one office at a time in getRequest, also while the
\* offices close.
OneReader ==
  \A o, x \in Office :
    pc[o] \in {"relock", "recheck", "read"} /\ pc[x] \in {"relock", "recheck", "read"}
      => o = x

\* The service the clients see.
Contract == INSTANCE Reservations
              WITH granted <- [p \in Pid |-> SeatsOf(p)],
                   told <- {p \in told : answer[p] = "AYE"}

\* Offices, semaphores and rollbacks implement Reservations.
ImplementsReservations == Contract!Spec

\* The server ends once its time is up, whatever its offices were doing.
EventuallyClosed == <>(closed \/ crashed)

\* A client that sent its request ends, answered or not.
ClientsEnd ==
  \A p \in Pid : client[p] = "waiting" ~>
                 (client[p] \in {"served", "gone"} \/ crashed)

\* report.pdf: the semaphore of the answer keeps the client from closing its
\* FIFO before the server has written to it.
FifoOpenWhileReplying ==
  \A o \in Office : pc[o] = "reply" => client[serving[o]] # "gone"

\* report.pdf: no request is processed once the offices are closed.
NoRequestTakenAfterClose ==
  [][\A o \in Office :
       pc[o] = "read" /\ pc'[o] = "verify" => g_tickets_are_open]_vars
=============================================================================
