--------------------------- MODULE ResponseChannel --------------------------
(***************************************************************************)
(* One answer, int by int: sendResponse of an office (Part2/Server) against *)
(* the two processes of a client (Part2/Client), the child that reads the  *)
(* answer and the parent that waits for the time out.  They share the      *)
(* answer FIFO and named semaphores "/semAnswer<pid>".                     *)
(*                                                                         *)
(* TicketOffices takes an answer for one step; this module opens it up.    *)
(* Both processes may be killed from outside (the launcher's SIGINT), and  *)
(* the server may die while it answers (another client's SIGPIPE).         *)
(***************************************************************************)
EXTENDS Integers, Sequences

CONSTANT Answers   \* what an office may send: the code, then for AYE the
                   \* number of seats and the seats

AYE == 0

ASSUME AnswersAssumption ==
  Answers \subseteq {a \in Seq(Int) :
     \/ Len(a) = 1 /\ a[1] < AYE
     \/ /\ Len(a) >= 2 /\ a[1] = AYE /\ a[2] = Len(a) - 2
        /\ \A k \in 3..Len(a) : a[k] > 0}

Process == {"parent", "child"}

VARIABLES
  answer,       \* the answer the office has for this client
  office,       \* where sendResponse is
  sent,         \* how many ints of the answer are written
  fifo,         \* the ints in the answer FIFO
  linked,       \* "/tmp/ans<pid>" is in the file system
  sem,          \* the semaphores named after the pid of each process
  pc,           \* where each process of the client is
  left,         \* the seats each process still has to read
  cbook,        \* the client's lines in cbook.txt
  clog,         \* the error codes it wrote to clog.txt
  interrupted   \* the client was killed from outside

server == <<answer, office, sent>>
books == <<left, cbook, clog, interrupted>>
clientVars == <<pc, books>>
vars == <<server, fifo, linked, sem, clientVars>>

Ended == {"done", "fifoError", "readError", "killed"}

TypeOK ==
  /\ answer \in Answers
  /\ office \in {"busy", "wait", "open", "write", "log", "posted",
                 "unanswered", "sigpipe", "down"}
  /\ sent \in 0..Len(answer)
  /\ Len(fifo) <= sent
  /\ linked \in BOOLEAN /\ interrupted \in BOOLEAN
  /\ sem \in [Process -> 0..1]
  /\ pc["child"] \in {"start", "open", "opening", "code", "count", "seats",
                      "unlink", "kill"} \cup Ended
  /\ pc["parent"] \in {"sleep", "wait", "kill", "open", "poll", "code", "count",
                       "seats", "post", "unlink"} \cup Ended
  /\ left \in [Process -> 0..Len(answer)]

\* attemptSend has forked, with the FIFO made and the request sent.
Init ==
  /\ answer \in Answers
  /\ office = "busy" /\ sent = 0
  /\ fifo = <<>> /\ linked = TRUE
  /\ sem = [p \in Process |-> 1]
  /\ pc = [p \in Process |-> IF p = "child" THEN "start" ELSE "sleep"]
  /\ left = [p \in Process |-> 0]
  /\ cbook = <<>> /\ clog = <<>>
  /\ interrupted = FALSE

-----------------------------------------------------------------------------
(* The answer FIFO                                                         *)

Alive(p) == pc[p] \notin Ended

\* A pending open(O_RDONLY) counts as a reader.  The office never closes its
\* descriptor; the parent opens O_RDWR.  What nobody has open is emptied.
ChildHasFifo  == pc["child"] \in {"opening", "code", "count", "seats", "unlink",
                                  "kill"}
ParentHasFifo == pc["parent"] \in {"poll", "code", "count", "seats", "post",
                                   "unlink"}
HasReader == ChildHasFifo \/ ParentHasFifo
HasWriter == office \in {"write", "log", "posted"} \/ ParentHasFifo

-----------------------------------------------------------------------------
(* An office: sendResponse                                                 *)

OfficeGoes(from, to) == office = from /\ office' = to

SendResponse ==
  /\ OfficeGoes("busy", "wait")
  /\ UNCHANGED <<answer, sent, fifo, linked, sem, clientVars>>

WaitSem ==
  /\ OfficeGoes("wait", "open")
  /\ sem["parent"] > 0
  /\ sem' = [sem EXCEPT !["parent"] = @ - 1]
  /\ UNCHANGED <<answer, sent, fifo, linked, clientVars>>

\* open(O_WRONLY) waits for a reader; the early return posts nothing.
OpenResponse ==
  /\ \/ linked /\ HasReader /\ OfficeGoes("open", "write")
     \/ ~linked /\ OfficeGoes("open", "unanswered")
  /\ UNCHANGED <<answer, sent, fifo, linked, sem, clientVars>>

WriteInt ==
  /\ office = "write"
  /\ IF HasReader
     THEN /\ fifo' = Append(fifo, answer[sent + 1])
          /\ sent' = sent + 1
          /\ office' = IF sent' = Len(answer) THEN "log" ELSE "write"
     ELSE office' = "sigpipe" /\ UNCHANGED <<fifo, sent>>
  /\ UNCHANGED <<answer, linked, sem, clientVars>>

\* slog.txt is written, then sem_post.
PostSem ==
  /\ OfficeGoes("log", "posted")
  /\ sem' = [sem EXCEPT !["parent"] = @ + 1]
  /\ UNCHANGED <<answer, sent, fifo, linked, clientVars>>

\* The server ends, or another office's SIGPIPE kills it.
ServerDies ==
  /\ office \in {"busy", "wait", "open", "write", "log", "posted"}
  /\ office' = "down"
  /\ fifo' = IF HasReader THEN fifo ELSE <<>>
  /\ UNCHANGED <<answer, sent, linked, sem, clientVars>>

-----------------------------------------------------------------------------
(* readFromServer and readAndPrintReservedSeats, run by either process     *)

Goto(p, from, to) == pc[p] = from /\ pc' = [pc EXCEPT ![p] = to]

\* Where processReponse and gracefulShutdownOnTimeout go on.
AfterReading(p) == IF p = "child" THEN "unlink" ELSE "post"

ReadCode(p) ==
  /\ fifo # <<>>
  /\ Goto(p, "code", IF Head(fifo) = AYE THEN "count" ELSE AfterReading(p))
  /\ fifo' = Tail(fifo)
  /\ clog' = IF Head(fifo) = AYE THEN clog ELSE Append(clog, Head(fifo))
  /\ UNCHANGED <<server, linked, sem, left, cbook, interrupted>>

ReadCount(p) ==
  /\ fifo # <<>>
  /\ Goto(p, "count", IF Head(fifo) > 0 THEN "seats" ELSE AfterReading(p))
  /\ fifo' = Tail(fifo)
  /\ left' = [left EXCEPT ![p] = Head(fifo)]
  /\ UNCHANGED <<server, linked, sem, cbook, clog, interrupted>>

\* Mutant of ReadSeat: the loop ends one seat early.
ReadSeatShort(p) ==
  /\ fifo # <<>>
  /\ Goto(p, "seats", IF left[p] > 2 THEN "seats" ELSE AfterReading(p))
  /\ fifo' = Tail(fifo)
  /\ left' = [left EXCEPT ![p] = @ - 1]
  /\ cbook' = Append(cbook, Head(fifo))
  /\ UNCHANGED <<server, linked, sem, clog, interrupted>>

ReadSeat(p) ==
  /\ fifo # <<>>
  /\ Goto(p, "seats", IF left[p] > 1 THEN "seats" ELSE AfterReading(p))
  /\ fifo' = Tail(fifo)
  /\ left' = [left EXCEPT ![p] = @ - 1]
  /\ cbook' = Append(cbook, Head(fifo))
  /\ UNCHANGED <<server, linked, sem, clog, interrupted>>

\* End of file: the server died.  The parent is its own writer and never
\* sees one.  Only the first read posts the semaphore before exit.
ReadEndOfFile ==
  /\ pc["child"] \in {"code", "count", "seats"}
  /\ fifo = <<>> /\ ~HasWriter
  /\ pc' = [pc EXCEPT !["child"] = "readError"]
  /\ sem' = IF pc["child"] = "code" THEN [sem EXCEPT !["child"] = @ + 1] ELSE sem
  /\ UNCHANGED <<server, fifo, linked, books>>

-----------------------------------------------------------------------------
(* The child: processReponse                                               *)

\* getpid() is the child's own: nobody else takes this semaphore.
ChildTakesSem ==
  /\ Goto("child", "start", "open")
  /\ sem["child"] > 0
  /\ sem' = [sem EXCEPT !["child"] = @ - 1]
  /\ UNCHANGED <<server, fifo, linked, books>>

\* The FIFO is linked: whoever unlinks it has killed the child before.
ChildOpens ==
  /\ Goto("child", "open", "opening")
  /\ UNCHANGED <<server, fifo, linked, sem, books>>

ChildOpened ==
  /\ Goto("child", "opening", "code")
  /\ HasWriter
  /\ UNCHANGED <<server, fifo, linked, sem, books>>

ChildUnlinks ==
  /\ Goto("child", "unlink", "kill")
  /\ linked' = FALSE
  /\ UNCHANGED <<server, fifo, sem, books>>

\* kill(getppid(), SIGKILL), sem_post, exit
ChildKillsParent ==
  /\ pc["child"] = "kill"
  /\ pc' = [pc EXCEPT !["child"] = "done", !["parent"] = "killed"]
  /\ sem' = [sem EXCEPT !["child"] = @ + 1]
  /\ UNCHANGED <<server, fifo, linked, books>>

-----------------------------------------------------------------------------
(* The parent: gracefulShutdownOnTimeout                                   *)

TimeOut ==
  /\ Goto("parent", "sleep", "wait")
  /\ UNCHANGED <<server, fifo, linked, sem, books>>

\* Mutant of ParentTakesSem: the parent does not wait.
ParentRushes ==
  /\ Goto("parent", "wait", "kill")
  /\ sem' = [sem EXCEPT !["parent"] = 0]
  /\ UNCHANGED <<server, fifo, linked, books>>

ParentTakesSem ==
  /\ Goto("parent", "wait", "kill")
  /\ sem["parent"] > 0
  /\ sem' = [sem EXCEPT !["parent"] = @ - 1]
  /\ UNCHANGED <<server, fifo, linked, books>>

\* Mutant of ParentKillsChild: the child goes on.
ParentSparesChild ==
  /\ Goto("parent", "kill", "open")
  /\ UNCHANGED <<server, fifo, linked, sem, books>>

ParentKillsChild ==
  /\ pc["parent"] = "kill"
  /\ pc' = [pc EXCEPT !["parent"] = "open",
                      !["child"] = IF Alive("child") THEN "killed" ELSE @]
  /\ fifo' = IF HasWriter THEN fifo ELSE <<>>
  /\ UNCHANGED <<server, linked, sem, books>>

\* open fails if the child had unlinked the FIFO: sem_post and exit.
ParentOpens ==
  /\ Goto("parent", "open", IF linked THEN "poll" ELSE "fifoError")
  /\ sem' = IF linked THEN sem ELSE [sem EXCEPT !["parent"] = @ + 1]
  /\ UNCHANGED <<server, fifo, linked, books>>

ParentPolls ==
  /\ Goto("parent", "poll", IF fifo = <<>> THEN "post" ELSE "code")
  /\ UNCHANGED <<server, fifo, linked, sem, books>>

\* Mutant of ParentPosts: the semaphore stays taken.
ParentKeepsSem ==
  /\ Goto("parent", "post", "unlink")
  /\ UNCHANGED <<server, fifo, linked, sem, books>>

ParentPosts ==
  /\ Goto("parent", "post", "unlink")
  /\ sem' = [sem EXCEPT !["parent"] = @ + 1]
  /\ UNCHANGED <<server, fifo, linked, books>>

ParentUnlinks ==
  /\ Goto("parent", "unlink", "done")
  /\ linked' = FALSE
  /\ UNCHANGED <<server, fifo, sem, books>>

\* start _v2.c sends SIGINT to its clients.
KilledFromOutside ==
  /\ Alive("parent") /\ ~interrupted
  /\ interrupted' = TRUE
  /\ pc' = [p \in Process |-> IF Alive(p) THEN "killed" ELSE pc[p]]
  /\ UNCHANGED <<server, fifo, linked, sem, left, cbook, clog>>

-----------------------------------------------------------------------------
(* The specification                                                       *)

ReadStep(p) == ReadCode(p) \/ ReadCount(p) \/ ReadSeat(p)

OfficeStep == WaitSem \/ OpenResponse \/ WriteInt \/ PostSem

ChildStep == \/ ChildTakesSem \/ ChildOpens \/ ChildOpened
             \/ ReadStep("child") \/ ReadEndOfFile
             \/ ChildUnlinks \/ ChildKillsParent

ParentStep == \/ TimeOut \/ ParentTakesSem \/ ParentKillsChild \/ ParentOpens
              \/ ParentPolls \/ ReadStep("parent") \/ ParentPosts
              \/ ParentUnlinks

ClientOver == ~Alive("parent") /\ ~Alive("child")

Next == \/ SendResponse \/ OfficeStep \/ ServerDies
        \/ ChildStep \/ ParentStep \/ KilledFromOutside

Spec == Init /\ [][Next]_vars

\* The kernel runs the office and both processes, and usleep ends.  Nothing
\* makes an office get to this request.
FairSpec == /\ Spec
            /\ WF_vars(OfficeStep) /\ WF_vars(ChildStep) /\ WF_vars(ParentStep)

-----------------------------------------------------------------------------
(* Properties                                                              *)

Seats == SubSeq(answer, 3, Len(answer))

\* The answer is in the client's books, in full.
Logged == IF answer[1] = AYE THEN cbook = Seats ELSE clog = answer

\* cbook.txt never has a seat that was not booked, a seat twice, or one out of
\* order, whichever process reads which part of the answer; and a code in
\* clog.txt is the office's verdict, unless the child was killed (half-way
\* through an answer, the rest of which is then read as a code).
BooksAreAnswer ==
  /\ cbook = SubSeq(Seats, 1, Len(cbook))
  /\ clog # <<>> /\ pc["child"] # "killed" => clog = answer

\* A client whose child ended it, or that exits because its FIFO is gone, has
\* the whole answer in its books.
EndedByAnswer ==
  /\ pc["parent"] = "fifoError" => Logged
  /\ pc["parent"] = "killed" /\ ~interrupted => Logged

\* Between sem_wait and sem_post the office has a reader until the parent has
\* posted and gone: the semaphore works, up to there.
NoEarlySigpipe ==
  office = "sigpipe" => pc["parent"] = "done" \/ interrupted

\* Only the early return, a death or a client killed while it held the
\* semaphore leaves /semAnswer<pid> at 0, where the next client with this pid
\* would find it.
SemLeftTaken ==
  ClientOver /\ office \in {"busy", "posted"} /\ sem["parent"] = 0 =>
    pc["parent"] = "killed"

\* The client ends, answered or not, unless the server died holding the
\* semaphore or the parent reads the 0 of an answer without seats as its code.
ClientEnds == <>(\/ ClientOver
                 \/ office = "down" /\ sem["parent"] = 0
                 \/ answer = <<AYE, 0>> /\ pc["parent"] = "count")

\* An office gets out of sendResponse, whatever the client does on its own.
OfficeReturns ==
  office = "wait" ~> \/ office \in {"posted", "unanswered", "sigpipe", "down"}
                     \/ interrupted
                     \/ answer = <<AYE, 0>>

\* report.pdf: the parent waits for the semaphore before it kills the child, so
\* that the child is not ended half-way through reading an answer.
ChildFinishesReading ==
  [][pc["parent"] = "kill" /\ pc'["parent"] = "open" =>
       pc["child"] \notin {"count", "seats"}]_vars
=============================================================================
