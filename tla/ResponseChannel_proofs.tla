----------------------- MODULE ResponseChannel_proofs ------------------------
(***************************************************************************)
(* Proofs about ResponseChannel for any set of answers, of any length.     *)
(* The inductive invariant IInv follows the answer through the FIFO: what  *)
(* the two processes have taken out of it, which of them may read, and     *)
(* who has the semaphore the office and the parent share.                  *)
(***************************************************************************)
EXTENDS ResponseChannel, SequenceTheorems, TLAPS

ChildPc  == {"start", "open", "opening", "code", "count", "seats", "unlink",
             "kill"}
ParentPc == {"sleep", "wait", "kill", "open", "poll", "code", "count", "seats",
             "post", "unlink"}

\* TypeOK, with the sequences and the domain of pc.
Types ==
  /\ TypeOK
  /\ pc \in [Process -> ChildPc \cup ParentPc \cup Ended]
  /\ fifo \in Seq(Int) /\ cbook \in Seq(Int) /\ clog \in Seq(Int)

\* How many ints of the answer have left the FIFO, read or dropped.
Taken == sent - Len(fifo)

\* The FIFO holds the next part of the answer.
FifoOK == \A k \in 1..Len(fifo) : fifo[k] = answer[Taken + k]

BooksOK ==
  /\ \A k \in 1..Len(cbook) : cbook[k] = answer[k + 2]
  /\ cbook # <<>> => answer[1] = AYE /\ Len(cbook) <= Len(answer) - 2

\* How much of the answer the office has written.
OfficeOK ==
  /\ office \in {"busy", "wait", "open", "unanswered"} => sent = 0
  /\ office \in {"write", "sigpipe"} => sent < Len(answer)
  /\ office \in {"log", "posted"} => sent = Len(answer)

ParentHasSem ==
  pc["parent"] \in {"kill", "open", "poll", "code", "count", "seats", "post"}

\* While the parent has the semaphore, or nobody, the office has written all
\* of the answer or nothing and is not about to go on.
SemOK ==
  /\ sem["parent"] = 1 \/ ParentHasSem =>
       office \in {"busy", "wait", "posted", "down"} /\ sent \in {0, Len(answer)}
  /\ ParentHasSem => sem["parent"] = 0
  /\ office \in {"busy", "wait", "posted"} /\ sem["parent"] = 0 =>
       ParentHasSem \/ pc["parent"] = "killed"
  /\ pc["child"] \in ChildPc \ {"start"} => sem["child"] = 0

\* How far the answer is read when the next int is a code, a count, a seat.
Untouched  == Taken = 0 /\ cbook = <<>>
CodeTaken  == Taken = 1 /\ cbook = <<>> /\ answer[1] = AYE
SeatsTaken == Taken = 2 + Len(cbook) /\ answer[1] = AYE

AtSeats(p) == /\ SeatsTaken
              /\ left[p] = answer[2] - Len(cbook) /\ left[p] > 0

\* The child reads alone and from the beginning.
ChildOK ==
  /\ pc["child"] \in ChildPc => /\ pc["parent"] \in {"sleep", "wait", "kill"}
                                /\ linked \/ pc["child"] = "kill"
  /\ pc["child"] \in {"start", "open", "opening", "code"} =>
       Untouched /\ clog = <<>>
  /\ pc["child"] \in {"start", "open"} => sent = 0
  /\ pc["child"] # "killed" => clog \in {<<>>, answer}
  /\ pc["child"] = "count" => CodeTaken /\ clog = <<>>
  /\ pc["child"] = "seats" => AtSeats("child") /\ clog = <<>>
  /\ pc["child"] \in {"code", "count", "seats"} =>
       office \in {"write", "log", "posted", "down"}
  /\ pc["child"] \in {"unlink", "kill", "done"} =>
       sent = Len(answer) /\ fifo = <<>> /\ Logged
  /\ pc["child"] = "readError" => fifo = <<>> /\ office = "down" /\ clog = <<>>
  /\ pc["child"] = "done" => pc["parent"] = "killed"
  /\ pc["child"] # "fifoError"

\* The parent reads what a child it killed has left.
ParentOK ==
  /\ pc["parent"] \in {"sleep", "wait", "kill"} =>
       pc["child"] \in ChildPc \cup {"readError"}
  /\ pc["parent"] \in {"open", "poll", "code", "count", "seats", "post", "unlink",
                       "done", "fifoError"} =>
       pc["child"] \in {"killed", "readError"}
  /\ pc["parent"] \in {"code", "count", "seats"} => pc["child"] = "killed"
  /\ pc["parent"] \in {"open", "poll", "code"} /\ fifo # <<>> =>
       Untouched \/ CodeTaken \/ SeatsTaken
  /\ pc["parent"] = "count" /\ fifo # <<>> => CodeTaken
  /\ pc["parent"] = "seats" => AtSeats("parent")
  /\ pc["parent"] # "readError"

\* Only a child that has logged the answer unlinks the FIFO before the parent
\* does, or kills the parent.
LinkOK ==
  /\ ParentHasFifo => linked
  /\ ~linked => pc["parent"] = "done" \/ Logged
  /\ pc["parent"] = "fifoError" => Logged
  /\ pc["parent"] = "killed" => interrupted \/ pc["child"] = "done"

\* An office that opened the FIFO keeps a reader.
ReaderOK ==
  office \in {"write", "sigpipe"} =>
    \/ pc["parent"] = "done" \/ interrupted
    \/ office = "write" /\ HasReader

\* The inductive invariant.
IInv == /\ Types /\ FifoOK /\ BooksOK /\ OfficeOK /\ SemOK
        /\ ChildOK /\ ParentOK /\ LinkOK /\ ReaderOK

-----------------------------------------------------------------------------
(* Answers and the FIFO                                                    *)

\* An answer has a code; AYE comes with a number of seats, positive ones, and
\* any other code alone.
LEMMA AnswerType ==
  ASSUME TypeOK
  PROVE  /\ answer \in Seq(Int) /\ Len(answer) \in Nat \ {0}
         /\ answer[1] = AYE => /\ Len(answer) >= 2
                               /\ answer[2] \in Nat /\ answer[2] = Len(answer) - 2
         /\ answer[1] # AYE => Len(answer) = 1
         /\ \A k \in 3..Len(answer) : answer[k] > 0
BY AnswersAssumption DEF TypeOK, AYE

\* Taking the head of the FIFO takes the next int of the answer and leaves the
\* ones after it.
LEMMA HeadTaken ==
  ASSUME Types, FifoOK, fifo # <<>>, fifo' = Tail(fifo), UNCHANGED <<sent, answer>>
  PROVE  /\ Head(fifo) = answer[Taken + 1] /\ Head(fifo) \in Int
         /\ Taken \in Nat /\ Taken + 1 <= Len(answer)
         /\ Taken' = Taken + 1
         /\ fifo' \in Seq(Int) /\ Len(fifo') = Len(fifo) - 1 /\ Len(fifo') \in Nat
         /\ FifoOK'
<1>1. /\ Len(fifo) \in Nat \ {0} /\ Len(fifo') = Len(fifo) - 1 /\ Len(fifo') \in Nat
      /\ Head(fifo) = fifo[1] /\ Head(fifo) \in Int /\ fifo' \in Seq(Int)
      /\ \A k \in 1..Len(fifo') : fifo'[k] = fifo[k + 1]
  BY HeadTailProperties, LenProperties DEF Types
<1>2. /\ Len(answer) \in Nat /\ sent \in 0..Len(answer) /\ Len(fifo) <= sent
  BY AnswerType DEF Types, TypeOK
<1>3. Taken \in Nat /\ Taken' = Taken + 1 /\ Taken + 1 <= Len(answer)
  BY <1>1, <1>2 DEF Taken
<1>4. Head(fifo) = answer[Taken + 1]
  BY <1>1, <1>3 DEF FifoOK
<1>5. ASSUME NEW k \in 1..Len(fifo') PROVE fifo'[k] = answer'[Taken' + k]
  <2>1. k + 1 \in 1..Len(fifo) /\ Taken + (k + 1) = Taken' + k
    BY <1>1, <1>3
  <2> QED BY <1>1, <2>1 DEF FifoOK
<1> QED BY <1>1, <1>3, <1>4, <1>5 DEF FifoOK

\* What SubSeq returns, under a name of its own.
LEMMA Slice ==
  ASSUME NEW q, NEW m \in Int, NEW n \in Int, \A k \in m..n : q[k] \in Int,
         NEW r, r = SubSeq(q, m, n)
  PROVE  /\ r \in Seq(Int)
         /\ Len(r) = IF m <= n THEN n - m + 1 ELSE 0
         /\ \A k \in 1..(n - m + 1) : r[k] = q[m + k - 1]
BY SubSeqProperties

\* A list that agrees with the seats of an answer as far as it goes is a prefix
\* of them, and is all of them if it is as long.
LEMMA SeatsPrefix ==
  ASSUME NEW a \in Seq(Int), NEW b \in Seq(Int), Len(a) >= 2,
         Len(b) <= Len(a) - 2,
         \A k \in 1..Len(b) : b[k] = a[k + 2]
  PROVE  /\ b = SubSeq(SubSeq(a, 3, Len(a)), 1, Len(b))
         /\ Len(b) = Len(a) - 2 => b = SubSeq(a, 3, Len(a))
<1> DEFINE s == SubSeq(a, 3, Len(a))
           t == SubSeq(s, 1, Len(b))
<1>1. Len(a) \in Nat /\ Len(b) \in Nat
  BY LenProperties
<1>2. /\ s \in Seq(Int) /\ Len(s) = Len(a) - 2
      /\ \A k \in 1..Len(s) : s[k] = a[k + 2]
  <2>1. \A k \in 3..Len(a) : a[k] \in Int
    BY <1>1, ElementOfSeq
  <2>2. /\ s \in Seq(Int)
        /\ Len(s) = IF 3 <= Len(a) THEN Len(a) - 3 + 1 ELSE 0
        /\ \A k \in 1..(Len(a) - 3 + 1) : s[k] = a[3 + k - 1]
    BY <1>1, <2>1, Slice
  <2> HIDE DEF s
  <2>3. Len(s) = Len(a) - 2
    <3>1. CASE Len(a) >= 3
      BY <1>1, <2>2, <3>1
    <3>2. CASE Len(a) = 2
      BY <1>1, <2>2, <3>2
    <3>3. Len(a) = 2 \/ Len(a) >= 3
      <4>1. \A n \in Nat : n >= 2 => n = 2 \/ n >= 3
        OBVIOUS
      <4> QED BY <1>1, <4>1
    <3> QED BY <3>1, <3>2, <3>3
  <2>4. ASSUME NEW k \in 1..Len(s) PROVE s[k] = a[k + 2]
    <3>1. k \in 1..(Len(a) - 3 + 1) /\ 3 + k - 1 = k + 2
      BY <1>1, <2>3
    <3> QED BY <2>2, <3>1
  <2> QED BY <2>2, <2>3, <2>4
<1> HIDE DEF s
<1>3. /\ t \in Seq(Int) /\ Len(t) = Len(b)
      /\ \A k \in 1..Len(b) : t[k] = s[k]
  BY <1>1, <1>2
<1>4. \A k \in 1..Len(b) : b[k] = s[k]
  BY <1>1, <1>2
<1> HIDE DEF t
<1>5. b = t
  BY <1>1, <1>3, <1>4, SeqEqual
<1>6. Len(b) = Len(a) - 2 => b = s
  BY <1>1, <1>2, <1>4, SeqEqual
<1> QED BY <1>5, <1>6 DEF s, t

-----------------------------------------------------------------------------
(* Steps that leave the FIFO and the books alone                           *)

Data == <<answer, sent, fifo, left, cbook, clog>>

\* A step that leaves the data alone keeps what is said of it.
LEMMA SameData ==
  ASSUME UNCHANGED Data
  PROVE  /\ FifoOK => FifoOK'
         /\ BooksOK => BooksOK'
         /\ Untouched' = Untouched /\ CodeTaken' = CodeTaken
         /\ SeatsTaken' = SeatsTaken
         /\ AtSeats("child")' = AtSeats("child")
         /\ AtSeats("parent")' = AtSeats("parent")
         /\ Logged' = Logged
BY DEF Data, FifoOK, BooksOK, Taken, Untouched, CodeTaken, SeatsTaken, AtSeats,
       Logged, Seats

\* The client starts with an empty FIFO, and nobody has the semaphores.
LEMMA InitInv == Init => IInv
<1> SUFFICES ASSUME Init PROVE IInv
  OBVIOUS
<1>1. answer \in Seq(Int) /\ Len(answer) \in Nat \ {0}
  BY AnswersAssumption DEF Init
<1>2. /\ sent = 0 /\ Len(fifo) = 0 /\ Len(cbook) = 0
      /\ fifo = <<>> /\ cbook = <<>> /\ clog = <<>>
  BY DEF Init
<1>3. Types
  <2>1. <<>> \in Seq(Int) /\ Len(<<>>) = 0
    BY EmptySeq
  <2>2. TypeOK
    <3>1. sent \in 0..Len(answer) /\ Len(fifo) <= sent
      BY <1>1, <1>2
    <3>2. left \in [Process -> 0..Len(answer)] /\ sem \in [Process -> 0..1]
      BY <1>1 DEF Init
    <3>3. pc["child"] = "start" /\ pc["parent"] = "sleep"
      BY DEF Init, Process
    <3> QED BY <3>1, <3>2, <3>3 DEF Init, TypeOK
  <2>3. pc \in [Process -> ChildPc \cup ParentPc \cup Ended]
    BY DEF Init, Process, ChildPc, ParentPc
  <2> QED BY <1>2, <2>1, <2>2, <2>3 DEF Types
<1>4. FifoOK /\ BooksOK /\ OfficeOK
  BY <1>2 DEF Init, FifoOK, BooksOK, OfficeOK
<1>5. Untouched
  <2>1. Taken = 0
    BY <1>2 DEF Taken
  <2> QED BY <1>2, <2>1 DEF Untouched
<1>6. SemOK /\ ChildOK /\ ParentOK /\ LinkOK /\ ReaderOK
  BY <1>2, <1>5 DEF Init, Process, ChildPc, SemOK, ParentHasSem, ChildOK, ParentOK,
     LinkOK, ParentHasFifo, ReaderOK
<1> QED
  BY <1>3, <1>4, <1>6 DEF IInv

\* The office gets the semaphore and posts it.
LEMMA OfficeInv ==
  ASSUME IInv, SendResponse \/ WaitSem \/ OpenResponse \/ PostSem PROVE IInv'
<1>0. Len(answer) \in Nat \ {0}
  BY AnswerType DEF IInv, Types
<1> USE DEF IInv, Types, TypeOK, Process, ChildPc, ParentPc, Ended, OfficeOK, SemOK,
            ParentHasSem, ChildOK, ParentOK, LinkOK, ReaderOK, HasReader, HasWriter,
            ChildHasFifo, ParentHasFifo, server, clientVars, books, Goto, Alive
<1>1. CASE SendResponse
  BY <1>1, SameData DEF SendResponse, OfficeGoes, Data
<1>2. CASE WaitSem
  BY <1>2, SameData DEF WaitSem, OfficeGoes, Data
<1>3. CASE OpenResponse
  <2> USE <1>3, SameData DEF OpenResponse, OfficeGoes, Data
  <2>1. Types'
    OBVIOUS
  <2>2. FifoOK' /\ BooksOK'
    OBVIOUS
  <2>3. OfficeOK'
    BY <1>0
  <2>4. SemOK'
    BY <1>0
  <2>5. ChildOK'
    OBVIOUS
  <2>6. ParentOK'
    OBVIOUS
  <2>7. LinkOK'
    OBVIOUS
  <2>8. ReaderOK'
    OBVIOUS
  <2> QED BY <2>1, <2>2, <2>3, <2>4, <2>5, <2>6, <2>7, <2>8
<1>4. CASE PostSem
  BY <1>4, SameData DEF PostSem, OfficeGoes, Data
<1> QED BY <1>1, <1>2, <1>3, <1>4

\* The child opens the FIFO, meets its end of file, and ends the client.
LEMMA ChildInv ==
  ASSUME IInv,
         \/ ChildTakesSem \/ ChildOpens \/ ChildOpened
         \/ ReadEndOfFile \/ ChildUnlinks \/ ChildKillsParent
  PROVE  IInv'
<1> USE DEF IInv, Types, TypeOK, Process, ChildPc, ParentPc, Ended, OfficeOK, SemOK,
            ParentHasSem, ChildOK, ParentOK, LinkOK, ReaderOK, HasReader, HasWriter,
            ChildHasFifo, ParentHasFifo, server, clientVars, books, Goto, Alive
<1>1. CASE ChildTakesSem
  BY <1>1, SameData DEF ChildTakesSem, Data
<1>2. CASE ChildOpens
  BY <1>2, SameData DEF ChildOpens, Data
<1>3. CASE ChildOpened
  BY <1>3, SameData DEF ChildOpened, Data
<1>4. CASE ReadEndOfFile
  BY <1>4, SameData DEF ReadEndOfFile, Data
<1>5. CASE ChildUnlinks
  <2> USE <1>5, SameData DEF ChildUnlinks, Data
  <2>1. Types'
    OBVIOUS
  <2>2. FifoOK' /\ BooksOK'
    OBVIOUS
  <2>3. OfficeOK' /\ SemOK'
    OBVIOUS
  <2>4. ChildOK'
    OBVIOUS
  <2>5. ParentOK'
    OBVIOUS
  <2>6. LinkOK'
    OBVIOUS
  <2>7. ReaderOK'
    OBVIOUS
  <2> QED BY <2>1, <2>2, <2>3, <2>4, <2>5, <2>6, <2>7
<1>6. CASE ChildKillsParent
  BY <1>6, SameData DEF ChildKillsParent, Data
<1> QED BY <1>1, <1>2, <1>3, <1>4, <1>5, <1>6

\* The parent times out, takes the semaphore, polls, posts and unlinks; or the
\* client is killed from outside.
LEMMA ParentInv ==
  ASSUME IInv,
         \/ TimeOut \/ ParentTakesSem \/ ParentOpens
         \/ ParentPolls \/ ParentPosts \/ ParentUnlinks \/ KilledFromOutside
  PROVE  IInv'
<1> USE DEF IInv, Types, TypeOK, Process, ChildPc, ParentPc, Ended, OfficeOK, SemOK,
            ParentHasSem, ChildOK, ParentOK, LinkOK, ReaderOK, HasReader, HasWriter,
            ChildHasFifo, ParentHasFifo, server, clientVars, books, Goto, Alive
<1>1. CASE TimeOut
  BY <1>1, SameData DEF TimeOut, Data
<1>2. CASE ParentTakesSem
  BY <1>2, SameData DEF ParentTakesSem, Data
<1>3. CASE ParentOpens
  BY <1>3, SameData DEF ParentOpens, Data
<1>4. CASE ParentPolls
  BY <1>4, SameData DEF ParentPolls, Data
<1>5. CASE ParentPosts
  BY <1>5, SameData DEF ParentPosts, Data
<1>6. CASE ParentUnlinks
  <2> USE <1>6, SameData DEF ParentUnlinks, Data
  <2>1. Types'
    OBVIOUS
  <2>2. FifoOK' /\ BooksOK'
    OBVIOUS
  <2>3. OfficeOK' /\ SemOK'
    OBVIOUS
  <2>4. ChildOK'
    OBVIOUS
  <2>5. ParentOK'
    OBVIOUS
  <2>6. LinkOK'
    OBVIOUS
  <2>7. ReaderOK'
    OBVIOUS
  <2> QED BY <2>1, <2>2, <2>3, <2>4, <2>5, <2>6, <2>7
<1>7. CASE KilledFromOutside
  BY <1>7, SameData DEF KilledFromOutside, Data
<1> QED BY <1>1, <1>2, <1>3, <1>4, <1>5, <1>6, <1>7

\* The office writes the next int, or finds no reader.
LEMMA WriteInv == ASSUME IInv, WriteInt PROVE IInv'
<1> USE DEF IInv, Types, TypeOK, Process, ChildPc, ParentPc, Ended, OfficeOK, SemOK,
            ParentHasSem, ChildOK, ParentOK, LinkOK, ReaderOK, HasReader, HasWriter,
            ChildHasFifo, ParentHasFifo, server, clientVars, books, Goto, Alive
<1>1. /\ office = "write" /\ sent < Len(answer) /\ sent \in Nat /\ Len(answer) \in Nat
      /\ UNCHANGED <<answer, linked, sem, pc, left, cbook, clog, interrupted>>
  BY AnswerType DEF WriteInt
<1>2. CASE HasReader
  <2>1. /\ fifo' = Append(fifo, answer[sent + 1]) /\ sent' = sent + 1
        /\ office' = IF sent' = Len(answer) THEN "log" ELSE "write"
    BY <1>2 DEF WriteInt
  <2>2. answer \in Seq(Int) /\ answer[sent + 1] \in Int
    BY <1>1, AnswerType, ElementOfSeq
  <2>3. /\ fifo' \in Seq(Int) /\ Len(fifo') = Len(fifo) + 1 /\ Len(fifo) \in Nat
        /\ fifo'[Len(fifo) + 1] = answer[sent + 1]
        /\ \A k \in 1..Len(fifo) : fifo'[k] = fifo[k]
    <3>1. fifo \in Seq(Int)
      OBVIOUS
    <3> HIDE DEF IInv, Types
    <3> QED BY <2>1, <2>2, <3>1, AppendProperties, LenProperties
  <2>4. Taken' = Taken /\ Taken \in Nat
    BY <1>1, <2>1, <2>3 DEF Taken
  <2>5. FifoOK'
    <3> SUFFICES ASSUME NEW k \in 1..Len(fifo') PROVE fifo'[k] = answer[Taken + k]
      BY <1>1, <2>4 DEF FifoOK
    <3>1. CASE k = Len(fifo) + 1
      BY <2>3, <3>1 DEF Taken
    <3>2. CASE k \in 1..Len(fifo)
      BY <2>3, <3>2 DEF FifoOK
    <3> QED BY <2>3, <3>1, <3>2
  <2>6. /\ Untouched' = Untouched /\ CodeTaken' = CodeTaken /\ SeatsTaken' = SeatsTaken
        /\ AtSeats("child")' = AtSeats("child") /\ BooksOK' = BooksOK
        /\ Logged' = Logged
    BY <1>1, <2>4 DEF Untouched, CodeTaken, SeatsTaken, AtSeats, BooksOK, Logged, Seats
  <2>7. Types' /\ OfficeOK' /\ SemOK'
    BY <1>1, <2>1, <2>3
  <2>8. ChildOK' /\ ParentOK'
    <3>1. pc["child"] \notin {"start", "open", "unlink", "kill", "done", "readError"}
      BY <1>1, <1>2
    <3>2. ~ParentHasSem
      BY <1>1
    <3>3. ChildOK'
      BY <1>1, <2>1, <2>6, <3>1
    <3>4. ParentOK'
      BY <1>1, <2>1, <2>6, <3>2
    <3> QED BY <3>3, <3>4
  <2>9. LinkOK' /\ ReaderOK'
    BY <1>1, <1>2, <2>1, <2>6
  <2> QED BY <2>5, <2>6, <2>7, <2>8, <2>9
<1>3. CASE ~HasReader
  <2>1. office' = "sigpipe" /\ UNCHANGED Data
    BY <1>1, <1>3 DEF WriteInt, Data
  <2> QED BY <1>1, <1>3, <2>1, SameData DEF Data
<1> QED BY <1>2, <1>3

\* What nobody has open is emptied: nothing of it will be missed.
LEMMA DropInv == ASSUME IInv, ServerDies \/ ParentKillsChild PROVE IInv'
<1> USE DEF IInv, Types, TypeOK, Process, ChildPc, ParentPc, Ended, OfficeOK, SemOK,
            ParentHasSem, ChildOK, ParentOK, LinkOK, ReaderOK, HasReader, HasWriter,
            ChildHasFifo, ParentHasFifo, server, clientVars, books, Goto, Alive
<1>1. fifo' \in {fifo, <<>>} /\ UNCHANGED <<answer, sent, left, cbook, clog>>
  BY DEF ServerDies, ParentKillsChild
<1>2. Types' /\ FifoOK' /\ BooksOK' /\ Logged' = Logged
  <2>1. BooksOK' = BooksOK /\ Logged' = Logged
    BY <1>1 DEF BooksOK, Logged, Seats
  <2>2. fifo' \in Seq(Int) /\ Len(fifo') <= sent
    <3>1. <<>> \in Seq(Int) /\ Len(<<>>) = 0 /\ sent >= 0
      BY AnswerType, EmptySeq
    <3> QED BY <1>1, <3>1
  <2>3. FifoOK'
    <3>1. CASE fifo' = fifo
      BY <1>1, <3>1 DEF FifoOK, Taken
    <3>2. CASE fifo' = <<>>
      <4>1. Len(fifo') = 0
        BY <3>2
      <4> QED BY <4>1 DEF FifoOK
    <3> QED BY <1>1, <3>1, <3>2
  <2>4. CASE ServerDies
    BY <1>1, <2>1, <2>2, <2>3, <2>4 DEF ServerDies
  <2>5. CASE ParentKillsChild
    BY <1>1, <2>1, <2>2, <2>3, <2>5 DEF ParentKillsChild
  <2> QED BY <2>4, <2>5
<1>3. fifo' = fifo => UNCHANGED Data
  BY <1>1 DEF Data
<1>4. CASE ServerDies
  <2>1. CASE fifo' = fifo
    BY <1>2, <1>3, <1>4, <2>1, SameData DEF ServerDies
  <2>2. CASE fifo' # fifo
    <3>1. fifo # <<>> /\ fifo' = <<>> /\ ~HasReader
      BY <1>1, <1>4, <2>2 DEF ServerDies
    <3>2. sent # 0
      BY <3>1
    <3>3. /\ pc["child"] \in {"killed", "readError", "done"}
          /\ pc["parent"] \notin {"code", "count", "seats"}
      BY <3>1, <3>2
    <3> QED BY <1>1, <1>2, <1>4, <3>1, <3>2, <3>3 DEF ServerDies
  <2> QED BY <2>1, <2>2
<1>5. CASE ParentKillsChild
  <2>1. /\ pc["parent"] = "kill" /\ pc'["parent"] = "open"
        /\ pc["child"] \in ChildPc \cup {"readError"}
        /\ pc'["child"] = IF pc["child"] = "readError" THEN "readError" ELSE "killed"
        /\ UNCHANGED <<office, linked, sem, interrupted>>
    BY <1>5 DEF ParentKillsChild
  <2>2. CASE fifo' = fifo
    <3>1. AtSeats("child") => SeatsTaken
      BY DEF AtSeats
    <3>2. fifo # <<>> => Untouched \/ CodeTaken \/ SeatsTaken
      BY <2>1, <3>1
    <3> QED BY <1>2, <1>3, <1>5, <2>1, <2>2, <3>2, SameData DEF ParentKillsChild
  <2>3. CASE fifo' # fifo
    BY <1>1, <1>2, <1>5, <2>1, <2>3 DEF ParentKillsChild
  <2> QED BY <2>2, <2>3
<1> QED BY <1>4, <1>5

\* A process reads the verdict.  What a parent takes for one may be the count
\* or a seat, if it killed the child there.
LEMMA CodeInv ==
  ASSUME IInv, NEW p \in Process, ReadCode(p) PROVE IInv'
<1>0. answer[1] # AYE => Len(answer) = 1
  BY AnswerType DEF IInv, Types
<1> USE DEF IInv, Types, TypeOK, Process, ChildPc, ParentPc, Ended, OfficeOK, SemOK,
            ParentHasSem, ChildOK, ParentOK, LinkOK, ReaderOK, HasReader, HasWriter,
            ChildHasFifo, ParentHasFifo, server, clientVars, books, Goto, Alive
<1>1. /\ fifo # <<>> /\ fifo' = Tail(fifo) /\ pc[p] = "code"
      /\ pc' = [pc EXCEPT ![p] = IF Head(fifo) = AYE THEN "count" ELSE AfterReading(p)]
      /\ clog' = IF Head(fifo) = AYE THEN clog ELSE Append(clog, Head(fifo))
      /\ UNCHANGED <<answer, office, sent, linked, sem, left, cbook, interrupted>>
  BY DEF ReadCode
<1>2. /\ Head(fifo) = answer[Taken + 1] /\ Head(fifo) \in Int /\ Taken \in Nat
      /\ Taken + 1 <= Len(answer) /\ Taken' = Taken + 1
      /\ fifo' \in Seq(Int) /\ Len(fifo') = Len(fifo) - 1 /\ Len(fifo') \in Nat
      /\ FifoOK'
  BY <1>1, HeadTaken
<1>3. /\ Len(answer) \in Nat \ {0} /\ sent \in 0..Len(answer)
      /\ Taken' = sent - Len(fifo') /\ (Len(fifo') = 0 => fifo' = <<>>)
  BY <1>1, <1>2, AnswerType, EmptySeq DEF Taken
<1>4. clog' \in Seq(Int)
  BY <1>1, <1>2, AppendProperties
<1>5. Types' /\ BooksOK' /\ OfficeOK' /\ SemOK'
  <2>1. BooksOK'
    BY <1>1 DEF BooksOK
  <2>2. Types'
    BY <1>1, <1>2, <1>4, SMTT(30) DEF AfterReading
  <2>3. OfficeOK' /\ SemOK'
    BY <1>1 DEF AfterReading
  <2> QED BY <2>1, <2>2, <2>3
<1>6. CASE p = "child"
  <2>1. Taken = 0 /\ cbook = <<>> /\ clog = <<>>
    BY <1>1, <1>6 DEF Untouched
  <2>2. CASE Head(fifo) = AYE
    <3>1. CodeTaken'
      BY <1>1, <1>2, <2>1, <2>2 DEF CodeTaken
    <3>2. pc'["child"] = "count" /\ pc'["parent"] = pc["parent"] /\ clog' = <<>>
      BY <1>1, <1>6, <2>1, <2>2
    <3>3. linked' => ChildOK' /\ ParentOK'
      BY <1>1, <1>6, <3>1, <3>2
    <3>4. LinkOK' /\ ReaderOK' /\ linked'
      BY <1>1, <1>6, <3>2
    <3> QED BY <1>2, <1>5, <3>3, <3>4
  <2>3. CASE Head(fifo) # AYE
    <3>1. Len(answer) = 1 /\ answer[1] # AYE
      <4>1. answer[1] # AYE
        BY <1>2, <2>1, <2>3
      <4> QED BY <1>0, <4>1
    <3>2. sent = Len(answer) /\ fifo' = <<>>
      BY <1>2, <1>3, <2>1, <3>1
    <3>3. clog' = answer
      <4>1. clog' = <<answer[1]>>
        BY <1>1, <1>2, <2>1, <2>3
      <4>2. answer \in Seq(Int)
        BY AnswerType
      <4> QED BY <3>1, <4>1, <4>2
    <3>4. Logged'
      BY <1>1, <3>1, <3>3 DEF Logged
    <3>5. pc'["child"] = "unlink" /\ pc'["parent"] = pc["parent"]
      BY <1>1, <1>6, <2>3 DEF AfterReading
    <3>6. linked' => ChildOK' /\ ParentOK'
      BY <1>1, <1>6, <3>2, <3>3, <3>4, <3>5
    <3>7. LinkOK' /\ ReaderOK' /\ linked'
      BY <1>1, <1>6, <3>4, <3>5
    <3> QED BY <1>2, <1>5, <3>6, <3>7
  <2> QED BY <2>2, <2>3
<1>7. CASE p = "parent"
  <2>1. Untouched \/ CodeTaken \/ SeatsTaken
    BY <1>1, <1>7
  <2>2. pc["child"] = "killed" /\ pc'["child"] = "killed"
    BY <1>1, <1>7
  <2>3. CASE Head(fifo) = AYE
    <3>1. fifo' # <<>> => CodeTaken'
      <4>1. CASE Untouched
        BY <1>1, <1>2, <2>3, <4>1 DEF Untouched, CodeTaken
      <4>2. CASE CodeTaken
        <5>1. Taken = 1 /\ answer[1] = AYE /\ answer[2] = 0
          BY <1>2, <2>3, <4>2 DEF CodeTaken, AYE
        <5>2. Len(answer) = 2
          BY <5>1, AnswerType
        <5> QED BY <1>2, <1>3, <5>1, <5>2
      <4>3. CASE SeatsTaken
        <5>1. Len(cbook) \in Nat /\ Taken + 1 \in 3..Len(answer)
          BY <1>2, <1>3, <4>3, LenProperties DEF SeatsTaken
        <5>2. answer[Taken + 1] > 0
          BY <5>1, AnswerType
        <5> QED BY <1>2, <2>3, <5>2 DEF AYE
      <4> QED BY <2>1, <4>1, <4>2, <4>3
    <3>2. pc'["parent"] = "count"
      BY <1>1, <1>7, <2>3
    <3>3. ChildOK' /\ ParentOK'
      BY <2>2, <3>1, <3>2
    <3>4. LinkOK' /\ ReaderOK'
      BY <1>1, <1>7, <3>2
    <3> QED BY <1>2, <1>5, <3>3, <3>4
  <2>4. CASE Head(fifo) # AYE
    <3>1. pc'["parent"] = "post"
      BY <1>1, <1>7, <2>4 DEF AfterReading
    <3>2. ChildOK' /\ ParentOK'
      BY <2>2, <3>1
    <3>3. LinkOK' /\ ReaderOK'
      BY <1>1, <1>7, <3>1
    <3> QED BY <1>2, <1>5, <3>2, <3>3
  <2> QED BY <2>3, <2>4
<1> QED BY <1>6, <1>7

\* A process reads the number of seats.
LEMMA CountInv ==
  ASSUME IInv, NEW p \in Process, ReadCount(p) PROVE IInv'
<1>1. /\ fifo # <<>> /\ fifo' = Tail(fifo) /\ pc[p] = "count"
      /\ pc' = [pc EXCEPT ![p] = IF Head(fifo) > 0 THEN "seats" ELSE AfterReading(p)]
      /\ left' = [left EXCEPT ![p] = Head(fifo)]
      /\ UNCHANGED <<answer, office, sent, linked, sem, cbook, clog, interrupted>>
  BY DEF ReadCount, Goto, server
<1>2. /\ Head(fifo) = answer[Taken + 1] /\ Taken' = Taken + 1
      /\ fifo' \in Seq(Int) /\ Len(fifo') = Len(fifo) - 1 /\ Len(fifo') \in Nat
      /\ FifoOK'
  BY <1>1, HeadTaken DEF IInv
<1>3. /\ Taken = 1 /\ cbook = <<>> /\ answer[1] = AYE
      /\ answer \in Seq(Int) /\ Len(answer) \in Nat
      /\ Head(fifo) = answer[2] /\ answer[2] \in Nat /\ answer[2] = Len(answer) - 2
      /\ sent \in 0..Len(answer) /\ left \in [Process -> 0..Len(answer)]
  <2>1. CodeTaken
    BY <1>1 DEF IInv, ChildOK, ParentOK, Process
  <2>2. TypeOK
    BY DEF IInv, Types
  <2>3. /\ answer \in Seq(Int) /\ Len(answer) \in Nat
        /\ answer[1] = AYE => answer[2] \in Nat /\ answer[2] = Len(answer) - 2
    BY <2>2, AnswerType
  <2>4. sent \in 0..Len(answer) /\ left \in [Process -> 0..Len(answer)]
    BY <2>2 DEF TypeOK
  <2> HIDE DEF TypeOK
  <2> QED BY <1>2, <2>1, <2>3, <2>4 DEF CodeTaken
<1>4. Head(fifo) > 0 => AtSeats(p)'
  <2> SUFFICES ASSUME Head(fifo) > 0 PROVE AtSeats(p)'
    OBVIOUS
  <2>1. Taken' = 2 /\ cbook' = <<>> /\ Len(cbook') = 0
    BY <1>1, <1>2, <1>3
  <2>2. left'[p] = answer[2] /\ answer[2] > 0
    BY <1>1, <1>3
  <2> QED BY <1>1, <1>3, <2>1, <2>2 DEF AtSeats, SeatsTaken
<1>5. ~(Head(fifo) > 0) => sent = Len(answer) /\ fifo' = <<>> /\ Logged'
  <2> SUFFICES ASSUME ~(Head(fifo) > 0)
               PROVE  sent = Len(answer) /\ fifo' = <<>> /\ Logged'
    OBVIOUS
  <2>1. Len(answer) = 2
    <3>1. answer[2] = 0 \/ answer[2] > 0
      <4>1. \A n \in Nat : n = 0 \/ n > 0
        OBVIOUS
      <4> QED BY <1>3, <4>1
    <3>2. answer[2] = 0
      BY <1>3, <3>1
    <3>3. Len(answer) - 2 = 0
      BY <1>3, <3>2
    <3> QED BY <1>3, <3>3
  <2>2. Len(fifo') = 0 /\ sent = 2
    BY <1>1, <1>2, <1>3, <2>1 DEF Taken
  <2>3. Len(cbook) = 0 /\ cbook \in Seq(Int)
    BY <1>3
  <2>4. cbook = SubSeq(answer, 3, Len(answer))
    BY <1>3, <2>1, <2>3, SeatsPrefix
  <2> QED BY <1>1, <1>2, <1>3, <2>1, <2>2, <2>4, EmptySeq DEF Logged, Seats
<1>6. left' \in [Process -> 0..Len(answer)]
  <2>1. Head(fifo) \in 0..Len(answer)
    BY <1>3
  <2> QED BY <1>1, <1>3, <2>1
<1> USE DEF IInv, Types, TypeOK, Process, ChildPc, ParentPc, Ended, OfficeOK, SemOK,
            ParentHasSem, ChildOK, ParentOK, LinkOK, ReaderOK, HasReader, HasWriter,
            ChildHasFifo, ParentHasFifo, server, clientVars, books, Goto, Alive
<1>7. Types' /\ BooksOK' /\ OfficeOK' /\ SemOK'
  <2>1. BooksOK'
    BY <1>1 DEF BooksOK
  <2>2. Types'
    BY <1>1, <1>2, <1>6 DEF AfterReading
  <2>3. OfficeOK' /\ SemOK'
    BY <1>1 DEF AfterReading
  <2> QED BY <2>1, <2>2, <2>3
<1>8. CASE Head(fifo) > 0
  <2>1. pc' = [pc EXCEPT ![p] = "seats"]
    BY <1>1, <1>8
  <2>2. ChildOK' /\ ParentOK'
    BY <1>1, <1>4, <1>8, <2>1
  <2>3. LinkOK' /\ ReaderOK'
    BY <1>1, <2>1 DEF Logged, Seats
  <2> QED BY <1>2, <1>7, <2>2, <2>3
<1>9. CASE ~(Head(fifo) > 0)
  <2>1. pc' = [pc EXCEPT ![p] = AfterReading(p)]
    BY <1>1, <1>9
  <2>2. ChildOK' /\ ParentOK'
    BY <1>1, <1>5, <1>9, <2>1 DEF AfterReading
  <2>3. LinkOK' /\ ReaderOK'
    BY <1>1, <1>5, <1>9, <2>1 DEF AfterReading
  <2> QED BY <1>2, <1>7, <2>2, <2>3
<1> QED BY <1>8, <1>9

\* A process reads a seat and writes it to cbook.txt.
LEMMA SeatInv ==
  ASSUME IInv, NEW p \in Process, ReadSeat(p) PROVE IInv'
<1>1. /\ fifo # <<>> /\ fifo' = Tail(fifo) /\ pc[p] = "seats"
      /\ pc' = [pc EXCEPT ![p] = IF left[p] > 1 THEN "seats" ELSE AfterReading(p)]
      /\ left' = [left EXCEPT ![p] = left[p] - 1]
      /\ cbook' = Append(cbook, Head(fifo))
      /\ UNCHANGED <<answer, office, sent, linked, sem, clog, interrupted>>
  BY DEF ReadSeat, Goto, server
<1>2. /\ Head(fifo) = answer[Taken + 1] /\ Head(fifo) \in Int
      /\ Taken + 1 <= Len(answer) /\ Taken' = Taken + 1
      /\ fifo' \in Seq(Int) /\ Len(fifo') = Len(fifo) - 1 /\ Len(fifo') \in Nat
      /\ FifoOK'
  BY <1>1, HeadTaken DEF IInv
<1>3. /\ Taken = 2 + Len(cbook) /\ answer[1] = AYE
      /\ cbook \in Seq(Int) /\ Len(cbook) \in Nat
      /\ answer \in Seq(Int) /\ Len(answer) \in Nat
      /\ answer[2] \in Nat /\ answer[2] = Len(answer) - 2
      /\ left[p] = answer[2] - Len(cbook) /\ left[p] > 0 /\ left[p] \in Nat
      /\ sent \in 0..Len(answer) /\ left \in [Process -> 0..Len(answer)]
  <2>1. AtSeats(p)
    BY <1>1 DEF IInv, ChildOK, ParentOK, Process
  <2>2. TypeOK /\ cbook \in Seq(Int)
    BY DEF IInv, Types
  <2>3. Len(cbook) \in Nat
    BY <2>2, LenProperties
  <2>4. /\ answer \in Seq(Int) /\ Len(answer) \in Nat /\ answer[1] = AYE
        /\ answer[2] \in Nat /\ answer[2] = Len(answer) - 2
    BY <2>1, <2>2, AnswerType DEF AtSeats, SeatsTaken
  <2>5. left \in [Process -> 0..Len(answer)] /\ sent \in 0..Len(answer)
    BY <2>2 DEF TypeOK
  <2>6. left[p] \in Nat
    BY <2>4, <2>5
  <2> QED BY <2>1, <2>2, <2>3, <2>4, <2>5, <2>6 DEF AtSeats, SeatsTaken
<1>4. /\ cbook' \in Seq(Int) /\ Len(cbook') = Len(cbook) + 1
      /\ Len(cbook') <= Len(answer) - 2
      /\ \A k \in 1..Len(cbook') : cbook'[k] = answer[k + 2]
  <2>1. /\ cbook' \in Seq(Int) /\ Len(cbook') = Len(cbook) + 1
        /\ cbook'[Len(cbook) + 1] = Head(fifo)
        /\ \A k \in 1..Len(cbook) : cbook'[k] = cbook[k]
    BY <1>1, <1>2, <1>3, AppendProperties, LenProperties
  <2>2. ASSUME NEW k \in 1..Len(cbook') PROVE cbook'[k] = answer[k + 2]
    <3>1. CASE k \in 1..Len(cbook)
      BY <2>1, <3>1 DEF IInv, BooksOK
    <3>2. CASE k = Len(cbook) + 1
      <4>1. k + 2 = Taken + 1
        BY <1>3, <3>2
      <4> QED BY <1>2, <2>1, <3>2, <4>1
    <3> QED BY <1>3, <2>1, <3>1, <3>2
  <2>3. Len(cbook') <= Len(answer) - 2
    BY <1>2, <1>3, <2>1
  <2> QED BY <2>1, <2>2, <2>3
<1>5. left[p] > 1 => AtSeats(p)'
  <2> SUFFICES ASSUME left[p] > 1 PROVE AtSeats(p)'
    OBVIOUS
  <2>1. Taken' = 2 + Len(cbook')
    BY <1>2, <1>3, <1>4
  <2>2. left'[p] = left[p] - 1
    BY <1>1, <1>3
  <2>3. left'[p] = answer[2] - Len(cbook') /\ left'[p] > 0
    BY <1>3, <1>4, <2>2
  <2> QED BY <1>1, <1>3, <2>1, <2>3 DEF AtSeats, SeatsTaken
<1>6. ~(left[p] > 1) => sent = Len(answer) /\ fifo' = <<>> /\ Logged'
  <2> SUFFICES ASSUME ~(left[p] > 1)
               PROVE  sent = Len(answer) /\ fifo' = <<>> /\ Logged'
    OBVIOUS
  <2>1. Len(cbook') = Len(answer) - 2 /\ Len(answer) >= 2
    BY <1>3, <1>4
  <2>2. Len(fifo') = 0 /\ sent = Len(answer)
    <3> HIDE DEF IInv, TypeOK, Types
    <3>1. sent - Len(fifo) = 2 + Len(cbook)
      BY <1>3 DEF Taken
    <3>2. Len(cbook) + 1 = Len(answer) - 2
      BY <1>4, <2>1
    <3>3. Len(fifo) \in Nat
      BY <1>1, LenProperties DEF IInv, Types
    <3>4. /\ sent \in Nat /\ Len(cbook) \in Nat /\ Len(answer) \in Nat
          /\ sent <= Len(answer)
      BY <1>3
    <3>5. Len(fifo') = Len(fifo) - 1 /\ Len(fifo') \in Nat
      BY <1>2
    <3> QED BY <3>1, <3>2, <3>3, <3>4, <3>5
  <2>3. cbook' = SubSeq(answer, 3, Len(answer))
    BY <1>3, <1>4, <2>1, SeatsPrefix
  <2>4. fifo' = <<>>
    BY <1>3, <2>2, EmptySeq
  <2>5. Logged'
    BY <1>1, <1>3, <2>3 DEF Logged, Seats
  <2> QED BY <2>2, <2>4, <2>5
<1>7. left' \in [Process -> 0..Len(answer)]
  <2>1. left[p] - 1 \in 0..Len(answer)
    BY <1>3
  <2> QED BY <1>1, <1>3, <2>1
<1> USE DEF IInv, Types, TypeOK, Process, ChildPc, ParentPc, Ended, OfficeOK, SemOK,
            ParentHasSem, ChildOK, ParentOK, LinkOK, ReaderOK, HasReader, HasWriter,
            ChildHasFifo, ParentHasFifo, server, clientVars, books, Goto, Alive
<1>8. Types' /\ BooksOK' /\ OfficeOK' /\ SemOK'
  <2>1. BooksOK'
    BY <1>1, <1>3, <1>4 DEF BooksOK
  <2>2. Types'
    <3>1. TypeOK'
      <4>1. Len(fifo') <= sent
        <5> HIDE DEF IInv, Types, TypeOK
        <5> QED BY <1>2, <1>3 DEF Taken
      <4> QED BY <1>1, <1>7, <4>1 DEF AfterReading
    <3>2. pc' \in [Process -> ChildPc \cup ParentPc \cup Ended]
      BY <1>1 DEF AfterReading
    <3> HIDE DEF IInv, TypeOK, ChildPc, ParentPc, Ended, Process
    <3>3. fifo' \in Seq(Int) /\ cbook' \in Seq(Int) /\ clog' \in Seq(Int)
      BY <1>1, <1>2, <1>4 DEF IInv
    <3> QED BY <3>1, <3>2, <3>3
  <2>3. OfficeOK' /\ SemOK'
    BY <1>1 DEF AfterReading
  <2> QED BY <2>1, <2>2, <2>3
<1>9. CASE left[p] > 1
  <2>1. pc' = [pc EXCEPT ![p] = "seats"]
    BY <1>1, <1>9
  <2>2. ChildOK' /\ ParentOK'
    BY <1>1, <1>5, <1>9, <2>1
  <2>3. linked /\ linked'
    BY <1>1
  <2>4. LinkOK' /\ ReaderOK'
    BY <1>1, <2>1, <2>3
  <2> QED BY <1>2, <1>8, <2>2, <2>4
<1>10. CASE ~(left[p] > 1)
  <2>1. pc' = [pc EXCEPT ![p] = AfterReading(p)]
    BY <1>1, <1>10
  <2>2. ChildOK' /\ ParentOK'
    BY <1>1, <1>6, <1>10, <2>1 DEF AfterReading
  <2>3. LinkOK' /\ ReaderOK'
    BY <1>1, <1>6, <1>10, <2>1 DEF AfterReading
  <2> QED BY <1>2, <1>8, <2>2, <2>3
<1> QED BY <1>9, <1>10

-----------------------------------------------------------------------------
(* The theorems                                                            *)

\* IInv is inductive.
THEOREM Invariance == Spec => []IInv
<1>1. IInv /\ [Next]_vars => IInv'
  <2> SUFFICES ASSUME IInv, [Next]_vars PROVE IInv'
    OBVIOUS
  <2>1. ASSUME NEW p \in Process, ReadStep(p) PROVE IInv'
    BY <2>1, CodeInv, CountInv, SeatInv DEF ReadStep
  <2>2. CASE SendResponse \/ OfficeStep \/ ServerDies
    BY <2>2, OfficeInv, WriteInv, DropInv DEF OfficeStep
  <2>3. CASE ChildStep
    BY <2>1, <2>3, ChildInv DEF ChildStep, Process
  <2>4. CASE ParentStep \/ KilledFromOutside
    BY <2>1, <2>4, ParentInv, DropInv DEF ParentStep, Process
  <2>5. CASE UNCHANGED vars
    <3>1. UNCHANGED Data
      BY <2>5 DEF Data, vars, server, clientVars, books
    <3> QED BY <2>5, <3>1, SameData
         DEF IInv, Types, TypeOK, OfficeOK, SemOK, ParentHasSem, ChildOK, ParentOK,
             LinkOK, ReaderOK, HasReader, ChildHasFifo, ParentHasFifo, vars,
             server, clientVars, books
  <2> QED BY <2>2, <2>3, <2>4, <2>5 DEF Next
<1> QED BY InitInv, <1>1, PTL DEF Spec

\* Types, for answers of any length: neither process ever counts more seats
\* than the answer has.
THEOREM TypeCorrect == Spec => []TypeOK
<1>1. IInv => TypeOK
  BY DEF IInv, Types
<1> QED BY Invariance, <1>1, PTL

\* cbook.txt is a prefix of the seats booked, clog.txt the office's verdict, for
\* any answer and however reading is split between the two processes.
THEOREM BooksAreAnswerHolds == Spec => []BooksAreAnswer
<1>1. IInv => BooksAreAnswer
  <2> SUFFICES ASSUME IInv PROVE BooksAreAnswer
    OBVIOUS
  <2>1. /\ answer \in Seq(Int) /\ cbook \in Seq(Int) /\ Len(answer) \in Nat
        /\ answer[1] = AYE => Len(answer) >= 2
        /\ BooksOK
    BY AnswerType DEF IInv, Types
  <2>2. cbook = SubSeq(Seats, 1, Len(cbook))
    <3>1. CASE cbook = <<>>
      BY <2>1, <3>1 DEF Seats
    <3>2. CASE cbook # <<>>
      BY <2>1, <3>2, SeatsPrefix DEF BooksOK, Seats
    <3> QED BY <3>1, <3>2
  <2>3. clog # <<>> /\ pc["child"] # "killed" => clog = answer
    BY DEF IInv, ChildOK
  <2> QED BY <2>2, <2>3 DEF BooksAreAnswer
<1> QED BY Invariance, <1>1, PTL

\* A client ended by its child, or for want of its FIFO, has logged the answer.
THEOREM EndedByAnswerHolds == Spec => []EndedByAnswer
<1>1. IInv => EndedByAnswer
  BY DEF IInv, ChildOK, LinkOK, EndedByAnswer
<1> QED BY Invariance, <1>1, PTL

\* Up to the parent's sem_post an office that writes has a reader.
THEOREM NoEarlySigpipeHolds == Spec => []NoEarlySigpipe
<1>1. IInv => NoEarlySigpipe
  BY DEF IInv, ReaderOK, NoEarlySigpipe
<1> QED BY Invariance, <1>1, PTL

\* Only a kill leaves the semaphore of the answer taken.
THEOREM SemLeftTakenHolds == Spec => []SemLeftTaken
<1>1. IInv => SemLeftTaken
  BY DEF IInv, SemOK, ParentHasSem, ClientOver, Alive, Ended, SemLeftTaken
<1> QED BY Invariance, <1>1, PTL
=============================================================================
