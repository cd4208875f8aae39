--------------------------- MODULE Launcher_proofs ---------------------------
(***************************************************************************)
(* Proofs about Launcher for any configuration files, any lines the user   *)
(* may type and any number of Ctrl+C.  The inductive invariant IInv says   *)
(* who may still be alive when, and what the LEADER's exit status knows of *)
(* the clients it waited for.                                              *)
(***************************************************************************)
EXTENDS Launcher, InductionLemmas, SequenceTheorems

ClientState == {"running", "zombie", "collected", "awaited", "killed"}

\* The handler reads whole lines: what is left in the input ends with one.
InputOK == stdin # <<>> => stdin[Len(stdin)] = Newline

\* The LEADER before it has a group of its own.
Early == {"none", "inherited", "default"}

\* read_client_info's count is ahead of the clients only while one is read.
CountOK ==
  /\ leader \in Early => child = <<>>
  /\ leader \in Early \cup {"loop", "reap"} => seq_no = Len(child)
  /\ leader = "create" => seq_no = Len(child) + 1

\* The PARENT forks once, outlives the LEADER or kills it, and is interrupted
\* only when the LEADER is out of its group.
RolesOK ==
  /\ parent = "fork" => leader = "none" /\ ~sigint
  /\ leader = "none" => parent \in {"fork", "returned"}
  /\ parent = "returned" => leader \in {"none", "gone"}
  /\ leader = "gone" => parent = "returned"
  /\ parent = "asking" \/ sigint => leader \notin Early
  /\ parent = "confirmed" => leader \in {"zombie", "killed"}
  /\ leader = "killed" => parent = "confirmed"

\* A status of zero means that the LEADER has waited for every client.
StatusOK ==
  /\ success["leader"] => /\ leader \in {"zombie", "gone"}
                          /\ NoneIn({"running", "zombie"})
  /\ parent = "fork" => ~success["parent"]
  /\ parent = "returned" /\ success["parent"] => success["leader"]
  /\ leader = "killed" => NoneIn({"running"})

\* The last call of handle_zombies remembers a failure.
AwaitedOK ==
  \A c \in DOMAIN child : child[c] = "awaited" =>
    /\ leader \in {"final", "zombie", "gone", "killed"}
    /\ leader = "final" => childOk[c] \/ zombieRet
    /\ success["leader"] => childOk[c]

\* The inductive invariant.
IInv == TypeOK /\ InputOK /\ CountOK /\ RolesOK /\ StatusOK /\ AwaitedOK

-----------------------------------------------------------------------------
(* The user's input                                                        *)

\* What is left of complete lines ends with a newline, or nothing is left.
LEMMA RestOfInput ==
  ASSUME TypeOK, InputOK, HasAnswer
  PROVE  /\ AfterAnswer \in Seq(Keys)
         /\ AfterAnswer # <<>> => AfterAnswer[Len(AfterAnswer)] = Newline
<1>1. stdin \in Seq(Keys) /\ Len(stdin) \in Nat /\ Len(stdin) >= 2
  BY LenProperties DEF TypeOK, HasAnswer
<1>2. stdin # <<>> /\ stdin[Len(stdin)] = Newline
  BY <1>1, EmptySeq DEF InputOK
<1>3. EndOfLine \in 2..Len(stdin)
  <2> DEFINE First(k) == /\ stdin[k] = Newline
                         /\ \A j \in 2..(k - 1) : stdin[j] # Newline
             Q == {k \in 2..Len(stdin) : stdin[k] = Newline}
  <2>1. \E k \in 2..Len(stdin) : First(k)
    <3>1. Len(stdin) \in Q /\ Q \subseteq Nat
      BY <1>1, <1>2
    <3>2. PICK k \in Q : \A j \in Q : k <= j
      BY <3>1, LeastNatural
    <3>3. ASSUME NEW j \in 2..(k - 1) PROVE stdin[j] # Newline
      BY <1>1, <3>1, <3>2
    <3> QED BY <3>2, <3>3
  <2> QED BY <2>1 DEF EndOfLine
<1>4. CASE EndOfLine = 2
  <2>1. AfterAnswer = Tail(stdin)
    BY <1>4 DEF AfterAnswer
  <2>2. /\ Tail(stdin) \in Seq(Keys) /\ Len(Tail(stdin)) = Len(stdin) - 1
        /\ \A k \in 1..Len(Tail(stdin)) : Tail(stdin)[k] = stdin[k + 1]
    BY <1>1, <1>2, HeadTailProperties
  <2>3. Tail(stdin)[Len(stdin) - 1] = stdin[Len(stdin)]
    BY <1>1, <2>2
  <2> QED BY <1>2, <2>1, <2>2, <2>3
<1>5. CASE EndOfLine # 2
  <2> DEFINE e == EndOfLine
             s == SubSeq(stdin, e + 1, Len(stdin))
  <2>1. e \in 2..Len(stdin) /\ AfterAnswer = s
    BY <1>3, <1>5 DEF AfterAnswer
  <2> HIDE DEF e
  <2>2. \A k \in (e + 1)..Len(stdin) : stdin[k] \in Keys
    BY <1>1, <2>1, ElementOfSeq
  <2>3. /\ s \in Seq(Keys)
        /\ Len(s) = IF e + 1 <= Len(stdin) THEN Len(stdin) - (e + 1) + 1 ELSE 0
        /\ \A k \in 1..(Len(stdin) - (e + 1) + 1) : s[k] = stdin[(e + 1) + k - 1]
    BY <1>1, <2>1, <2>2, SubSeqProperties
  <2> HIDE DEF s
  <2>4. CASE e = Len(stdin)
    BY <1>1, <2>1, <2>3, <2>4, EmptySeq
  <2>5. CASE e < Len(stdin)
    <3>1. Len(s) = Len(stdin) - e /\ Len(s) \in 1..(Len(stdin) - (e + 1) + 1)
      BY <1>1, <2>1, <2>3, <2>5
    <3>2. (e + 1) + Len(s) - 1 = Len(stdin)
      BY <1>1, <2>1, <3>1
    <3> QED BY <1>2, <2>1, <2>3, <3>1, <3>2
  <2> QED BY <1>1, <2>1, <2>4, <2>5
<1> QED BY <1>4, <1>5

\* A typed line completes what is left of the ones before.
LEMMA MoreInput ==
  ASSUME TypeOK, NEW l \in TypedLines
  PROVE  /\ stdin \o l \in Seq(Keys) /\ l[1] \in Keys
         /\ (stdin \o l)[Len(stdin \o l)] = Newline
<1>1. stdin \in Seq(Keys) /\ l \in Seq(Keys) /\ l # <<>> /\ l[Len(l)] = Newline
  BY LauncherAssumption DEF TypeOK
<1>2. Len(stdin) \in Nat /\ Len(l) \in Nat \ {0}
  BY <1>1, LenProperties, EmptySeq
<1>3. /\ stdin \o l \in Seq(Keys) /\ Len(stdin \o l) = Len(stdin) + Len(l)
      /\ (stdin \o l)[Len(stdin) + Len(l)] = l[Len(l)]
  BY <1>1, <1>2, ConcatProperties
<1> QED BY <1>1, <1>2, <1>3, ElementOfSeq

-----------------------------------------------------------------------------
(* The list of the clients                                                 *)

\* A new client joins at the end.
LEMMA NewClient ==
  ASSUME TypeOK, child' = Append(child, "running"),
         childOk' = Append(childOk, FALSE)
  PROVE  /\ child' \in Seq(ClientState) /\ childOk' \in Seq(BOOLEAN)
         /\ Len(child) \in Nat /\ Len(child') = Len(child) + 1
         /\ Len(childOk') = Len(child')
         /\ DOMAIN child' = DOMAIN child \cup {Len(child')}
         /\ child'[Len(child')] = "running"
         /\ \A c \in DOMAIN child : child'[c] = child[c] /\ childOk'[c] = childOk[c]
<1>1. child \in Seq(ClientState) /\ childOk \in Seq(BOOLEAN) /\ Len(childOk) = Len(child)
  BY DEF TypeOK, ClientState
<1>2. "running" \in ClientState /\ FALSE \in BOOLEAN
  BY DEF ClientState
<1>3. /\ child' \in Seq(ClientState) /\ Len(child') = Len(child) + 1
      /\ child'[Len(child) + 1] = "running"
      /\ \A c \in 1..Len(child) : child'[c] = child[c]
  BY <1>1, <1>2, AppendProperties
<1>4. /\ childOk' \in Seq(BOOLEAN) /\ Len(childOk') = Len(childOk) + 1
      /\ \A c \in 1..Len(childOk) : childOk'[c] = childOk[c]
  <2> DEFINE q == childOk
  <2>1. q \in Seq(BOOLEAN) /\ FALSE \in BOOLEAN /\ childOk' = Append(q, FALSE)
    BY <1>1, <1>2
  <2> HIDE DEF q
  <2>2. /\ Append(q, FALSE) \in Seq(BOOLEAN) /\ Len(Append(q, FALSE)) = Len(q) + 1
        /\ \A c \in 1..Len(q) : Append(q, FALSE)[c] = q[c]
    BY <2>1, AppendProperties
  <2> QED BY <2>1, <2>2 DEF q
<1>5. /\ DOMAIN child = 1..Len(child) /\ DOMAIN child' = 1..Len(child')
      /\ Len(child) \in Nat
  BY <1>1, <1>3, LenProperties
<1>6. DOMAIN child' = DOMAIN child \cup {Len(child) + 1}
  BY <1>3, <1>5
<1>7. /\ Len(child') = Len(child) + 1 /\ Len(childOk') = Len(child')
      /\ child'[Len(child')] = "running"
  BY <1>1, <1>3, <1>4
<1>8. \A c \in DOMAIN child : child'[c] = child[c] /\ childOk'[c] = childOk[c]
  BY <1>1, <1>3, <1>4, <1>5
<1> QED BY <1>3, <1>4, <1>5, <1>6, <1>7, <1>8

\* One client changes its state.
LEMMA ClientChanges ==
  ASSUME TypeOK, NEW c \in DOMAIN child, NEW s \in ClientState,
         child' = [child EXCEPT ![c] = s]
  PROVE  /\ child' \in Seq(ClientState) /\ Len(child') = Len(child)
         /\ DOMAIN child' = DOMAIN child /\ child'[c] = s
         /\ \A d \in DOMAIN child : d # c => child'[d] = child[d]
<1>1. child \in Seq(ClientState)
  BY DEF TypeOK, ClientState
<1>2. c \in 1..Len(child) /\ DOMAIN child = 1..Len(child)
  BY <1>1, LenProperties
<1>3. child' \in Seq(ClientState) /\ Len(child') = Len(child)
  BY <1>1, <1>2, ExceptSeq
<1> QED BY <1>2, <1>3

-----------------------------------------------------------------------------
(* The steps                                                               *)

\* Nothing is started yet.
LEMMA InitInv == Init => IInv
<1> SUFFICES ASSUME Init PROVE IInv
  OBVIOUS
<1>1. child = <<>> /\ childOk = <<>> /\ stdin = <<>> /\ input \in Seq(Entry)
  BY LauncherAssumption DEF Init
<1>2. /\ child \in Seq(ClientState) /\ childOk \in Seq(BOOLEAN) /\ stdin \in Seq(Keys)
      /\ Len(child) = 0 /\ Len(childOk) = 0 /\ DOMAIN child = {}
  BY <1>1, EmptySeq
<1>3. TypeOK
  <2>1. seq_no \in 0..(Len(child) + 1) /\ interrupts \in 0..MaxInterrupts
    BY <1>2, LauncherAssumption DEF Init
  <2>2. success \in [{"leader", "parent"} -> BOOLEAN]
    BY DEF Init
  <2> QED BY <1>1, <1>2, <2>1, <2>2 DEF Init, TypeOK, ClientState
<1> QED BY <1>1, <1>2, <1>3 DEF Init, IInv, InputOK, CountOK, Early, RolesOK, StatusOK,
           NoneIn, AwaitedOK

\* The LEADER's steps that start and collect no client.
LEMMA LeaderInv ==
  ASSUME IInv,
         \/ DefaultHandler \/ JoinGroup \/ LeaderFails \/ ReadClient \/ ForkFails
         \/ EndReaping \/ EndWaiting
  PROVE  IInv'
<1> USE DEF IInv, TypeOK, InputOK, CountOK, Early, RolesOK, StatusOK, NoneIn, AwaitedOK,
            LeaderGoes, leaderVars, childVars, parentVars
<1>1. CASE DefaultHandler
  BY <1>1 DEF DefaultHandler
<1>2. CASE JoinGroup
  BY <1>2 DEF JoinGroup
<1>3. CASE LeaderFails
  BY <1>3 DEF LeaderFails
<1>4. CASE ReadClient
  <2>1. input' \in Seq(Entry)
    BY <1>4, HeadTailProperties DEF ReadClient
  <2>2. Len(child) \in Nat
    BY LenProperties
  <2>3. seq_no' = Len(child) + 1
    BY <1>4 DEF ReadClient
  <2>4. TypeOK'
    <3>1. ret' \in BOOLEAN /\ zombieRet' \in BOOLEAN
      <4> DEFINE found == EntryRead \in {"client", "bad"}
      <4>1. ret' = found /\ zombieRet' = FALSE
        BY <1>4 DEF ReadClient
      <4>2. found \in BOOLEAN
        OBVIOUS
      <4> HIDE DEF found
      <4> QED BY <4>1, <4>2
    <3>2. leader' \in {"create", "final"} /\ seq_no' \in 0..(Len(child) + 1)
      BY <1>4, <2>2, <2>3 DEF ReadClient
    <3> QED BY <1>4, <2>1, <3>1, <3>2 DEF ReadClient
  <2>5. CountOK'
    BY <1>4, <2>2, <2>3 DEF ReadClient
  <2>6. InputOK' /\ RolesOK' /\ StatusOK' /\ AwaitedOK'
    BY <1>4 DEF ReadClient
  <2> QED BY <2>4, <2>5, <2>6
<1>5. CASE ForkFails
  BY <1>5 DEF ForkFails
<1>6. CASE EndReaping
  BY <1>6 DEF EndReaping
<1>7. CASE EndWaiting
  BY <1>7 DEF EndWaiting
<1> QED BY <1>1, <1>2, <1>3, <1>4, <1>5, <1>6, <1>7

\* The LEADER starts a client.
LEMMA CreateInv == ASSUME IInv, CreateClient PROVE IInv'
<1>1. /\ child' = Append(child, "running") /\ childOk' = Append(childOk, FALSE)
      /\ leader = "create" /\ leader' = "reap" /\ zombieRet' = FALSE
      /\ UNCHANGED <<input, seq_no, ret, stopped, parent, stdin, typed, sigint,
                     interrupts, success>>
  BY DEF CreateClient, LeaderGoes, parentVars
<1>2. /\ child' \in Seq(ClientState) /\ childOk' \in Seq(BOOLEAN)
      /\ Len(child) \in Nat /\ Len(child') = Len(child) + 1
      /\ Len(childOk') = Len(child')
      /\ DOMAIN child' = DOMAIN child \cup {Len(child')}
      /\ child'[Len(child')] = "running"
      /\ \A c \in DOMAIN child : child'[c] = child[c] /\ childOk'[c] = childOk[c]
  BY <1>1, NewClient DEF IInv
<1>3. CountOK' /\ seq_no' \in 0..(Len(child') + 1)
  BY <1>1, <1>2 DEF IInv, CountOK, Early
<1>4. TypeOK'
  BY <1>1, <1>2, <1>3 DEF IInv, TypeOK, ClientState
<1>5. AwaitedOK'
  BY <1>1, <1>2 DEF IInv, AwaitedOK
<1> QED BY <1>1, <1>3, <1>4, <1>5 DEF IInv, InputOK, RolesOK, Early, StatusOK

\* The LEADER collects a client.
LEMMA ReapInv == ASSUME IInv, NEW c \in DOMAIN child, Reap(c) PROVE IInv'
<1> DEFINE s == IF leader = "reap" THEN "collected" ELSE "awaited"
<1>1. /\ leader \in {"reap", "final"} /\ child[c] = "zombie"
      /\ child' = [child EXCEPT ![c] = s]
      /\ zombieRet' = (zombieRet \/ ~childOk[c])
      /\ UNCHANGED <<input, seq_no, leader, ret, childOk, stopped, parent, stdin, typed,
                     sigint, interrupts, success>>
  BY DEF Reap, parentVars
<1>2. /\ child' \in Seq(ClientState) /\ Len(child') = Len(child)
      /\ DOMAIN child' = DOMAIN child /\ child'[c] = s
      /\ \A d \in DOMAIN child : d # c => child'[d] = child[d]
  <2>1. s \in ClientState
    BY DEF ClientState
  <2> HIDE DEF s
  <2> QED BY <1>1, <2>1, ClientChanges DEF IInv
<1>3. TypeOK' /\ CountOK'
  BY <1>1, <1>2 DEF IInv, TypeOK, CountOK, Early, ClientState
<1>4. StatusOK' /\ RolesOK' /\ InputOK'
  BY <1>1, <1>2 DEF IInv, InputOK, RolesOK, Early, StatusOK, NoneIn
<1>5. AwaitedOK'
  <2> SUFFICES ASSUME NEW d \in DOMAIN child, child'[d] = "awaited"
               PROVE  leader = "final" /\ (childOk[d] \/ zombieRet \/ ~childOk[c])
    BY <1>1, <1>2 DEF IInv, AwaitedOK, StatusOK
  <2>1. CASE d = c
    BY <1>1, <1>2, <2>1
  <2>2. CASE d # c
    BY <1>1, <1>2, <2>2 DEF IInv, AwaitedOK
  <2> QED BY <2>1, <2>2
<1> QED BY <1>3, <1>4, <1>5 DEF IInv

\* A client ends: nobody has waited for it yet.
LEMMA ClientInv == ASSUME IInv, NEW c \in DOMAIN child, ClientEnds(c) PROVE IInv'
<1>1. /\ child[c] = "running" /\ child' = [child EXCEPT ![c] = "zombie"]
      /\ UNCHANGED <<leaderVars, stopped, parentVars, success>>
  BY DEF ClientEnds
<1>2. PICK ok \in BOOLEAN : childOk' = [childOk EXCEPT ![c] = ok]
  BY DEF ClientEnds
<1>3. /\ child' \in Seq(ClientState) /\ Len(child') = Len(child)
      /\ DOMAIN child' = DOMAIN child /\ child'[c] = "zombie"
      /\ \A d \in DOMAIN child : d # c => child'[d] = child[d]
  BY <1>1, ClientChanges DEF IInv, ClientState
<1>4. /\ childOk' \in Seq(BOOLEAN) /\ Len(childOk') = Len(childOk)
      /\ \A d \in DOMAIN child : d # c => childOk'[d] = childOk[d]
  <2>1. /\ childOk \in Seq(BOOLEAN) /\ Len(childOk) = Len(child)
        /\ child \in Seq(ClientState)
    BY DEF IInv, TypeOK, ClientState
  <2>2. c \in 1..Len(childOk) /\ DOMAIN child = 1..Len(childOk)
    BY <2>1, LenProperties
  <2> QED BY <1>2, <2>1, <2>2, ExceptSeq
<1>5. TypeOK' /\ CountOK' /\ InputOK' /\ RolesOK'
  BY <1>1, <1>3, <1>4 DEF IInv, TypeOK, CountOK, InputOK, RolesOK, Early, ClientState,
     leaderVars, parentVars
<1>6. StatusOK'
  BY <1>1, <1>3 DEF IInv, StatusOK, NoneIn, leaderVars, parentVars
<1>7. AwaitedOK'
  BY <1>1, <1>3, <1>4 DEF IInv, AwaitedOK, leaderVars
<1> QED BY <1>5, <1>6, <1>7 DEF IInv

\* The PARENT forks, reaps, is interrupted, asks and goes on.
LEMMA ParentInv ==
  ASSUME IInv, ForkLeader \/ ReapLeader \/ Interrupt \/ AskUser \/ TypeLine \/ Resume
  PROVE  IInv'
<1> USE DEF IInv, TypeOK, InputOK, CountOK, Early, RolesOK, StatusOK, NoneIn, AwaitedOK,
            leaderVars, childVars, parentVars
<1>1. CASE ForkLeader
  <2>1. TypeOK'
    BY <1>1 DEF ForkLeader
  <2>2. InputOK' /\ CountOK'
    BY <1>1 DEF ForkLeader
  <2>3. RolesOK'
    BY <1>1 DEF ForkLeader
  <2>4. StatusOK' /\ AwaitedOK'
    BY <1>1 DEF ForkLeader
  <2> QED BY <2>1, <2>2, <2>3, <2>4
<1>2. CASE ReapLeader
  BY <1>2 DEF ReapLeader
<1>3. CASE Interrupt
  <2>1. interrupts' \in 0..MaxInterrupts
    BY <1>3, LauncherAssumption DEF Interrupt
  <2>2. TypeOK'
    BY <1>3, <2>1 DEF Interrupt
  <2>3. InputOK' /\ CountOK'
    BY <1>3 DEF Interrupt
  <2>4. RolesOK'
    BY <1>3 DEF Interrupt
  <2>5. StatusOK' /\ AwaitedOK'
    BY <1>3 DEF Interrupt
  <2> QED BY <2>2, <2>3, <2>4, <2>5
<1>4. CASE AskUser
  <2>1. TypeOK'
    BY <1>4 DEF AskUser
  <2>2. InputOK' /\ CountOK'
    BY <1>4 DEF AskUser
  <2>3. RolesOK'
    BY <1>4 DEF AskUser
  <2>4. StatusOK' /\ AwaitedOK'
    BY <1>4 DEF AskUser
  <2> QED BY <2>1, <2>2, <2>3, <2>4
<1>5. CASE TypeLine
  <2>1. PICK l \in TypedLines :
               /\ stdin' = stdin \o l
               /\ typed' = IF typed = "none" THEN l[1] ELSE typed
    BY <1>5 DEF TypeLine
  <2>2. /\ stdin' \in Seq(Keys) /\ stdin'[Len(stdin')] = Newline
        /\ typed' \in Keys \cup {"none"}
    BY <2>1, MoreInput DEF TypeOK
  <2> QED BY <1>5, <2>2 DEF TypeLine
<1>6. CASE Resume
  <2>1. /\ stdin' \in Seq(Keys)
        /\ stdin' # <<>> => stdin'[Len(stdin')] = Newline
    BY <1>6, RestOfInput DEF Resume
  <2>2. TypeOK'
    BY <1>6, <2>1 DEF Resume
  <2>3. InputOK' /\ CountOK'
    BY <1>6, <2>1 DEF Resume
  <2>4. RolesOK'
    BY <1>6 DEF Resume
  <2>5. StatusOK' /\ AwaitedOK'
    BY <1>6 DEF Resume
  <2> QED BY <2>2, <2>3, <2>4, <2>5
<1> QED BY <1>1, <1>2, <1>3, <1>4, <1>5, <1>6

\* The user confirms: every client that runs is killed with its LEADER.
LEMMA ConfirmInv == ASSUME IInv, Confirm PROVE IInv'
<1>1. /\ parent = "asking" /\ parent' = "confirmed"
      /\ success' = [success EXCEPT !["parent"] = TRUE]
      /\ UNCHANGED <<input, seq_no, ret, zombieRet, childOk, typed, sigint, interrupts>>
  BY DEF Confirm
<1>2. /\ stdin' \in Seq(Keys)
      /\ stdin' # <<>> => stdin'[Len(stdin')] = Newline
  BY RestOfInput DEF Confirm, IInv
<1>3. CASE LeaderLives
  <2>1. /\ leader' = "killed" /\ stopped' = FALSE
        /\ child' = [c \in DOMAIN child |-> IF child[c] = "running"
                                            THEN "killed" ELSE child[c]]
    BY <1>3 DEF Confirm
  <2>2. child \in Seq(ClientState)
    BY DEF IInv, TypeOK, ClientState
  <2>3. /\ child' \in Seq(ClientState) /\ Len(child') = Len(child)
        /\ DOMAIN child' = DOMAIN child
    <3>1. Len(child) \in Nat /\ DOMAIN child = 1..Len(child)
      BY <2>2, LenProperties
    <3>2. \A c \in 1..Len(child) : child[c] \in ClientState
      BY <2>2, ElementOfSeq
    <3>3. child' \in [1..Len(child) -> ClientState]
      BY <2>1, <3>1, <3>2 DEF ClientState
    <3> QED BY <3>1, <3>3
  <2>4. ~success["leader"]
    BY <1>3 DEF IInv, StatusOK, LeaderLives
  <2>5. TypeOK' /\ CountOK' /\ InputOK' /\ RolesOK'
    BY <1>1, <1>2, <2>1, <2>3 DEF IInv, TypeOK, CountOK, InputOK, RolesOK, Early,
       ClientState
  <2>6. StatusOK'
    BY <1>1, <2>1, <2>3, <2>4 DEF IInv, TypeOK, StatusOK, NoneIn
  <2>7. AwaitedOK'
    BY <1>1, <2>1, <2>3, <2>4 DEF IInv, TypeOK, AwaitedOK
  <2> QED BY <2>5, <2>6, <2>7 DEF IInv
<1>4. CASE ~LeaderLives
  <2>1. leader \in {"zombie", "killed"} /\ UNCHANGED <<leader, stopped, child>>
    BY <1>1, <1>4 DEF Confirm, LeaderLives, IInv, TypeOK, RolesOK, Early
  <2> QED BY <1>1, <1>2, <2>1 DEF IInv, TypeOK, InputOK, CountOK, Early, RolesOK, StatusOK,
             NoneIn, AwaitedOK
<1> QED BY <1>3, <1>4

-----------------------------------------------------------------------------
(* The theorems                                                            *)

\* IInv is inductive.
THEOREM Invariance == Spec => []IInv
<1>1. IInv /\ [Next]_vars => IInv'
  <2> SUFFICES ASSUME IInv, [Next]_vars PROVE IInv'
    OBVIOUS
  <2>1. CASE LeaderStep
    BY <2>1, LeaderInv, CreateInv, ReapInv DEF LeaderStep
  <2>2. CASE ParentStep \/ Interrupt \/ TypeLine
    BY <2>2, ParentInv, ConfirmInv DEF ParentStep
  <2>3. CASE ClientStep
    BY <2>3, ClientInv DEF ClientStep
  <2>4. CASE Over \/ UNCHANGED vars
    <3>1. UNCHANGED vars
      BY <2>4 DEF Over
    <3>2. TypeOK'
      BY <3>1 DEF vars, leaderVars, childVars, parentVars, IInv, TypeOK
    <3>3. InputOK' /\ CountOK' /\ RolesOK' /\ StatusOK' /\ AwaitedOK'
      BY <3>1 DEF vars, leaderVars, childVars, parentVars, IInv, InputOK, CountOK,
         Early, RolesOK, StatusOK, NoneIn, AwaitedOK
    <3> QED BY <3>2, <3>3 DEF IInv
  <2> QED BY <2>1, <2>2, <2>3, <2>4 DEF Next
<1> QED BY InitInv, <1>1, PTL DEF Spec

\* Types: the count of clients is never more than one ahead.
THEOREM TypeCorrect == Spec => []TypeOK
<1>1. IInv => TypeOK
  BY DEF IInv
<1> QED BY Invariance, <1>1, PTL

\* Whatever fails and however often the user interrupts, a client outlives the
\* launcher only if it reports a failure or its LEADER had failed before the
\* user confirmed.
THEOREM NobodyLeftBehindHolds == Spec => []NobodyLeftBehind
<1>1. IInv => NobodyLeftBehind
  <2> SUFFICES ASSUME IInv, ~NoneIn({"running"}), Ended
               PROVE  \/ parent = "returned" /\ ~success["parent"]
                      \/ parent = "confirmed" /\ leader = "zombie"
    BY DEF NobodyLeftBehind
  <2>1. leader # "killed" /\ ~success["leader"]
    BY DEF IInv, StatusOK, NoneIn
  <2> QED BY <2>1 DEF IInv, RolesOK, StatusOK, Ended
<1> QED BY Invariance, <1>1, PTL

\* The status of zero vouches for every client awaited at the end.
THEOREM LateFailureReportedHolds == Spec => []LateFailureReported
<1>1. IInv => LateFailureReported
  BY DEF IInv, StatusOK, AwaitedOK, LateFailureReported
<1> QED BY Invariance, <1>1, PTL
=============================================================================
