------------------------------ MODULE Launcher ------------------------------
(***************************************************************************)
(* Part2/start _v2.c: the PARENT process with its SIGINT handler, the      *)
(* LEADER of process group G2, which reads the configuration file and      *)
(* starts one client per entry, and the clients.                           *)
(*                                                                         *)
(* An exit status is TRUE for zero.  What a client does is left open: it   *)
(* ends with some status.  A Ctrl+C comes only once the LEADER has         *)
(* restored the default handler; up to then both processes would handle it *)
(* with cgroup = 0.                                                        *)
(***************************************************************************)
EXTENDS Naturals, Sequences

CONSTANTS Files,          \* configuration files: sequences of Entry
          Keys,           \* the characters the user may type
          TypedLines,     \* the lines of them, when asked
          MaxInterrupts   \* bound: how often Ctrl+C is pressed

\* What read_client_info finds: a client, an empty list of preferences (it then
\* returns 0, as at the end of the file), something it cannot read.
Entry == {"client", "empty", "bad"}

Newline == "nl"

ASSUME LauncherAssumption ==
  /\ Files \subseteq Seq(Entry)
  /\ MaxInterrupts \in Nat
  /\ TypedLines \subseteq Seq(Keys)
  /\ \A l \in TypedLines : l # <<>> /\ l[Len(l)] = Newline

VARIABLES
  input,        \* what is left of the file
  seq_no,       \* read_client_info's count of clients
  leader,       \* where the LEADER is
  ret,          \* main_loop: is ret other than 0?
  zombieRet,    \* handle_zombies: is ret other than 0?
  child,        \* the clients, in the order of their start
  childOk,      \* did the client end with status 0?
  stopped,      \* the processes of G2 are stopped
  parent,       \* where the PARENT is
  success,      \* did LEADER and PARENT end with status 0?
  stdin,        \* the characters in the PARENT's standard input
  typed,        \* the first key the user typed for this question, or "none"
  sigint,       \* SIGINT is pending for the PARENT
  interrupts    \* how often Ctrl+C has been pressed

leaderVars == <<input, seq_no, leader, ret, zombieRet>>
parentVars == <<parent, stdin, typed, sigint, interrupts>>
childVars  == <<child, childOk>>
vars == <<leaderVars, childVars, stopped, parentVars, success>>

\* Types.  No entry is read before the one read last has its client: the count
\* is at most one ahead.
TypeOK ==
  /\ input \in Seq(Entry)
  /\ seq_no \in 0..(Len(child) + 1)
  /\ leader \in {"none", "inherited", "default", "loop", "create", "reap",
                 "final", "zombie", "gone", "killed"}
  /\ ret \in BOOLEAN /\ zombieRet \in BOOLEAN
  /\ child \in Seq({"running", "zombie", "collected", "awaited", "killed"})
  /\ childOk \in Seq(BOOLEAN) /\ Len(childOk) = Len(child)
  /\ stopped \in BOOLEAN /\ sigint \in BOOLEAN
  /\ parent \in {"fork", "wait", "asking", "returned", "confirmed"}
  /\ success \in [{"leader", "parent"} -> BOOLEAN]
  /\ stdin \in Seq(Keys) /\ typed \in Keys \cup {"none"}
  /\ interrupts \in 0..MaxInterrupts

Init ==
  /\ input \in Files
  /\ seq_no = 0
  /\ leader = "none" /\ parent = "fork"
  /\ ret = FALSE /\ zombieRet = FALSE
  /\ child = <<>> /\ childOk = <<>>
  /\ stopped = FALSE /\ sigint = FALSE
  /\ success = [p \in {"leader", "parent"} |-> FALSE]
  /\ stdin = <<>> /\ typed = "none"
  /\ interrupts = 0

-----------------------------------------------------------------------------
(* The LEADER: its part of main, main_loop, handle_zombies                 *)

LeaderGoes(from, to) == leader = from /\ leader' = to /\ ~stopped

DefaultHandler ==
  /\ LeaderGoes("inherited", "default")
  /\ UNCHANGED <<input, seq_no, ret, zombieRet, childVars, stopped, parentVars,
                 success>>

\* setpgrp and redirect_stdin
JoinGroup ==
  /\ LeaderGoes("default", "loop")
  /\ UNCHANGED <<input, seq_no, ret, zombieRet, childVars, stopped, parentVars,
                 success>>

\* sigaction, setpgrp or redirect_stdin fails.
LeaderFails ==
  /\ leader \in {"inherited", "default"}
  /\ leader' = "zombie"
  /\ success' = [success EXCEPT !["leader"] = FALSE]
  /\ UNCHANGED <<input, seq_no, ret, zombieRet, childVars, stopped, parentVars>>

EntryRead == IF input = <<>> THEN "end" ELSE Head(input)

\* read_client_info.  Its result is assigned to ret: positive for a client,
\* negative for an error, 0 otherwise.
ReadClient ==
  /\ LeaderGoes("loop", IF EntryRead = "client" THEN "create" ELSE "final")
  /\ seq_no' = seq_no + 1
  /\ input' = IF input = <<>> THEN input ELSE Tail(input)
  /\ ret' = (EntryRead \in {"client", "bad"})
  /\ zombieRet' = FALSE
  /\ UNCHANGED <<childVars, stopped, parentVars, success>>

CreateClient ==
  /\ LeaderGoes("create", "reap")
  /\ child' = Append(child, "running")
  /\ childOk' = Append(childOk, FALSE)
  /\ zombieRet' = FALSE
  /\ UNCHANGED <<input, seq_no, ret, stopped, parentVars, success>>

\* Mutant of ForkFails: the loop goes on to the next client.
ForkFailureIgnored ==
  /\ LeaderGoes("create", "loop")
  /\ UNCHANGED <<input, seq_no, ret, zombieRet, childVars, stopped, parentVars,
                 success>>

\* FORK_FAILED: the clients already started are not waited for.
ForkFails ==
  /\ LeaderGoes("create", "zombie")
  /\ success' = [success EXCEPT !["leader"] = FALSE]
  /\ UNCHANGED <<input, seq_no, ret, zombieRet, childVars, stopped, parentVars>>

\* One turn of handle_zombies, after each client or after all of them.
Reap(c) ==
  /\ leader \in {"reap", "final"} /\ ~stopped
  /\ child[c] = "zombie"
  /\ child' = [child EXCEPT ![c] = IF leader = "reap" THEN "collected"
                                    ELSE "awaited"]
  /\ zombieRet' = (zombieRet \/ ~childOk[c])
  /\ UNCHANGED <<input, seq_no, leader, ret, childOk, stopped, parentVars,
                 success>>

NoneIn(states) == \A c \in DOMAIN child : child[c] \notin states

\* WNOHANG: no zombie is left.
EndReaping ==
  /\ LeaderGoes("reap", "loop")
  /\ NoneIn({"zombie"})
  /\ ret' = (ret \/ zombieRet)
  /\ UNCHANGED <<input, seq_no, zombieRet, childVars, stopped, parentVars,
                 success>>

\* Mutants of EndWaiting: with WNOHANG; the status of the clients is lost.
EndWithoutWaiting ==
  /\ LeaderGoes("final", "zombie")
  /\ NoneIn({"zombie"})
  /\ success' = [success EXCEPT !["leader"] = ~(ret \/ zombieRet)]
  /\ UNCHANGED <<input, seq_no, ret, zombieRet, childVars, stopped, parentVars>>

EndForgettingStatus ==
  /\ LeaderGoes("final", "zombie")
  /\ NoneIn({"running", "zombie"})
  /\ success' = [success EXCEPT !["leader"] = ~ret]
  /\ UNCHANGED <<input, seq_no, ret, zombieRet, childVars, stopped, parentVars>>

\* waitpid reports ECHILD; main_loop and main return.
EndWaiting ==
  /\ LeaderGoes("final", "zombie")
  /\ NoneIn({"running", "zombie"})
  /\ success' = [success EXCEPT !["leader"] = ~(ret \/ zombieRet)]
  /\ UNCHANGED <<input, seq_no, ret, zombieRet, childVars, stopped, parentVars>>

\* A client ends, or execlp failed.
ClientEnds(c) ==
  /\ child[c] = "running" /\ ~stopped
  /\ child' = [child EXCEPT ![c] = "zombie"]
  /\ \E ok \in BOOLEAN : childOk' = [childOk EXCEPT ![c] = ok]
  /\ UNCHANGED <<leaderVars, stopped, parentVars, success>>

-----------------------------------------------------------------------------
(* The PARENT: main, and sigint_handler                                    *)

ForkLeader ==
  /\ parent = "fork"
  /\ \/ parent' = "wait" /\ leader' = "inherited"
     \/ parent' = "returned" /\ leader' = leader
  /\ UNCHANGED <<input, seq_no, ret, zombieRet, childVars, stopped, stdin, typed,
                 sigint, interrupts, success>>

\* handle_zombies(0), with the LEADER as the only child.
ReapLeader ==
  /\ parent = "wait" /\ leader = "zombie"
  /\ parent' = "returned" /\ leader' = "gone"
  /\ success' = [success EXCEPT !["parent"] = success["leader"]]
  /\ UNCHANGED <<input, seq_no, ret, zombieRet, childVars, stopped, stdin, typed,
                 sigint, interrupts>>

\* The terminal sends SIGINT to G1: the PARENT, and a LEADER that has not
\* left it yet, which dies.
Interrupt ==
  /\ parent \in {"wait", "asking"} /\ leader # "inherited"
  /\ interrupts < MaxInterrupts
  /\ interrupts' = interrupts + 1
  /\ sigint' = TRUE
  /\ leader' = IF leader = "default" THEN "zombie" ELSE leader
  /\ UNCHANGED <<input, seq_no, ret, zombieRet, childVars, stopped, parent,
                 stdin, typed, success>>

\* sigint_handler: SIGSTOP to G2 and the question.
AskUser ==
  /\ parent = "wait" /\ sigint
  /\ parent' = "asking" /\ sigint' = FALSE
  /\ stopped' = TRUE
  /\ typed' = "none"
  /\ UNCHANGED <<leaderVars, childVars, stdin, interrupts, success>>

\* scanf("%c%*[^\n]%*c"): a character, at least one more that is no newline,
\* and the newline.  If a newline follows the first at once, it stays.
HasAnswer == Len(stdin) >= 2

EndOfLine == CHOOSE k \in 2..Len(stdin) :
               /\ stdin[k] = Newline
               /\ \A j \in 2..(k - 1) : stdin[j] # Newline

AfterAnswer == IF EndOfLine = 2 THEN Tail(stdin)
               ELSE SubSeq(stdin, EndOfLine + 1, Len(stdin))

\* The user types until the handler goes on; his answer is the first key.
TypeLine ==
  /\ parent = "asking" /\ ~HasAnswer
  /\ \E l \in TypedLines :
       /\ stdin' = stdin \o l
       /\ typed' = IF typed = "none" THEN l[1] ELSE typed
  /\ UNCHANGED <<leaderVars, childVars, stopped, parent, sigint, interrupts,
                 success>>

\* Mutant of Resume: G2 stays stopped.
ResumeWithoutCont ==
  /\ parent = "asking" /\ HasAnswer /\ stdin[1] # "y"
  /\ parent' = "wait"
  /\ stdin' = AfterAnswer
  /\ UNCHANGED <<leaderVars, childVars, stopped, typed, sigint, interrupts,
                 success>>

\* Any key but y or Y: SIGCONT to G2.
Resume ==
  /\ parent = "asking" /\ HasAnswer /\ stdin[1] # "y"
  /\ parent' = "wait"
  /\ stdin' = AfterAnswer
  /\ stopped' = FALSE
  /\ UNCHANGED <<leaderVars, childVars, typed, sigint, interrupts, success>>

LeaderLives == leader \in {"loop", "create", "reap", "final"}

\* SIGINT to G2 and exit(0).  The end of the PARENT orphans G2, so the kernel
\* lets its stopped processes go on and the pending SIGINT kills them; a G2
\* orphaned before, by the end of the LEADER, stays stopped.
Confirm ==
  /\ parent = "asking" /\ HasAnswer /\ stdin[1] = "y"
  /\ parent' = "confirmed"
  /\ stdin' = AfterAnswer
  /\ success' = [success EXCEPT !["parent"] = TRUE]
  /\ IF LeaderLives
     THEN /\ leader' = "killed" /\ stopped' = FALSE
          /\ child' = [c \in DOMAIN child |-> IF child[c] = "running"
                                              THEN "killed" ELSE child[c]]
     ELSE UNCHANGED <<leader, stopped, child>>
  /\ UNCHANGED <<input, seq_no, ret, zombieRet, childOk, typed, sigint,
                 interrupts>>

-----------------------------------------------------------------------------
(* The specification                                                       *)

LeaderStep == \/ DefaultHandler \/ JoinGroup \/ LeaderFails
              \/ ReadClient \/ CreateClient \/ ForkFails
              \/ \E c \in DOMAIN child : Reap(c)
              \/ EndReaping \/ EndWaiting

ParentStep == ForkLeader \/ ReapLeader \/ AskUser \/ Resume \/ Confirm

ClientStep == \E c \in DOMAIN child : ClientEnds(c)

Ended == parent \in {"returned", "confirmed"}

\* Clients that outlived a failed LEADER may still run; then all is over.
Over == /\ Ended /\ (NoneIn({"running"}) \/ stopped)
        /\ UNCHANGED vars

Next == LeaderStep \/ ParentStep \/ ClientStep \/ Interrupt \/ TypeLine \/ Over

Spec == Init /\ [][Next]_vars

\* The kernel runs every process, clients end (Part2/Client: a time out), and
\* the user answers; nobody has to press Ctrl+C.
FairSpec == Spec /\ WF_vars(LeaderStep) /\ WF_vars(ParentStep)
                 /\ WF_vars(ClientStep) /\ WF_vars(TypeLine)

-----------------------------------------------------------------------------
(* Properties                                                              *)

\* No client outlives the launcher, but when it reports a failure, or was told
\* to end after its LEADER had failed already.
NobodyLeftBehind ==
  ~NoneIn({"running"}) =>
    \/ ~Ended
    \/ parent = "returned" /\ ~success["parent"]
    \/ parent = "confirmed" /\ leader = "zombie"

\* A client that failed while the LEADER waited for the last ones is reported
\* by the PARENT, unless the user ended it.
LateFailureReported ==
  parent = "returned" /\ success["parent"] =>
    \A c \in DOMAIN child : child[c] = "awaited" => childOk[c]

\* A launcher that is interrupted, and resumed however often, ends.
LauncherEnds == <>Ended

\* "start _v2.c" 63-65: the exit status of the PARENT is only zero if the exit
\* status of all other processes was also zero.
StatusReflectsClients ==
  parent = "returned" /\ success["parent"] =>
    \A c \in DOMAIN child : childOk[c]

\* "start _v2.c" 7-9: the execution is terminated if the user confirms with y.
ConfirmationObeyed ==
  [][parent = "asking" /\ parent' = "wait" => typed # "y"]_vars
=============================================================================
