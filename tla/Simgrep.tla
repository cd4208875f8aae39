------------------------------ MODULE Simgrep -------------------------------
(***************************************************************************)
(* simgrep (Part1: main.c, readDirectory.c, signals.c): one process for    *)
(* each directory, which reports its count to its parent by its exit code, *)
(* and the handler with which the first process answers Ctrl+C.            *)
(***************************************************************************)
EXTENDS PatternSearch

CONSTANTS
  Searches,      \* command lines, with the files they meet
  Dir,           \* the directories in them
  Main,          \* the first process
  ExitModulus    \* 256: what exit() keeps of a status

Entry(s) == {[kind |-> "file", name |-> f] : f \in DOMAIN s.files}
              \cup {[kind |-> "dir", name |-> d] : d \in Dir}

Process == {Main} \cup Dir

\* What a process goes through: the path of the command line, or what opendir
\* and readdir give of its directory.
Contents(s, p) == IF p = Main THEN <<s.root>>
                  ELSE IF s.dirs[p].readable THEN s.dirs[p].entries ELSE <<>>

\* A directory stands for its path: it is in one place.
Distinct(s) ==
  \A p, q \in Process :
    \A j \in DOMAIN Contents(s, p), k \in DOMAIN Contents(s, q) :
      /\ Contents(s, p)[j] = Contents(s, q)[k]
      /\ p = q \/ Contents(s, p)[j].kind = "dir"
      => p = q /\ j = k

\* D has the directories that the processes of D, and main, come across.
Closed(s, D) ==
  \A p \in {Main} \cup D : \A j \in DOMAIN Contents(s, p) :
    Contents(s, p)[j].kind = "dir" => Contents(s, p)[j].name \in D

\* With -r, Dir has no directories but those below the path.
ASSUME SearchesAssumption ==
  /\ ExitModulus \in Nat \ {0, 1, 2}
  /\ Main \notin Dir /\ IsFiniteSet(Dir)
  /\ \A s \in Searches :
       /\ s.root \in Entry(s)
       /\ \A d \in Dir : /\ s.dirs[d].entries \in Seq(Entry(s))
                         /\ s.dirs[d].readable \in BOOLEAN
       /\ \A f \in DOMAIN s.files : /\ s.files[f].readable \in BOOLEAN
                                    /\ s.files[f].lines \in Seq(Seq(Char))
       /\ s.pattern \in Seq(Char \ {NUL})
       /\ s.mask \subseteq Flag /\ s.interrupts \in Nat
       /\ s.terminal \in BOOLEAN
       /\ Distinct(s)
       /\ "r" \in s.mask => \A D \in SUBSET Dir : Closed(s, D) => D = Dir

VARIABLES
  search,      \* the command line, and whether stdout is a terminal
  restart,     \* SA_RESTART is in the sa_flags nobody sets
  pc,          \* where each process is
  todo,        \* the entries it still has to read
  n_lines,     \* its count, its exit status in the end
  buffer,      \* lines printed that its stdout holds: <<reader, file, number>>
  output,      \* lines written: by whom, and the line
  pending,     \* processes whose handler is to run
  asking,      \* processes that ask the user
  stopped,     \* processes stopped by SIGTSTP
  interrupts,  \* the Ctrl+C the user still types
  cut,         \* the handler ended main's waitid, or a fork failed
  ignored,     \* the user has answered neither y nor n
  escaped      \* the first directory's process could not be stopped

walk == <<pc, todo, n_lines, buffer, output>>
signals == <<pending, asking, stopped, interrupts, ignored, escaped>>
vars == <<search, restart, walk, signals, cut>>

Fresh == {"forked", "ignoring"}   \* in ignore_sig_int
Walking == {"walk", "wait"}

Live(p) == pc[p] \in Fresh \cup Walking

\* Main forked d: it begins with main's handler, then ignores SIGINT, and
\* ignores SIGTSTP until OpenDir.  The other processes are forked later, and
\* have SIGINT ignored and SIGTSTP at its default from the first.
Top(d) == search.root = [kind |-> "dir", name |-> d]
Unstoppable(d) == Top(d) /\ pc[d] \in Fresh

Line == Process \X (DOMAIN search.files) \X Nat

TypeOK ==
  /\ pc \in [Process -> {"none", "zombie", "reaped", "done", "killed"}
                          \cup Fresh \cup Walking]
  /\ pc[Main] \in Walking \cup {"done", "killed"}
  /\ todo \in [Process -> Seq(Entry(search))] /\ n_lines \in [Process -> Int]
  /\ buffer \in [Process -> SUBSET Line] /\ output \subseteq Process \X Line
  /\ pending \subseteq Process /\ asking \subseteq Process
  /\ \A d \in stopped : d \in Dir /\ Live(d) /\ ~Unstoppable(d)
  /\ interrupts \in 0..search.interrupts
  /\ {restart, cut, ignored, escaped} \subseteq BOOLEAN

Init ==
  /\ search \in Searches
  /\ restart \in BOOLEAN
  /\ pc = [p \in Process |-> IF p = Main THEN "walk" ELSE "none"]
  /\ todo = [p \in Process |-> Contents(search, p)]
  /\ n_lines = [p \in Process |-> 0]
  /\ buffer = [p \in Process |-> {}] /\ output = {}
  /\ pending = {} /\ asking = {} /\ stopped = {}
  /\ interrupts = search.interrupts
  /\ cut = FALSE /\ ignored = FALSE /\ escaped = FALSE

-----------------------------------------------------------------------------
(* The walk: readPath, processEntries, readDir                             *)

\* p runs its own code: it is neither stopped nor in the handler.
At(p, at) == pc[p] = at /\ p \notin stopped \cup asking

Status(n) == n % ExitModulus

\* What printing new lines makes stdout write: on a terminal those, elsewhere
\* nothing, or, when it is full, what it held and the first of them.
Written(p, new, last) ==
  IF search.terminal THEN {new}
  ELSE {{}} \cup {buffer[p] \cup {l \in new : l[3] < k} : k \in 0..(last + 1)}

\* exit, and main's return, write what is left.
Flush(p) == /\ output' = output \cup {p} \X buffer[p]
            /\ buffer' = [buffer EXCEPT ![p] = {}]

\* fork gives the child a copy of what stdout holds.
readPath(p) ==
  /\ At(p, "walk") /\ todo[p] # <<>>
  /\ todo' = [todo EXCEPT ![p] = Tail(@)]
  /\ LET entry == Head(todo[p])
     IN \/ /\ entry.kind = "file"
           /\ LET file == search.files[entry.name]
                  new == {p} \X {entry.name} \X Printed(file, search.pattern, search.mask)
              IN /\ \E out \in Written(p, new, Len(file.lines)) :
                      /\ output' = output \cup {p} \X out
                      /\ buffer' = [buffer EXCEPT ![p] = (@ \cup new) \ out]
                 /\ n_lines' = [n_lines EXCEPT ![p] =
                      @ + divideFile(file, search.pattern, search.mask)]
           /\ UNCHANGED pc
        \/ /\ entry.kind = "dir" /\ "r" \in search.mask
           /\ pc' = [pc EXCEPT ![entry.name] = "forked"]
           /\ buffer' = [buffer EXCEPT ![entry.name] = buffer[p]]
           /\ UNCHANGED <<n_lines, output>>
        \/ /\ entry.kind = "dir" /\ "r" \notin search.mask
           /\ UNCHANGED <<pc, n_lines, buffer, output>>
  /\ UNCHANGED <<search, restart, signals, cut>>

\* exit(-2), which the parent takes for a count.
ForkFails(p) ==
  /\ At(p, "walk") /\ todo[p] # <<>>
  /\ Head(todo[p]).kind = "dir" /\ "r" \in search.mask
  /\ pc' = [pc EXCEPT ![p] = IF p = Main THEN "done" ELSE "zombie"]
  /\ n_lines' = [n_lines EXCEPT ![p] = Status(-2)]
  /\ cut' = TRUE /\ Flush(p)
  /\ UNCHANGED <<search, restart, todo, signals>>

EndWalk(p) ==
  /\ At(p, "walk") /\ todo[p] = <<>>
  /\ pc' = [pc EXCEPT ![p] = "wait"]
  /\ UNCHANGED <<search, restart, todo, n_lines, buffer, output, signals, cut>>

\* A pending SIGINT that is ignored is dropped; but for the first directory's
\* process, nothing changes.
IgnoreSigint(p) ==
  /\ At(p, "forked")
  /\ pc' = [pc EXCEPT ![p] = "ignoring"]
  /\ pending' = pending \ {p}
  /\ UNCHANGED <<search, restart, todo, n_lines, buffer, output, asking, stopped,
                 interrupts, ignored, escaped, cut>>

\* SIGTSTP is restored; opendir's NULL is not checked: readdir crashes, and
\* what stdout holds is lost.
OpenDir(p) ==
  /\ At(p, "ignoring")
  /\ IF search.dirs[p].readable
     THEN pc' = [pc EXCEPT ![p] = "walk"] /\ UNCHANGED buffer
     ELSE pc' = [pc EXCEPT ![p] = "zombie"] /\ buffer' = [buffer EXCEPT ![p] = {}]
  /\ UNCHANGED <<search, restart, todo, n_lines, output, signals, cut>>

-----------------------------------------------------------------------------
(* Adding up: waitid and exit                                              *)

\* Processes of p's directory that it has not waited for.
Children(p) ==
  {d \in Dir : /\ pc[d] \notin {"none", "reaped"}
               /\ \E k \in DOMAIN Contents(search, p) :
                    Contents(search, p)[k] = [kind |-> "dir", name |-> d]}

\* Mutant of Reap: only the child that was waited for last counts.
ReapLast(p) ==
  /\ At(p, "wait")
  /\ \E d \in Children(p) :
       /\ pc[d] = "zombie"
       /\ pc' = [pc EXCEPT ![d] = "reaped"]
       /\ n_lines' = [n_lines EXCEPT ![p] = Status(n_lines[d])]
  /\ UNCHANGED <<search, restart, todo, buffer, output, signals, cut>>

\* A crashed child has counted nothing.
Reap(p) ==
  /\ At(p, "wait")
  /\ \E d \in Children(p) :
       /\ pc[d] = "zombie"
       /\ pc' = [pc EXCEPT ![d] = "reaped"]
       /\ n_lines' = [n_lines EXCEPT ![p] = @ + Status(n_lines[d])]
  /\ UNCHANGED <<search, restart, todo, buffer, output, signals, cut>>

Exit(p) ==
  /\ At(p, "wait") /\ Children(p) = {}
  /\ pc' = [pc EXCEPT ![p] = IF p = Main THEN "done" ELSE "zombie"]
  /\ Flush(p)
  /\ UNCHANGED <<search, restart, todo, n_lines, signals, cut>>

-----------------------------------------------------------------------------
(* SIGINT: sigint_handler                                                  *)

\* The terminal signals the whole group.
Interrupt ==
  /\ interrupts > 0 /\ Live(Main)
  /\ interrupts' = interrupts - 1
  /\ pending' = pending \cup {Main} \cup {d \in Dir : Top(d) /\ pc[d] = "forked"}
  /\ UNCHANGED <<search, restart, walk, asking, stopped, ignored, escaped, cut>>

HandlerRuns(p, stop) ==
  /\ p \in pending \ asking /\ Live(p)
  /\ pending' = pending \ {p} /\ asking' = asking \cup {p}
  /\ stopped' = stopped \cup stop
  /\ escaped' = \E d \in Dir : Unstoppable(d)
  /\ UNCHANGED <<search, restart, walk, interrupts, ignored, cut>>

\* Mutants of AskUser: the children go on; SIGSTOP, which nobody can ignore.
AskFirst(p) == HandlerRuns(p, {})
StopEverybody(p) == HandlerRuns(p, {d \in Dir : Live(d)})

\* kill(0, SIGTSTP) and the question.
AskUser(p) == HandlerRuns(p, {d \in Dir : Live(d) /\ ~Unstoppable(d)})

\* y: kill(0, SIGKILL).  What the processes' stdout holds is never written.
KillAll(p) ==
  /\ p \in asking
  /\ pc' = [q \in Process |-> IF Live(q) THEN "killed" ELSE pc[q]]
  /\ pending' = {} /\ asking' = {} /\ stopped' = {}
  /\ UNCHANGED <<search, restart, todo, n_lines, buffer, output, interrupts,
                 ignored, escaped, cut>>

\* The handler returns; without SA_RESTART main's waitid fails and it prints
\* what it has.  Children it leaves stopped are then orphans: SIGHUP ends them.
HandlerReturns(p, left) ==
  LET ends == p = Main /\ pc[p] = "wait" /\ ~restart
  IN /\ p \in asking
     /\ asking' = IF ends /\ left # {} THEN {} ELSE asking \ {p}
     /\ stopped' = IF ends THEN {} ELSE left
     /\ cut' = (cut \/ ends)
     /\ pc' = IF ends
              THEN [q \in Process |-> IF q = Main THEN "done"
                                      ELSE IF left # {} /\ Live(q) THEN "killed"
                                      ELSE pc[q]]
              ELSE pc
     /\ IF ends THEN Flush(p) ELSE UNCHANGED <<buffer, output>>
     /\ UNCHANGED <<search, restart, todo, n_lines, pending, interrupts, escaped>>

\* Mutant of Resume: SIGCONT is left out.
ResumeNobody(p) == HandlerReturns(p, stopped) /\ UNCHANGED ignored

\* n: kill(0, SIGCONT)
Resume(p) == HandlerReturns(p, {}) /\ UNCHANGED ignored

\* Any other character: neither branch is taken.
AnswerIgnored(p) == HandlerReturns(p, stopped) /\ ignored' = TRUE

-----------------------------------------------------------------------------
(* The specification                                                       *)

WalkStep(p) == \/ readPath(p) \/ EndWalk(p) \/ IgnoreSigint(p) \/ OpenDir(p)
               \/ Reap(p) \/ Exit(p)

Answer(p) == KillAll(p) \/ Resume(p) \/ AnswerIgnored(p)

Next == Interrupt \/ \E p \in Process : \/ WalkStep(p) \/ ForkFails(p)
                                        \/ AskUser(p) \/ Answer(p)

Spec == Init /\ [][Next]_vars

\* The kernel runs every process that is not stopped, and the user answers.
FairSpec ==
  /\ Spec
  /\ \A p \in Process : WF_vars(WalkStep(p)) /\ WF_vars(AskUser(p)) /\ WF_vars(Answer(p))

-----------------------------------------------------------------------------
(* Properties                                                              *)

\* The pattern is in the line, with -w between ends and delimiters.
HasMatch(line) ==
  LET str == CString(line)
      n == Len(search.pattern)
  IN \E k \in Occurrences(str, search.pattern, search.mask) :
       "w" \in search.mask => /\ k = 1 \/ isDelimiter(str[k - 1])
                              /\ k + n > Len(str) \/ isDelimiter(str[k + n])

\* The code looks at it as grep does: it ends in a newline that the pattern
\* cannot match, string.h sees all of it, and there is no second occurrence
\* (contains tries the first only).
Plain(line) == /\ line # <<>> /\ line[Len(line)] = NL
               /\ \A j \in DOMAIN search.pattern : search.pattern[j] # NL
               /\ \A j \in DOMAIN line : line[j] # NUL
               /\ Cardinality(Occurrences(line, search.pattern, search.mask)) <= 1

\* Every line printed has a match; and of a file whose lines are plain, every
\* line with one is printed, or its name with -l.
PrintsRightLines ==
  \A f \in DOMAIN search.files :
    LET lines == search.files[f].lines
        printed == {l[3] : l \in {o[2] : o \in {q \in output : q[2][2] = f}}}
        right == {n \in DOMAIN lines : HasMatch(lines[n])}
    IN /\ 0 \in printed => printed = {0} /\ right # {}
       /\ printed \ {0} \subseteq right
       /\ /\ pc[Main] = "done" /\ ~cut
          /\ search.root = [kind |-> "file", name |-> f]
          /\ search.files[f].readable /\ ~is_binary(search.files[f])
          /\ \A n \in DOMAIN lines : Plain(lines[n])
          => IF "l" \in search.mask THEN printed = {0} \/ right = {}
             ELSE printed = right

\* main ends last, and reports as many lines as were written, interrupted and
\* resumed or not: provided its waitid restarts, fork works, every file can be
\* opened (-1 is reported as 255) and no process counts ExitModulus or more.
\* When stdout is no terminal no line is lost, but a line that a fork copied
\* comes out again (readDirectory.c:22, 32): then it is as many different lines.
SearchComplete ==
  pc[Main] = "done" /\ ~cut =>
    /\ "r" \in search.mask => \A d \in Dir : pc[d] = "reaped"
    /\ /\ \A f \in DOMAIN search.files : search.files[f].readable
       /\ \A d \in Dir : n_lines[d] < ExitModulus
       => LET written == {o \in output : o[2][3] # 0}
          IN n_lines[Main] = Cardinality(IF search.terminal THEN written
                                         ELSE {o[2] : o \in written})

\* While main asks, either every directory's process is stopped or none is:
\* none when the first was just forked as the user was asked, for it ignored
\* SIGTSTP, and its children were forked after that.
HaltedWhileAsked ==
  Main \in asking => stopped = IF escaped THEN {} ELSE {d \in Dir : Live(d)}

\* The search ends, interrupted or not, unless an answer was neither y nor n.
SearchEnds == <>(pc[Main] \in {"done", "killed"} \/ ignored)
=============================================================================
