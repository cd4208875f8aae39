# Verification of the ticket server and simgrep

Two course projects in C: `Part2`, a ticket server whose offices (threads) book
seats for client processes over FIFOs, named semaphores and signals, and
`Part1`, `simgrep`, a grep that walks directories with one process each. All
that keeps state in either is modelled and checked here, and its safety is also proved.

## 1. Inventory

| Component | State | Operations | Interacts by |
|---|---|---|---|
| Ticket offices (`Server/server.c` 120-423) | `seatList`, `nOccupiedSeats` of each office, the request in hand | `processClientMsg`, `verifyRequestErrors`, `getRequestedSeats`, `freeSeats`, `sendResponse` | `/tmp/requests`, `/sem<seat>`, `/semAnswer<pid>`, `/tmp/ans<pid>`, two mutexes |
| Main thread of the server (49-118, 466-475) | threads, FIFO, named semaphores, `sbook.txt` | create, join, write the book, unlink | join, SIGUSR1 |
| SIGUSR1 handler (26-36) | `g_tickets_are_open` | close, write `*` | mutex, FIFO |
| Timer process (`timeCounter.c`, `main.c`) | remaining time | sleep, kill, wait | SIGUSR1 |
| Client (`Client/main.c`, `client.c`, `timeout.c`) | answer FIFO, two processes | send, child reads, parent times out | FIFOs, `/semAnswer<pid>`, SIGKILL |
| Parsing (`utilities.c` of both) | - | `getIntAmount`, `stringToIntArray`, `intArrayToString` | return codes |
| Launcher (`start _v2.c`) | input file, children, exit status, the dialogue's stdin | read an entry, fork, exec, reap, ask | SIGINT, SIGSTOP, SIGCONT to a process group, wait |
| simgrep tree (`main.c`, `readDirectory.c`) | process tree, counts | fork per directory, sum exit codes | waitid, exit |
| simgrep matching (`divideFile.c`, `patternSearch.c`) | line buffer | split, match, print | - |
| simgrep signals and log (`signals.c`, `logger.c`) | dispositions | stop, ask, continue or kill | SIGINT, SIGTSTP, SIGCONT |
| `SOPE_Practice/.../getFiles.c` | - | lists a directory | - |

What is hard: offices booking overlapping seats and rolling back while others
book; an answer that races the client's time out; the end of the service while
offices are blocked in `read`, in `sem_wait` or in `open`; signals that arrive
on a thread holding a lock; a peer that dies half-way. What makes each part
correct:

- offices: no seat for two clients, no seat lost, every semaphore posted as often
  as it was waited for, the counters large enough;
- closing: every office ends, at most one request is taken late, the book is
  written after the last booking and agrees with the answers;
- client: it ends, answered or not, and does not leave an office stuck;
- launcher: it ends, every child reaped, a failure reported, the user's answer obeyed;
- simgrep: the sum of the matches, children stopped before the question.

`PROJECT.json` lists the hazards at their lines, with the properties that cover
them or the reason why none does.

## 2. Modules

| Module | Contents |
|---|---|
| `Reservations` | what the clients are promised: grant, tell, withdraw |
| `TicketOffices` | the server's threads and handler, and the clients as the server sees them |
| `MCTicketOffices` | small instances for TLC |
| `TicketOffices_proofs` | inductive invariant and theorems: locks, seats, bookings |
| `TicketOffices_service_proofs` | the same for semaphores, counters, `sbook.txt`, the close, and the refinement |
| `InductionLemmas` | induction over intervals and finite sets, sums over finite sets, recursive functions |
| `Launcher` | `start _v2.c`: PARENT, LEADER, clients, the SIGINT dialogue |
| `MCLauncher`, `Launcher_proofs` | configuration files and users for TLC; inductive invariant and theorems |
| `ResponseChannel` | one answer int by int: `sendResponse` against the two processes of a client |
| `MCResponseChannel`, `ResponseChannel_proofs` | answers for TLC; inductive invariant and theorems |
| `ServerLifecycle` | successive runs of the server, the FIFO and the semaphores they leave each other |
| `MCServerLifecycle`, `ServerLifecycle_proofs` | two runs for TLC; inductive invariant and theorems |
| `RequestParsing` | a request from `argv` of the client to the verdict of an office |
| `MCRequestParsing`, `RequestParsing_proofs` | all short arguments for TLC; inductive invariant, parsers and theorems |
| `PatternSearch` | what simgrep does with one file, as operators |
| `Simgrep` | simgrep's processes, the sum of their counts, the SIGINT dialogue |
| `MCSimgrep`, `Simgrep_proofs` | trees and files for TLC; inductive invariant and theorems |

`ServerLifecycle` surrounds `TicketOffices`, `ResponseChannel` opens one step of
it (`Reply` with `ReadAnswer`) and `RequestParsing` another (`SendRequest` to
`Verify`); `Launcher` starts the clients. They meet at the names in the file system
and at process ids only, so they are checked apart, each with the others' effects
as free steps: an office that may get to a request or not, a kill at any point.

### State and actions of TicketOffices

A variable has the name of the one it models. `serving`, `error` and
`requestResult` are fields of an office's local `Request` and `Response`; `i` is
the loop index of `getRequestedSeats` and `freeSeats`. `requests` is the FIFO as
a sequence of lines: a client, whose line is `asked[p]`, or `Star`, the handler's
`"*\n"`. `answer` and `reserved` are what the server wrote to `/tmp/ans<pid>`,
`told` who read it. `client` says how far a client is.

An action is a stretch of code between two synchronisation points:

- `LockOffice`, `CheckOpen`: the loop of `initTicketOffice`;
- `LockRequests` ... `Verify`: `processClientMsg`, with the mutexes taken and
  released where the code does and `read` blocking with `readRequestsMutex` held;
- `WaitSeat`, `TestSeat`, `TakeSeat`, `AllBooked`, `TooFewBooked`, `FreeSeat`,
  `EndOfFreeSeats`: `getRequestedSeats`, `allocSeat`, `freeSeats` and the part of
  `handleRequest` after them;
- `WaitAnswerSem` ... `ReplyNoReader`: `sendResponse`, with its early return, the
  NULL dereference for `IID` and the SIGPIPE of a FIFO without a reader;
- `CreateOffice`, `HandlerClose`, `HandlerWake`, `CloseServer`: the main thread;
- `TimerExpires`: SIGUSR1;
- `SendRequest`, `ReadAnswer`, `TimeOut`, `Leave`, `UnlinkOrExit`: a client.

Abstractions:

- The test of a seat and its booking are two steps, so the semaphore alone
  excludes; `sem_post` belongs to the last access it protects.
- Requests and answers cross a FIFO in one step (shorter than `PIPE_BUF`). The
  `'\0'` a line ends with disappears in `getRequest`'s `"%s%c"`, so it is left out.
- `updateOccupiedMutex` guards a counter of one office only and is left out.
- A seat identifier is in `0..NSeats`, 0 standing for one that is not positive.
  Identifiers above `nSeats` and negative numbers of seats are outside the model.
- The parent's `sem_wait` and `kill` are one step, and an answer is read in one;
  `ResponseChannel` has them apart. A pid is used once.
- SIGUSR1 is handled by the main thread, as Linux does when that thread does not
  block the signal. POSIX allows any thread, where the handler could lock a mutex
  its thread holds; no model follows that.
- After `crashed` (a signal killed the server) its threads stop. Clients go on, but
  one that is yet to send stays in `open`. `Stopped` tells TLC where the system
  may end; deadlock is checked everywhere else.
- `Init` is the state after `activateSignalHandler` and the unlinking of the
  seat semaphores.

### State and actions of Launcher

`leader` and `parent` say where the two processes are in `main`, `main_loop` and
`sigint_handler`; `child` and `childOk` are the clients in the order of their
start. `ret` and `zombieRet` are the `ret` of `main_loop` and of `handle_zombies`,
reduced to "other than 0", the only thing `main` tests. `stopped` is the state of
process group G2: every action of the LEADER and the clients needs it false.
`stdin` is the buffer the handler's `scanf` reads, kept as characters because what
one question leaves there the next one reads.

- `ReadClient`, `CreateClient` or `ForkFails`, `Reap` and `EndReaping`: a turn of
  `main_loop`; `Reap` and `EndWaiting`: its last line;
- `ForkLeader`, `DefaultHandler`, `JoinGroup`, `LeaderFails`, `ReapLeader`: `main`;
- `AskUser`, `Resume`, `Confirm`: `sigint_handler`, with `TypeLine` the user;
- `Interrupt`: the terminal's SIGINT, pending while the handler runs;
- `ClientEnds`: a client ends with any status, or `execlp` failed.

Abstractions: `read_client_info` finds a client, an empty list of preferences
(returned as 0, like the end of the file) or something it cannot read. `y` and `Y`
are one answer, one of the `Keys` a user may type. The kernel's rule for process groups is part of `Confirm`: the end
of the PARENT orphans G2, its stopped processes are continued and SIGINT ends
them; a group orphaned before, because the LEADER is dead, stays stopped. A Ctrl+C
before the LEADER has restored the default handler is left out: both processes
would then signal their own group (`cgroup` is 0 in the LEADER), the shell's
business.

### State and actions of ResponseChannel

`office` is where `sendResponse` is, `sent` its progress through the answer, `fifo`
the ints in `/tmp/ans<pid>`, `sem` the two semaphores named after the pids of the
client's processes: the code means one, the child opens another. `pc` and `left` are
the processes, `cbook` and `clog` what they append to the two files.

- `SendResponse` ... `PostSem`: `sendResponse`, one `write` a step; `ServerDies`;
- `ReadCode`, `ReadCount`, `ReadSeat`, `ReadEndOfFile`: `readFromServer` and
  `readAndPrintReservedSeats`, which both processes run;
- `ChildTakesSem` ... `ChildKillsParent`: `processReponse`; `TimeOut` ...
  `ParentUnlinks`: `gracefulShutdownOnTimeout`; `KilledFromOutside`: SIGINT of the
  launcher, which both processes get.

The rules of a FIFO are modelled: `open` to write waits for a reader and to read
for a writer (a pending open counts), a write without reader is SIGPIPE, a read
without writer end of file, what nobody has open is emptied. The end of the child
hands `kill(getppid())` and `sem_post` over in one step. Left out: the error paths
of `sem_open`.

### State and actions of ServerLifecycle

`pc` is the main thread of each run, `i` the index of its `sem_unlink` loops,
`fifo` who made `/tmp/requests`, `name` the semaphore behind each `/sem<i>`: a
semaphore survives its name, which is what the module is about. `overlapped` is a
history variable: the runs that got their FIFO while another was still in the final
loop.

- `Start` ... `InstallHandler`, `Clean`, `JoinOffices`, `CloseFifo`, `UnlinkFifo`,
  `Sweep`: `main` and `initServer`; `TimerFires`: `initTimer`, deadly before
  `activateSignalHandler`; `Kill`: any death;
- `OpenSeat`, `TakeSeat`, `PostSeat`, `OfficeEnds`: an office as far as it uses
  the semaphores of seats (`O_CREAT` makes one where the name is free);
- `RemoveStaleFifo`: the user's `rm`, when no server is up.

An office that a server's death interrupts in its critical section keeps the
semaphore for ever: nothing tells a semaphore that its holder died. Left out: the text files,
and what requests say (`TicketOffices`).

### State and actions of RequestParsing

Strings are sequences of characters: the ten digits, a minus, a blank, one other. `Send` is
`populateRequest` and `writeRequestToFifo`, `ReadError` and `ReadFields` the `sscanf`
of `processClientMsg` with `stringToIntArray`, `verifyRequestErrors` the verdict, for
any room the office may count. The parsers are operators: `getIntAmount` counts
the digits a blank or the end follows (`LastDigits`), `Conversions` are the numbers
`sscanf` finds from one to the next, `stringToIntArray` compares the two, and `writes`
remembers how many ints were stored beyond the memory asked for. Both programs have
the same `getIntAmount` and almost the same `stringToIntArray` (`positive` says
which). The leading pid is left out (always a number), and so are newlines and tabs
in an argument, numbers too large for an int, and the time out.

### State and actions of Simgrep

`todo` is what a process still has to read, `n_lines` its count and then its exit
status. `buffer` is what its stdout holds and `output` what was written, each line with
the process that read it and, in `output`, the one that wrote it: `fork` copies what
stdout holds (`readDirectory.c:22`), and each copy is written at an `exit`. On a terminal
a line is written as it is printed; elsewhere when the buffer is full, which may be after
any line (`Written`), or at `exit` and `main`'s return (`Flush`). A crash or SIGKILL loses
it. `pc` tells a fresh child from one that walks or waits. A file is read in one step,
`divideFile` of `PatternSearch`; the order of directory entries is that of the tree.

What a process does with a signal depends on who forked it. The first directory's (`Top`)
is forked by `main`: it has `main`'s handler until `ignore_sig_int` ignores SIGINT, and
ignores SIGTSTP until the same function restores it. All others are forked after that
function ran in their parent: they never ask, and SIGTSTP stops them from the first.

- `readPath`, `ForkFails`, `IgnoreSigint`, `OpenDir`, `EndWalk`: the walk;
- `Reap`, `Exit`: `waitid` until nobody is left, with `si_status` modulo
  `ExitModulus`;
- `Interrupt`: SIGINT, which only `main` and a `Top` still to ignore it can handle;
- `AskUser`, `KillAll`, `Resume`, `AnswerIgnored`: the handler.

`SearchesAssumption` says which searches there are: finitely many directories, each in
one place of the tree and, with `-r`, all of them below the path. `Contents` is what
`opendir` and `readdir` give of one.

SIGINT is blocked while its handler runs. `sa_flags` is never set: both values of
`SA_RESTART` are tried, the other flags and `sa_mask` are taken as 0. When `main`
ends, stopped children it leaves are an orphaned group and get SIGHUP. Left out:
`-` as path (the same loop on stdin), the log, the end of stdin while asking, and what is
printed beside lines ("ACTIVATING HANDLER", the question, "Found %d lines"). A full
buffer is taken to be written up to the end of a line; the code may leave the rest of one
line for later, and what two processes write may meet in the middle of one.

## 3. Runs

| Run | Instance | Shows |
|---|---|---|
| `offices_safety` | 2 offices, 2 clients, 2 seats, 2 requests, symmetric; 533,750 states | the invariants, refinement of `Reservations` |
| `offices_live` | 2 offices, 1 client, 2 seats, 7 requests with every verdict | `EventuallyClosed`, `ClientsEnd` |
| `reply_to_left_client` | 2 offices, 1 client | the client may be gone when the office writes |
| `late_request` | 2 offices, 1 client | one request is taken after the close |
| `launcher` | 4 files of at most 3 entries, 2 Ctrl+C, 4 answers; 52,867 states | the launcher ends, leaves nobody behind, reports late failures |
| `launcher_status` | the same | a failed client is not reported |
| `launcher_confirm` | the same | a `y` is not obeyed |
| `response_channel` | answers of 2, 1 and 0 seats and an error; 1,362 states | books, semaphore and ends of both sides, with deaths |
| `child_killed` | answers of 2 and 1 seats | the child is killed half-way through an answer |
| `server_lifecycle` | 2 runs, 2 offices, 2 seats and 1, 2 tests a run; 71,920 states | what one run leaves to the next |
| `request_parsing` | 7 numbers, all lists of up to 4 characters and two of 5; 18,688 states | both parsers agree, with each other and the arguments |
| `simgrep` | 5 trees of up to 4 processes, on a terminal and not, 2 Ctrl+C, files of one line of up to 4 characters; 130,013 states | right lines, right sums, halted while asked, ends |

Why the bounds are enough: two requests that want the same two seats in opposite
orders give every interference of `getRequestedSeats` (both book, one finds a seat
taken, both fall short and roll back), and error answers are in the liveness run;
each client may leave at any point of it; an office serves one request
after the other, so the per-office counters differ. A third office adds no new
pair of steps: the locks and semaphores are between two. The liveness run has all
verdicts of `verifyRequestErrors`, a seat named twice (the rollback of one's own
booking) and an empty list; with two clients it does not end in the time allowed.

What the properties say:

- `NoDoubleBooking`: seats set aside for two clients are disjoint, and AYE comes
  with the number wanted.
- `SeatsAccounted`: an entry of `seatList` names exactly who holds or was promised
  the seat, at every point of a rollback.
- `SeatSemaphores`, `AnswerSemaphores`: waits and posts balance on every path; only
  the early return of `sendResponse` loses one, for a client that is past it.
- `OccupiedCovers`: the per-office counters together cover what is booked, so they
  never make room that is not there, and none exceeds the room.
- `BookMatchesAnswers`: `sbook.txt` is what clients were answered, but for the last
  seat, which `writeSBook`'s bound leaves out.
- `OneReader`: one office at a time is between the second look at `g_tickets_are_open`
  and the end of `read`, so at most one serves a request taken after the close.
- `ImplementsReservations`: the clients see `Reservations`. A seat set aside is
  granted when the office has all it needs, and withdrawn when the answer cannot
  be delivered, never from a client that knows.
- `EventuallyClosed`, `ClientsEnd`: everything ends once the timer has fired.

- `NobodyLeftBehind`: whatever fork or a client does, the launcher leaves a running
  client only when it returns a failure, or is told to end after its LEADER failed.
- `LateFailureReported`: a client the last `handle_zombies(0)` waited for and that
  failed makes the PARENT's status other than 0.
- `LauncherEnds`: the launcher ends, interrupted or not.

- `BooksAreAnswer`: `cbook.txt` gets the seats of the answer, in order, each once,
  whichever process reads which part; only after a kill is an int misread as a code.
- `EndedByAnswer`: a client that its child ended, or that finds its FIFO gone, has
  logged the whole answer. `NoEarlySigpipe`: up to the parent's `sem_post` there is a
  reader. `SemLeftTaken`: only a kill (the child's of its parent too) leaves the
  semaphore at 0.
- `ClientEnds`, `OfficeReturns`: each gets out whatever the other does. The
  exceptions are in the formulas: a server that dies holding the semaphore, an answer
  without seats after a kill, a client killed from outside (its FIFO stays linked and
  the office blocks in `open`).
- `FifoIsLock`: whoever is between `mkfifo` and `unlink` is alone, and only a killed
  server leaves a FIFO that clients wait on.
- `SeatLockKept`: two offices are at one seat together only in a server that started
  while its predecessor was in the final `sem_unlink` loop: that does happen.
- `SemaphoresFresh`, `LeftOvers`: of earlier runs only the last seat's semaphore is
  ever met (the loops end at `nSeats - 1`); without a kill it is free. `ServerEnds`:
  every server is over in the end, but one that meets a last seat's semaphore that a
  killed one had taken.
- `ServerSeesArgs`, `ServerAgreesWithClient`: number, count and list arrive as meant,
  and both programs parse any other list alike; only an empty number moves the fields.
- `StoresInBounds`, `ListsFit`: no list of integers writes past its memory, and the
  longest legal one is one character too long for `selectedSeats`: that does happen.
- `AyeIsBookable`: AYE means positive seats, at least as many as wanted.
- `PrintsRightLines`: a line printed has a match, and every matching line of an
  ordinary file is printed. Not ordinary: no newline at the end, or a second
  occurrence (with `-w` only the first is tried).
- `SearchComplete`: main ends last, its count the number of lines written, unless
  `waitid` was interrupted, a file could not be opened or a count wrapped. Where stdout is
  no terminal a line may be written more than once, by as many processes as had it in
  their buffer; then the count is that of the different lines, none of which is lost.
- `HaltedWhileAsked`: the tree stands still during the question, the processes that were
  just forked included, or else no process does: when the first directory's had just been
  forked, it ignored SIGTSTP. `SearchEnds`: everything goes on after the question.

More bounds: the answers of `response_channel` are the shapes `readFromServer` tells
apart. Two runs of the server give every overlap of the names, and fewer seats in
the second put its last seat inside the first's loop. Four characters hold two
numbers, a sign and any misplaced blank. `ExitModulus` is 4, so that counts wrap;
three directories give siblings and a chain, and each oddity of a tree (no
permission, no `-r`) has one.

For the launcher, three clients give a failure in the loop, in the last wait and
none at all; a second Ctrl+C is what a left-over newline needs, and may come while
the PARENT asks, waits or has just resumed.

The five violations are disagreements between a text and the code, quoted under
`findings`: `Part2/report.pdf` on requests after the close, on clients that
leave and on the child killed while it reads; the head of `start _v2.c` on the exit status (`main_loop` overwrites it) and
on the user's answer (`scanf` leaves a newline for the next question).

### Fairness

Weak fairness of the main thread, of the timer, of each office and of each client
that has sent its request: threads and processes the kernel schedules, a timer
that sleeps for a finite time, a `poll` with a time limit. Weak fairness is enough
for the locks because each client sends once, so a mutex or a semaphore is taken
finitely often. `SendRequest` is not fair: nobody has to start a client.

`Launcher`: weak fairness of the LEADER, the PARENT and the clients (processes the
kernel schedules; a client has a time out and, by `ClientsEnd`, ends) and of the
user who was asked. Ctrl+C is not fair, and a stopped process is not enabled.

`ResponseChannel`: weak fairness of the office once it is in `sendResponse` and of
both processes (`usleep` ends, `poll` has a limit); not of `SendResponse`, since
nothing makes an office get to this request, and not of deaths. Nobody else posts or
waits for the semaphores, so weak fairness is enough for them.

`ServerLifecycle`: weak fairness of each main thread, timer and office that has begun
with a seat; not of starts, kills, requests and the user's `rm`. An office waits for a
semaphore another one posts, and each server tests seats `MaxUses` times, so it is not
overtaken for ever. `RequestParsing` has no liveness property and no fairness.

`Simgrep`: weak fairness of each process that is not stopped, and of the user who
was asked; not of Ctrl+C and of fork's failures.

## 4. Proofs

`TicketOffices_proofs` proves for any number of offices, clients and seats, from
`ConstantsAssumption` alone: `TypeCorrect`, `NoDoubleBookingHolds`,
`SeatsAccountedHolds` (from `Invariance`), and `OneReaderHolds`.

`NoDoubleBooking` is not inductive: it does not know why the office about to book
finds the seat still free, nor that the request is not with another office.
`IInv` adds, beside the types,

- `ServingOK`: what an office's position says of its request and error code;
- `ResultOK`: when `requestResult` is empty, when it is complete;
- `PidOnce`: a request is in the FIFO or with one office, not in two places, and
  unanswered while it is there. Without it two offices could hold seats under one
  name and a rollback of one would free seats of the other;
- `SeatSemOK`: an office inside the test has the semaphore of its seat at 0, alone,
  and a seat about to be booked is still free (`freeSeats` only frees);
- `Ownership`: every seat held or promised carries its owner's name, no list names a
  seat twice, and each name in `seatList` has an owner.

Each conjunct has a lemma (`TypeStep`, `ServingStep`, `ResultStep`, `PidStep`,
`SeatSemStep`, `OwnershipStep`) that goes through the actions; ownership moves in
`TakeOwnership`, `FreeOwnership` and `ReplyOwnership` and stays elsewhere.
`OneReader` rests on `MutexOK`, inductive relative to the types.

`ServerLifecycle_proofs` proves, for any number of servers, each with any number of
seats, and any finite number of offices, all five invariants of `server_lifecycle`.
`FifoIsLock` is inductive beside the types; the others need its
strengthening `IInv`:

- `IndexOK`, `NameOK`: the loops start from 0 again, and a name belongs to its seat;
- `CleanOK`, `SweptOK`: whose the names are while a server cleans and serves, and what
  is left of its own behind the index of its sweep. `FifoIsLock` makes the server that
  serves the only one that creates names;
- `OfficesOK`: no office before serving or after joining;
- `NoSweep`, `OneSemaphore`, `OneInside`: without a sweep under it the offices of a
  server mean one semaphore by one seat, and one process is inside each. This is where
  a server in `overlapped` fails.

`TicketOffices_service_proofs` builds on it and proves `SeatSemaphoresHold`,
`AnswerSemaphoresHold`, `OccupiedCoversHolds`, `BookMatchesAnswersHolds`,
and `ImplementsReservationsHolds`. `ServiceInv` has, beside `IInv`,

- `Preferred`, `AnsweredOK`: an office books only what its request prefers, and a client
  with AYE is with no office any more, so what was booked stays with the right client;
- `SeatSemHeld`, `AnswerSemOK`: a semaphore at 0 has a holder. `SeatSemaphores` and
  `AnswerSemaphores` count the holders; that there is at most one is in `IInv`;
- `RoomOK`, `CountersCover`: an office books only what fits by its own counter, and the
  sum of the counters is at least the number of seats taken for good. A booking adds as
  many to both (`SeatsOfStep`), an answer nobody can be given only takes away;
- `ClosedOK`: after `sbook.txt` nothing is booked.

For the refinement, `InitContract` maps the initial states and `ContractStep` each step:
`AllBooked` is `Grant`, `OpenResponseFails` is `Withdraw`, `ReadAnswer` of AYE is `Tell`,
and everything else leaves the contract's variables alone.

`Launcher_proofs` proves `TypeCorrect`, `NobodyLeftBehindHolds` and
`LateFailureReportedHolds` for any set of configuration files, any lines the user may type
and any number of Ctrl+C, from `ConstantsAssumption`. `IInv` adds who may still be alive
when (`CountOK`, `RolesOK`), that a status of 0 means every client was waited for
(`StatusOK`), what the last `handle_zombies` remembers (`AwaitedOK`), and that the input
ends with a newline (`InputOK`), without which the `scanf` of the handler could run dry.

`ResponseChannel_proofs` proves the five invariants of `response_channel` for any set of
answers, of any length. `IInv` follows the answer through the FIFO: `FifoOK` and `BooksOK`
say which part is in it and which in the books, `OfficeOK` how far the office is,
`ChildOK` and `ParentOK` what each process may have read when, `SemOK` that whoever has
the semaphore finds all of the answer in the FIFO or nothing, and `LinkOK` and `ReaderOK`
who unlinks the FIFO and keeps it open. `CodeInv`, `CountInv` and `SeatInv` are the three
kinds of read.

`Simgrep_proofs` proves `TypeCorrect`, `HaltedWhileAskedHolds`, `SearchCompleteHolds` and
`PrintsRightLinesHolds` for any searches that satisfy `SearchesAssumption`. In `IInv`,

- `TodoOK`, `ForkOK`, `BeginOK`, `EndOK` follow a process through its directory: a
  directory has a process once its parent has come to it, and a process ends at its last
  entry with all its children reaped. So when `main` ends, everything was read
  (`AllReaped`);
- `FirstOK`: once there is a process `main` has nothing left to read, and until the first
  directory's has got through `ignore_sig_int` there is no other;
- `AskOK`: only `main` and that process have SIGINT to handle, so while `main` asks the
  others are stopped, or that process cannot be and there are no others;
- `OutputOK`: what is written or still in a buffer is, without repetitions, what
  `divideFile` prints of the files that were come to; on a terminal the buffers are empty
  and each line is written by its reader, so once;
- `CountOK`, `SumOK`: the counts that nobody has taken over yet add up to the lines
  found. `waitid` moves a count from child to parent, a file adds its own. At the end the
  buffers are empty, and the lines found are those written (`AllWritten`).

`PrintedMatches` and `PlainIsFound` then relate what is printed to the reference
definition of a match; the buffer of a line and the search in it are not recursive, so
they are proved for lines and patterns of any length.

`RequestParsing_proofs` proves the six invariants of `request_parsing` for arguments of any
length, any limits and any room, from `ConstantsAssumption`. Its invariant is small, since
a request takes four steps: `SentOK` says what the line is, `ReadOK` that the request is
what the line says, `RequestType`, `ErrorOK` and `BookableOK` what each verdict means,
`WritesOK` and `LengthOK` what was stored. The work is in the parsers:

- `ValueIs`, `ConversionsFrom` and the proof of `PrintedNumber` show that the recursive
  functions behind `Value`, `Conversions` and `DigitsOf` exist, from `RecursionExists`;
  `PrintedNumber` then says that a printed number is read back as it was;
- `NumberInside`: `sscanf` finds in a line what it finds in a part of it that ends at a
  blank or with the line. `LineRead` takes the line apart with it into the fields that
  went in, the last one without its leading blanks (`Trimmed`);
- `TrimmedNumbers`, `TrimmedAmount`: those blanks change neither the numbers found nor
  how many are counted, so `SameArrays` can compare the lists of the two programs;
- `EveryWord`, `NextWord`, `WordsAfter`, `RankedMore`: from the end of a word a conversion
  finds the next word, and the words that are left are that one and those after it. By
  induction the numbers found are the words in their order (`WellFormedList`), and as many
  as `getIntAmount` counts, each word having one last digit (`AmountOfWords`);
- `WordsFit`: every position of a list belongs to a word or comes right after one, which
  bounds the length of `selectedSeats` by a product.

The constants are assumed only to be strings over the model's characters, and `NULL` and
"never assigned" to be no list and no int.

`InductionLemmas` has what these need beyond the library, whose induction theorems the
provers cannot use because they are about an operator. That a set in a well-founded
relation has a minimal element is about sets, so one takes the least counterexample
(`LeastNatural`, `IntervalInduction`, `SubsetInduction`). `SumExists` shows in that way that the recursion
behind the community modules' `SumFunction` defines a function, and `SumEquations`,
`SumIncrease` and `SumOfZeros` are what the proofs cite. `RecursionExists` and
`RecursionInduction` do the same for any recursion that goes down in a rank.

Only model-checked: all liveness properties. `EventuallyClosed`, `ClientsEnd`,
`LauncherEnds`, `ClientEnds`, `OfficeReturns`, `ServerEnds` and `SearchEnds` rest on
fairness, whose ENABLED is beyond the prover. The operators of `PatternSearch` are proved
about only as far as `PrintsRightLines` goes.

## 5. Not modelled, and what could follow

- SIGUSR1 on an office's thread (POSIX allows it, Linux does not do it here), and with
  it interrupted `read` and `sem_wait`.
- `verifiyInput` (three numbers read and clamped once before anything starts), seat
  identifiers above `nSeats` (an index out of bounds: any outcome), numbers of seats
  below 0 beyond the verdict (`malloc` of a negative size).
- In `start _v2.c`: the fields of an entry, the unbounded list of preferences, Ctrl+C
  before the LEADER has restored the default handler.
- `getFiles.c` (sequential output), the logs of both programs (wording), build files
  and sample outputs.

Proofs that could follow: that what `RequestParsing` lets through is, for arguments without
a negative number, a member of `Request` of `TicketOffices`.
