--------------------------- MODULE RequestParsing ---------------------------
(***************************************************************************)
(* A request on its way from the arguments of the client to the verdict of *)
(* an office: populateRequest and writeRequestToFifo (Part2/Client), then  *)
(* the sscanf of processClientMsg, stringToIntArray and verifyRequestErrors *)
(* (Part2/Server).  A string is a sequence of characters, each a string of *)
(* length one: digits, "-", " ", and "x" for any other.                    *)
(***************************************************************************)
EXTENDS Integers, Sequences, FiniteSets, FiniteSetsExt

CONSTANTS
  Args,          \* pairs <<num_wanted_seats, pref_seat_list>> of a client
  Rooms,         \* what an office may take nSeats - nOccupiedSeats to be
  MaxCliSeats,   \* MAX_CLI_SEATS
  WidthSeat,     \* WIDTH_SEAT, the digits of a seat
  Null,          \* the NULL of preferredSeats
  Unset          \* the value of what was never assigned

Digits == <<"0", "1", "2", "3", "4", "5", "6", "7", "8", "9">>
Digit == Range(Digits)
Blank == " "
Char == Digit \cup {"-", Blank, "x"}

ASSUME ConstantsAssumption ==
  /\ Args \subseteq Seq(Char) \X Seq(Char)
  /\ Rooms \subseteq Int
  /\ MaxCliSeats \in Nat \ {0} /\ WidthSeat \in Nat \ {0}
  /\ Null \notin Seq(Int) /\ Unset \notin Int

VARIABLES
  args,      \* the client's arguments
  at,        \* how far the request is
  line,      \* what the client writes to the FIFO, after its pid
  request,   \* the office's Request, with the size of its seat list
  text,      \* the characters sscanf put into selectedSeats
  writes     \* ints each stringToIntArray wrote, and had memory for

vars == <<args, at, line, request, text, writes>>

-----------------------------------------------------------------------------
(* Scanning                                                                *)

\* The first position from p on whose character is not in S.
SkipOver(str, p, S) ==
  Min({k \in p..(Len(str) + 1) : k = Len(str) + 1 \/ str[k] \notin S})

DigitOf == [d \in Digit |-> CHOOSE n \in 0..9 : Digits[n + 1] = d]

Value(digits) ==
  LET v[k \in 0..Len(digits)] ==
        IF k = 0 THEN 0 ELSE 10 * v[k - 1] + DigitOf[digits[k]]
  IN v[Len(digits)]

\* sscanf("%d"), or strtol, from position p.
NumberAt(str, p) ==
  LET q == SkipOver(str, p, {Blank})
      minus == q <= Len(str) /\ str[q] = "-"
      first == IF minus THEN q + 1 ELSE q
      next == SkipOver(str, first, Digit)
      abs == Value(SubSeq(str, first, next - 1))
  IN [ok |-> next > first, value |-> IF minus THEN -abs ELSE abs, next |-> next]

\* Mutant of getIntAmount: an integer that ends the string is not counted.
AmountBeforeBlanks(str) ==
  Cardinality({c \in 1..(Len(str) - 1) : str[c] \in Digit /\ str[c + 1] = Blank})

\* The loop counts digits that a blank or the end of the string follows.
LastDigits(str) ==
  {c \in DOMAIN str : str[c] \in Digit /\ (c = Len(str) \/ str[c + 1] = Blank)}

getIntAmount(str) == Cardinality(LastDigits(str))

\* The numbers successive sscanf find: the pointer is moved past the digits.
Conversions(str) ==
  LET from[p \in 1..(Len(str) + 1)] ==
        LET n == NumberAt(str, p)
        IN IF n.ok THEN <<n.value>> \o from[n.next] ELSE <<>>
  IN from[1]

\* Mutant of stringToIntArray: a list that ends early is returned as it is.
stringToShortArray(str, positive) ==
  LET size == getIntAmount(str)
      found == Conversions(str)
      bad == {k \in DOMAIN found : positive /\ found[k] <= 0}
      counter == Min({size, Len(found)} \cup {k - 1 : k \in bad})
  IN [ok |-> TRUE, size |-> size, list |-> SubSeq(found, 1, counter),
      writes |-> Min({Len(found), counter + 1})]

\* The loop of stringToIntArray.  sscanf stores a number before counter is
\* compared with size; the server's loop also ends at one that is not positive.
stringToIntArray(str, positive) ==
  LET size == getIntAmount(str)
      found == Conversions(str)
      bad == {k \in DOMAIN found : positive /\ found[k] <= 0}
      counter == Min({size, Len(found)} \cup {k - 1 : k \in bad})
  IN [ok |-> counter = size, size |-> size, list |-> SubSeq(found, 1, counter),
      writes |-> Min({Len(found), counter + 1})]

-----------------------------------------------------------------------------
(* The client                                                              *)

\* The whole argument must be a number; an empty one counts as 0.
checkValidIntArgument(arg) ==
  LET n == NumberAt(arg, 1)
  IN [ok |-> arg = <<>> \/ (n.ok /\ n.next = Len(arg) + 1),
      value |-> IF arg = <<>> THEN 0 ELSE n.value]

clientList(arg) == stringToIntArray(arg, FALSE)

\* "%d" of the number of seats.
DigitsOf(n) ==
  LET printed[k \in 0..n] ==
        IF k < 10 THEN <<Digits[k + 1]>>
        ELSE Append(printed[k \div 10], Digits[(k % 10) + 1])
  IN printed[n]

Init ==
  /\ args \in Args
  /\ at = "client"
  /\ line = <<>> /\ text = <<>>
  /\ request = [wanted |-> Unset, numPreferred |-> Unset, list |-> Null,
                size |-> 0, error |-> "AYE"]
  /\ writes = [client |-> 0, server |-> 0]

\* It exits unless both arguments can be read.
populateRequest(a) == checkValidIntArgument(a[1]).ok /\ clientList(a[2]).ok

\* populateRequest, then writeRequestToFifo.
Send ==
  LET list == clientList(args[2])
      accepted == populateRequest(args)
  IN /\ at = "client"
     /\ at' = IF accepted THEN "sent" ELSE "refused"
     /\ line' = IF accepted
                THEN args[1] \o <<Blank>> \o DigitsOf(list.size) \o <<Blank>> \o args[2]
                ELSE <<>>
     /\ writes' = [writes EXCEPT !.client = IF checkValidIntArgument(args[1]).ok
                                            THEN list.writes - list.size ELSE 0]
     /\ UNCHANGED <<args, request, text>>

-----------------------------------------------------------------------------
(* The office                                                              *)

\* sscanf("%d %d %d %[^\n]") after the pid: a blank skips blanks, or nothing.
Wanted(l) == NumberAt(l, 1)
Preferred(l) == NumberAt(l, Wanted(l).next)

\* Mutants of Selected: "%s" for "%[^\n]"; no blank in front of it.
SelectedWord(l) ==
  LET p == SkipOver(l, Preferred(l).next, {Blank})
  IN SubSeq(l, p, SkipOver(l, p, Digit \cup {"-", "x"}) - 1)

SelectedWithBlank(l) == SubSeq(l, Preferred(l).next, Len(l))

Selected(l) == SubSeq(l, SkipOver(l, Preferred(l).next, {Blank}), Len(l))

\* Fewer than four fields: ERR, with what was not read left as it was.
ReadError ==
  /\ at = "sent"
  /\ ~(Wanted(line).ok /\ Preferred(line).ok /\ Selected(line) # <<>>)
  /\ at' = "answered"
  /\ request' = [request EXCEPT
       !.wanted = IF Wanted(line).ok THEN Wanted(line).value ELSE @,
       !.numPreferred = IF Wanted(line).ok /\ Preferred(line).ok
                        THEN Preferred(line).value ELSE @,
       !.error = "ERR"]
  /\ UNCHANGED <<args, line, text, writes>>

\* Mutant of ReadFields: the fields are taken in another order.
ReadFieldsSwapped ==
  /\ at = "sent"
  /\ Wanted(line).ok /\ Preferred(line).ok /\ Selected(line) # <<>>
  /\ at' = "read"
  /\ text' = Selected(line)
  /\ LET list == stringToIntArray(text', TRUE)
     IN /\ request' = [wanted |-> Preferred(line).value,
                       numPreferred |-> Wanted(line).value,
                       list |-> IF list.ok THEN list.list ELSE Null,
                       size |-> list.size,
                       error |-> IF list.ok THEN "AYE" ELSE "IID"]
        /\ writes' = [writes EXCEPT !.server = list.writes - list.size]
  /\ UNCHANGED <<args, line>>

ReadFields ==
  /\ at = "sent"
  /\ Wanted(line).ok /\ Preferred(line).ok /\ Selected(line) # <<>>
  /\ at' = "read"
  /\ text' = Selected(line)
  /\ LET list == stringToIntArray(text', TRUE)
     IN /\ request' = [wanted |-> Wanted(line).value,
                       numPreferred |-> Preferred(line).value,
                       list |-> IF list.ok THEN list.list ELSE Null,
                       size |-> list.size,
                       error |-> IF list.ok THEN "AYE" ELSE "IID"]
        /\ writes' = [writes EXCEPT !.server = list.writes - list.size]
  /\ UNCHANGED <<args, line>>

\* Mutant of Verdict: the client's count is believed.
VerdictOfCount(room) ==
  CASE request.wanted > MaxCliSeats         -> "MAX"
    [] request.numPreferred < request.wanted -> "NST"
    [] room < request.wanted                -> "FUL"
    [] OTHER                                -> request.error

Verdict(room) ==
  CASE request.wanted > MaxCliSeats     -> "MAX"
    [] request.size < request.wanted    -> "NST"
    [] room < request.wanted            -> "FUL"
    [] OTHER                            -> request.error

verifyRequestErrors ==
  /\ at = "read"
  /\ at' = "answered"
  /\ \E room \in Rooms : request' = [request EXCEPT !.error = Verdict(room)]
  /\ UNCHANGED <<args, line, text, writes>>

Next == Send \/ ReadError \/ ReadFields \/ verifyRequestErrors

Spec == Init /\ [][Next]_vars

-----------------------------------------------------------------------------
(* Properties.  The reference is what a list of seats says: words between  *)
(* blanks, each an integer.                                                *)

Words(str) ==
  {w \in (1..Len(str)) \X (1..Len(str)) :
     /\ w[1] <= w[2] /\ \A k \in w[1]..w[2] : str[k] # Blank
     /\ w[1] = 1 \/ str[w[1] - 1] = Blank
     /\ w[2] = Len(str) \/ str[w[2] + 1] = Blank}

IsInteger(str, w) ==
  /\ str[w[1]] \in Digit \/ (str[w[1]] = "-" /\ w[1] < w[2])
  /\ \A k \in (w[1] + 1)..w[2] : str[k] \in Digit

WellFormed(str) == \A w \in Words(str) : IsInteger(str, w)

\* list holds the words of str, in their order.
Denotes(list, str) ==
  /\ Len(list) = Cardinality(Words(str))
  /\ \A w \in Words(str) :
       LET rank == Cardinality({v \in Words(str) : v[1] <= w[1]})
       IN list[rank] = NumberAt(SubSeq(str, w[1], w[2]), 1).value

TypeOK ==
  /\ args \in Args
  /\ at \in {"client", "refused", "sent", "read", "answered"}
  /\ line \in Seq(Char)
  /\ request.wanted \in Int \cup {Unset}
  /\ request.numPreferred \in Int \cup {Unset}
  /\ request.list = Null \/ Len(request.list) = request.size
  /\ request.error \in {"AYE", "MAX", "NST", "IID", "ERR", "FUL"}

\* A client started with a number and a list of integers is not refused, and
\* the office sees what it meant: the same wanted number, as many seats, and the
\* seats, or no list at all if one is not positive.
ServerSeesArgs ==
  args[1] # <<>> /\ checkValidIntArgument(args[1]).ok /\ WellFormed(args[2]) =>
    /\ at # "refused"
    /\ at = "read" =>
         /\ request.wanted = checkValidIntArgument(args[1]).value
         /\ request.numPreferred = Cardinality(Words(args[2]))
         /\ \/ request.list # Null /\ Denotes(request.list, args[2])
            \/ /\ request.list = Null
               /\ \E k \in 1..request.numPreferred :
                    clientList(args[2]).list[k] <= 0

\* Both programs take a list for the same one, well-formed or not ("1x 1"), and
\* as long: sendResponse prints it with the count the client sent, none at all
\* for ERR.  Only an empty first argument, which moves the fields, breaks it.
ServerAgreesWithClient ==
  at \in {"read", "answered"} /\ args[1] # <<>> =>
    IF request.error = "ERR" THEN request.numPreferred = 0
    ELSE /\ request.size = request.numPreferred
         /\ request.list # Null => request.list = clientList(args[2]).list

\* No list of integers makes stringToIntArray store past what it allocated; a
\* word that goes on after its digits ("1x") does, by one int.
StoresInBounds ==
  /\ writes.client <= 1 /\ writes.server <= 1
  /\ args[1] # <<>> /\ WellFormed(args[2]) => writes.client <= 0 /\ writes.server <= 0

\* selectedSeats has room for a list of at most MAX_CLI_SEATS seats with single
\* blanks, but for the longest: its terminating NUL is one too many.
SelectedSeatsSize == WidthSeat * MaxCliSeats + MaxCliSeats - 1

ListsFit ==
  LET str == args[2]
      width(w) == w[2] - w[1] + 1
  IN (/\ Cardinality(Words(str)) <= MaxCliSeats
      /\ \A w \in Words(str) : width(w) <= WidthSeat
      /\ \A k \in DOMAIN str : str[k] = Blank =>
           k > 1 /\ k < Len(str) /\ str[k - 1] # Blank)
     => \/ Len(text) + 1 <= SelectedSeatsSize
        \/ Len(str) = SelectedSeatsSize

\* AYE sends a request on to booking only with a list of positive seats, as long
\* as the number wanted, which is at most MAX_CLI_SEATS and the room left.
AyeIsBookable ==
  at = "answered" /\ request.error = "AYE" =>
    /\ request.list # Null /\ \A k \in DOMAIN request.list : request.list[k] > 0
    /\ request.wanted <= MaxCliSeats /\ request.wanted <= Len(request.list)
    /\ \E room \in Rooms : request.wanted <= room
=============================================================================
