--------------------------- MODULE PatternSearch ----------------------------
(***************************************************************************)
(* What simgrep does with one file (Part1: divideFile.c, patternSearch.c). *)
(* A line is a sequence of characters, with the NL getline leaves at its   *)
(* end unless the file ends there; a mask is the set of the flags given.   *)
(***************************************************************************)
EXTENDS Integers, Sequences, FiniteSets, FiniteSetsExt

\* Letters stand for all that is part of a word; any other is a delimiter.
Lower == [c \in {"a", "b", "A", "B"} |->
            CASE c = "A" -> "a" [] c = "B" -> "b" [] OTHER -> c]

NL == "NL"
NUL == "NUL"
Delimiter == {" ", NL}
Char == DOMAIN Lower \cup Delimiter \cup {NUL}
Flag == {"i", "l", "n", "c", "w", "r"}

isDelimiter(c) == c \notin DOMAIN Lower

Same(c, d, mask) ==
  c = d \/ ("i" \in mask /\ {c, d} \subseteq DOMAIN Lower /\ Lower[c] = Lower[d])

\* What the functions of string.h see of a line.
CString(line) ==
  SubSeq(line, 1, Min({k - 1 : k \in {j \in DOMAIN line : line[j] = NUL}}
                        \cup {Len(line)}))

Occurrences(str, pattern, mask) ==
  {k \in 1..(Len(str) - Len(pattern) + 1) :
     \A j \in DOMAIN pattern : Same(str[k + j - 1], pattern[j], mask)}

\* Mutant of isWholeWord: the character in front is not looked at.
startsWithWord(str, foundWord, size) ==
  foundWord + size <= Len(str) /\ isDelimiter(str[foundWord + size])

\* There must be a character behind: a word at the end of str is refused.
isWholeWord(str, foundWord, size) ==
  /\ foundWord = 1 \/ isDelimiter(str[foundWord - 1])
  /\ foundWord + size <= Len(str) /\ isDelimiter(str[foundWord + size])

\* The four contains functions: strstr, or strcasestr, finds the first only.
contains(line, pattern, mask) ==
  LET str == CString(line)
      found == Occurrences(str, pattern, mask)
  IN found # {} /\ ("w" \in mask => isWholeWord(str, Min(found), Len(pattern)))

\* NUL is looked for in the first line only.
is_binary(file) == file.lines # <<>> /\ \E k \in DOMAIN file.lines[1] :
                                          file.lines[1][k] = NUL

\* The numbers of the lines choose_options prints; 0 is the name for -l.
Printed(file, pattern, mask) ==
  LET chosen == {n \in DOMAIN file.lines : contains(file.lines[n], pattern, mask)}
  IN IF ~file.readable \/ is_binary(file) THEN {}
     ELSE IF "l" \in mask /\ chosen # {} THEN {0} ELSE chosen

\* The result counts lines, none with -l, and is -1 if fopen fails.
divideFile(file, pattern, mask) ==
  IF file.readable THEN Cardinality(Printed(file, pattern, mask) \ {0}) ELSE -1
=============================================================================
