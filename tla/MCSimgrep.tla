----------------------------- MODULE MCSimgrep ------------------------------
(* Searches for TLC: trees with up to four processes, and single files whose *)
(* line is any of up to MaxLen characters.                                   *)
EXTENDS Simgrep

CONSTANTS d1, d2, d3, f1, f2, f3, MaxLen

File(name) == [kind |-> "file", name |-> name]
Directory(name) == [kind |-> "dir", name |-> name]

ab == <<"a", "b">>
Text(lines) == [readable |-> TRUE, lines |-> lines]

MCFiles == [f \in {f1, f2, f3} |->
  CASE f = f1 -> Text(<<<<"a", "b", NL>>, <<"b", NL>>, <<" ", "A", "b">>>>)
    [] f = f2 -> Text(<<<<"a", "b", NUL, NL>>, <<"a", "b", NL>>>>)
    [] f = f3 -> [readable |-> FALSE, lines |-> <<>>]]

Tree(names, top, middle, leaf, readable, flags, n, terminal) ==
  [root |-> Directory(d1), files |-> [f \in names |-> MCFiles[f]],
   pattern |-> ab, mask |-> flags, interrupts |-> n, terminal |-> terminal,
   dirs |-> [d \in Dir |->
     [readable |-> d # d3 \/ readable,
      entries |-> CASE d = d1 -> top [] d = d2 -> middle [] d = d3 -> leaf]]]

\* Siblings; a chain with a file that cannot be opened; one with such a
\* directory; a count of ExitModulus; a directory without -r.
MCTrees ==
  UNION {{
    Tree({f1, f2}, <<File(f1), Directory(d2), Directory(d3)>>, <<File(f1)>>,
         <<File(f1), File(f2)>>, TRUE, {"r"}, 2, t),
    Tree({f1, f3}, <<Directory(d2), File(f3)>>, <<Directory(d3), File(f1)>>,
         <<File(f1)>>, TRUE, {"r", "i"}, 1, t),
    Tree({f1}, <<Directory(d2)>>, <<Directory(d3), File(f1)>>, <<>>, FALSE, {"r"}, 1, t),
    Tree({f1}, <<Directory(d2), Directory(d3)>>, <<File(f1)>>, <<File(f1)>>,
         TRUE, {"r", "i"}, 0, t),
    Tree({f1}, <<Directory(d2), Directory(d3)>>, <<>>, <<>>, TRUE, {}, 1, t)} : t \in BOOLEAN}

MCLines == UNION {[1..n -> {"a", "b", "A", " "}] : n \in 0..MaxLen}

OneFile(line, pattern, flags) ==
  [root |-> File(f1), files |-> [f \in {f1} |-> Text(<<line>>)],
   pattern |-> pattern, mask |-> flags, interrupts |-> 0, terminal |-> TRUE,
   dirs |-> [d \in Dir |-> [readable |-> TRUE, entries |-> <<>>]]]

MCSearches ==
  MCTrees \cup {OneFile(line \o end, pattern, flags) :
                  line \in MCLines, end \in {<<>>, <<NL>>},
                  pattern \in {<<"a">>, ab}, flags \in {{}, {"i"}, {"w"}, {"i", "w"}, {"l", "w"}}}
=============================================================================
