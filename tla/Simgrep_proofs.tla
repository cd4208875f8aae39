--------------------------- MODULE Simgrep_proofs ----------------------------
(***************************************************************************)
(* Proofs about simgrep for any tree of directories and any files.  The    *)
(* inductive invariant IInv follows each process through its directory:    *)
(* which of its entries have a process, which lines it has found and where *)
(* they are, and that the counts of the processes that were not waited for *)
(* yet add up to the lines found.                                          *)
(***************************************************************************)
EXTENDS Simgrep, InductionLemmas, SequenceTheorems

DirEntry(d)  == [kind |-> "dir", name |-> d]
FileEntry(f) == [kind |-> "file", name |-> f]

\* Where p is in its directory: it has dealt with that many entries.
Place(p) == Len(Contents(search, p)) - Len(todo[p])

TodoOK ==
  \A p \in Process :
    /\ Place(p) >= 0
    /\ \A k \in 1..Len(todo[p]) : todo[p][k] = Contents(search, p)[Place(p) + k]

\* A directory has a process once its parent has come to it, with -r.
ForkOK ==
  \A p \in Process : \A j \in 1..Len(Contents(search, p)) : \A d \in Dir :
    Contents(search, p)[j] = DirEntry(d) =>
      (pc[d] # "none" <=> "r" \in search.mask /\ j <= Place(p))

\* A process begins at the first entry, and forks only with -r.
BeginOK ==
  \A d \in Dir :
    /\ pc[d] \in {"none"} \cup Fresh => Place(d) = 0 /\ n_lines[d] = 0
    /\ pc[d] # "none" => "r" \in search.mask

\* Without a fork that failed, a process ends at the last entry, when it has
\* waited for all its children, and leaves nothing unwritten.
EndsWell(p) ==
  /\ pc[p] = "wait" => todo[p] = <<>>
  /\ ~cut /\ pc[p] \in {"zombie", "reaped", "done"} =>
       /\ todo[p] = <<>> /\ buffer[p] = {}
       /\ "r" \in search.mask =>
            \A j \in 1..Len(Contents(search, p)) : \A d \in Dir :
              Contents(search, p)[j] = DirEntry(d) => pc[d] = "reaped"

EndOK == \A p \in Process : EndsWell(p)

\* Until the first directory's process has come out of ignore_sig_int no other
\* directory has one; and main has dealt with the path when any has.
FirstOK ==
  \A d \in Dir :
    /\ pc[d] # "none" => todo[Main] = <<>>
    /\ Top(d) /\ pc[d] \in {"none"} \cup Fresh => \A e \in Dir \ {d} : pc[e] = "none"

Running == {d \in Dir : Live(d)}

\* Besides main only the first directory's process runs the handler, and the
\* processes are stopped together or not at all.
AskOK ==
  /\ \A d \in Dir \cap pending : Top(d) /\ pc[d] \in {"forked", "killed"}
  /\ \A d \in Dir \cap asking : Top(d) /\ pc[d] = "forked"
  /\ stopped # {} => stopped = Running
  /\ Main \in asking => stopped = IF escaped THEN {} ELSE Running

PrintedOf(f) == Printed(search.files[f], search.pattern, search.mask)

\* What is printed of the files that were come to.
Found ==
  {l \in Line :
    /\ l[3] \in PrintedOf(l[2])
    /\ \E j \in 1..Place(l[1]) : Contents(search, l[1])[j] = FileEntry(l[2])}

\* Each line found is written or in the buffer of who found it, and these hold
\* no other; on a terminal it was written by who found it.
OutputOK ==
  /\ IsFiniteSet(Found)
  /\ \A p \in Process : buffer[p] \subseteq Found
  /\ \A o \in output : o[2] \in Found
  /\ \A l \in Found : l \in buffer[l[1]] \/ \E o \in output : o[2] = l
  /\ search.terminal => /\ \A p \in Process : buffer[p] = {}
                        /\ \A o \in output : o[1] = o[2][1]

\* Every file can be opened, and nothing cut the search short: counts are counts.
Whole == ~cut /\ \A f \in DOMAIN search.files : search.files[f].readable

CountOK == Whole => n_lines \in [Process -> Nat]

\* The counts nobody has taken over yet, and the lines they count.
OwnCount == [p \in Process |-> IF pc[p] = "reaped" THEN 0 ELSE n_lines[p]]
Lines == {l \in Found : l[3] # 0}

SumOK == Whole /\ (\A d \in Dir : n_lines[d] < ExitModulus) =>
           SumFunction(OwnCount) = Cardinality(Lines)

Types == search \in Searches /\ TypeOK

IInv == /\ Types /\ TodoOK /\ ForkOK /\ BeginOK /\ EndOK /\ FirstOK /\ AskOK
        /\ OutputOK /\ CountOK /\ SumOK

-----------------------------------------------------------------------------
(* Searches                                                                *)

LEMMA Kinds ==
  ASSUME NEW s, NEW e \in Entry(s)
  PROVE  \/ e.kind = "file" /\ e.name \in DOMAIN s.files /\ e = FileEntry(e.name)
         \/ e.kind = "dir" /\ e.name \in Dir /\ e = DirEntry(e.name)
BY DEF Entry, FileEntry, DirEntry

LEMMA Apart ==
  \A d, f : DirEntry(d).kind = "dir" /\ FileEntry(f).kind = "file"
            /\ DirEntry(d).name = d /\ FileEntry(f).name = f
BY DEF FileEntry, DirEntry

LEMMA ContentsType ==
  ASSUME NEW s \in Searches, NEW p \in Process
  PROVE  Contents(s, p) \in Seq(Entry(s))
<1>1. s.root \in Entry(s) /\ \A d \in Dir : s.dirs[d].entries \in Seq(Entry(s))
  BY SearchesAssumption
<1>2. <<s.root>> \in Seq(Entry(s)) /\ <<>> \in Seq(Entry(s))
  BY <1>1
<1>3. p # Main => p \in Dir
  BY DEF Process
<1> QED BY <1>1, <1>2, <1>3 DEF Contents

\* No directory is met twice, and nothing twice by one process.
LEMMA OnlyOnce ==
  ASSUME NEW s \in Searches, NEW p \in Process, NEW q \in Process,
         NEW j \in 1..Len(Contents(s, p)), NEW k \in 1..Len(Contents(s, q)),
         Contents(s, p)[j] = Contents(s, q)[k],
         p = q \/ Contents(s, p)[j].kind = "dir"
  PROVE  p = q /\ j = k
<1>1. Contents(s, p) \in Seq(Entry(s)) /\ Contents(s, q) \in Seq(Entry(s))
  BY ContentsType
<1>2. j \in DOMAIN Contents(s, p) /\ k \in DOMAIN Contents(s, q)
  BY <1>1
<1>3. Distinct(s)
  BY SearchesAssumption
<1> QED BY <1>2, <1>3 DEF Distinct

\* What is printed of a file: a finite set of numbers, which divideFile counts.
LEMMA PrintedType ==
  ASSUME NEW s \in Searches, NEW f \in DOMAIN s.files
  PROVE  LET P == Printed(s.files[f], s.pattern, s.mask)
             n == divideFile(s.files[f], s.pattern, s.mask)
         IN /\ P \subseteq Nat /\ IsFiniteSet(P)
            /\ n \in Int
            /\ s.files[f].readable => n = Cardinality(P \ {0}) /\ n \in Nat
<1> DEFINE P == Printed(s.files[f], s.pattern, s.mask)
           lines == s.files[f].lines
<1>1. lines \in Seq(Seq(Char)) /\ s.files[f].readable \in BOOLEAN
  BY SearchesAssumption
<1>2. DOMAIN lines = 1..Len(lines) /\ Len(lines) \in Nat
  BY <1>1
<1>3. P \in SUBSET (0..Len(lines))
  BY <1>2 DEF Printed
<1>4. IsFiniteSet(P) /\ IsFiniteSet(P \ {0})
  <2>1. IsFiniteSet(0..Len(lines))
    BY <1>2, FS_Interval
  <2>2. IsFiniteSet(P)
    BY <1>3, <2>1, FS_Subset
  <2> QED BY <2>2, FS_RemoveElement
<1>5. Cardinality(P \ {0}) \in Nat
  BY <1>4, FS_CardinalityType
<1>6. P \subseteq Nat
  BY <1>2, <1>3
<1> QED BY <1>1, <1>4, <1>5, <1>6 DEF divideFile

\* As many triples as there are third components.
LEMMA Marked ==
  ASSUME NEW a, NEW b, NEW S, IsFiniteSet(S), NEW T,
         \A x \in S : <<a, b, x>> \in T, \A t \in T : \E x \in S : t = <<a, b, x>>
  PROVE  IsFiniteSet(T) /\ Cardinality(T) = Cardinality(S)
<1> DEFINE g == [x \in S |-> <<a, b, x>>]
<1>1. g \in [S -> T] /\ \A x, y \in S : g[x] = g[y] => x = y
  OBVIOUS
<1>2. \A t \in T : \E x \in S : g[x] = t
  OBVIOUS
<1>3. g \in Bijection(S, T)
  BY <1>1, <1>2 DEF Bijection, Injection, Surjection, IsInjective
<1>4. ExistsBijection(S, T)
  BY <1>3 DEF ExistsBijection
<1> QED BY <1>4, FS_Bijection

-----------------------------------------------------------------------------
(* The next entry                                                          *)

LEMMA PlaceType ==
  ASSUME Types, TodoOK, NEW p \in Process
  PROVE  /\ Contents(search, p) \in Seq(Entry(search)) /\ todo[p] \in Seq(Entry(search))
         /\ Len(Contents(search, p)) \in Nat /\ Len(todo[p]) \in Nat
         /\ Place(p) \in 0..Len(Contents(search, p))
         /\ Place(p) + Len(todo[p]) = Len(Contents(search, p))
<1>1. Contents(search, p) \in Seq(Entry(search)) /\ todo[p] \in Seq(Entry(search))
  BY ContentsType DEF Types, TypeOK
<1>2. Len(Contents(search, p)) \in Nat /\ Len(todo[p]) \in Nat
  BY <1>1, LenProperties
<1>3. Place(p) >= 0
  BY DEF TodoOK
<1> QED BY <1>1, <1>2, <1>3 DEF Place

\* Taking an entry leaves the place of every other process.
LEMMA NextEntry ==
  ASSUME Types, TodoOK, NEW p \in Process, todo[p] # <<>>
  PROVE  /\ Place(p) + 1 \in 1..Len(Contents(search, p))
         /\ Contents(search, p)[Place(p) + 1] = Head(todo[p])
         /\ Head(todo[p]) \in Entry(search)
<1>1. /\ todo[p] \in Seq(Entry(search)) /\ Len(todo[p]) \in Nat \ {0}
      /\ Head(todo[p]) = todo[p][1]
  BY PlaceType, EmptySeq, HeadTailProperties
<1>2. Head(todo[p]) \in Entry(search)
  BY <1>1
<1>3. todo[p][1] = Contents(search, p)[Place(p) + 1]
  BY <1>1 DEF TodoOK
<1>4. Place(p) + 1 \in 1..Len(Contents(search, p))
  BY <1>1, PlaceType
<1> QED BY <1>1, <1>2, <1>3, <1>4

LEMMA Advance ==
  ASSUME Types, TodoOK, NEW p \in Process, todo[p] # <<>>,
         todo' = [todo EXCEPT ![p] = Tail(@)], search' = search
  PROVE  /\ Place(p)' = Place(p) + 1
         /\ \A q \in Process : q # p => Place(q)' = Place(q)
         /\ TodoOK'
<1>0. /\ Len(Contents(search, p)) \in Nat /\ Place(p) \in Nat
      /\ Place(p) = Len(Contents(search, p)) - Len(todo[p])
  BY PlaceType DEF Place
<1>1. /\ todo[p] \in Seq(Entry(search)) /\ Len(todo[p]) \in Nat \ {0}
      /\ todo'[p] = Tail(todo[p]) /\ Len(todo'[p]) = Len(todo[p]) - 1
      /\ \A k \in 1..Len(todo'[p]) : todo'[p][k] = todo[p][k + 1]
  <2>1. todo[p] \in Seq(Entry(search)) /\ Len(todo[p]) \in Nat \ {0}
    BY PlaceType, EmptySeq
  <2>2. todo'[p] = Tail(todo[p])
    BY DEF Types, TypeOK
  <2> QED BY <2>1, <2>2, HeadTailProperties
<1>2. \A q \in Process : q # p => todo'[q] = todo[q]
  BY DEF Types, TypeOK
<1>3. \A q \in Process : q # p => Place(q)' = Place(q)
  BY <1>2 DEF Place
<1>4. Place(p)' = Place(p) + 1
  <2>1. Place(p)' = Len(Contents(search, p)) - Len(todo'[p])
    BY DEF Place
  <2> QED BY <1>0, <1>1, <2>1
<1>5. ASSUME NEW k \in 1..Len(todo'[p])
      PROVE  todo'[p][k] = Contents(search, p)[Place(p)' + k]
  <2>1. k + 1 \in 1..Len(todo[p]) /\ Place(p) + (k + 1) = Place(p)' + k
    <3> DEFINE m == Len(todo[p])
               n == Len(todo'[p])
               x == Place(p)
               y == Place(p)'
    <3>1. m \in Nat /\ n = m - 1 /\ k \in 1..n /\ x \in Nat /\ y = x + 1
      BY <1>0, <1>1, <1>4
    <3> HIDE DEF m, n, x, y
    <3>2. k + 1 \in 1..m /\ x + (k + 1) = y + k
      BY <3>1
    <3> QED BY <3>2 DEF m, x, y
  <2> QED BY <1>1, <2>1 DEF TodoOK
<1>6. TodoOK'
  <2>1. Place(p)' >= 0
    BY <1>4, PlaceType
  <2> QED BY <1>2, <1>3, <1>5, <2>1 DEF TodoOK
<1> QED BY <1>3, <1>4, <1>6

\* The directory a process comes to has none yet.
LEMMA NewDirectory ==
  ASSUME Types, TodoOK, ForkOK, NEW p \in Process, todo[p] # <<>>,
         Head(todo[p]).kind = "dir"
  PROVE  /\ Head(todo[p]).name \in Dir
         /\ Head(todo[p]) = DirEntry(Head(todo[p]).name)
         /\ pc[Head(todo[p]).name] = "none"
<1> DEFINE e == Head(todo[p])
<1>1. e \in Entry(search)
  BY NextEntry
<1>2. e.name \in Dir /\ e = DirEntry(e.name)
  BY <1>1, Kinds
<1>3. /\ Place(p) + 1 \in 1..Len(Contents(search, p))
      /\ Contents(search, p)[Place(p) + 1] = DirEntry(e.name)
  BY <1>2, NextEntry
<1>4. ~(Place(p) + 1 <= Place(p))
  BY PlaceType
<1> QED BY <1>2, <1>3, <1>4 DEF ForkOK

-----------------------------------------------------------------------------
(* Types                                                                   *)

LEMMA InitTypes == Init => Types
<1> SUFFICES ASSUME Init PROVE Types
  OBVIOUS
<1>1. \A p \in Process : Contents(search, p) \in Seq(Entry(search))
  BY ContentsType DEF Init
<1>2. search.interrupts \in Nat
  BY SearchesAssumption DEF Init
<1>3. Main \in Process /\ Main \notin Dir
  BY SearchesAssumption DEF Process
<1>4. /\ todo \in [Process -> Seq(Entry(search))] /\ n_lines \in [Process -> Int]
      /\ interrupts \in 0..search.interrupts
  BY <1>1, <1>2 DEF Init
<1>5. /\ pc \in [Process -> {"none", "zombie", "reaped", "done", "killed"}
                               \cup Fresh \cup Walking]
      /\ pc[Main] \in Walking
  BY <1>3 DEF Init, Walking
<1>6. buffer \in [Process -> SUBSET Line] /\ output \subseteq Process \X Line
  BY DEF Init
<1> QED BY <1>4, <1>5, <1>6 DEF Init, Types, TypeOK

\* A directory is the first or not, whatever happens.
LEMMA TopKept == search' = search => \A d \in Dir : Top(d)' <=> Top(d)
BY DEF Top

\* What stdout writes it had or was given.
LEMMA WrittenType ==
  ASSUME Types, NEW p \in Process, NEW new, new \subseteq Line, NEW n, NEW out \in Written(p, new, n)
  PROVE  /\ out \subseteq buffer[p] \cup new /\ buffer[p] \cup new \subseteq Line
         /\ search.terminal => out = new
<1>1. buffer[p] \subseteq Line
  BY DEF Types, TypeOK
<1> QED BY <1>1 DEF Written

LEMMA FlushType ==
  ASSUME Types, NEW p \in Process, Flush(p), search' = search
  PROVE  (buffer \in [Process -> SUBSET Line] /\ output \subseteq Process \X Line)'
<1>1. buffer[p] \subseteq Line /\ Line' = Line
  BY DEF Types, TypeOK, Line
<1> HIDE DEF Line
<1>2. output' \subseteq Process \X Line
  BY <1>1 DEF Flush, Types, TypeOK
<1>3. buffer' \in [Process -> SUBSET Line]
  BY DEF Flush, Types, TypeOK
<1> QED BY <1>1, <1>2, <1>3

\* Stopped processes stay as they are in a step that is none of theirs.
LEMMA StoppedType ==
  ASSUME Types, search' = search, stopped' \subseteq stopped, \A d \in stopped : pc'[d] = pc[d]
  PROVE  (\A d \in stopped : d \in Dir /\ Live(d) /\ ~Unstoppable(d))'
BY TopKept DEF Types, TypeOK, Live, Unstoppable

LEMMA StatusType == \A n \in Int : Status(n) \in Nat
BY SearchesAssumption DEF Status

PcType == [Process -> {"none", "zombie", "reaped", "done", "killed"} \cup Fresh \cup Walking]

\* What a step must do for the types to stay.
LEMMA TypesKept ==
  ASSUME Types, search' = search,
         pc' \in PcType, pc'[Main] \in Walking \cup {"done", "killed"},
         todo' \in [Process -> Seq(Entry(search))], n_lines' \in [Process -> Int],
         (buffer \in [Process -> SUBSET Line] /\ output \subseteq Process \X Line)',
         pending' \subseteq Process, asking' \subseteq Process,
         (\A d \in stopped : d \in Dir /\ Live(d) /\ ~Unstoppable(d))',
         interrupts' \in 0..search.interrupts,
         {restart', cut', ignored', escaped'} \subseteq BOOLEAN
  PROVE  Types'
BY DEF Types, TypeOK, PcType, Line

LEMMA TypesStep ==
  ASSUME Types, TodoOK, ForkOK, [Next]_vars
  PROVE  Types'
<1>1. Main \in Process /\ Main \notin Dir /\ Process = {Main} \cup Dir
  BY SearchesAssumption DEF Process
<1>2. /\ pc \in PcType /\ pc[Main] \in Walking \cup {"done", "killed"}
      /\ todo \in [Process -> Seq(Entry(search))] /\ n_lines \in [Process -> Int]
      /\ buffer \in [Process -> SUBSET Line] /\ output \subseteq Process \X Line
      /\ pending \subseteq Process /\ asking \subseteq Process
      /\ interrupts \in 0..search.interrupts
      /\ {restart, cut, ignored, escaped} \subseteq BOOLEAN
      /\ \A d \in stopped : d \in Dir /\ Live(d) /\ ~Unstoppable(d)
  BY DEF Types, TypeOK, PcType
\* A step of p alone that leaves signals, and of the rest what it does not name.
<1>3. ASSUME UNCHANGED <<search, restart, signals>>, cut' \in BOOLEAN,
             pc' \in PcType, pc'[Main] \in Walking \cup {"done", "killed"},
             \A d \in stopped : pc'[d] = pc[d],
             todo' \in [Process -> Seq(Entry(search))], n_lines' \in [Process -> Int],
             (buffer \in [Process -> SUBSET Line] /\ output \subseteq Process \X Line)'
      PROVE  Types'
  <2>1. (\A d \in stopped : d \in Dir /\ Live(d) /\ ~Unstoppable(d))'
    BY <1>3, StoppedType DEF signals
  <2> QED BY <1>2, <1>3, <2>1, TypesKept DEF signals
<1>4. ASSUME UNCHANGED <<search, buffer, output>>
      PROVE  (buffer \in [Process -> SUBSET Line] /\ output \subseteq Process \X Line)'
  BY <1>2, <1>4 DEF Line
<1>5. ASSUME NEW p \in Process, NEW at, At(p, at), NEW x, pc' = [pc EXCEPT ![p] = x],
             x \in {"none", "zombie", "reaped", "done", "killed"} \cup Fresh \cup Walking,
             p = Main => x \in Walking \cup {"done", "killed"}
      PROVE  /\ pc' \in PcType /\ pc'[Main] \in Walking \cup {"done", "killed"}
             /\ \A d \in stopped : pc'[d] = pc[d]
  <2>1. p \notin stopped
    BY <1>5 DEF At
  <2>2. pc' \in PcType
    BY <1>2, <1>5 DEF PcType
  <2>3. \A q \in Process : q # p => pc'[q] = pc[q]
    BY <1>2, <1>5 DEF PcType
  <2>4. pc'[p] = x
    BY <1>2, <1>5 DEF PcType
  <2> QED BY <1>1, <1>2, <1>5, <2>1, <2>2, <2>3, <2>4
<1>6. ASSUME NEW p \in Process, readPath(p) PROVE Types'
  <2> DEFINE entry == Head(todo[p])
  <2>1. todo[p] \in Seq(Entry(search)) /\ todo[p] # <<>> /\ At(p, "walk")
    BY <1>2, <1>6 DEF readPath
  <2>2. entry \in Entry(search) /\ Tail(todo[p]) \in Seq(Entry(search))
    BY <2>1
  <2>3. todo' = [todo EXCEPT ![p] = Tail(todo[p])] /\ UNCHANGED <<search, restart, signals, cut>>
    BY <1>6 DEF readPath
  <2>4. todo' \in [Process -> Seq(Entry(search))]
    BY <1>2, <2>2, <2>3
  <2>5. CASE entry.kind = "file"
    <3> DEFINE file == search.files[entry.name]
               P == Printed(file, search.pattern, search.mask)
               n == divideFile(file, search.pattern, search.mask)
               new == {p} \X {entry.name} \X P
    <3>1. entry.name \in DOMAIN search.files
      BY <2>2, <2>5, Kinds
    <3>2. P \subseteq Nat /\ n \in Int
      BY <3>1, PrintedType DEF Types
    <3>3. PICK out \in Written(p, new, Len(file.lines)) :
            /\ output' = output \cup {p} \X out
            /\ buffer' = [buffer EXCEPT ![p] = (@ \cup new) \ out]
      BY <1>6, <2>5 DEF readPath
    <3>4. n_lines' = [n_lines EXCEPT ![p] = @ + n] /\ pc' = pc
      BY <1>6, <2>5 DEF readPath
    <3>5. new \subseteq Line
      BY <3>1, <3>2 DEF Line
    <3> HIDE DEF P, n, new
    <3>6. out \subseteq buffer[p] \cup new /\ buffer[p] \cup new \subseteq Line
      BY <3>5, WrittenType
    <3>7. Line' = Line
      BY <2>3 DEF Line
    <3>8. (buffer \in [Process -> SUBSET Line] /\ output \subseteq Process \X Line)'
      <4> HIDE DEF Line
      <4>1. output' \subseteq Process \X Line
        BY <1>2, <3>3, <3>6
      <4>2. buffer' \in [Process -> SUBSET Line]
        BY <1>2, <3>3, <3>6
      <4> QED BY <3>7, <4>1, <4>2
    <3>9. n_lines' \in [Process -> Int]
      BY <1>2, <3>2, <3>4
    <3>10. cut' \in BOOLEAN
      BY <1>2, <2>3
    <3> HIDE DEF entry, file
    <3> QED BY <1>2, <1>3, <2>3, <2>4, <3>4, <3>8, <3>9, <3>10
  <2>6. CASE entry.kind = "dir"
    <3>1. entry.name \in Dir /\ pc[entry.name] = "none"
      BY <2>1, <2>6, NewDirectory
    <3>2. /\ pc' = [pc EXCEPT ![entry.name] = "forked"] \/ pc' = pc
          /\ buffer' = [buffer EXCEPT ![entry.name] = buffer[p]] \/ buffer' = buffer
          /\ UNCHANGED <<n_lines, output>>
      BY <1>6, <2>6 DEF readPath
    <3> HIDE DEF entry
    <3>3. entry.name \in Process /\ entry.name # Main /\ entry.name \notin stopped
      BY <1>1, <1>2, <3>1 DEF Live, Fresh, Walking
    <3>4. pc' \in PcType
      BY <1>2, <3>2 DEF PcType, Fresh
    <3>5. \A q \in Process : q # entry.name => pc'[q] = pc[q]
      BY <1>2, <3>2 DEF PcType
    <3>6. pc'[Main] = pc[Main] /\ \A q \in stopped : pc'[q] = pc[q]
      BY <1>1, <1>2, <3>3, <3>5
    <3>7. buffer' \in [Process -> SUBSET Line] /\ output' \subseteq Process \X Line
      BY <1>2, <3>2
    <3>8. (buffer \in [Process -> SUBSET Line] /\ output \subseteq Process \X Line)'
      BY <2>3, <3>7 DEF Line
    <3>9. cut' \in BOOLEAN /\ n_lines' = n_lines
      BY <1>2, <2>3, <3>2
    <3> QED BY <1>2, <1>3, <2>3, <2>4, <3>4, <3>6, <3>8, <3>9
  <2>7. entry.kind \in {"file", "dir"}
    BY <2>2, Kinds
  <2> QED BY <2>5, <2>6, <2>7
<1>7. ASSUME NEW p \in Process, ForkFails(p) PROVE Types'
  <2> DEFINE x == IF p = Main THEN "done" ELSE "zombie"
  <2>1. /\ At(p, "walk") /\ pc' = [pc EXCEPT ![p] = x]
        /\ n_lines' = [n_lines EXCEPT ![p] = Status(-2)] /\ cut' = TRUE /\ Flush(p)
        /\ UNCHANGED <<search, restart, todo, signals>>
    BY <1>7 DEF ForkFails
  <2>2. Status(-2) \in Int
    BY StatusType
  <2>3. n_lines' \in [Process -> Int]
    BY <1>2, <2>1, <2>2
  <2>4. /\ pc' \in PcType /\ pc'[Main] \in Walking \cup {"done", "killed"}
        /\ \A d \in stopped : pc'[d] = pc[d]
    BY <1>5, <2>1
  <2> QED BY <1>2, <1>3, <2>1, <2>3, <2>4, FlushType
<1>8. ASSUME NEW p \in Process, EndWalk(p) PROVE Types'
  <2>1. /\ At(p, "walk") /\ pc' = [pc EXCEPT ![p] = "wait"]
        /\ UNCHANGED <<search, restart, todo, n_lines, buffer, output, signals, cut>>
    BY <1>8 DEF EndWalk
  <2>2. /\ pc' \in PcType /\ pc'[Main] \in Walking \cup {"done", "killed"}
        /\ \A d \in stopped : pc'[d] = pc[d]
    BY <1>5, <2>1 DEF Walking
  <2> QED BY <1>2, <1>3, <1>4, <2>1, <2>2
<1>9. ASSUME NEW p \in Process, IgnoreSigint(p) PROVE Types'
  <2>1. /\ At(p, "forked") /\ pc' = [pc EXCEPT ![p] = "ignoring"] /\ pending' = pending \ {p}
        /\ UNCHANGED <<search, restart, todo, n_lines, buffer, output, asking, stopped,
                       interrupts, ignored, escaped, cut>>
    BY <1>9 DEF IgnoreSigint
  <2>2. p # Main
    BY <1>2, <2>1 DEF At, Walking
  <2>3. /\ pc' \in PcType /\ pc'[Main] \in Walking \cup {"done", "killed"}
        /\ \A d \in stopped : pc'[d] = pc[d]
    BY <1>5, <2>1, <2>2 DEF Fresh
  <2>4. (\A d \in stopped : d \in Dir /\ Live(d) /\ ~Unstoppable(d))'
    BY <2>1, <2>3, StoppedType
  <2>5. (buffer \in [Process -> SUBSET Line] /\ output \subseteq Process \X Line)'
    BY <1>4, <2>1
  <2> QED BY <1>2, <2>1, <2>3, <2>4, <2>5, TypesKept
<1>10. ASSUME NEW p \in Process, OpenDir(p) PROVE Types'
  <2>1. /\ At(p, "ignoring")
        /\ UNCHANGED <<search, restart, todo, n_lines, output, signals, cut>>
    BY <1>10 DEF OpenDir
  <2>2. PICK x \in {"walk", "zombie"} : pc' = [pc EXCEPT ![p] = x]
    BY <1>10 DEF OpenDir
  <2>3. buffer' = buffer \/ buffer' = [buffer EXCEPT ![p] = {}]
    BY <1>10 DEF OpenDir
  <2>4. p # Main
    BY <1>2, <2>1 DEF At, Walking
  <2>5. /\ pc' \in PcType /\ pc'[Main] \in Walking \cup {"done", "killed"}
        /\ \A d \in stopped : pc'[d] = pc[d]
    BY <1>5, <2>1, <2>2, <2>4 DEF Walking
  <2>6. buffer' \in [Process -> SUBSET Line]
    BY <1>2, <2>3
  <2>7. (buffer \in [Process -> SUBSET Line] /\ output \subseteq Process \X Line)'
    BY <1>2, <2>1, <2>6 DEF Line
  <2> QED BY <1>2, <1>3, <2>1, <2>5, <2>7
<1>11. ASSUME NEW p \in Process, Reap(p) PROVE Types'
  <2>1. PICK d \in Children(p) :
          /\ pc[d] = "zombie"
          /\ pc' = [pc EXCEPT ![d] = "reaped"]
          /\ n_lines' = [n_lines EXCEPT ![p] = @ + Status(n_lines[d])]
    BY <1>11 DEF Reap
  <2>2. UNCHANGED <<search, restart, todo, buffer, output, signals, cut>>
    BY <1>11 DEF Reap
  <2>3. d \in Dir /\ d # Main /\ d \in Process
    BY <1>1 DEF Children
  <2>4. n_lines[d] \in Int
    BY <1>2, <2>3
  <2>5. Status(n_lines[d]) \in Int
    <3>1. Status(n_lines[d]) \in Nat
      BY <2>4, StatusType
    <3> QED BY <3>1
  <2>6. n_lines' \in [Process -> Int]
    BY <1>2, <2>1, <2>5
  <2>7. d \notin stopped
    BY <1>2, <2>1 DEF Live, Fresh, Walking
  <2>8. pc' \in PcType /\ \A q \in Process : q # d => pc'[q] = pc[q]
    BY <1>2, <2>1 DEF PcType
  <2>9. pc'[Main] = pc[Main] /\ \A q \in stopped : pc'[q] = pc[q]
    BY <1>1, <1>2, <2>3, <2>7, <2>8
  <2> QED BY <1>2, <1>3, <1>4, <2>2, <2>6, <2>8, <2>9
<1>12. ASSUME NEW p \in Process, Exit(p) PROVE Types'
  <2> DEFINE x == IF p = Main THEN "done" ELSE "zombie"
  <2>1. /\ At(p, "wait") /\ pc' = [pc EXCEPT ![p] = x] /\ Flush(p)
        /\ UNCHANGED <<search, restart, todo, n_lines, signals, cut>>
    BY <1>12 DEF Exit
  <2>2. /\ pc' \in PcType /\ pc'[Main] \in Walking \cup {"done", "killed"}
        /\ \A d \in stopped : pc'[d] = pc[d]
    BY <1>5, <2>1
  <2> QED BY <1>2, <1>3, <2>1, <2>2, FlushType
<1>13. CASE Interrupt
  <2>1. /\ interrupts > 0 /\ interrupts' = interrupts - 1
        /\ pending' \subseteq pending \cup Process
        /\ UNCHANGED <<search, restart, walk, asking, stopped, ignored, escaped, cut>>
    BY <1>1, <1>13 DEF Interrupt
  <2>2. interrupts' \in 0..search.interrupts
    <3>1. search.interrupts \in Nat
      BY SearchesAssumption DEF Types
    <3> QED BY <1>2, <2>1, <3>1
  <2>3. (\A d \in stopped : d \in Dir /\ Live(d) /\ ~Unstoppable(d))'
    BY <2>1, StoppedType DEF walk
  <2>4. (buffer \in [Process -> SUBSET Line] /\ output \subseteq Process \X Line)'
    BY <1>4, <2>1 DEF walk
  <2> QED BY <1>2, <2>1, <2>2, <2>3, <2>4, TypesKept DEF walk
<1>14. ASSUME NEW p \in Process, AskUser(p) PROVE Types'
  <2>1. /\ pending' = pending \ {p} /\ asking' = asking \cup {p} /\ escaped' \in BOOLEAN
        /\ stopped' = stopped \cup {d \in Dir : Live(d) /\ ~Unstoppable(d)}
        /\ UNCHANGED <<search, restart, walk, interrupts, ignored, cut>>
    BY <1>14 DEF AskUser, HandlerRuns
  <2>2. (\A d \in stopped : d \in Dir /\ Live(d) /\ ~Unstoppable(d))'
    BY <1>2, <2>1, TopKept DEF walk, Live, Unstoppable
  <2>3. (buffer \in [Process -> SUBSET Line] /\ output \subseteq Process \X Line)'
    BY <1>4, <2>1 DEF walk
  <2> QED BY <1>2, <2>1, <2>2, <2>3, TypesKept DEF walk
<1>15. ASSUME NEW p \in Process, KillAll(p) PROVE Types'
  <2>1. /\ pc' = [q \in Process |-> IF Live(q) THEN "killed" ELSE pc[q]]
        /\ pending' = {} /\ asking' = {} /\ stopped' = {}
        /\ UNCHANGED <<search, restart, todo, n_lines, buffer, output, interrupts, ignored,
                       escaped, cut>>
    BY <1>15 DEF KillAll
  <2>2. pc' \in PcType /\ pc'[Main] \in Walking \cup {"done", "killed"}
    BY <1>1, <1>2, <2>1 DEF PcType
  <2>3. (buffer \in [Process -> SUBSET Line] /\ output \subseteq Process \X Line)'
    BY <1>4, <2>1
  <2> QED BY <1>2, <2>1, <2>2, <2>3, TypesKept
<1>16. ASSUME NEW p \in Process, NEW left, left = {} \/ left = stopped,
              HandlerReturns(p, left), ignored' \in BOOLEAN
       PROVE  Types'
  <2>1. /\ asking' \subseteq asking /\ pending' = pending
        /\ UNCHANGED <<search, restart, todo, n_lines, interrupts, escaped>>
    BY <1>16 DEF HandlerReturns
  <2>2. CASE p = Main /\ pc[p] = "wait" /\ ~restart
    <3>1. /\ stopped' = {} /\ cut' = TRUE /\ Flush(p)
          /\ pc' = [q \in Process |-> IF q = Main THEN "done"
                                      ELSE IF left # {} /\ Live(q) THEN "killed" ELSE pc[q]]
      BY <1>2, <1>16, <2>2 DEF HandlerReturns
    <3>2. pc' \in PcType /\ pc'[Main] \in Walking \cup {"done", "killed"}
      BY <1>1, <1>2, <3>1 DEF PcType
    <3> QED BY <1>2, <1>16, <2>1, <3>1, <3>2, FlushType, TypesKept
  <2>3. CASE ~(p = Main /\ pc[p] = "wait" /\ ~restart)
    <3>1. stopped' = left /\ cut' = cut /\ UNCHANGED <<pc, buffer, output>>
      BY <1>2, <1>16, <2>3 DEF HandlerReturns
    <3>2. (\A d \in stopped : d \in Dir /\ Live(d) /\ ~Unstoppable(d))'
      BY <1>16, <2>1, <3>1, StoppedType
    <3>3. (buffer \in [Process -> SUBSET Line] /\ output \subseteq Process \X Line)'
      BY <1>4, <2>1, <3>1
    <3> QED BY <1>2, <1>16, <2>1, <3>1, <3>2, <3>3, TypesKept
  <2> QED BY <2>2, <2>3
<1>17. ASSUME NEW p \in Process, Resume(p) PROVE Types'
  BY <1>2, <1>16, <1>17 DEF Resume
<1>18. ASSUME NEW p \in Process, AnswerIgnored(p) PROVE Types'
  BY <1>16, <1>18 DEF AnswerIgnored
<1>19. CASE UNCHANGED vars
  BY <1>2, <1>3, <1>4, <1>19 DEF vars, walk
<1> QED BY <1>6, <1>7, <1>8, <1>9, <1>10, <1>11, <1>12, <1>13, <1>14, <1>15, <1>17,
           <1>18, <1>19 DEF Next, WalkStep, Answer

-----------------------------------------------------------------------------
(* The walk: three kinds of steps read, fork and reap, the others are quiet *)

Quiet ==
  /\ UNCHANGED <<search, todo, n_lines>> /\ (cut => cut')
  /\ \A p \in Process :
       /\ pc'[p] = "none" <=> pc[p] = "none"
       /\ pc'[p] = "reaped" <=> pc[p] = "reaped"
       /\ pc'[p] \in Fresh => pc[p] \in Fresh

LEMMA StepKinds ==
  ASSUME Types, [Next]_vars
  PROVE  Quiet \/ \E p \in Process : readPath(p) \/ ForkFails(p) \/ Reap(p)
<1> USE DEF Types, TypeOK, Fresh, Walking, Live, At, Process
<1>1. ASSUME NEW p \in Process, EndWalk(p) \/ IgnoreSigint(p) \/ OpenDir(p) \/ Exit(p)
      PROVE  Quiet
  BY <1>1 DEF EndWalk, IgnoreSigint, OpenDir, Exit, Quiet
<1>2. ASSUME NEW p \in Process, Interrupt \/ AskUser(p) PROVE Quiet
  <2>1. UNCHANGED <<search, walk, cut>>
    BY <1>2 DEF Interrupt, AskUser, HandlerRuns
  <2> QED BY <2>1 DEF Quiet, walk
<1>3. ASSUME NEW p \in Process, KillAll(p) PROVE Quiet
  BY <1>3 DEF KillAll, Quiet
<1>4. ASSUME NEW p \in Process, NEW left, HandlerReturns(p, left) PROVE Quiet
  <2>1. UNCHANGED <<search, todo, n_lines>> /\ (cut => cut')
    BY <1>4 DEF HandlerReturns
  <2>2. ASSUME NEW q \in Process
        PROVE  \/ pc'[q] = pc[q]
               \/ pc[q] \in Fresh \cup Walking /\ pc'[q] \in {"done", "killed"}
    BY <1>4 DEF HandlerReturns
  <2> QED BY <2>1, <2>2 DEF Quiet
<1>5. ASSUME NEW p \in Process, Answer(p) PROVE Quiet
  BY <1>3, <1>4, <1>5 DEF Answer, Resume, AnswerIgnored
<1>6. CASE UNCHANGED vars
  BY <1>6 DEF Quiet, vars, walk
<1> QED BY <1>1, <1>2, <1>5, <1>6 DEF Next, WalkStep

\* What a process does to its entry.
LEMMA ReadingFile ==
  ASSUME Types, TodoOK, NEW p \in Process, readPath(p), Head(todo[p]).kind = "file"
  PROVE  LET f == Head(todo[p]).name
         IN /\ f \in DOMAIN search.files /\ Head(todo[p]) = FileEntry(f)
            /\ \E out \in Written(p, {p} \X {f} \X PrintedOf(f), Len(search.files[f].lines)) :
                 /\ output' = output \cup {p} \X out
                 /\ buffer' = [buffer EXCEPT ![p] =
                                 (@ \cup {p} \X {f} \X PrintedOf(f)) \ out]
            /\ n_lines' = [n_lines EXCEPT ![p] =
                 @ + divideFile(search.files[f], search.pattern, search.mask)]
            /\ pc' = pc /\ cut' = cut /\ search' = search
<1>1. Head(todo[p]) \in Entry(search)
  BY NextEntry DEF readPath
<1>2. /\ Head(todo[p]).name \in DOMAIN search.files
      /\ Head(todo[p]) = FileEntry(Head(todo[p]).name)
  BY <1>1, Kinds
<1> QED BY <1>2 DEF readPath, PrintedOf

LEMMA ReadingDir ==
  ASSUME Types, TodoOK, ForkOK, NEW p \in Process, readPath(p),
         Head(todo[p]).kind = "dir"
  PROVE  LET d == Head(todo[p]).name
         IN /\ d \in Dir /\ Head(todo[p]) = DirEntry(d) /\ pc[d] = "none"
            /\ \A q \in Process :
                 pc'[q] = IF q = d /\ "r" \in search.mask THEN "forked" ELSE pc[q]
            /\ \A q \in Process :
                 buffer'[q] = IF q = d /\ "r" \in search.mask THEN buffer[p] ELSE buffer[q]
            /\ UNCHANGED <<n_lines, output, search, cut, signals>>
<1>1. /\ todo[p] # <<>> /\ UNCHANGED <<search, cut, signals>>
  BY DEF readPath
<1>2. /\ Head(todo[p]).name \in Dir
      /\ Head(todo[p]) = DirEntry(Head(todo[p]).name)
      /\ pc[Head(todo[p]).name] = "none"
  BY <1>1, NewDirectory
<1>3. UNCHANGED <<n_lines, output>>
  BY DEF readPath
<1>4. /\ pc' = IF "r" \in search.mask
               THEN [pc EXCEPT ![Head(todo[p]).name] = "forked"] ELSE pc
      /\ buffer' = IF "r" \in search.mask
                   THEN [buffer EXCEPT ![Head(todo[p]).name] = buffer[p]] ELSE buffer
  BY DEF readPath
<1>5. \A q \in Process : pc'[q] = IF q = Head(todo[p]).name /\ "r" \in search.mask
                                  THEN "forked" ELSE pc[q]
  BY <1>2, <1>4 DEF Types, TypeOK
<1>6. \A q \in Process : buffer'[q] = IF q = Head(todo[p]).name /\ "r" \in search.mask
                                      THEN buffer[p] ELSE buffer[q]
  BY <1>2, <1>4 DEF Types, TypeOK
<1> QED BY <1>1, <1>2, <1>3, <1>5, <1>6

LEMMA ReadingAdvances ==
  ASSUME Types, TodoOK, NEW p \in Process, readPath(p)
  PROVE  /\ Place(p)' = Place(p) + 1
         /\ \A q \in Process : q # p => Place(q)' = Place(q)
         /\ TodoOK' /\ search' = search /\ pc[p] = "walk" /\ p \notin asking \cup stopped
         /\ Place(p) + 1 \in 1..Len(Contents(search, p))
         /\ Contents(search, p)[Place(p) + 1] = Head(todo[p])
         /\ Head(todo[p]).kind \in {"file", "dir"} /\ Place(p) \in Nat
<1>1. /\ todo[p] # <<>> /\ todo' = [todo EXCEPT ![p] = Tail(@)] /\ search' = search
      /\ pc[p] = "walk" /\ p \notin asking \cup stopped
  BY DEF readPath, At
<1>2. /\ Place(p) + 1 \in 1..Len(Contents(search, p))
      /\ Contents(search, p)[Place(p) + 1] = Head(todo[p])
      /\ Head(todo[p]) \in Entry(search)
  BY <1>1, NextEntry
<1>3. /\ Place(p)' = Place(p) + 1 /\ TodoOK'
      /\ \A q \in Process : q # p => Place(q)' = Place(q)
  BY <1>1, Advance
<1>4. Head(todo[p]).kind \in {"file", "dir"}
  BY <1>2, Kinds
<1>5. Place(p) \in Nat
  BY PlaceType
<1> QED BY <1>1, <1>2, <1>3, <1>4, <1>5

\* A process takes over the count of a child.
LEMMA Reaping ==
  ASSUME Types, NEW p \in Process, Reap(p)
  PROVE  \E d \in Dir :
           /\ pc[p] = "wait" /\ pc[d] = "zombie" /\ d # p
           /\ \A q \in Process : pc'[q] = IF q = d THEN "reaped" ELSE pc[q]
           /\ n_lines' = [n_lines EXCEPT ![p] = @ + Status(n_lines[d])]
           /\ UNCHANGED <<search, restart, todo, buffer, output, signals, cut>>
<1>1. PICK d \in Children(p) :
        /\ pc[d] = "zombie"
        /\ pc' = [pc EXCEPT ![d] = "reaped"]
        /\ n_lines' = [n_lines EXCEPT ![p] = @ + Status(n_lines[d])]
  BY DEF Reap
<1>2. /\ pc[p] = "wait" /\ UNCHANGED <<search, restart, todo, buffer, output, signals, cut>>
  BY DEF Reap, At
<1>3. d \in Dir
  BY DEF Children
<1> QED BY <1>1, <1>2, <1>3 DEF Types, TypeOK

LEMMA Failing ==
  ASSUME Types, NEW p \in Process, ForkFails(p)
  PROVE  /\ pc[p] = "walk" /\ p \notin asking \cup stopped /\ cut' = TRUE
         /\ \A q \in Process : q # p => pc'[q] = pc[q]
         /\ pc'[p] \in {"done", "zombie"}
         /\ \A q \in Process : q # p => n_lines'[q] = n_lines[q]
         /\ Flush(p) /\ UNCHANGED <<search, todo, signals>>
BY DEF ForkFails, At, Types, TypeOK

-----------------------------------------------------------------------------
(* Each part of the invariant is preserved                                 *)

LEMMA TodoStep ==
  ASSUME Types, TodoOK, [Next]_vars
  PROVE  TodoOK'
<1>1. ASSUME UNCHANGED <<search, todo>> PROVE TodoOK'
  BY <1>1 DEF TodoOK, Place
<1>2. ASSUME NEW p \in Process, ForkFails(p) \/ Reap(p) PROVE UNCHANGED <<search, todo>>
  BY <1>2 DEF ForkFails, Reap
<1>3. Quiet => UNCHANGED <<search, todo>>
  BY DEF Quiet
<1> QED BY <1>1, <1>2, <1>3, StepKinds, ReadingAdvances

LEMMA ForkStep ==
  ASSUME Types, TodoOK, ForkOK, [Next]_vars
  PROVE  ForkOK'
<1>1. ASSUME UNCHANGED <<search, todo>>,
             \A d \in Dir : pc'[d] = "none" <=> pc[d] = "none"
      PROVE  ForkOK'
  BY <1>1 DEF ForkOK, Place
<1>2. CASE Quiet
  BY <1>1, <1>2 DEF Quiet, Process
<1>3. ASSUME NEW p \in Process, ForkFails(p) PROVE ForkOK'
  BY <1>1, <1>3, Failing DEF Process
<1>4. ASSUME NEW p \in Process, Reap(p) PROVE ForkOK'
  BY <1>1, <1>4, Reaping DEF Process
<1>5. ASSUME NEW p \in Process, readPath(p) PROVE ForkOK'
  <2>1. ASSUME NEW q \in Process, NEW j \in 1..Len(Contents(search, q)), NEW d \in Dir,
               Contents(search, q)[j] = DirEntry(d)
        PROVE  pc'[d] # "none" <=> "r" \in search.mask /\ j <= Place(q)'
    <3>1. pc[d] # "none" <=> "r" \in search.mask /\ j <= Place(q)
      BY <2>1 DEF ForkOK
    <3>2. CASE q = p /\ j = Place(p) + 1
      <4>1. Head(todo[p]) = DirEntry(d)
        BY <1>5, <2>1, <3>2, ReadingAdvances
      <4>2. pc'[d] = IF "r" \in search.mask THEN "forked" ELSE pc[d]
        BY <1>5, <4>1, ReadingDir, Apart DEF Process
      <4>3. Place(q)' = j /\ j \in Nat
        BY <1>5, <3>2, ReadingAdvances
      <4>4. ~(j <= Place(q))
        BY <1>5, <3>2, ReadingAdvances
      <4> QED BY <3>1, <4>2, <4>3, <4>4
    <3>3. CASE ~(q = p /\ j = Place(p) + 1)
      <4>1. Contents(search, p)[Place(p) + 1] # DirEntry(d)
        BY <1>5, <2>1, <3>3, ReadingAdvances, OnlyOnce, Apart DEF Types
      <4>2. pc'[d] = pc[d]
        <5>1. CASE Head(todo[p]).kind = "file"
          BY <1>5, <5>1, ReadingFile
        <5>2. CASE Head(todo[p]).kind = "dir"
          <6>1. Head(todo[p]) # DirEntry(d)
            BY <1>5, <4>1, ReadingAdvances
          <6> QED BY <1>5, <5>2, <6>1, ReadingDir DEF Process
        <5> QED BY <1>5, <5>1, <5>2, ReadingAdvances
      <4>3. j <= Place(q)' <=> j <= Place(q)
        <5>1. CASE q # p
          BY <1>5, <5>1, ReadingAdvances
        <5>2. CASE q = p
          <6>1. Place(p)' = Place(p) + 1 /\ Place(p) \in Nat /\ j \in Nat
            BY <1>5, <5>2, ReadingAdvances
          <6> QED BY <3>3, <5>2, <6>1
        <5> QED BY <5>1, <5>2
      <4> QED BY <3>1, <4>2, <4>3
    <3> QED BY <3>2, <3>3
  <2>2. search' = search
    BY <1>5, ReadingAdvances
  <2> QED BY <2>1, <2>2 DEF ForkOK
<1> QED BY <1>2, <1>3, <1>4, <1>5, StepKinds

LEMMA BeginStep ==
  ASSUME Types, TodoOK, ForkOK, BeginOK, [Next]_vars
  PROVE  BeginOK'
<1> USE DEF BeginOK, Fresh
<1>1. CASE Quiet
  BY <1>1 DEF Quiet, Place, Process
<1>2. ASSUME NEW p \in Process, ForkFails(p) PROVE BeginOK'
  BY <1>2, Failing DEF Place, Process
<1>3. ASSUME NEW p \in Process, Reap(p) PROVE BeginOK'
  <2>1. PICK d \in Dir :
           /\ pc[p] = "wait" /\ pc[d] = "zombie" /\ d # p
           /\ \A q \in Process : pc'[q] = IF q = d THEN "reaped" ELSE pc[q]
           /\ n_lines' = [n_lines EXCEPT ![p] = @ + Status(n_lines[d])]
           /\ UNCHANGED <<search, restart, todo, buffer, output, signals, cut>>
    BY <1>3, Reaping
  <2>2. \A q \in Process : q # p => n_lines'[q] = n_lines[q]
    BY <2>1 DEF Types, TypeOK
  <2> QED BY <2>1, <2>2 DEF Place, Process
<1>4. ASSUME NEW p \in Process, readPath(p) PROVE BeginOK'
  <2>1. CASE Head(todo[p]).kind = "file"
    <3>1. /\ pc' = pc /\ search' = search
          /\ \A q \in Process : q # p => n_lines'[q] = n_lines[q]
      BY <1>4, <2>1, ReadingFile DEF Types, TypeOK
    <3> QED BY <1>4, <3>1, ReadingAdvances DEF Process
  <2>2. CASE Head(todo[p]).kind = "dir"
    <3> DEFINE e == Head(todo[p]).name
    <3>1. /\ e \in Dir /\ pc[e] = "none"
          /\ \A q \in Process :
               pc'[q] = IF q = e /\ "r" \in search.mask THEN "forked" ELSE pc[q]
          /\ n_lines' = n_lines /\ search' = search
      BY <1>4, <2>2, ReadingDir
    <3>2. pc[p] = "walk" /\ \A q \in Process : q # p => Place(q)' = Place(q)
      BY <1>4, ReadingAdvances
    <3> HIDE DEF e
    <3> QED BY <3>1, <3>2 DEF Process
  <2> QED BY <1>4, <2>1, <2>2, ReadingAdvances
<1> QED BY <1>1, <1>2, <1>3, <1>4, StepKinds

LEMMA EndKept ==
  ASSUME EndOK, search' = search, cut => cut',
         \A d \in Dir : pc[d] = "reaped" => pc'[d] = "reaped",
         NEW q \in Process, todo'[q] = todo[q],
         buffer'[q] \in {buffer[q], {}} \/ pc'[q] \notin {"zombie", "reaped", "done"},
         \/ pc'[q] \notin {"wait", "zombie", "reaped", "done"}
         \/ pc'[q] = pc[q]
         \/ pc[q] = "zombie" /\ pc'[q] = "reaped"
  PROVE  EndsWell(q)'
BY DEF EndOK, EndsWell

LEMMA EndStep ==
  ASSUME Types, TodoOK, ForkOK, BeginOK, EndOK, [Next]_vars
  PROVE  EndOK'
<1>1. \A d \in Dir : d \in Process
  BY DEF Process
<1>0. /\ \A q \in Process : buffer' = buffer => buffer'[q] \in {buffer[q], {}}
      /\ \A p, q \in Process : Flush(p) => /\ buffer'[p] = {}
                                          /\ buffer'[q] \in {buffer[q], {}}
  BY DEF Flush, Types, TypeOK
<1>2. ASSUME NEW p \in Process, readPath(p) PROVE EndOK'
  <2>1. pc[p] = "walk" /\ search' = search
    BY <1>2, ReadingAdvances
  <2>2. cut' = cut /\ \A q \in Process : pc'[q] = pc[q]
                                         \/ (pc[q] = "none" /\ pc'[q] = "forked")
    BY <1>2, ReadingAdvances, ReadingFile, ReadingDir
  <2>3. \A q \in Process : q # p => todo'[q] = todo[q]
    BY <1>2 DEF readPath, Types, TypeOK
  <2>6. ASSUME NEW q \in Process, q # p
        PROVE  buffer'[q] = buffer[q] \/ pc'[q] = "forked"
    <3>1. CASE Head(todo[p]).kind = "file"
      BY <1>2, <2>6, <3>1, ReadingFile DEF Types, TypeOK
    <3>2. CASE Head(todo[p]).kind = "dir"
      BY <1>2, <2>6, <3>2, ReadingDir
    <3> QED BY <1>2, <3>1, <3>2, ReadingAdvances
  <2>4. EndsWell(p)'
    BY <2>1, <2>2 DEF EndsWell
  <2>5. \A q \in Process : q # p => EndsWell(q)'
    BY <1>1, <2>1, <2>2, <2>3, <2>6, EndKept
  <2> QED BY <2>4, <2>5 DEF EndOK
<1>3. ASSUME NEW p \in Process, ForkFails(p) PROVE EndOK'
  <2>1. EndsWell(p)'
    BY <1>3, Failing DEF EndsWell
  <2>2. \A d \in Dir : pc[d] = "reaped" => pc'[d] = "reaped"
    BY <1>1, <1>3, Failing
  <2>3. \A q \in Process : q # p => EndsWell(q)'
    BY <1>0, <1>3, <2>2, Failing, EndKept
  <2> QED BY <2>1, <2>3 DEF EndOK
<1>4. ASSUME NEW p \in Process, Reap(p) PROVE EndOK'
  <2>1. PICK d \in Dir :
           /\ pc[p] = "wait" /\ pc[d] = "zombie" /\ d # p
           /\ \A q \in Process : pc'[q] = IF q = d THEN "reaped" ELSE pc[q]
           /\ UNCHANGED <<search, restart, todo, buffer, output, signals, cut>>
    BY <1>4, Reaping
  <2>2. \A x \in Dir : pc[x] = "reaped" => pc'[x] = "reaped"
    BY <1>1, <2>1
  <2>3. \A q \in Process : EndsWell(q)'
    BY <1>0, <2>1, <2>2, EndKept
  <2> QED BY <2>3 DEF EndOK
<1>5. ASSUME NEW p \in Process, Exit(p) PROVE EndOK'
  <2>1. /\ pc[p] = "wait" /\ Children(p) = {} /\ UNCHANGED <<search, todo, cut>>
        /\ \A q \in Process : q # p => pc'[q] = pc[q]
        /\ pc'[p] \in {"done", "zombie"} /\ Flush(p)
    BY <1>5 DEF Exit, At, Types, TypeOK
  <2>2. todo[p] = <<>>
    BY <2>1 DEF EndOK, EndsWell
  <2>3. \A d \in Dir : pc[d] = "reaped" => pc'[d] = "reaped"
    BY <1>1, <2>1
  <2>4. ASSUME "r" \in search.mask, NEW j \in 1..Len(Contents(search, p)), NEW d \in Dir,
               Contents(search, p)[j] = DirEntry(d)
        PROVE  pc'[d] = "reaped"
    <3>1. j <= Place(p)
      <4>1. Place(p) = Len(Contents(search, p)) /\ j \in Nat
        BY <2>2, PlaceType, EmptySeq
      <4> QED BY <4>1
    <3>2. pc[d] # "none"
      BY <2>4, <3>1 DEF ForkOK
    <3>3. d \notin Children(p)
      BY <2>1
    <3>4. j \in DOMAIN Contents(search, p)
      BY PlaceType
    <3> QED BY <2>3, <2>4, <3>2, <3>3, <3>4 DEF Children, DirEntry
  <2>5. EndsWell(p)'
    BY <1>0, <2>1, <2>2, <2>4 DEF EndsWell
  <2>6. \A q \in Process : q # p => EndsWell(q)'
    BY <1>0, <2>1, <2>3, EndKept
  <2> QED BY <2>5, <2>6 DEF EndOK
<1>6. ASSUME NEW p \in Process, EndWalk(p) PROVE EndOK'
  <2>1. /\ pc[p] = "walk" /\ todo[p] = <<>> /\ UNCHANGED <<search, todo, buffer, cut>>
        /\ \A q \in Process : q # p => pc'[q] = pc[q]
        /\ pc'[p] = "wait"
    BY <1>6 DEF EndWalk, At, Types, TypeOK
  <2>2. \A d \in Dir : pc[d] = "reaped" => pc'[d] = "reaped"
    BY <1>1, <2>1
  <2>3. EndsWell(p)'
    BY <2>1 DEF EndsWell
  <2>4. \A q \in Process : q # p => EndsWell(q)'
    BY <1>0, <2>1, <2>2, EndKept
  <2> QED BY <2>3, <2>4 DEF EndOK
<1>7. ASSUME NEW p \in Process, OpenDir(p) PROVE EndOK'
  <2>1. /\ pc[p] = "ignoring" /\ UNCHANGED <<search, todo, cut>>
        /\ \A q \in Process : q # p => pc'[q] = pc[q]
        /\ IF search.dirs[p].readable THEN pc'[p] = "walk" /\ buffer' = buffer
           ELSE pc'[p] = "zombie" /\ buffer' = [buffer EXCEPT ![p] = {}]
    BY <1>7 DEF OpenDir, At, Types, TypeOK
  <2>7. /\ \A q \in Process : buffer'[q] \in {buffer[q], {}}
        /\ ~search.dirs[p].readable => buffer'[p] = {}
    BY <2>1 DEF Types, TypeOK
  <2>2. p \in Dir /\ p # Main
    BY <2>1 DEF Types, TypeOK, Walking, Process
  <2>3. \A d \in Dir : pc[d] = "reaped" => pc'[d] = "reaped"
    BY <1>1, <2>1
  <2>4. ASSUME ~search.dirs[p].readable
        PROVE  todo[p] = <<>> /\ \A j \in 1..Len(Contents(search, p)) : FALSE
    <3>1. Contents(search, p) = <<>>
      BY <2>2, <2>4 DEF Contents
    <3>2. Len(Contents(search, p)) = 0
      BY <3>1, EmptySeq
    <3>3. Len(todo[p]) = 0 /\ todo[p] \in Seq(Entry(search))
      BY <3>2, PlaceType
    <3> QED BY <3>2, <3>3, EmptySeq
  <2>5. EndsWell(p)'
    BY <2>1, <2>4, <2>7 DEF EndsWell
  <2>6. \A q \in Process : q # p => EndsWell(q)'
    BY <2>1, <2>3, <2>7, EndKept
  <2> QED BY <2>5, <2>6 DEF EndOK
<1>8. ASSUME UNCHANGED <<search, todo, buffer>>, cut => cut',
             \A q \in Process : \/ pc'[q] = pc[q]
                                \/ Live(q) /\ pc'[q] \in {"ignoring", "killed"}
      PROVE  EndOK'
  <2>1. \A d \in Dir : pc[d] = "reaped" => pc'[d] = "reaped"
    BY <1>1, <1>8 DEF Live, Fresh, Walking
  <2>2. \A q \in Process : EndsWell(q)'
    BY <1>0, <1>8, <2>1, EndKept
  <2> QED BY <2>2 DEF EndOK
<1>9. ASSUME NEW p \in Process, IgnoreSigint(p) PROVE EndOK'
  BY <1>8, <1>9 DEF IgnoreSigint, At, Live, Fresh, Types, TypeOK
<1>10. ASSUME Interrupt \/ \E p \in Process : AskUser(p) PROVE EndOK'
  BY <1>8, <1>10 DEF Interrupt, AskUser, HandlerRuns, walk
<1>11. ASSUME NEW p \in Process, KillAll(p) PROVE EndOK'
  BY <1>8, <1>11 DEF KillAll
<1>12. ASSUME NEW p \in Process, NEW left, HandlerReturns(p, left) PROVE EndOK'
  <2>1. CASE p = Main /\ pc[p] = "wait" /\ ~restart
    <3>1. /\ UNCHANGED <<search, todo>> /\ Flush(Main) /\ cut' /\ pc'[Main] = "done"
          /\ \A q \in Process : q # Main => pc'[q] \in {pc[q], "killed"}
          /\ \A q \in Process : q # Main /\ ~Live(q) => pc'[q] = pc[q]
      BY <1>12, <2>1 DEF HandlerReturns
    <3>2. \A d \in Dir : d # Main /\ (pc[d] = "reaped" => pc'[d] = "reaped")
      BY <1>1, <3>1, SearchesAssumption DEF Live, Fresh, Walking
    <3>3. EndsWell(Main)'
      BY <3>1 DEF EndsWell
    <3>4. \A q \in Process : q # Main => EndsWell(q)'
      BY <1>0, <2>1, <3>1, <3>2, EndKept
    <3> QED BY <3>3, <3>4 DEF EndOK
  <2>2. CASE ~(p = Main /\ pc[p] = "wait" /\ ~restart)
    <3>1. UNCHANGED <<search, todo, pc, buffer>> /\ (cut => cut')
      BY <1>12, <2>2 DEF HandlerReturns
    <3> QED BY <1>8, <3>1
  <2> QED BY <2>1, <2>2
<1>13. ASSUME NEW p \in Process, Answer(p) PROVE EndOK'
  BY <1>11, <1>12, <1>13 DEF Answer, Resume, AnswerIgnored
<1>14. CASE UNCHANGED vars
  BY <1>8, <1>14 DEF vars, walk
<1> QED BY <1>2, <1>3, <1>4, <1>5, <1>6, <1>7, <1>9, <1>10, <1>13, <1>14
        DEF Next, WalkStep

LEMMA FirstStep ==
  ASSUME Types, TodoOK, ForkOK, FirstOK, [Next]_vars
  PROVE  FirstOK'
<1> USE DEF FirstOK
<1>1. Dir \subseteq Process /\ Main \in Process /\ Main \notin Dir
  BY SearchesAssumption DEF Process
<1>2. ASSUME UNCHANGED <<search, todo>>,
             \A d \in Dir : /\ pc'[d] = "none" <=> pc[d] = "none"
                            /\ pc'[d] \in Fresh => pc[d] \in Fresh
      PROVE  FirstOK'
  BY <1>2, TopKept
<1>3. CASE Quiet
  BY <1>1, <1>2, <1>3 DEF Quiet
<1>4. ASSUME NEW p \in Process, ForkFails(p) PROVE FirstOK'
  BY <1>1, <1>2, <1>4, Failing DEF Fresh
<1>5. ASSUME NEW p \in Process, Reap(p) PROVE FirstOK'
  BY <1>1, <1>2, <1>5, Reaping DEF Fresh
<1>6. ASSUME NEW p \in Process, readPath(p) PROVE FirstOK'
  <2>1. pc[p] = "walk" /\ search' = search /\ todo[p] # <<>>
    BY <1>6, ReadingAdvances DEF readPath
  <2>2. todo[Main] = <<>> => p # Main /\ todo'[Main] = <<>>
    BY <1>1, <1>6, <2>1 DEF readPath, Types, TypeOK
  <2>3. ASSUME p = Main
        PROVE  todo'[Main] = <<>> /\ \A e : Head(todo[p]) = DirEntry(e) => Top(e)
    <3>1. Len(Contents(search, Main)) = 1 /\ Contents(search, Main)[1] = search.root
      BY DEF Contents
    <3>2. /\ Place(Main) + 1 \in 1..1 /\ Place(Main) \in Nat
          /\ Contents(search, Main)[Place(Main) + 1] = Head(todo[Main])
      BY <1>6, <2>3, <3>1, ReadingAdvances
    <3>3. Place(Main) = 0
      BY <3>2
    <3>4. Head(todo[Main]) = search.root
      BY <3>1, <3>2, <3>3
    <3>5. Len(todo[Main]) = 1 /\ todo[Main] \in Seq(Entry(search))
      <4>1. /\ Place(Main) + Len(todo[Main]) = 1 /\ Len(todo[Main]) \in Nat
            /\ todo[Main] \in Seq(Entry(search))
        BY <1>1, <3>1, PlaceType
      <4> QED BY <3>3, <4>1
    <3>6. todo'[Main] = Tail(todo[Main])
      BY <1>1, <1>6, <2>3 DEF readPath, Types, TypeOK
    <3>7. todo'[Main] = <<>>
      <4> DEFINE t == Tail(todo[Main])
      <4>1. t \in Seq(Entry(search)) /\ Len(t) = 0
        BY <2>1, <2>3, <3>5, HeadTailProperties
      <4>2. t = <<>>
        BY <4>1, EmptySeq
      <4> QED BY <3>6, <4>2
    <3> QED BY <2>3, <3>4, <3>7 DEF Top, DirEntry
  <2>4. p # Main => p \in Dir /\ todo[Main] = <<>>
    BY <2>1 DEF Process
  <2>5. CASE Head(todo[p]).kind = "file"
    <3>1. pc' = pc
      BY <1>6, <2>5, ReadingFile
    <3> QED BY <2>1, <2>2, <2>3, <2>4, <3>1, TopKept
  <2>6. CASE Head(todo[p]).kind = "dir"
    <3> DEFINE x == Head(todo[p]).name
    <3>1. /\ x \in Dir /\ Head(todo[p]) = DirEntry(x) /\ pc[x] = "none"
          /\ \A q \in Process : pc'[q] = IF q = x /\ "r" \in search.mask THEN "forked" ELSE pc[q]
      BY <1>6, <2>6, ReadingDir
    <3> HIDE DEF x
    <3>2. ASSUME NEW d \in Dir, pc'[d] # "none" PROVE todo'[Main] = <<>>
      BY <2>2, <2>3, <2>4
    <3>3. ASSUME NEW d \in Dir, Top(d), pc'[d] \in {"none"} \cup Fresh, NEW e \in Dir \ {d}
          PROVE  pc'[e] = "none"
      <4>1. CASE p = Main
        <5>1. Top(x) /\ x = d
          BY <2>3, <3>1, <3>3, <4>1 DEF Top
        <5>2. pc[d] = "none"
          BY <3>1, <5>1
        <5> QED BY <1>1, <3>1, <3>3, <5>1, <5>2
      <4>2. CASE p # Main
        <5>1. p \in Dir /\ pc[p] = "walk"
          BY <2>1, <2>4, <4>2
        <5>2. pc[d] \in {"none"} \cup Fresh
          BY <1>1, <3>1, <3>3
        <5>3. p # d
          BY <5>1, <5>2 DEF Fresh
        <5> QED BY <3>3, <5>1, <5>2, <5>3
      <4> QED BY <4>1, <4>2
    <3> QED BY <2>1, <3>2, <3>3, TopKept
  <2> QED BY <1>6, <2>5, <2>6, ReadingAdvances
<1> QED BY <1>3, <1>4, <1>5, <1>6, StepKinds

\* A process that takes a step of its own is not stopped: when directories'
\* processes are, none of them does.
LEMMA Apace ==
  ASSUME Types, AskOK, NEW p \in Process, p \notin stopped \cup asking, Live(p)
  PROVE  /\ p \in Dir => stopped = {} /\ (Main \in asking => escaped)
         /\ p = Main => Main \notin asking
BY DEF AskOK, Running

\* A step of a process outside the handler.
LEMMA AskWalk ==
  ASSUME Types, AskOK, search' = search, UNCHANGED <<asking, stopped, escaped>>,
         pending' \subseteq pending,
         \A d \in Dir \cap pending' : pc'[d] = pc[d],
         \A d \in Dir \cap asking : pc'[d] = pc[d],
         Running' = Running \/ (stopped = {} /\ (Main \in asking => escaped))
  PROVE  AskOK'
BY TopKept DEF AskOK

LEMMA AskStep ==
  ASSUME Types, TodoOK, ForkOK, FirstOK, AskOK, [Next]_vars
  PROVE  AskOK'
<1>1. Dir \subseteq Process /\ Main \in Process /\ Main \notin Dir /\ Process = {Main} \cup Dir
  BY SearchesAssumption DEF Process
<1>2. /\ \A d \in Dir \cap pending : Top(d) /\ pc[d] \in {"forked", "killed"}
      /\ \A d \in Dir \cap asking : Top(d) /\ pc[d] = "forked"
      /\ stopped # {} => stopped = Running
      /\ Main \in asking => stopped = IF escaped THEN {} ELSE Running
  BY DEF AskOK
<1>3. ASSUME NEW q \in Dir, \A d \in Dir : d # q => pc'[d] = pc[d], Live(q)' <=> Live(q)
      PROVE  Running' = Running
  BY <1>3 DEF Running, Live
<1>4. ASSUME \A d \in Dir : pc'[d] = pc[d] PROVE Running' = Running
  BY <1>4 DEF Running, Live
<1>5. ASSUME NEW p \in Process, NEW at, At(p, at), Live(p)
      PROVE  /\ p \in Dir => stopped = {} /\ (Main \in asking => escaped)
             /\ p = Main => Main \notin asking
  BY <1>5, Apace DEF At
<1>6. ASSUME NEW p \in Process, readPath(p) PROVE AskOK'
  <2>1. /\ UNCHANGED <<search, signals>> /\ At(p, "walk") /\ pc[p] = "walk" /\ todo[p] # <<>>
    BY <1>6 DEF readPath, At
  <2>2. \A q \in Process : pc'[q] = pc[q] \/ (pc[q] = "none" /\ pc'[q] = "forked")
    BY <1>6, ReadingAdvances, ReadingFile, ReadingDir
  <2>3. Live(p)
    BY <2>1 DEF Live, Walking
  <2>4. Running' = Running \/ (stopped = {} /\ (Main \in asking => escaped))
    <3>1. CASE p \in Dir
      BY <1>5, <2>1, <2>3, <3>1
    <3>2. CASE p = Main
      <4>1. Main \notin asking /\ \A d \in Dir : pc[d] = "none"
        BY <1>5, <2>1, <2>3, <3>2 DEF FirstOK
      <4>2. stopped = {}
        BY <1>2, <4>1 DEF Running, Live, Fresh, Walking
      <4> QED BY <4>1, <4>2
    <3> QED BY <1>1, <3>1, <3>2
  <2>5. /\ \A d \in Dir \cap pending : pc'[d] = pc[d]
        /\ \A d \in Dir \cap asking : pc'[d] = pc[d]
    BY <1>1, <1>2, <2>2
  <2> QED BY <2>1, <2>4, <2>5, AskWalk DEF signals
<1>7. ASSUME NEW p \in Process, ForkFails(p) \/ EndWalk(p) \/ OpenDir(p) \/ Exit(p)
      PROVE  AskOK'
  <2>1. /\ UNCHANGED <<search, signals>> /\ pc[p] \in {"walk", "wait", "ignoring"}
        /\ \A q \in Process : q # p => pc'[q] = pc[q]
        /\ At(p, pc[p])
    BY <1>7 DEF ForkFails, EndWalk, OpenDir, Exit, At, Types, TypeOK
  <2>2. Live(p)
    BY <2>1 DEF Live, Fresh, Walking
  <2>3. Running' = Running \/ (stopped = {} /\ (Main \in asking => escaped))
    <3>1. CASE p \in Dir
      BY <1>5, <2>1, <2>2, <3>1
    <3>2. CASE p = Main
      BY <1>1, <1>4, <2>1, <3>2
    <3> QED BY <1>1, <3>1, <3>2
  <2>4. /\ \A d \in Dir \cap pending : pc'[d] = pc[d]
        /\ \A d \in Dir \cap asking : pc'[d] = pc[d]
    BY <1>1, <1>2, <2>1
  <2> QED BY <2>1, <2>3, <2>4, AskWalk DEF signals
<1>8. ASSUME NEW p \in Process, Reap(p) PROVE AskOK'
  <2>1. PICK d \in Dir :
           /\ pc[d] = "zombie"
           /\ \A q \in Process : pc'[q] = IF q = d THEN "reaped" ELSE pc[q]
           /\ UNCHANGED <<search, signals>>
    BY <1>8, Reaping
  <2>2. Running' = Running
    BY <1>1, <1>3, <2>1 DEF Live, Fresh, Walking
  <2>3. /\ \A q \in Dir \cap pending : pc'[q] = pc[q]
        /\ \A q \in Dir \cap asking : pc'[q] = pc[q]
    BY <1>1, <1>2, <2>1
  <2> QED BY <2>1, <2>2, <2>3, AskWalk DEF signals
<1>9. ASSUME NEW p \in Process, IgnoreSigint(p) PROVE AskOK'
  <2>1. /\ pending' = pending \ {p} /\ UNCHANGED <<search, asking, stopped, escaped>>
        /\ \A q \in Process : q # p => pc'[q] = pc[q]
        /\ p \notin asking /\ pc[p] = "forked" /\ pc'[p] = "ignoring"
    BY <1>9 DEF IgnoreSigint, At, Types, TypeOK
  <2>2. Running' = Running
    <3>1. CASE p \in Dir
      BY <1>1, <1>3, <2>1, <3>1 DEF Live, Fresh
    <3>2. CASE p = Main
      BY <1>1, <1>4, <2>1, <3>2
    <3> QED BY <1>1, <3>1, <3>2
  <2>3. /\ \A d \in Dir \cap pending' : pc'[d] = pc[d]
        /\ \A d \in Dir \cap asking : pc'[d] = pc[d]
    BY <1>1, <2>1
  <2> QED BY <2>1, <2>2, <2>3, AskWalk
<1>10. CASE Interrupt
  <2>1. /\ pending' = pending \cup {Main} \cup {d \in Dir : Top(d) /\ pc[d] = "forked"}
        /\ UNCHANGED <<search, walk, asking, stopped, escaped>>
    BY <1>10 DEF Interrupt
  <2>2. pc' = pc /\ Running' = Running
    BY <1>4, <2>1 DEF walk
  <2>3. \A d \in Dir \cap pending' : Top(d) /\ pc[d] \in {"forked", "killed"}
    BY <1>1, <1>2, <2>1
  <2> QED BY <1>2, <2>1, <2>2, <2>3, TopKept DEF AskOK
<1>11. ASSUME NEW p \in Process, AskUser(p) PROVE AskOK'
  <2>1. /\ p \in pending /\ Live(p) /\ UNCHANGED <<search, pc>>
        /\ pending' = pending \ {p} /\ asking' = asking \cup {p}
        /\ stopped' = stopped \cup {d \in Dir : Live(d) /\ ~Unstoppable(d)}
        /\ escaped' = \E d \in Dir : Unstoppable(d)
    BY <1>11 DEF AskUser, HandlerRuns, walk
  <2>2. Running' = Running
    BY <1>4, <2>1
  <2>3. p \in Dir => Top(p) /\ pc[p] = "forked" /\ Unstoppable(p)
    BY <1>2, <2>1 DEF Live, Unstoppable, Fresh, Walking
  <2>4. \A d \in stopped : d \in Dir /\ Live(d) /\ ~Unstoppable(d)
    BY DEF Types, TypeOK
  <2>5. CASE escaped'
    <3>1. PICK d \in Dir : Unstoppable(d)
      BY <2>1, <2>5
    <3>2. \A e \in Dir : e # d => ~Live(e)
      BY <3>1 DEF FirstOK, Unstoppable, Live, Fresh, Walking
    <3>3. stopped' = {}
      BY <2>1, <2>4, <3>1, <3>2
    <3> QED BY <1>2, <2>1, <2>2, <2>3, <2>5, <3>3, TopKept DEF AskOK
  <2>6. CASE ~escaped'
    <3>1. \A d \in Dir : ~Unstoppable(d)
      BY <2>1, <2>6
    <3>2. stopped' = Running
      BY <2>1, <2>4, <3>1 DEF Running
    <3> QED BY <1>2, <2>1, <2>2, <2>3, <2>6, <3>2, TopKept DEF AskOK
  <2>7. escaped' \in BOOLEAN
    BY <2>1
  <2> QED BY <2>5, <2>6
<1>12. ASSUME NEW p \in Process, KillAll(p) PROVE AskOK'
  BY <1>12 DEF KillAll, AskOK
<1>13. ASSUME NEW p \in Process, NEW left, left = {} \/ left = stopped, HandlerReturns(p, left)
       PROVE  AskOK'
  <2>1. /\ UNCHANGED <<search, pending, escaped>> /\ p \in asking
    BY <1>13 DEF HandlerReturns
  <2>2. CASE p = Main /\ pc[p] = "wait" /\ ~restart
    <3>1. /\ asking' = (IF left # {} THEN {} ELSE asking \ {Main}) /\ stopped' = {}
          /\ \A q \in Dir : pc'[q] = IF left # {} /\ Live(q) THEN "killed" ELSE pc[q]
      BY <1>1, <1>13, <2>2 DEF HandlerReturns
    <3>2. \A d \in Dir \cap pending : Top(d) /\ pc'[d] \in {"forked", "killed"}
      BY <1>2, <3>1
    <3>3. \A d \in Dir \cap asking' : Top(d) /\ pc'[d] = "forked"
      BY <1>2, <3>1
    <3>4. Main \notin asking'
      BY <3>1
    <3> QED BY <2>1, <3>1, <3>2, <3>3, <3>4, TopKept DEF AskOK
  <2>3. CASE ~(p = Main /\ pc[p] = "wait" /\ ~restart)
    <3>1. asking' = asking \ {p} /\ stopped' = left /\ pc' = pc
      BY <1>13, <2>3 DEF HandlerReturns
    <3>2. Running' = Running
      BY <1>4, <3>1
    <3>3. p \in Dir /\ Main \in asking => stopped = {} /\ escaped
      <4>1. p \in Dir => p \notin stopped /\ p \in Running
        BY <1>2, <2>1 DEF Types, TypeOK, Running, Live, Unstoppable, Fresh
      <4> QED BY <1>2, <4>1
    <3>4. Main \in asking' => stopped' = IF escaped THEN {} ELSE Running
      BY <1>1, <1>13, <2>1, <3>1, <3>3
    <3>5. stopped' # {} => stopped' = Running
      BY <1>2, <1>13, <3>1
    <3>6. \A d \in Dir \cap asking' : Top(d) /\ pc[d] = "forked"
      BY <1>2, <3>1
    <3> QED BY <1>2, <2>1, <3>1, <3>2, <3>4, <3>5, <3>6, TopKept DEF AskOK
  <2> QED BY <2>2, <2>3
<1>14. ASSUME NEW p \in Process, Answer(p) PROVE AskOK'
  BY <1>12, <1>13, <1>14 DEF Answer, Resume, AnswerIgnored
<1>15. CASE UNCHANGED vars
  <2>1. UNCHANGED <<search, pc, pending, asking, stopped, escaped>>
    BY <1>15 DEF vars, walk, signals
  <2>2. Running' = Running
    BY <1>4, <2>1
  <2> QED BY <1>2, <2>1, <2>2, TopKept DEF AskOK
<1> QED BY <1>6, <1>7, <1>8, <1>9, <1>10, <1>11, <1>14, <1>15 DEF Next, WalkStep

LEMMA LineKept == search' = search => Line' = Line
BY DEF Line

\* What has been found changes when an entry is taken only.
LEMMA FoundKept ==
  ASSUME Types, UNCHANGED <<search, todo>>
  PROVE  Found' = Found
BY LineKept DEF Found, Place, PrintedOf

LEMMA FoundAt ==
  ASSUME Types, TodoOK, NEW p \in Process, readPath(p), NEW l \in Line
  PROVE  l \in Found' <=> l \in Found \/ (/\ l[1] = p /\ Head(todo[p]) = FileEntry(l[2])
                                          /\ l[3] \in PrintedOf(l[2]))
<1>1. /\ Place(p)' = Place(p) + 1 /\ search' = search /\ Place(p) \in Nat
      /\ Contents(search, p)[Place(p) + 1] = Head(todo[p])
      /\ \A q \in Process : q # p => Place(q)' = Place(q)
  BY ReadingAdvances
<1>2. Line' = Line /\ PrintedOf(l[2])' = PrintedOf(l[2]) /\ l[1] \in Process
  BY <1>1, LineKept DEF PrintedOf, Line
<1>3. l \in Found' <=> /\ l[3] \in PrintedOf(l[2])
                       /\ \E j \in 1..Place(l[1])' : Contents(search, l[1])[j] = FileEntry(l[2])
  BY <1>1, <1>2 DEF Found, PrintedOf
<1>4. l \in Found <=> /\ l[3] \in PrintedOf(l[2])
                      /\ \E j \in 1..Place(l[1]) : Contents(search, l[1])[j] = FileEntry(l[2])
  BY DEF Found
<1>5. CASE l[1] # p
  BY <1>1, <1>2, <1>3, <1>4, <1>5
<1>6. CASE l[1] = p
  <2>1. 1..Place(p)' = 1..Place(p) \cup {Place(p) + 1}
    BY <1>1
  <2> QED BY <1>1, <1>3, <1>4, <1>6, <2>1
<1> QED BY <1>5, <1>6

LEMMA FoundGrows ==
  ASSUME Types, TodoOK, NEW p \in Process, readPath(p),
         NEW f \in DOMAIN search.files, Head(todo[p]) = FileEntry(f)
  PROVE  LET new == {p} \X {f} \X PrintedOf(f)
         IN Found' = Found \cup new /\ Found \cap new = {} /\ new \subseteq Line
<1> DEFINE new == {p} \X {f} \X PrintedOf(f)
<1>1. PrintedOf(f) \subseteq Nat
  BY PrintedType DEF Types, PrintedOf
<1>2. new \subseteq Line
  BY <1>1 DEF Line
<1>3. Found' \subseteq Line /\ Found \subseteq Line
  <2>1. search' = search
    BY ReadingAdvances
  <2> QED BY <2>1, LineKept DEF Found
<1>4. ASSUME NEW l \in Line PROVE l \in Found' <=> l \in Found \/ l \in new
  <2>1. \A g : FileEntry(f) = FileEntry(g) => f = g
    BY Apart
  <2>2. l \in new <=> l[1] = p /\ l[2] = f /\ l[3] \in PrintedOf(f)
    BY DEF Line
  <2> QED BY <2>1, <2>2, FoundAt
<1>5. Found \cap new = {}
  <2> SUFFICES ASSUME NEW l \in Found, l[1] = p, l[2] = f PROVE FALSE
    OBVIOUS
  <2>1. PICK j \in 1..Place(p) : Contents(search, p)[j] = FileEntry(f)
    BY DEF Found
  <2>2. /\ Place(p) + 1 \in 1..Len(Contents(search, p)) /\ Place(p) \in Nat
        /\ Contents(search, p)[Place(p) + 1] = FileEntry(f)
    BY ReadingAdvances
  <2>3. j \in 1..Len(Contents(search, p)) /\ j # Place(p) + 1
    BY <2>1, <2>2, PlaceType
  <2> QED BY <2>1, <2>2, <2>3, OnlyOnce DEF Types
<1> HIDE DEF new
<1>6. Found' = Found \cup new
  BY <1>2, <1>3, <1>4
<1> QED BY <1>2, <1>5, <1>6 DEF new

LEMMA FoundSame ==
  ASSUME Types, TodoOK, NEW p \in Process, readPath(p), Head(todo[p]).kind = "dir"
  PROVE  Found' = Found
<1>1. search' = search /\ \A f : Head(todo[p]) # FileEntry(f)
  BY ReadingAdvances, Apart
<1>2. Found' \subseteq Line /\ Found \subseteq Line
  BY <1>1, LineKept DEF Found
<1> QED BY <1>1, <1>2, FoundAt

\* Where the lines are can change in four ways.
LEMMA OutputKinds ==
  ASSUME Types, [Next]_vars
  PROVE  \/ \E p \in Process : readPath(p)
         \/ /\ UNCHANGED <<search, todo>>
            /\ \/ UNCHANGED <<buffer, output>>
               \/ \E p \in Process : Flush(p)
               \/ \E p \in Dir : /\ ~search.dirs[p].readable /\ output' = output
                                 /\ buffer' = [buffer EXCEPT ![p] = {}]
<1>1. ASSUME NEW p \in Process, OpenDir(p)
      PROVE  /\ UNCHANGED <<search, todo>>
             /\ \/ UNCHANGED <<buffer, output>>
                \/ /\ p \in Dir /\ ~search.dirs[p].readable /\ output' = output
                   /\ buffer' = [buffer EXCEPT ![p] = {}]
  <2>1. p \in Dir
    BY <1>1 DEF OpenDir, At, Types, TypeOK, Walking, Process
  <2> QED BY <1>1, <2>1 DEF OpenDir
<1>2. ASSUME NEW p \in Process, EndWalk(p) \/ IgnoreSigint(p) \/ Reap(p) \/ AskUser(p) \/ KillAll(p)
      PROVE  UNCHANGED <<search, todo, buffer, output>>
  BY <1>2 DEF EndWalk, IgnoreSigint, Reap, AskUser, HandlerRuns, KillAll, walk
<1>3. ASSUME NEW p \in Process, ForkFails(p) \/ Exit(p)
      PROVE  UNCHANGED <<search, todo>> /\ Flush(p)
  BY <1>3 DEF ForkFails, Exit
<1>4. ASSUME NEW p \in Process, NEW left, HandlerReturns(p, left)
      PROVE  UNCHANGED <<search, todo>> /\ (UNCHANGED <<buffer, output>> \/ Flush(p))
  BY <1>4 DEF HandlerReturns
<1>5. CASE Interrupt \/ UNCHANGED vars
  BY <1>5 DEF Interrupt, vars, walk
<1> QED BY <1>1, <1>2, <1>3, <1>4, <1>5 DEF Next, WalkStep, Answer, Resume, AnswerIgnored

LEMMA OutputStep ==
  ASSUME Types, TodoOK, ForkOK, BeginOK, OutputOK, [Next]_vars
  PROVE  OutputOK'
<1>1. /\ IsFiniteSet(Found)
      /\ \A p \in Process : buffer[p] \subseteq Found
      /\ \A o \in output : o[2] \in Found
      /\ \A l \in Found : l \in buffer[l[1]] \/ \E o \in output : o[2] = l
      /\ search.terminal => /\ \A p \in Process : buffer[p] = {}
                            /\ \A o \in output : o[1] = o[2][1]
  BY DEF OutputOK
<1>2. Found \subseteq Line /\ \A l \in Line : l[1] \in Process
  BY DEF Found, Line
<1>3. buffer \in [Process -> SUBSET Line]
  BY DEF Types, TypeOK
<1>4. ASSUME UNCHANGED <<search, todo, buffer, output>> PROVE OutputOK'
  <2>1. Found' = Found
    BY <1>4, FoundKept
  <2> QED BY <1>1, <1>4, <2>1 DEF OutputOK
<1>5. ASSUME UNCHANGED <<search, todo>>, NEW p \in Process, Flush(p) PROVE OutputOK'
  <2>1. Found' = Found
    BY <1>5, FoundKept
  <2>2. /\ output' = output \cup {p} \X buffer[p]
        /\ \A q \in Process : buffer'[q] = IF q = p THEN {} ELSE buffer[q]
    BY <1>3, <1>5 DEF Flush
  <2>3. \A o \in output' : o[2] \in Found
    BY <1>1, <2>2
  <2>4. ASSUME NEW l \in Found PROVE l \in buffer'[l[1]] \/ \E o \in output' : o[2] = l
    <3>1. CASE l[1] = p /\ l \in buffer[p]
      <4>1. <<p, l>> \in output' /\ <<p, l>>[2] = l
        BY <2>2, <3>1
      <4> QED BY <4>1
    <3>2. CASE ~(l[1] = p /\ l \in buffer[p])
      BY <1>1, <1>2, <2>2, <3>2
    <3> QED BY <3>1, <3>2
  <2>5. ASSUME search.terminal PROVE /\ \A q \in Process : buffer'[q] = {}
                                     /\ \A o \in output' : o[1] = o[2][1]
    BY <1>1, <2>2, <2>5
  <2> QED BY <1>1, <1>5, <2>1, <2>2, <2>3, <2>4, <2>5 DEF OutputOK
<1>6. ASSUME UNCHANGED <<search, todo, output>>, NEW p \in Dir, ~search.dirs[p].readable,
             buffer' = [buffer EXCEPT ![p] = {}]
      PROVE  OutputOK'
  <2>1. Found' = Found
    BY <1>6, FoundKept
  <2>2. p \in Process /\ \A q \in Process : buffer'[q] = IF q = p THEN {} ELSE buffer[q]
    BY <1>3, <1>6 DEF Process
  <2>3. \A l \in Found : l[1] # p
    <3>1. p # Main
      BY <1>6, SearchesAssumption
    <3>2. Contents(search, p) = <<>>
      BY <1>6, <3>1 DEF Contents
    <3>3. 1..Place(p) = {}
      <4>1. Len(Contents(search, p)) = 0
        BY <3>2
      <4>2. Place(p) \in 0..0
        BY <2>2, <4>1, PlaceType
      <4> QED BY <4>2
    <3> QED BY <3>3 DEF Found
  <2> QED BY <1>1, <1>2, <1>6, <2>1, <2>2, <2>3 DEF OutputOK
<1>7. ASSUME NEW p \in Process, readPath(p), Head(todo[p]).kind = "dir" PROVE OutputOK'
  <2> DEFINE d == Head(todo[p]).name
  <2>1. /\ d \in Dir /\ pc[d] = "none" /\ UNCHANGED <<output, search>>
        /\ \A q \in Process :
             buffer'[q] = IF q = d /\ "r" \in search.mask THEN buffer[p] ELSE buffer[q]
    BY <1>7, ReadingDir
  <2> HIDE DEF d
  <2>2. Found' = Found
    BY <1>7, FoundSame
  <2>3. \A l \in Found : l[1] # d
    <3>1. Place(d) = 0
      BY <2>1 DEF BeginOK
    <3>2. 1..Place(d) = {}
      BY <3>1
    <3> QED BY <3>2 DEF Found
  <2> QED BY <1>1, <1>2, <2>1, <2>2, <2>3 DEF OutputOK
<1>8. ASSUME NEW p \in Process, readPath(p), Head(todo[p]).kind = "file" PROVE OutputOK'
  <2> DEFINE f == Head(todo[p]).name
             P == PrintedOf(f)
             new == {p} \X {f} \X P
             n == Len(search.files[f].lines)
  <2>1. f \in DOMAIN search.files /\ Head(todo[p]) = FileEntry(f) /\ search' = search
    BY <1>8, ReadingFile
  <2>2. PICK out \in Written(p, new, n) :
          /\ output' = output \cup {p} \X out
          /\ buffer' = [buffer EXCEPT ![p] = (@ \cup new) \ out]
    BY <1>8, ReadingFile
  <2>3. Found' = Found \cup new /\ new \subseteq Line
    BY <1>8, <2>1, FoundGrows
  <2>4. IsFiniteSet(new)
    <3>1. IsFiniteSet(P)
      BY <2>1, PrintedType DEF Types, PrintedOf
    <3>2. /\ \A x \in P : <<p, f, x>> \in new
          /\ \A t \in new : \E x \in P : t = <<p, f, x>>
      OBVIOUS
    <3> HIDE DEF new, P
    <3> QED BY <3>1, <3>2, Marked
  <2>5. \A l \in new : l[1] = p
    OBVIOUS
  <2> HIDE DEF new, n, f, P
  <2>6. out \subseteq buffer[p] \cup new /\ (search.terminal => out = new)
    BY <2>2, <2>3, WrittenType
  <2>7. \A q \in Process : buffer'[q] = IF q = p THEN (buffer[p] \cup new) \ out ELSE buffer[q]
    BY <1>3, <2>2
  <2>8. IsFiniteSet(Found')
    BY <1>1, <2>3, <2>4, FS_Union
  <2>9. \A q \in Process : buffer'[q] \subseteq Found'
    BY <1>1, <2>3, <2>7
  <2>10. \A o \in output' : o[2] \in Found'
    BY <1>1, <1>8, <2>2, <2>3, <2>6
  <2>11. ASSUME NEW l \in Found' PROVE l \in buffer'[l[1]] \/ \E o \in output' : o[2] = l
    <3>1. CASE l \in out
      <4>1. <<p, l>> \in output' /\ <<p, l>>[2] = l
        BY <2>2, <3>1
      <4> QED BY <4>1
    <3>2. CASE l \notin out /\ l \in new
      BY <2>5, <2>7, <3>2
    <3>3. CASE l \notin out /\ l \in Found
      <4>1. l[1] \in Process
        BY <1>2, <3>3
      <4> QED BY <1>1, <2>2, <2>7, <3>3, <4>1
    <3> QED BY <2>3, <3>1, <3>2, <3>3
  <2>12. ASSUME search.terminal PROVE /\ \A q \in Process : buffer'[q] = {}
                                      /\ \A o \in output' : o[1] = o[2][1]
    BY <1>1, <2>2, <2>5, <2>6, <2>7, <2>12
  <2> QED BY <2>1, <2>8, <2>9, <2>10, <2>11, <2>12 DEF OutputOK
<1> QED BY <1>4, <1>5, <1>6, <1>7, <1>8, OutputKinds, ReadingAdvances

-----------------------------------------------------------------------------
(* Counts                                                                  *)

LEMMA CountStep ==
  ASSUME Types, TodoOK, ForkOK, CountOK, [Next]_vars
  PROVE  /\ CountOK'
         /\ Whole' => Whole
         /\ Whole' => \A p \in Process : n_lines[p] <= n_lines'[p]
<1> USE DEF CountOK
<1>1. ASSUME UNCHANGED <<search, n_lines>>, cut => cut'
      PROVE  /\ CountOK' /\ (Whole' => Whole)
             /\ Whole' => \A p \in Process : n_lines[p] <= n_lines'[p]
  BY <1>1 DEF Whole
<1>2. CASE Quiet
  BY <1>1, <1>2 DEF Quiet
<1>3. ASSUME NEW p \in Process, ForkFails(p) PROVE ~Whole'
  BY <1>3 DEF ForkFails, Whole
<1>4. ASSUME NEW p \in Process, NEW w \in Nat, UNCHANGED <<search, cut>>,
             Whole => n_lines' = [n_lines EXCEPT ![p] = @ + w]
      PROVE  /\ CountOK' /\ (Whole' => Whole)
             /\ Whole' => \A q \in Process : n_lines[q] <= n_lines'[q]
  <2>1. Whole' <=> Whole
    BY <1>4 DEF Whole
  <2>2. ASSUME Whole PROVE /\ n_lines' \in [Process -> Nat]
                           /\ \A q \in Process : n_lines[q] <= n_lines'[q]
    BY <1>4, <2>2
  <2> QED BY <2>1, <2>2
<1>5. ASSUME NEW p \in Process, Reap(p)
      PROVE  /\ CountOK' /\ (Whole' => Whole)
             /\ Whole' => \A q \in Process : n_lines[q] <= n_lines'[q]
  <2>1. PICK d \in Dir : /\ n_lines' = [n_lines EXCEPT ![p] = @ + Status(n_lines[d])]
                         /\ UNCHANGED <<search, cut>>
    BY <1>5, Reaping
  <2>2. n_lines[d] \in Int
    BY DEF Types, TypeOK, Process
  <2>3. Status(n_lines[d]) \in Nat
    BY <2>2, StatusType
  <2> QED BY <1>4, <2>1, <2>3
<1>6. ASSUME NEW p \in Process, readPath(p)
      PROVE  /\ CountOK' /\ (Whole' => Whole)
             /\ Whole' => \A q \in Process : n_lines[q] <= n_lines'[q]
  <2>1. CASE Head(todo[p]).kind = "file"
    <3> DEFINE f == Head(todo[p]).name
               n == divideFile(search.files[f], search.pattern, search.mask)
               w == IF Whole THEN n ELSE 0
    <3>1. /\ f \in DOMAIN search.files /\ n_lines' = [n_lines EXCEPT ![p] = @ + n]
          /\ cut' = cut /\ search' = search
      BY <1>6, <2>1, ReadingFile
    <3>2. Whole => n \in Nat
      BY <3>1, PrintedType DEF Whole, Types
    <3>3. w \in Nat
      BY <3>2
    <3> HIDE DEF n
    <3>4. Whole => n_lines' = [n_lines EXCEPT ![p] = @ + w]
      BY <3>1
    <3> QED BY <1>4, <3>1, <3>3, <3>4
  <2>2. CASE Head(todo[p]).kind = "dir"
    BY <1>1, <1>6, <2>2, ReadingDir
  <2> QED BY <1>6, <2>1, <2>2, ReadingAdvances
<1> QED BY <1>2, <1>3, <1>5, <1>6, StepKinds

\* A count that grows by as much as the lines do.
LEMMA SumGrows ==
  ASSUME NEW f \in [Process -> Nat], NEW e \in [Process -> Nat],
         NEW a \in Process, NEW w \in Nat, e[a] = f[a] + w,
         \A x \in Process : x # a => e[x] = f[x]
  PROVE  SumFunction(e) = SumFunction(f) + w
<1>1. IsFiniteSet(Process)
  BY SearchesAssumption, FS_AddElement DEF Process
<1> QED BY <1>1, SumIncrease

LEMMA SumStep ==
  ASSUME Types, TodoOK, ForkOK, OutputOK, CountOK, SumOK, [Next]_vars
  PROVE  SumOK'
<1> SUFFICES ASSUME Whole', \A d \in Dir : n_lines'[d] < ExitModulus
             PROVE  SumFunction(OwnCount') = Cardinality(Lines')
  BY DEF SumOK
<1>1. /\ Whole /\ n_lines \in [Process -> Nat] /\ n_lines' \in [Process -> Nat]
      /\ \A q \in Process : n_lines[q] <= n_lines'[q]
  BY CountStep DEF CountOK
<1>2. Dir \subseteq Process /\ ExitModulus \in Nat \ {0}
  BY SearchesAssumption DEF Process
<1>3. \A d \in Dir : n_lines[d] < ExitModulus
  BY <1>1, <1>2
<1>4. SumFunction(OwnCount) = Cardinality(Lines)
  BY <1>1, <1>3 DEF SumOK
<1>5. OwnCount \in [Process -> Nat] /\ OwnCount' \in [Process -> Nat]
  BY <1>1 DEF OwnCount
<1>6. ASSUME Lines' = Lines, OwnCount' = OwnCount
      PROVE  SumFunction(OwnCount') = Cardinality(Lines')
  BY <1>4, <1>6
<1>7. CASE Quiet
  <2>1. Lines' = Lines
    BY <1>7, FoundKept DEF Quiet, Lines
  <2>2. OwnCount' = OwnCount
    BY <1>7 DEF Quiet, OwnCount
  <2> QED BY <1>6, <2>1, <2>2
<1>8. ASSUME NEW p \in Process, ForkFails(p) PROVE FALSE
  BY <1>8 DEF ForkFails, Whole
<1>9. ASSUME NEW p \in Process, Reap(p)
      PROVE  SumFunction(OwnCount') = Cardinality(Lines')
  <2>1. PICK d \in Dir :
           /\ pc[p] = "wait" /\ pc[d] = "zombie" /\ d # p
           /\ \A q \in Process : pc'[q] = IF q = d THEN "reaped" ELSE pc[q]
           /\ n_lines' = [n_lines EXCEPT ![p] = @ + Status(n_lines[d])]
           /\ UNCHANGED <<search, restart, todo, buffer, output, signals, cut>>
    BY <1>9, Reaping
  <2> DEFINE w == n_lines[d]
  <2>2. w \in Nat /\ w < ExitModulus /\ Status(w) = w
    <3>1. w \in Nat /\ w < ExitModulus
      BY <1>1, <1>2, <1>3
    <3> HIDE DEF w
    <3>2. w % ExitModulus = w
      BY <1>2, <3>1
    <3> QED BY <3>1, <3>2 DEF Status
  <2> DEFINE f == OwnCount
             e == OwnCount'
             g == [q \in Process |-> IF q = d THEN 0 ELSE f[q]]
  <2>3. g \in [Process -> Nat]
    BY <1>5
  <2>4. /\ f[d] = w /\ g[d] = 0 /\ e[d] = 0
        /\ f[p] = n_lines[p] /\ g[p] = n_lines[p] /\ e[p] = n_lines[p] + w
        /\ \A q \in Process : q # d => g[q] = f[q]
        /\ \A q \in Process : q # d /\ q # p => e[q] = f[q]
    BY <1>1, <1>2, <2>1, <2>2 DEF OwnCount
  <2> HIDE DEF f, e, g, w
  <2>5. SumFunction(f) = SumFunction(g) + w
    <3>1. f[d] = g[d] + w
      BY <2>2, <2>4
    <3>2. \A q \in Process : q # d => f[q] = g[q]
      BY <2>4
    <3>3. f \in [Process -> Nat] /\ d \in Process
      BY <1>2, <1>5 DEF f
    <3> QED BY <2>2, <2>3, <3>1, <3>2, <3>3, SumGrows
  <2>6. SumFunction(e) = SumFunction(g) + w
    <3>1. e[p] = g[p] + w
      BY <2>4
    <3>2. \A q \in Process : q # p => e[q] = g[q]
      BY <2>4
    <3>3. e \in [Process -> Nat]
      BY <1>5 DEF e
    <3> QED BY <2>2, <2>3, <3>1, <3>2, <3>3, SumGrows
  <2>7. Lines' = Lines
    BY <2>1, FoundKept DEF Lines
  <2>8. SumFunction(e) = SumFunction(f)
    BY <2>5, <2>6
  <2> QED BY <1>4, <2>7, <2>8 DEF e, f
<1>10. ASSUME NEW p \in Process, readPath(p)
       PROVE  SumFunction(OwnCount') = Cardinality(Lines')
  <2>1. CASE Head(todo[p]).kind = "file"
    <3> DEFINE f == Head(todo[p]).name
               P == PrintedOf(f)
               n == divideFile(search.files[f], search.pattern, search.mask)
               new == {p} \X {f} \X (P \ {0})
    <3>1. /\ f \in DOMAIN search.files /\ Head(todo[p]) = FileEntry(f)
          /\ n_lines' = [n_lines EXCEPT ![p] = @ + n]
          /\ pc' = pc
      BY <1>10, <2>1, ReadingFile
    <3>2. pc[p] = "walk"
      BY <1>10, ReadingAdvances
    <3>3. n \in Nat /\ n = Cardinality(P \ {0}) /\ IsFiniteSet(P)
      BY <1>1, <3>1, PrintedType DEF Whole, Types, PrintedOf
    <3>4. Found' = Found \cup {p} \X {f} \X P /\ Found \cap ({p} \X {f} \X P) = {}
      BY <1>10, <3>1, FoundGrows
    <3> HIDE DEF n, P, f
    <3>5. Cardinality(Lines') = Cardinality(Lines) + n
      <4>1. Lines' = Lines \cup new
        BY <3>4 DEF Lines
      <4>2. Lines \cap new = {}
        BY <3>4 DEF Lines
      <4>3. IsFiniteSet(new) /\ Cardinality(new) = n
        <5> DEFINE Q == P \ {0}
        <5>1. IsFiniteSet(Q) /\ Cardinality(Q) = n
          BY <3>3, FS_RemoveElement
        <5>2. /\ \A x \in Q : <<p, f, x>> \in new
              /\ \A t \in new : \E x \in Q : t = <<p, f, x>>
          OBVIOUS
        <5>3. IsFiniteSet(Q)
          BY <5>1
        <5> HIDE DEF Q, new
        <5>4. IsFiniteSet(new) /\ Cardinality(new) = Cardinality(Q)
          BY <5>2, <5>3, Marked
        <5> QED BY <5>1, <5>4
      <4>4. IsFiniteSet(Lines) /\ Cardinality(Lines) \in Nat
        <5>1. IsFiniteSet(Found) /\ Lines \in SUBSET Found
          BY DEF OutputOK, Lines
        <5>2. IsFiniteSet(Lines)
          BY <5>1, FS_Subset
        <5> QED BY <5>2, FS_CardinalityType
      <4>5. Cardinality(Lines \cup new) =
              Cardinality(Lines) + Cardinality(new) - Cardinality(Lines \cap new)
        <5> HIDE DEF new
        <5> QED BY <4>3, <4>4, FS_Union
      <4>6. Cardinality(Lines \cap new) = 0
        BY <4>2, FS_EmptySet
      <4> HIDE DEF new
      <4> QED BY <3>3, <4>1, <4>3, <4>4, <4>5, <4>6
    <3>6. SumFunction(OwnCount') = SumFunction(OwnCount) + n
      <4> DEFINE x == OwnCount
                 y == OwnCount'
      <4>1. /\ y[p] = x[p] + n /\ \A q \in Process : q # p => y[q] = x[q]
        BY <1>1, <3>1, <3>2, <3>3 DEF OwnCount
      <4>2. x \in [Process -> Nat] /\ y \in [Process -> Nat]
        BY <1>5
      <4> HIDE DEF x, y
      <4>3. SumFunction(y) = SumFunction(x) + n
        BY <3>3, <4>1, <4>2, SumGrows
      <4> QED BY <4>3 DEF x, y
    <3> QED BY <1>4, <3>5, <3>6
  <2>2. CASE Head(todo[p]).kind = "dir"
    <3>1. Lines' = Lines
      BY <1>10, <2>2, FoundSame DEF Lines
    <3>2. OwnCount' = OwnCount
      <4>1. \A q \in Process : pc'[q] = "reaped" <=> pc[q] = "reaped"
        BY <1>10, <2>2, ReadingDir
      <4>2. n_lines' = n_lines
        BY <1>10, <2>2, ReadingDir
      <4> QED BY <4>1, <4>2 DEF OwnCount
    <3> QED BY <1>6, <3>1, <3>2
  <2> QED BY <1>10, <2>1, <2>2, ReadingAdvances
<1> QED BY <1>7, <1>8, <1>9, <1>10, StepKinds

-----------------------------------------------------------------------------
(* The invariant                                                           *)

LEMMA InitInv == Init => IInv
<1> SUFFICES ASSUME Init PROVE IInv
  OBVIOUS
<1>1. Types
  BY InitTypes
<1>2. \A p \in Process : /\ Place(p) = 0 /\ todo[p] = Contents(search, p)
                         /\ Len(Contents(search, p)) \in Nat
  <2>1. ASSUME NEW p \in Process
        PROVE  todo[p] = Contents(search, p) /\ Len(Contents(search, p)) \in Nat
    <3>1. Contents(search, p) \in Seq(Entry(search))
      BY ContentsType DEF Init
    <3> QED BY <3>1 DEF Init
  <2> QED BY <2>1 DEF Place
<1>3. TodoOK
  BY <1>2 DEF TodoOK
<1>4. Main \in Process /\ \A d \in Dir : d \in Process /\ d # Main /\ pc[d] = "none"
  BY SearchesAssumption DEF Init, Process
<1>5. ForkOK
  BY <1>2, <1>4 DEF ForkOK
<1>6. BeginOK
  BY <1>2, <1>4 DEF Init, BeginOK, Fresh
<1>7. EndOK
  BY DEF Init, EndOK, EndsWell
<1>8. AskOK
  BY DEF Init, AskOK
<1>9. Found = {} /\ OutputOK
  <2>1. Found = {}
    <3>1. \A p \in Process : 1..Place(p) = {}
      BY <1>2
    <3> QED BY <3>1 DEF Found, Line
  <2> QED BY <2>1, FS_EmptySet DEF Init, OutputOK
<1>12. FirstOK
  BY <1>4 DEF FirstOK
<1>10. CountOK
  BY DEF Init, CountOK
<1>11. SumOK
  <2>1. OwnCount = [p \in Process |-> 0]
    BY DEF Init, OwnCount
  <2>2. IsFiniteSet(Process)
    BY SearchesAssumption, FS_AddElement DEF Process
  <2>3. SumFunction(OwnCount) = 0
    BY <2>1, <2>2, SumOfZeros
  <2>4. Lines = {}
    BY <1>9 DEF Lines
  <2> QED BY <2>3, <2>4, FS_EmptySet DEF SumOK
<1> QED BY <1>1, <1>3, <1>5, <1>6, <1>7, <1>8, <1>9, <1>10, <1>11, <1>12 DEF IInv

LEMMA StepInv == IInv /\ [Next]_vars => IInv'
BY TypesStep, TodoStep, ForkStep, BeginStep, EndStep, FirstStep, AskStep, OutputStep,
   CountStep, SumStep DEF IInv

\* The walk, what stdout holds, the counts and the handlers keep the invariant
\* whatever the tree.
THEOREM Invariance == Spec => []IInv
BY InitInv, StepInv, PTL DEF Spec

\* Every process is in one of its states, and those stopped run a directory and
\* do not ignore SIGTSTP.
THEOREM TypeCorrect == Spec => []TypeOK
<1>1. IInv => TypeOK
  BY DEF IInv, Types
<1> QED BY <1>1, Invariance, PTL

\* While main asks all processes of directories are stopped, or, when the first
\* of them had just been forked, none is.
THEOREM HaltedWhileAskedHolds == Spec => []HaltedWhileAsked
<1>1. IInv => HaltedWhileAsked
  BY DEF IInv, AskOK, HaltedWhileAsked, Running
<1> QED BY <1>1, Invariance, PTL

-----------------------------------------------------------------------------
(* Main reports what was printed                                           *)

\* When main ends, uncut, every directory below the path was waited for.
LEMMA AllReaped ==
  ASSUME IInv, pc[Main] = "done", ~cut, "r" \in search.mask
  PROVE  \A d \in Dir : pc[d] = "reaped"
<1> DEFINE D == {d \in Dir : pc[d] = "reaped"}
<1>1. ASSUME NEW p \in {Main} \cup D, NEW j \in DOMAIN Contents(search, p),
             Contents(search, p)[j].kind = "dir"
      PROVE  Contents(search, p)[j].name \in D
  <2>1. p \in Process /\ pc[p] \in {"reaped", "done"}
    BY DEF Process
  <2>2. j \in 1..Len(Contents(search, p)) /\ Contents(search, p)[j] \in Entry(search)
    BY <2>1, PlaceType DEF IInv
  <2>3. /\ Contents(search, p)[j].name \in Dir
        /\ Contents(search, p)[j] = DirEntry(Contents(search, p)[j].name)
    BY <1>1, <2>2, Kinds
  <2> QED BY <2>1, <2>2, <2>3 DEF IInv, EndOK, EndsWell
<1>2. Closed(search, D)
  BY <1>1 DEF Closed
<1>3. D \in SUBSET Dir /\ search \in Searches
  BY DEF IInv, Types
<1>4. D = Dir
  <2> HIDE DEF D
  <2> QED BY <1>2, <1>3, SearchesAssumption
<1> QED BY <1>4

\* Then every line found was written, and nothing else.
LEMMA AllWritten ==
  ASSUME IInv, pc[Main] = "done", ~cut
  PROVE  Found = {o[2] : o \in output}
<1>1. Main \in Process /\ Process = {Main} \cup Dir /\ Found \subseteq Line
  BY DEF Process, Found
<1>2. ASSUME NEW l \in Found PROVE l \notin buffer[l[1]]
  <2>1. l[1] \in Process
    BY <1>1 DEF Line
  <2>2. Place(l[1]) # 0
    <3>1. \E j \in 1..Place(l[1]) : TRUE
      BY DEF Found
    <3> QED BY <3>1
  <2>3. l[1] # Main => pc[l[1]] = "reaped"
    BY <1>1, <2>1, <2>2, AllReaped DEF IInv, BeginOK
  <2> QED BY <2>1, <2>3 DEF IInv, EndOK, EndsWell
<1>3. ASSUME NEW l \in Found PROVE \E o \in output : o[2] = l
  BY <1>2 DEF IInv, OutputOK
<1>4. ASSUME NEW o \in output PROVE o[2] \in Found
  BY DEF IInv, OutputOK
<1> QED BY <1>3, <1>4

\* Main waits for every directory, and the count it prints is the number of
\* lines written: on a terminal all, elsewhere without their repetitions.
THEOREM SearchCompleteHolds == Spec => []SearchComplete
<1>1. ASSUME IInv PROVE SearchComplete
  <2> DEFINE written == {o \in output : o[2][3] # 0}
             counted == IF search.terminal THEN written ELSE {o[2] : o \in written}
  <2> SUFFICES ASSUME pc[Main] = "done", ~cut
               PROVE  /\ "r" \in search.mask => \A d \in Dir : pc[d] = "reaped"
                      /\ /\ \A f \in DOMAIN search.files : search.files[f].readable
                         /\ \A d \in Dir : n_lines[d] < ExitModulus
                         => n_lines[Main] = Cardinality(counted)
    BY DEF SearchComplete
  <2>1. "r" \in search.mask => \A d \in Dir : pc[d] = "reaped"
    BY <1>1, AllReaped
  <2>2. ASSUME \A f \in DOMAIN search.files : search.files[f].readable,
               \A d \in Dir : n_lines[d] < ExitModulus
        PROVE  n_lines[Main] = Cardinality(Lines)
    <3>1. /\ Whole /\ n_lines \in [Process -> Nat]
          /\ SumFunction(OwnCount) = Cardinality(Lines)
      BY <1>1, <2>2 DEF IInv, Whole, CountOK, SumOK
    <3> DEFINE zeros == [p \in Process |-> 0]
               own == OwnCount
    <3>2. Main \in Process /\ n_lines[Main] \in Nat /\ own[Main] = n_lines[Main]
      BY <3>1 DEF Process, OwnCount
    <3>3. ASSUME NEW d \in Process, d # Main PROVE own[d] = 0
      <4>1. d \in Dir
        BY <3>3 DEF Process
      <4>2. pc[d] = "reaped" \/ pc[d] = "none"
        BY <1>1, <2>1, <4>1 DEF IInv, BeginOK
      <4> QED BY <1>1, <4>1, <4>2 DEF IInv, BeginOK, OwnCount
    <3>4. zeros \in [Process -> Nat] /\ own \in [Process -> Nat]
      BY <3>1 DEF OwnCount
    <3>5. SumFunction(zeros) = 0
      <4>1. IsFiniteSet(Process)
        BY SearchesAssumption, FS_AddElement DEF Process
      <4> QED BY <4>1, SumOfZeros
    <3>6. /\ own[Main] = zeros[Main] + n_lines[Main]
          /\ \A d \in Process : d # Main => own[d] = zeros[d]
      BY <3>2, <3>3
    <3> HIDE DEF zeros, own
    <3>7. SumFunction(own) = SumFunction(zeros) + n_lines[Main]
      BY <3>2, <3>4, <3>6, SumGrows
    <3>8. SumFunction(own) = n_lines[Main]
      BY <3>2, <3>5, <3>7
    <3> QED BY <3>1, <3>8 DEF own
  <2>3. Cardinality(counted) = Cardinality(Lines)
    <3>1. Lines = {o[2] : o \in written}
      BY <1>1, AllWritten DEF Lines
    <3>2. CASE ~search.terminal
      BY <3>1, <3>2
    <3>3. CASE search.terminal
      <4> DEFINE g == [l \in Lines |-> <<l[1], l>>]
      <4>1. \A o \in written : o = <<o[2][1], o[2]>>
        <5>1. ASSUME NEW o \in written PROVE o = <<o[2][1], o[2]>>
          <6>1. o \in output /\ o \in Process \X Line
            BY <1>1 DEF IInv, Types, TypeOK
          <6>2. o[1] = o[2][1]
            BY <1>1, <3>3, <6>1 DEF IInv, OutputOK
          <6>3. o = <<o[1], o[2]>>
            BY <6>1
          <6> QED BY <6>2, <6>3
        <5> QED BY <5>1
      <4>2. \A l \in Lines : \E o \in written : l = o[2] /\ o = <<l[1], l>>
        BY <3>1, <4>1
      <4>3. g \in [Lines -> written]
        BY <4>2
      <4>4. \A l, k \in Lines : g[l] = g[k] => l = k
        OBVIOUS
      <4>5. \A o \in written : \E l \in Lines : g[l] = o
        BY <3>1, <4>1
      <4>6. g \in Bijection(Lines, written)
        <5> HIDE DEF g, written
        <5> QED BY <4>3, <4>4, <4>5 DEF Bijection, Injection, Surjection, IsInjective
      <4>7. IsFiniteSet(Lines)
        <5>1. IsFiniteSet(Found) /\ Lines \in SUBSET Found
          BY <1>1 DEF IInv, OutputOK, Lines
        <5> QED BY <5>1, FS_Subset
      <4>8. ExistsBijection(Lines, written)
        <5> HIDE DEF g, written
        <5> QED BY <4>6 DEF ExistsBijection
      <4>9. Cardinality(Lines) = Cardinality(written)
        <5> HIDE DEF written
        <5> QED BY <4>7, <4>8, FS_Bijection
      <4> QED BY <3>3, <4>9
    <3> QED BY <3>2, <3>3
  <2> HIDE DEF counted
  <2> QED BY <2>1, <2>2, <2>3
<1> QED BY <1>1, Invariance, PTL

-----------------------------------------------------------------------------
(* What contains says of a line                                            *)

\* The least of some naturals is one of them.
LEMMA LeastIsMin ==
  ASSUME NEW S \in SUBSET Nat, S # {}
  PROVE  Min(S) \in S /\ \A k \in S : Min(S) <= k
<1>1. \E k \in S : \A j \in S : k <= j
  BY LeastNatural
<1> QED BY <1>1 DEF Min

\* string.h sees a line.
LEMMA CStringType ==
  ASSUME NEW line \in Seq(Char)
  PROVE  Len(CString(line)) \in Nat
<1> DEFINE S == {k - 1 : k \in {j \in DOMAIN line : line[j] = NUL}} \cup {Len(line)}
           m == Min(S)
<1>1. S \in SUBSET Nat /\ S # {} /\ Len(line) \in Nat /\ Len(line) \in S
  BY LenProperties
<1>2. m \in Nat /\ m <= Len(line)
  <2> HIDE DEF S
  <2> QED BY <1>1, LeastIsMin
<1>3. CString(line) = SubSeq(line, 1, m)
  BY DEF CString
<1> HIDE DEF m
<1>4. \A k \in 1..m : line[k] \in Char
  BY <1>1, <1>2
<1>5. CString(line) \in Seq(Char)
  BY <1>2, <1>3, <1>4, SubSeqProperties
<1> QED BY <1>5, LenProperties

\* The code finds no match that is not there.
LEMMA FoundIsMatch ==
  ASSUME search \in Searches, NEW line \in Seq(Char), contains(line, search.pattern, search.mask)
  PROVE  HasMatch(line)
<1> DEFINE str == CString(line)
           found == Occurrences(str, search.pattern, search.mask)
           n == Len(search.pattern)
<1>1. found # {} /\ ("w" \in search.mask => isWholeWord(str, Min(found), n))
  BY DEF contains
<1>2. found \in SUBSET Nat
  <2>1. Len(str) \in Nat /\ n \in Nat
    BY CStringType, LenProperties, SearchesAssumption
  <2>2. found \subseteq 1..(Len(str) - n + 1)
    BY DEF Occurrences
  <2> HIDE DEF found, str, n
  <2> QED BY <2>1, <2>2
<1>3. Min(found) \in found
  <2> HIDE DEF found
  <2> QED BY <1>1, <1>2, LeastIsMin
<1> HIDE DEF str, found
<1>4. "w" \in search.mask => /\ Min(found) = 1 \/ isDelimiter(str[Min(found) - 1])
                             /\ isDelimiter(str[Min(found) + n])
  BY <1>1 DEF isWholeWord
<1> QED BY <1>3, <1>4 DEF HasMatch, found, str

\* It finds the match of a plain line.
LEMMA PlainIsFound ==
  ASSUME search \in Searches, NEW line \in Seq(Char), Plain(line), HasMatch(line)
  PROVE  contains(line, search.pattern, search.mask)
<1> DEFINE pattern == search.pattern
           n == Len(pattern)
           found == Occurrences(line, pattern, search.mask)
<1>1. pattern \in Seq(Char \ {NUL}) /\ n \in Nat /\ Len(line) \in Nat /\ Len(line) > 0
  <2>1. pattern \in Seq(Char \ {NUL})
    BY SearchesAssumption
  <2>2. line # <<>>
    BY DEF Plain
  <2> QED BY <2>1, <2>2, LenProperties, EmptySeq
<1>2. CString(line) = line
  <2>1. {k - 1 : k \in {j \in DOMAIN line : line[j] = NUL}} \cup {Len(line)} = {Len(line)}
    BY DEF Plain
  <2>2. Min({Len(line)}) = Len(line)
    BY <1>1 DEF Min
  <2>3. CString(line) = SubSeq(line, 1, Len(line))
    BY <2>1, <2>2 DEF CString
  <2> QED BY <2>3
<1>3. PICK k \in found :
        "w" \in search.mask => /\ k = 1 \/ isDelimiter(line[k - 1])
                               /\ k + n > Len(line) \/ isDelimiter(line[k + n])
  BY <1>2 DEF HasMatch
<1>4. IsFiniteSet(found) /\ Cardinality(found) <= 1 /\ found \subseteq 1..(Len(line) - n + 1)
  <2>1. found \in SUBSET (1..(Len(line) - n + 1))
    BY DEF Occurrences
  <2>2. IsFiniteSet(1..(Len(line) - n + 1))
    <3>1. 1 \in Int /\ Len(line) - n + 1 \in Int
      BY <1>1
    <3> QED BY <3>1, FS_Interval
  <2> HIDE DEF found
  <2>3. IsFiniteSet(found)
    BY <2>1, <2>2, FS_Subset
  <2> QED BY <2>1, <2>3 DEF Plain, found
<1>5. found = {k}
  <2> HIDE DEF found
  <2>1. Cardinality(found) = 1
    BY <1>3, <1>4, FS_EmptySet, FS_CardinalityType
  <2> QED BY <1>3, <1>4, <2>1, FS_Singleton
<1>6. k \in Nat /\ k + n <= Len(line) + 1
  <2> HIDE DEF found, n
  <2> QED BY <1>1, <1>3, <1>4
<1>7. Min(found) = k
  <2> HIDE DEF found
  <2> QED BY <1>5, <1>6 DEF Min
\* The newline in front of which the match ends.
<1>8. k + n <= Len(line)
  <2> SUFFICES ASSUME k + n = Len(line) + 1 PROVE FALSE
    BY <1>1, <1>6
  <2>1. CASE n = 0
    <3>1. 1 \in found /\ Len(line) + 1 \in found
      BY <1>1, <2>1 DEF Occurrences
    <3> HIDE DEF found
    <3> QED BY <1>1, <1>5, <3>1
  <2>2. CASE n # 0
    <3>1. n \in DOMAIN pattern /\ k + n - 1 = Len(line)
      BY <1>1, <1>6, <2>2
    <3>2. Same(line[k + n - 1], pattern[n], search.mask)
      BY <1>3, <3>1 DEF Occurrences
    <3>3. line[k + n - 1] = NL /\ pattern[n] # NL
      BY <3>1 DEF Plain
    <3>4. NL \notin DOMAIN Lower
      BY DEF NL, Lower
    <3> QED BY <3>2, <3>3, <3>4 DEF Same
  <2> QED BY <2>1, <2>2
<1>9. "w" \in search.mask => isWholeWord(line, k, n)
  <2> HIDE DEF found, n
  <2>1. ~(k + n > Len(line))
    BY <1>1, <1>6, <1>8
  <2> QED BY <1>3, <1>8, <2>1 DEF isWholeWord
<1> QED BY <1>2, <1>5, <1>7, <1>9 DEF contains

\* What is printed of a file, in terms of matches: lines that have one, or the
\* name if there is such a line; and each of them when the lines are plain.
LEMMA PrintedMatches ==
  ASSUME search \in Searches, NEW f \in DOMAIN search.files
  PROVE  LET file == search.files[f]
             P == PrintedOf(f)
             right == {n \in DOMAIN file.lines : HasMatch(file.lines[n])}
         IN /\ 0 \in P => P = {0} /\ right # {}
            /\ P \ {0} \subseteq right
            /\ file.readable /\ ~is_binary(file)
               /\ (\A n \in DOMAIN file.lines : Plain(file.lines[n]))
               => IF "l" \in search.mask THEN P = {0} \/ right = {} ELSE P = right
<1> DEFINE file == search.files[f]
           P == PrintedOf(f)
           right == {n \in DOMAIN file.lines : HasMatch(file.lines[n])}
           chosen == {n \in DOMAIN file.lines :
                        contains(file.lines[n], search.pattern, search.mask)}
<1>1. /\ file.lines \in Seq(Seq(Char)) /\ 0 \notin DOMAIN file.lines
      /\ \A n \in DOMAIN file.lines : file.lines[n] \in Seq(Char)
  BY SearchesAssumption
<1>2. chosen \subseteq right
  BY <1>1, FoundIsMatch
<1>3. P = IF ~file.readable \/ is_binary(file) THEN {}
          ELSE IF "l" \in search.mask /\ chosen # {} THEN {0} ELSE chosen
  BY DEF PrintedOf, Printed
<1>4. ASSUME \A n \in DOMAIN file.lines : Plain(file.lines[n]) PROVE right = chosen
  BY <1>1, <1>2, <1>4, PlainIsFound
<1>5. 0 \notin chosen
  BY <1>1
<1> HIDE DEF chosen, right, file, P
<1>6. 0 \in P => P = {0} /\ right # {}
  BY <1>2, <1>3, <1>5
<1>7. P \ {0} \subseteq right
  BY <1>2, <1>3
<1>8. ASSUME file.readable, ~is_binary(file), \A n \in DOMAIN file.lines : Plain(file.lines[n])
      PROVE  IF "l" \in search.mask THEN P = {0} \/ right = {} ELSE P = right
  BY <1>3, <1>4, <1>8
<1> QED BY <1>6, <1>7, <1>8 DEF P, right, file

\* Only lines with a match are printed, and of a file whose lines are plain all
\* of them.
THEOREM PrintsRightLinesHolds == Spec => []PrintsRightLines
<1>1. ASSUME IInv PROVE PrintsRightLines
  <2> SUFFICES ASSUME NEW f \in DOMAIN search.files
      PROVE  LET lines == search.files[f].lines
                 printed == {l[3] : l \in {o[2] : o \in {q \in output : q[2][2] = f}}}
                 right == {n \in DOMAIN lines : HasMatch(lines[n])}
             IN /\ 0 \in printed => printed = {0} /\ right # {}
                /\ printed \ {0} \subseteq right
                /\ /\ pc[Main] = "done" /\ ~cut
                   /\ search.root = FileEntry(f)
                   /\ search.files[f].readable /\ ~is_binary(search.files[f])
                   /\ \A n \in DOMAIN lines : Plain(lines[n])
                   => IF "l" \in search.mask THEN printed = {0} \/ right = {}
                      ELSE printed = right
    BY DEF PrintsRightLines, FileEntry
  <2> DEFINE lines == search.files[f].lines
             printed == {l[3] : l \in {o[2] : o \in {q \in output : q[2][2] = f}}}
             right == {n \in DOMAIN lines : HasMatch(lines[n])}
             P == PrintedOf(f)
  <2>1. search \in Searches /\ printed \subseteq P
    <3>1. search \in Searches /\ \A o \in output : o[2] \in Found
      BY <1>1 DEF IInv, Types, OutputOK
    <3> QED BY <3>1 DEF Found
  <2>2. /\ 0 \in P => P = {0} /\ right # {}
        /\ P \ {0} \subseteq right
        /\ search.files[f].readable /\ ~is_binary(search.files[f])
           /\ (\A n \in DOMAIN lines : Plain(lines[n]))
           => IF "l" \in search.mask THEN P = {0} \/ right = {} ELSE P = right
    BY <2>1, PrintedMatches
  <2>3. ASSUME pc[Main] = "done", ~cut, search.root = FileEntry(f) PROVE printed = P
    <3>1. Main \in Process /\ Contents(search, Main) = <<FileEntry(f)>>
      BY <2>3 DEF Process, Contents
    <3>2. todo[Main] = <<>>
      BY <1>1, <2>3, <3>1 DEF IInv, EndOK, EndsWell
    <3>3. Len(Contents(search, Main)) = 1 /\ Contents(search, Main)[1] = FileEntry(f)
      BY <3>1
    <3>4. Place(Main) = 1
      BY <3>2, <3>3, EmptySeq DEF Place
    <3>5. ASSUME NEW n \in P PROVE <<Main, f, n>> \in Found
      <4>1. P \subseteq Nat
        BY <2>1, PrintedType DEF PrintedOf
      <4>2. 1 \in 1..Place(Main)
        BY <3>4
      <4> QED BY <3>1, <3>3, <4>1, <4>2 DEF Found, Line
    <3>6. ASSUME NEW n \in P PROVE n \in printed
      <4>1. PICK o \in output : o[2] = <<Main, f, n>>
        BY <1>1, <2>3, <3>5, AllWritten
      <4> QED BY <4>1
    <3> QED BY <2>1, <3>6
  <2> HIDE DEF lines, printed, right, P
  <2>4. 0 \in printed => printed = {0} /\ right # {}
    BY <2>1, <2>2
  <2>5. printed \ {0} \subseteq right
    BY <2>1, <2>2
  <2> QED BY <2>2, <2>3, <2>4, <2>5 DEF lines, printed, right
<1> QED BY <1>1, Invariance, PTL
=============================================================================
