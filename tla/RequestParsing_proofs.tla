------------------------ MODULE RequestParsing_proofs ------------------------
(***************************************************************************)
(* Proofs about the parsing of requests, for arguments of any length.      *)
(***************************************************************************)
EXTENDS RequestParsing, InductionLemmas, SequenceTheorems

-----------------------------------------------------------------------------
(* Digits and numbers                                                      *)

LEMMA DigitFacts ==
  /\ \A d \in Digit : DigitOf[d] \in 0..9 /\ Digits[DigitOf[d] + 1] = d
  /\ \A n \in 0..9 : Digits[n + 1] \in Digit /\ DigitOf[Digits[n + 1]] = n
  /\ Blank \notin Digit /\ "-" \notin Digit /\ Blank # "-"
<1>1. \A n \in 0..9 : Digits[n + 1] \in Digit
  BY DEF Digit, Digits, Range
<1>2. \A n, k \in 0..9 : Digits[n + 1] = Digits[k + 1] => n = k
  BY DEF Digits
<1>3. ASSUME NEW d \in Digit PROVE \E n \in 0..9 : Digits[n + 1] = d
  <2>1. PICK n \in 1..10 : d = Digits[n]
    BY DEF Digit, Digits, Range
  <2>2. n - 1 \in 0..9 /\ (n - 1) + 1 = n
    OBVIOUS
  <2> QED BY <2>1, <2>2
<1>4. ASSUME NEW d \in Digit PROVE DigitOf[d] \in 0..9 /\ Digits[DigitOf[d] + 1] = d
  <2>1. DigitOf[d] = CHOOSE n \in 0..9 : Digits[n + 1] = d
    BY DEF DigitOf
  <2> QED BY <1>3, <2>1
<1>5. Digit = {"0", "1", "2", "3", "4", "5", "6", "7", "8", "9"}
  BY DEF Digit, Digits, Range
<1>6. Blank \notin Digit /\ "-" \notin Digit /\ Blank # "-"
  BY <1>5, Zenon DEF Blank
<1> QED BY <1>1, <1>2, <1>4, <1>6

\* Value's recursion has a solution, which says what the value of digits is.
ValueSteps(v, digits) ==
  /\ v[0] = 0
  /\ \A k \in 1..Len(digits) : v[k] = 10 * v[k - 1] + DigitOf[digits[k]]

LEMMA ValueIs ==
  ASSUME NEW digits \in Seq(Digit)
  PROVE  \E v \in [0..Len(digits) -> Nat] :
           ValueSteps(v, digits) /\ Value(digits) = v[Len(digits)]
<1> DEFINE m == Len(digits)
           Eq(v) == v = [k \in 0..m |-> IF k = 0 THEN 0
                                        ELSE 10 * v[k - 1] + DigitOf[digits[k]]]
           v == CHOOSE u : Eq(u)
<1>1. m \in Nat /\ \A k \in 1..m : digits[k] \in Digit /\ DigitOf[digits[k]] \in Nat
  <2>1. m \in Nat /\ \A k \in 1..m : digits[k] \in Digit
    OBVIOUS
  <2>2. \A d \in Digit : DigitOf[d] \in Nat
    BY DigitFacts
  <2> QED BY <2>1, <2>2
<1>2. Value(digits) = v[m]
  BY DEF Value
<1> HIDE DEF m
<1>3. \E u : Eq(u)
  <2> DEFINE prev == [k \in 0..m |-> IF k = 0 THEN 0 ELSE k - 1]
             rank == [k \in 0..m |-> k]
             val == [k \in 0..m |-> 0]
             step == [x \in (0..m) \X Nat |->
                        IF x[1] = 0 THEN 0 ELSE 10 * x[2] + DigitOf[digits[x[1]]]]
  <2>1. prev \in [0..m -> 0..m] /\ rank \in [0..m -> 0..m] /\ val \in [0..m -> Nat]
    BY <1>1
  <2>2. step \in [(0..m) \X Nat -> Nat]
    BY <1>1
  <2>3. LeadsTo(prev, 0..m, {0}, rank, m)
    BY <1>1, <2>1 DEF LeadsTo
  <2>4. \A k \in 0..m, n \in Nat :
          step[<<k, n>>] = IF k = 0 THEN 0 ELSE 10 * n + DigitOf[digits[k]]
    OBVIOUS
  <2>5. \A k \in 0..m : val[k] = 0 /\ (k # 0 => prev[k] = k - 1 /\ k - 1 \in 0..m)
    BY <1>1
  <2> HIDE DEF prev, rank, val, step
  <2>6. PICK u \in [0..m -> Nat] : Recursive(u, 0..m, {0}, val, prev, step)
    BY <1>1, <2>1, <2>2, <2>3, RecursionExists
  <2>7. ASSUME NEW k \in 0..m
        PROVE  u[k] = IF k = 0 THEN 0 ELSE 10 * u[k - 1] + DigitOf[digits[k]]
    <3>1. CASE k = 0
      BY <2>5, <2>6, <3>1 DEF Recursive
    <3>2. CASE k # 0
      <4>1. u[k] = step[<<k, u[k - 1]>>] /\ u[k - 1] \in Nat
        BY <2>5, <2>6, <3>2 DEF Recursive
      <4> QED BY <2>4, <3>2, <4>1
    <3> QED BY <3>1, <3>2
  <2>8. Eq(u)
    BY <2>7
  <2> QED BY <2>8
<1>4. Eq(v)
  BY <1>3
<1> HIDE DEF v
<1>5. v[0] = 0 /\ \A k \in 1..m : v[k] = 10 * v[k - 1] + DigitOf[digits[k]]
  BY <1>1, <1>4
<1>6. \A k \in 0..m : v[k] \in Nat
  <2> DEFINE Q == {k \in 0..m : v[k] \in Nat}
  <2>1. 0 \in Q
    BY <1>1, <1>5
  <2>2. ASSUME NEW k \in Q, k \in 0..(m - 1) PROVE k + 1 \in Q
    <3>1. k + 1 \in 1..m /\ (k + 1) - 1 = k /\ v[k] \in Nat
      BY <1>1, <2>2
    <3>2. v[k + 1] = 10 * v[k] + DigitOf[digits[k + 1]]
      BY <1>5, <3>1
    <3> QED BY <1>1, <3>1, <3>2
  <2> HIDE DEF Q
  <2>3. 0..m \subseteq Q
    BY <1>1, <2>1, <2>2, IntervalInduction
  <2> QED BY <2>3 DEF Q
<1>7. v \in [0..m -> Nat]
  BY <1>4, <1>6
<1> QED BY <1>2, <1>5, <1>7 DEF ValueSteps, m

LEMMA ValueNatural == \A digits \in Seq(Digit) : Value(digits) \in Nat
<1> SUFFICES ASSUME NEW digits \in Seq(Digit) PROVE Value(digits) \in Nat
  OBVIOUS
<1>1. Len(digits) \in Nat
  BY LenProperties
<1> QED BY <1>1, ValueIs

\* One digit more.
LEMMA ValueAppend ==
  ASSUME NEW digits \in Seq(Digit), NEW d \in Digit
  PROVE  Value(Append(digits, d)) = 10 * Value(digits) + DigitOf[d]
<1> DEFINE more == Append(digits, d)
           m == Len(digits)
<1>1. /\ more \in Seq(Digit) /\ Len(more) = m + 1 /\ m \in Nat
      /\ more[m + 1] = d /\ \A k \in 1..m : more[k] = digits[k]
  BY AppendProperties, LenProperties
<1> HIDE DEF more, m
<1>2. PICK v \in [0..m -> Nat] : ValueSteps(v, digits) /\ Value(digits) = v[m]
  BY ValueIs DEF m
<1>3. PICK w \in [0..(m + 1) -> Nat] : ValueSteps(w, more) /\ Value(more) = w[m + 1]
  BY <1>1, ValueIs
<1> DEFINE Q == {k \in 0..m : w[k] = v[k]}
<1>4. 0 \in Q
  BY <1>1, <1>2, <1>3 DEF ValueSteps
<1>5. ASSUME NEW k \in Q, k \in 0..(m - 1) PROVE k + 1 \in Q
  <2>1. k + 1 \in 1..m /\ k + 1 \in 1..(m + 1) /\ (k + 1) - 1 = k /\ w[k] = v[k]
    BY <1>1, <1>5
  <2>2. v[k + 1] = 10 * v[k] + DigitOf[digits[k + 1]]
    BY <1>2, <2>1 DEF ValueSteps, m
  <2>3. w[k + 1] = 10 * w[k] + DigitOf[more[k + 1]]
    BY <1>1, <1>3, <2>1 DEF ValueSteps
  <2>4. k + 1 \in 0..m
    BY <1>1, <2>1
  <2>5. more[k + 1] = digits[k + 1]
    BY <1>1, <2>1
  <2>6. w[k + 1] = v[k + 1]
    BY <2>1, <2>2, <2>3, <2>5
  <2> QED BY <2>4, <2>6
<1>6. 0..m \subseteq Q
  <2> HIDE DEF Q
  <2> QED BY <1>1, <1>4, <1>5, IntervalInduction
<1>7. w[m] = v[m]
  BY <1>1, <1>6
<1>8. w[m + 1] = 10 * w[m] + DigitOf[d]
  <2>1. m + 1 \in 1..(m + 1) /\ (m + 1) - 1 = m
    BY <1>1
  <2> QED BY <1>1, <1>3, <2>1 DEF ValueSteps
<1> QED BY <1>2, <1>3, <1>7, <1>8 DEF more

LEMMA Tens ==
  ASSUME NEW k \in Nat
  PROVE  /\ k \div 10 \in Nat /\ k % 10 \in 0..9 /\ 10 * (k \div 10) + (k % 10) = k
         /\ k >= 10 => k \div 10 < k /\ k \div 10 >= 1
         /\ k \div 10 <= k
OBVIOUS

\* The decimal digits of a number denote it.
LEMMA PrintedNumber ==
  ASSUME NEW n \in Nat
  PROVE  /\ DigitsOf(n) \in Seq(Digit) /\ DigitsOf(n) # <<>>
         /\ Value(DigitsOf(n)) = n
<1> DEFINE Eq(f) == f = [k \in 0..n |-> IF k < 10 THEN <<Digits[k + 1]>>
                                        ELSE Append(f[k \div 10], Digits[(k % 10) + 1])]
           f == CHOOSE g : Eq(g)
           V == Seq(Digit)
           D == 0..n
           base == {k \in D : k < 10}
           prev == [k \in D |-> k \div 10]
           last == [k \in D |-> Digits[(k % 10) + 1]]
           val == [k \in D |-> IF k < 10 THEN <<Digits[k + 1]>> ELSE <<>>]
           rank == [k \in D |-> k]
           step == [x \in D \X V |-> Append(x[2], last[x[1]])]
<1>1. DigitsOf(n) = f[n] /\ n \in D
  BY DEF DigitsOf
<1>2. LeadsTo(prev, D, base, rank, n) /\ prev \in [D -> D]
  BY Tens DEF LeadsTo
<1>3. \A k \in D : last[k] \in Digit /\ val[k] \in V
  <2>1. \A k \in D : k % 10 \in 0..9 /\ k \in Nat
    BY Tens
  <2>2. \A k \in D : last[k] \in Digit
    BY <2>1, DigitFacts
  <2>3. \A k \in D : k < 10 => Digits[k + 1] \in Digit
    BY DigitFacts
  <2> QED BY <2>2, <2>3
<1>4. /\ step \in [D \X V -> V] /\ \A k \in D, s \in V : step[<<k, s>>] = Append(s, last[k])
      /\ val \in [D -> V]
  <2>1. \A s \in V, d \in Digit : Append(s, d) \in V
    BY AppendProperties
  <2> HIDE DEF last, V, D
  <2>2. \A k \in D, s \in V : step[<<k, s>>] = Append(s, last[k])
    OBVIOUS
  <2> QED BY <1>3, <2>1, <2>2
<1>5. \A k \in base : /\ k \in 0..9 /\ k \in D /\ val[k] = <<Digits[k + 1]>>
                      /\ Digits[k + 1] \in Digit /\ DigitOf[Digits[k + 1]] = k
  BY DigitFacts
<1>6. \A k \in D : k \notin base =>
        prev[k] \in Nat /\ DigitOf[last[k]] \in Nat /\ 10 * prev[k] + DigitOf[last[k]] = k
  <2> SUFFICES ASSUME NEW k \in D
               PROVE  /\ prev[k] \in Nat /\ DigitOf[last[k]] \in Nat
                      /\ 10 * prev[k] + DigitOf[last[k]] = k
    OBVIOUS
  <2>1. k % 10 \in 0..9 /\ prev[k] \in Nat /\ 10 * prev[k] + (k % 10) = k
    BY Tens
  <2>2. DigitOf[last[k]] = k % 10
    BY <2>1, DigitFacts
  <2> QED BY <2>1, <2>2
<1>7. \A g : Eq(g) <=> g = [k \in D |-> IF k \in base THEN val[k]
                                        ELSE Append(g[prev[k]], last[k])]
  <2> SUFFICES ASSUME NEW g
               PROVE  [k \in D |-> IF k < 10 THEN <<Digits[k + 1]>>
                                   ELSE Append(g[k \div 10], Digits[(k % 10) + 1])]
                      = [k \in D |-> IF k \in base THEN val[k]
                                     ELSE Append(g[prev[k]], last[k])]
    OBVIOUS
  <2>1. \A k \in D : /\ prev[k] = k \div 10 /\ last[k] = Digits[(k % 10) + 1]
                     /\ k \in base <=> k < 10
                     /\ k < 10 => val[k] = <<Digits[k + 1]>>
    OBVIOUS
  <2> HIDE DEF prev, last, base, val
  <2> QED BY <2>1
<1> HIDE DEF Eq, D, base, prev, last, val, rank, step
<1>8. \E g : Eq(g)
  <2> HIDE DEF V
  <2>1. PICK u \in [D -> V] : Recursive(u, D, base, val, prev, step)
    BY <1>2, <1>4, RecursionExists
  <2>2. \A k \in D : u[k] = IF k \in base THEN val[k] ELSE Append(u[prev[k]], last[k])
    BY <1>2, <1>4, <2>1 DEF Recursive
  <2> QED BY <1>7, <2>1, <2>2
<1>9. Eq(f)
  BY <1>8
<1> HIDE DEF f
<1>10. \A k \in D : f[k] = IF k \in base THEN val[k] ELSE Append(f[prev[k]], last[k])
  BY <1>7, <1>9
<1> DEFINE G == {k \in D : f[k] \in V /\ f[k] # <<>> /\ Value(f[k]) = k}
<1>11. ASSUME NEW k \in D, k \in base PROVE k \in G
  <2> DEFINE d == Digits[k + 1]
  <2>1. f[k] = <<d>> /\ d \in Digit /\ DigitOf[d] = k /\ k \in 0..9
    BY <1>5, <1>10, <1>11
  <2> HIDE DEF d
  <2>2. <<d>> = Append(<<>>, d) /\ <<>> \in Seq(Digit) /\ Len(<<>>) = 0 /\ <<d>> # <<>>
        /\ <<d>> \in V
    BY <2>1
  <2>3. Value(<<>>) = 0
    BY <2>2, ValueIs DEF ValueSteps
  <2>4. Value(<<d>>) = 10 * 0 + DigitOf[d]
    BY <2>1, <2>2, <2>3, ValueAppend
  <2>5. Value(f[k]) = k
    BY <2>1, <2>4
  <2> QED BY <2>1, <2>2, <2>5
<1>12. ASSUME NEW k \in D, k \notin base, prev[k] \in G PROVE k \in G
  <2> DEFINE s == f[prev[k]]
             d == last[k]
  <2>1. f[k] = Append(s, d)
    BY <1>10, <1>12
  <2>2. s \in Seq(Digit) /\ Value(s) = prev[k] /\ d \in Digit
    BY <1>3, <1>12
  <2>3. 10 * prev[k] + DigitOf[d] = k
    BY <1>6, <1>12
  <2> HIDE DEF s, d
  <2>4. Append(s, d) \in Seq(Digit) /\ Append(s, d) # <<>>
    BY <2>2, AppendProperties
  <2>5. Value(Append(s, d)) = 10 * prev[k] + DigitOf[d]
    BY <2>2, ValueAppend
  <2> QED BY <2>1, <2>3, <2>4, <2>5
<1>13. G = D
  <2>1. G \subseteq D
    OBVIOUS
  <2> HIDE DEF G
  <2>2. Inductive(G, D, base, prev)
    BY <1>11, <1>12, <2>1 DEF Inductive
  <2> QED BY <1>2, <2>2, RecursionInduction
<1> QED BY <1>1, <1>13

-----------------------------------------------------------------------------
(* Scanning                                                                *)

\* The least of some naturals is one of them.
LEMMA LeastIsMin ==
  ASSUME NEW S \in SUBSET Nat, S # {}
  PROVE  Min(S) \in S /\ \A k \in S : Min(S) <= k
<1>1. \E k \in S : \A j \in S : k <= j
  BY LeastNatural
<1> QED BY <1>1 DEF Min

\* Characters of S from p to the one before q, where they end.
StopsAt(str, p, S, q) ==
  /\ q \in p..(Len(str) + 1) /\ q \in Nat
  /\ \A k \in p..(q - 1) : str[k] \in S
  /\ q <= Len(str) => str[q] \notin S

LEMMA SkipOverStops ==
  ASSUME NEW str \in Seq(Char), NEW p \in 1..(Len(str) + 1), NEW S
  PROVE  StopsAt(str, p, S, SkipOver(str, p, S))
<1> DEFINE m == Len(str)
           Q == {k \in p..(m + 1) : k = m + 1 \/ str[k] \notin S}
           q == SkipOver(str, p, S)
<1>1. m \in Nat /\ p \in Nat /\ p <= m + 1
  BY LenProperties
<1> HIDE DEF m
<1>2. Q \in SUBSET Nat /\ m + 1 \in Q
  BY <1>1
<1>3. q = Min(Q)
  BY DEF SkipOver, m
<1> HIDE DEF Q, q
<1>4. q \in Q /\ \A k \in Q : q <= k
  BY <1>2, <1>3, LeastIsMin
<1>5. q \in p..(m + 1) /\ q \in Nat /\ (q = m + 1 \/ str[q] \notin S)
  BY <1>1, <1>4 DEF Q
<1>6. ASSUME NEW k \in p..(q - 1) PROVE str[k] \in S
  <2>1. k \in p..(m + 1) /\ ~(q <= k)
    BY <1>1, <1>5
  <2> QED BY <1>4, <2>1 DEF Q
<1> QED BY <1>1, <1>5, <1>6 DEF StopsAt, q, m

LEMMA StopsOnce ==
  ASSUME NEW str \in Seq(Char), NEW p \in Nat, NEW S, NEW q, StopsAt(str, p, S, q),
         NEW r, StopsAt(str, p, S, r)
  PROVE  q = r
<1>1. Len(str) \in Nat
  BY LenProperties
<1>2. ~(q < r)
  BY <1>1 DEF StopsAt
<1>3. ~(r < q)
  BY <1>1 DEF StopsAt
<1> QED BY <1>1, <1>2, <1>3 DEF StopsAt

\* The parts of a number that sscanf finds from p on: sign or digits, digits.
Start(str, p) == SkipOver(str, p, {Blank})
Signed(str, p) == Start(str, p) <= Len(str) /\ str[Start(str, p)] = "-"
First(str, p) == IF Signed(str, p) THEN Start(str, p) + 1 ELSE Start(str, p)
After(str, p) == SkipOver(str, First(str, p), Digit)
Abs(str, p)   == Value(SubSeq(str, First(str, p), After(str, p) - 1))

LEMMA NumberParts ==
  ASSUME NEW str, NEW p
  PROVE  /\ NumberAt(str, p).ok <=> After(str, p) > First(str, p)
         /\ NumberAt(str, p).value = IF Signed(str, p) THEN -Abs(str, p) ELSE Abs(str, p)
         /\ NumberAt(str, p).next = After(str, p)
BY DEF NumberAt, Start, Signed, First, After, Abs

LEMMA NumberType ==
  ASSUME NEW str \in Seq(Char), NEW p \in 1..(Len(str) + 1)
  PROVE  /\ StopsAt(str, p, {Blank}, Start(str, p))
         /\ First(str, p) \in p..(Len(str) + 1) /\ First(str, p) \in Nat \ {0}
         /\ StopsAt(str, First(str, p), Digit, After(str, p))
         /\ NumberAt(str, p).next \in p..(Len(str) + 1)
         /\ NumberAt(str, p).value \in Int
         /\ NumberAt(str, p).ok => NumberAt(str, p).next > p
<1> DEFINE q == Start(str, p)
           f == First(str, p)
           a == After(str, p)
           digits == SubSeq(str, f, a - 1)
<1>1. Len(str) \in Nat /\ p \in Nat /\ p >= 1
  BY LenProperties
<1>2. StopsAt(str, p, {Blank}, q)
  BY SkipOverStops DEF Start
<1>3. f \in q..(Len(str) + 1) /\ q \in p..(Len(str) + 1)
  BY <1>1, <1>2 DEF StopsAt, First, Signed
<1> HIDE DEF q, f
<1>4. f \in p..(Len(str) + 1) /\ f \in 1..(Len(str) + 1) /\ f \in Nat
  BY <1>1, <1>3
<1>5. StopsAt(str, f, Digit, a)
  BY <1>4, SkipOverStops DEF After, f
<1>6. a \in f..(Len(str) + 1) /\ \A k \in f..(a - 1) : str[k] \in Digit
  BY <1>5 DEF StopsAt
<1> HIDE DEF a
<1>7. digits \in Seq(Digit)
  BY <1>1, <1>4, <1>6, SubSeqProperties
<1>8. Value(digits) \in Nat /\ Value(digits) = Abs(str, p)
  BY <1>7, ValueNatural DEF Abs, f, a
<1>9. NumberAt(str, p).value \in Int
  BY <1>8, NumberParts
<1>10. NumberAt(str, p).next = a /\ (NumberAt(str, p).ok <=> a > f)
  BY NumberParts DEF a, f
<1>11. a \in p..(Len(str) + 1) /\ (a > f => a > p)
  BY <1>1, <1>4, <1>6
<1> QED BY <1>2, <1>4, <1>5, <1>9, <1>10, <1>11 DEF q, f, a

-----------------------------------------------------------------------------
(* The two loops of a list                                                 *)

\* f gives what the conversions from each position on find.
ConversionSteps(f, str) ==
  \A p \in 1..(Len(str) + 1) :
    /\ NumberAt(str, p).ok =>
         f[p] = <<NumberAt(str, p).value>> \o f[NumberAt(str, p).next]
    /\ ~NumberAt(str, p).ok => f[p] = <<>>

\* The conversions move on towards the end until there is no number.
Onward(str) == [p \in 1..(Len(str) + 1) |->
                  IF NumberAt(str, p).ok THEN NumberAt(str, p).next ELSE p]
NoNumber(str) == {p \in 1..(Len(str) + 1) : ~NumberAt(str, p).ok}
ToEnd(str) == [p \in 1..(Len(str) + 1) |-> Len(str) + 1 - p]

LEMMA ConversionsAdvance ==
  ASSUME NEW str \in Seq(Char)
  PROVE  LeadsTo(Onward(str), 1..(Len(str) + 1), NoNumber(str), ToEnd(str), Len(str))
<1> DEFINE m == Len(str)
           D == 1..(m + 1)
<1>1. m \in Nat
  BY LenProperties
<1>2. \A p \in D : NumberAt(str, p).next \in p..(m + 1)
                   /\ (NumberAt(str, p).ok => NumberAt(str, p).next > p)
  BY NumberType
<1> HIDE DEF m
<1>3. Onward(str) = [p \in D |-> IF NumberAt(str, p).ok THEN NumberAt(str, p).next ELSE p]
  BY DEF Onward, m
<1>4. Onward(str) \in [D -> D]
  BY <1>1, <1>2, <1>3
<1>5. ToEnd(str) = [p \in D |-> m + 1 - p] /\ \A p \in D : m + 1 - p \in 0..m
  BY <1>1 DEF ToEnd, m
<1>6. ASSUME NEW p \in D, p \notin NoNumber(str)
      PROVE  ToEnd(str)[Onward(str)[p]] < ToEnd(str)[p]
  <2>1. NumberAt(str, p).ok
    BY <1>6 DEF NoNumber, m
  <2>2. Onward(str)[p] \in D /\ Onward(str)[p] > p
    BY <1>2, <1>3, <1>4, <2>1
  <2> HIDE DEF D
  <2>3. ToEnd(str)[p] = m + 1 - p /\ ToEnd(str)[Onward(str)[p]] = m + 1 - Onward(str)[p]
    BY <1>5, <2>2
  <2> QED BY <1>1, <2>2, <2>3 DEF D
<1>7. ToEnd(str) \in [D -> 0..m]
  BY <1>5
<1> QED BY <1>1, <1>4, <1>6, <1>7 DEF LeadsTo, m

LEMMA ConversionsFrom ==
  ASSUME NEW str \in Seq(Char)
  PROVE  \E f \in [1..(Len(str) + 1) -> Seq(Int)] :
           ConversionSteps(f, str) /\ Conversions(str) = f[1]
<1> DEFINE D == 1..(Len(str) + 1)
           V == Seq(Int)
           Eq(f) == f = [p \in D |->
                           LET n == NumberAt(str, p)
                           IN IF n.ok THEN <<n.value>> \o f[n.next] ELSE <<>>]
           f == CHOOSE g : Eq(g)
           val == [p \in D |-> <<>>]
           step == [x \in D \X V |-> <<NumberAt(str, x[1]).value>> \o x[2]]
<1>1. Conversions(str) = f[1]
  BY DEF Conversions
<1>2. \A p \in D : /\ NumberAt(str, p).value \in Int /\ NumberAt(str, p).next \in D
                   /\ (p \notin NoNumber(str) <=> NumberAt(str, p).ok)
                   /\ (NumberAt(str, p).ok => Onward(str)[p] = NumberAt(str, p).next)
  BY NumberType, LenProperties DEF NoNumber, Onward
<1> HIDE DEF D, V
<1>3. \A p \in D, s \in V : /\ <<NumberAt(str, p).value>> \o s \in V
                            /\ step[<<p, s>>] = <<NumberAt(str, p).value>> \o s
  BY <1>2, ConcatProperties DEF V
<1>4. step \in [D \X V -> V] /\ val \in [D -> V]
  <2>1. <<>> \in V
    BY DEF V
  <2>2. \A x \in D \X V : step[x] \in V
    BY <1>3
  <2>3. step = [x \in D \X V |-> step[x]]
    OBVIOUS
  <2> QED BY <2>1, <2>2, <2>3
<1> HIDE DEF step, val
<1>5. \E g : Eq(g)
  <2>1. LeadsTo(Onward(str), D, NoNumber(str), ToEnd(str), Len(str))
    BY ConversionsAdvance DEF D
  <2>2. PICK u \in [D -> V] : Recursive(u, D, NoNumber(str), val, Onward(str), step)
    BY <1>4, <2>1, RecursionExists
  <2>3. ASSUME NEW p \in D
        PROVE  u[p] = IF NumberAt(str, p).ok
                      THEN <<NumberAt(str, p).value>> \o u[NumberAt(str, p).next] ELSE <<>>
    <3>1. CASE NumberAt(str, p).ok
      <4>1. u[p] = step[<<p, u[NumberAt(str, p).next]>>]
        BY <1>2, <2>2, <3>1 DEF Recursive
      <4>2. u[NumberAt(str, p).next] \in V
        BY <1>2, <2>2
      <4> QED BY <1>3, <3>1, <4>1, <4>2
    <3>2. CASE ~NumberAt(str, p).ok
      BY <1>2, <2>2, <3>2 DEF Recursive, val
    <3> QED BY <3>1, <3>2
  <2>4. Eq(u)
    BY <2>2, <2>3
  <2> QED BY <2>4
<1>6. Eq(f)
  BY <1>5
<1> HIDE DEF f
<1>7. /\ f = [p \in D |-> f[p]]
      /\ \A p \in D : f[p] = IF NumberAt(str, p).ok
                        THEN <<NumberAt(str, p).value>> \o f[NumberAt(str, p).next] ELSE <<>>
  BY <1>6
<1>8. \A p \in D : f[p] \in V
  <2> DEFINE G == {p \in D : f[p] \in V}
  <2>1. \A p \in D : p \in NoNumber(str) \/ Onward(str)[p] \in G => p \in G
    <3> SUFFICES ASSUME NEW p \in D, p \in NoNumber(str) \/ Onward(str)[p] \in G
                 PROVE  f[p] \in V
      OBVIOUS
    <3>1. CASE p \in NoNumber(str)
      <4>1. f[p] = <<>>
        BY <1>2, <1>7, <3>1
      <4> QED BY <4>1 DEF V
    <3>2. CASE p \notin NoNumber(str)
      <4>1. /\ f[p] = <<NumberAt(str, p).value>> \o f[NumberAt(str, p).next]
            /\ f[NumberAt(str, p).next] \in V
        BY <1>2, <1>7, <3>2
      <4> QED BY <1>3, <4>1
    <3> QED BY <3>1, <3>2
  <2>2. Inductive(G, D, NoNumber(str), Onward(str))
    BY <2>1 DEF Inductive
  <2> HIDE DEF G
  <2>3. G = D
    BY <2>2, ConversionsAdvance, RecursionInduction DEF D
  <2> QED BY <2>3 DEF G
<1> QED BY <1>1, <1>7, <1>8 DEF ConversionSteps, D, V

LEMMA AmountNatural ==
  ASSUME NEW str \in Seq(Char)
  PROVE  IsFiniteSet(LastDigits(str)) /\ getIntAmount(str) \in Nat
<1>1. Len(str) \in Nat /\ LastDigits(str) \subseteq 1..Len(str)
  BY LenProperties DEF LastDigits
<1>2. IsFiniteSet(LastDigits(str))
  <2>1. IsFiniteSet(1..Len(str))
    BY <1>1, FS_Interval
  <2> QED BY <1>1, <2>1, FS_Subset
<1> QED BY <1>2, FS_CardinalityType DEF getIntAmount

\* What stringToIntArray makes of the two: the list is complete when enough
\* numbers were found, for the server positive ones.
LEMMA ArrayOfString ==
  ASSUME NEW str \in Seq(Char), NEW positive \in BOOLEAN
  PROVE  LET array == stringToIntArray(str, positive)
             size == getIntAmount(str)
             found == Conversions(str)
         IN /\ found \in Seq(Int)
            /\ array.size = size /\ size \in Nat
            /\ array.ok <=> /\ size <= Len(found)
                            /\ positive => \A k \in 1..size : found[k] > 0
            /\ array.ok => /\ array.list = SubSeq(found, 1, size)
                           /\ array.list \in Seq(Int) /\ Len(array.list) = size
                           /\ \A k \in 1..size : array.list[k] = found[k]
            /\ array.writes \in Nat
            /\ array.writes <= Len(found) /\ array.writes <= size + 1
<1> DEFINE array == stringToIntArray(str, positive)
           size == getIntAmount(str)
           found == Conversions(str)
           bad == {k \in DOMAIN found : positive /\ found[k] <= 0}
           C == {size, Len(found)} \cup {k - 1 : k \in bad}
           counter == Min(C)
           W == {Len(found), counter + 1}
<1>1. found \in Seq(Int)
  <2>1. 1 \in 1..(Len(str) + 1)
    BY LenProperties
  <2> QED BY <2>1, ConversionsFrom
<1>2. size \in Nat
  BY AmountNatural
<1>3. array = [ok |-> counter = size, size |-> size, list |-> SubSeq(found, 1, counter),
               writes |-> Min(W)]
  BY DEF stringToIntArray
<1> HIDE DEF array, size, found
<1>4. Len(found) \in Nat /\ DOMAIN found = 1..Len(found) /\ \A k \in 1..Len(found) : found[k] \in Int
  BY <1>1, LenProperties, ElementOfSeq
<1>5. \A k \in bad : k \in 1..Len(found) /\ k - 1 \in Nat
  BY <1>4
<1>6. C \in SUBSET Nat /\ size \in C /\ Len(found) \in C
  BY <1>2, <1>4, <1>5
<1>7. counter \in Nat /\ counter \in C /\ \A k \in C : counter <= k
  <2> HIDE DEF C
  <2> QED BY <1>6, LeastIsMin
<1>8. counter <= size /\ counter <= Len(found) /\ \A k \in bad : counter <= k - 1
  <2> HIDE DEF counter, bad
  <2> QED BY <1>7
<1>9. counter = size \/ counter = Len(found) \/ \E k \in bad : counter = k - 1
  <2> HIDE DEF counter, bad
  <2> QED BY <1>7
<1> HIDE DEF counter, C
<1>10. counter = size <=> /\ size <= Len(found)
                          /\ positive => \A k \in 1..size : found[k] > 0
  <2>1. ASSUME counter = size, positive, NEW k \in 1..size PROVE found[k] > 0
    <3>1. k \notin bad /\ k \in 1..Len(found)
      BY <1>2, <1>4, <1>8, <2>1
    <3> QED BY <1>4, <2>1, <3>1
  <2>2. ASSUME size <= Len(found), positive => \A k \in 1..size : found[k] > 0
        PROVE  counter = size
    <3>1. ASSUME NEW k \in bad, counter = k - 1 PROVE counter = size
      <4>1. k \in 1..Len(found) /\ positive /\ ~(found[k] > 0)
        BY <1>4, <3>1
      <4>2. k \notin 1..size
        BY <2>2, <4>1
      <4> QED BY <1>2, <1>7, <1>8, <3>1, <4>1, <4>2
    <3>2. CASE counter = Len(found)
      <4>1. size <= counter
        BY <2>2, <3>2
      <4> HIDE DEF bad
      <4>2. counter <= size
        BY <1>8
      <4> QED BY <1>2, <1>7, <4>1, <4>2
    <3> HIDE DEF bad
    <3> QED BY <1>9, <3>1, <3>2
  <2> QED BY <1>8, <2>1, <2>2
<1>11. Min(W) \in Nat /\ Min(W) <= Len(found) /\ Min(W) <= counter + 1
  <2>1. W \in SUBSET Nat /\ Len(found) \in W /\ counter + 1 \in W
    BY <1>4, <1>7
  <2> HIDE DEF W
  <2> QED BY <2>1, LeastIsMin
<1> HIDE DEF W, bad
<1>12. ASSUME counter = size
       PROVE  LET list == SubSeq(found, 1, counter)
              IN /\ list \in Seq(Int) /\ Len(list) = size
                 /\ \A k \in 1..size : list[k] = found[k]
  <2>1. size <= Len(found) /\ \A k \in 1..size : found[k] \in Int
    BY <1>2, <1>4, <1>8, <1>12
  <2> QED BY <1>1, <1>2, <1>4, <1>12, <2>1, SubSeqProperties
<1>13. Min(W) <= size + 1
  BY <1>2, <1>7, <1>8, <1>11
<1> HIDE DEF array
<1>14. /\ array.ok <=> counter = size
       /\ array.size = size /\ array.list = SubSeq(found, 1, counter) /\ array.writes = Min(W)
  BY <1>3
<1> QED BY <1>1, <1>2, <1>10, <1>11, <1>12, <1>13, <1>14 DEF array, size, found

-----------------------------------------------------------------------------
(* The line and its fields                                                 *)

\* A string t inside another one, s, after o characters.
Inside(t, s, o) ==
  /\ o \in Nat /\ o + Len(t) <= Len(s)
  /\ \A k \in 1..Len(t) : s[k + o] = t[k]

\* The same slice of both.
LEMMA SameSlice ==
  ASSUME NEW s, NEW t, NEW o \in Int, NEW f \in Int, NEW e \in Int,
         \A k \in f..e : t[k] \in Char /\ s[k + o] = t[k]
  PROVE  SubSeq(s, f + o, e + o) = SubSeq(t, f, e) /\ SubSeq(t, f, e) \in Seq(Char)
<1> DEFINE i == f + o
           j == e + o
           u == SubSeq(s, i, j)
           v == SubSeq(t, f, e)
<1>1. i \in Int /\ j \in Int
  OBVIOUS
<1>2. \A k \in i..j : s[k] \in Char
  <2> SUFFICES ASSUME NEW k \in i..j PROVE s[k] \in Char
    OBVIOUS
  <2>1. k - o \in f..e /\ (k - o) + o = k
    OBVIOUS
  <2> QED BY <2>1
<1>3. \A k \in 1..(e - f + 1) : s[i + k - 1] = t[f + k - 1]
  <2> SUFFICES ASSUME NEW k \in 1..(e - f + 1) PROVE s[i + k - 1] = t[f + k - 1]
    OBVIOUS
  <2>1. f + k - 1 \in f..e /\ (f + k - 1) + o = i + k - 1
    OBVIOUS
  <2> QED BY <2>1
<1>4. j - i + 1 = e - f + 1 /\ (i <= j <=> f <= e)
  OBVIOUS
<1> HIDE DEF i, j
<1>5. /\ u \in Seq(Char) /\ Len(u) = IF i <= j THEN j - i + 1 ELSE 0
      /\ \A k \in 1..(j - i + 1) : u[k] = s[i + k - 1]
  BY <1>1, <1>2, SubSeqProperties
<1>6. /\ v \in Seq(Char) /\ Len(v) = IF f <= e THEN e - f + 1 ELSE 0
      /\ \A k \in 1..(e - f + 1) : v[k] = t[f + k - 1]
  BY SubSeqProperties
<1> HIDE DEF u, v
<1>7. Len(u) = Len(v) /\ \A k \in 1..Len(u) : u[k] = v[k]
  <2>1. Len(u) = Len(v) /\ (Len(u) = e - f + 1 \/ Len(u) = 0)
    BY <1>4, <1>5, <1>6
  <2>2. ASSUME NEW k \in 1..Len(u) PROVE u[k] = v[k]
    <3>1. k \in 1..(e - f + 1) /\ k \in 1..(j - i + 1)
      BY <1>4, <2>1
    <3>2. u[k] = s[i + k - 1] /\ v[k] = t[f + k - 1]
      BY <1>5, <1>6, <3>1
    <3> QED BY <1>3, <3>1, <3>2
  <2> QED BY <2>1, <2>2
<1>8. u = v
  BY <1>5, <1>6, <1>7, SeqEqual
<1> QED BY <1>6, <1>8 DEF u, v, i, j

\* The same stop in both.
LEMMA SameStop ==
  ASSUME NEW s \in Seq(Char), NEW t \in Seq(Char), NEW o, Inside(t, s, o),
         NEW p \in 1..(Len(t) + 1), NEW S, NEW q, StopsAt(t, p, S, q),
         \/ q <= Len(t)
         \/ o + Len(t) = Len(s)
         \/ s[o + Len(t) + 1] \notin S
  PROVE  StopsAt(s, p + o, S, q + o) /\ SkipOver(s, p + o, S) = q + o
<1> DEFINE m == Len(t)
           i == p + o
           j == q + o
<1>1. m \in Nat /\ Len(s) \in Nat /\ o \in Nat /\ o + m <= Len(s) /\ p \in Nat /\ p >= 1 /\ p <= m + 1
  BY LenProperties DEF Inside
<1>2. \A k \in 1..m : s[k + o] = t[k]
  BY DEF Inside
<1>3. /\ q \in p..(m + 1) /\ q \in Nat /\ (q <= m => t[q] \notin S)
      /\ \A k \in p..(q - 1) : t[k] \in S
  BY DEF StopsAt
<1>4. q <= m \/ o + m = Len(s) \/ s[o + m + 1] \notin S
  OBVIOUS
<1> HIDE DEF m
<1>5. j \in i..(Len(s) + 1) /\ j \in Nat /\ i \in Nat /\ i \in 1..(Len(s) + 1)
  BY <1>1, <1>3
<1>6. ASSUME NEW k \in i..(j - 1) PROVE s[k] \in S
  <2>1. k - o \in p..(q - 1) /\ k - o \in 1..m /\ (k - o) + o = k
    BY <1>1, <1>3, <1>6
  <2> QED BY <1>2, <1>3, <2>1
<1>7. j <= Len(s) => s[j] \notin S
  <2>1. CASE q <= m
    <3>1. q \in 1..m
      BY <1>1, <1>3, <2>1
    <3> QED BY <1>2, <1>3, <2>1, <3>1
  <2>2. CASE q = m + 1
    <3>1. j = o + m + 1
      BY <1>1, <2>2
    <3> QED BY <1>1, <1>4, <2>2, <3>1
  <2> QED BY <1>1, <1>3, <2>1, <2>2
<1> HIDE DEF i, j
<1>8. StopsAt(s, i, S, j)
  BY <1>5, <1>6, <1>7 DEF StopsAt
<1>9. SkipOver(s, i, S) = j
  BY <1>5, <1>8, SkipOverStops, StopsOnce
<1> QED BY <1>8, <1>9 DEF i, j

\* A number in t is the same number in s, if t ends s or a blank follows.
LEMMA NumberInside ==
  ASSUME NEW s \in Seq(Char), NEW t \in Seq(Char), NEW o, Inside(t, s, o),
         NEW p \in 1..(Len(t) + 1),
         \/ o + Len(t) = Len(s)
         \/ NumberAt(t, p).ok /\ o + Len(t) < Len(s) /\ s[o + Len(t) + 1] = Blank
  PROVE  /\ NumberAt(s, p + o).ok <=> NumberAt(t, p).ok
         /\ NumberAt(s, p + o).value = NumberAt(t, p).value
         /\ NumberAt(s, p + o).next = NumberAt(t, p).next + o
<1> DEFINE m == Len(t)
           q == Start(t, p)
           f == First(t, p)
           a == After(t, p)
<1>1. m \in Nat /\ Len(s) \in Nat /\ o \in Nat /\ o + m <= Len(s) /\ p \in Nat /\ p >= 1 /\ p <= m + 1
  BY LenProperties DEF Inside
<1>2. \A k \in 1..m : s[k + o] = t[k]
  BY DEF Inside
<1>3. /\ StopsAt(t, p, {Blank}, q) /\ StopsAt(t, f, Digit, a)
      /\ f \in p..(m + 1) /\ f \in Nat \ {0}
  BY NumberType
<1>4. /\ NumberAt(t, p).ok <=> a > f
      /\ NumberAt(t, p).value = IF Signed(t, p) THEN -Abs(t, p) ELSE Abs(t, p)
      /\ NumberAt(t, p).next = a
      /\ f = IF Signed(t, p) THEN q + 1 ELSE q
      /\ Signed(t, p) <=> q <= m /\ t[q] = "-"
      /\ Abs(t, p) = Value(SubSeq(t, f, a - 1))
  BY NumberParts DEF First, Abs, Signed
<1>5. /\ q \in p..(m + 1) /\ q \in Nat /\ (q <= m => t[q] \notin {Blank})
      /\ \A k \in p..(q - 1) : t[k] \in {Blank}
      /\ a \in f..(m + 1) /\ a \in Nat /\ (a <= m => t[a] \notin Digit)
      /\ \A k \in f..(a - 1) : t[k] \in Digit
  BY <1>3 DEF StopsAt
<1> HIDE DEF m, q, f, a
<1>6. \/ o + m = Len(s)
      \/ a > f /\ o + m < Len(s) /\ s[o + m + 1] = Blank
  BY <1>4 DEF m
<1>7. a > f => f <= m /\ q <= m
  BY <1>1, <1>3, <1>4, <1>5
<1>8. Start(s, p + o) = q + o
  <2>1. q <= m \/ o + m = Len(s)
    BY <1>1, <1>6, <1>7
  <2> QED BY <1>3, <2>1, SameStop DEF Start, m
<1>10. Signed(s, p + o) <=> Signed(t, p)
  <2>1. q + o <= Len(s) <=> q <= m
    BY <1>1, <1>5, <1>6, <1>7
  <2>2. q <= m => s[q + o] = t[q]
    BY <1>1, <1>2, <1>5
  <2> QED BY <1>4, <1>8, <2>1, <2>2 DEF Signed
<1>11. First(s, p + o) = f + o
  <2>1. First(s, p + o) = IF Signed(s, p + o) THEN q + o + 1 ELSE q + o
    BY <1>8 DEF First
  <2> QED BY <1>1, <1>4, <1>5, <1>10, <2>1
<1>12. After(s, p + o) = a + o
  <2>1. o + m = Len(s) \/ s[o + m + 1] \notin Digit
    BY <1>6, DigitFacts
  <2>2. f \in 1..(m + 1)
    BY <1>1, <1>3
  <2> QED BY <1>3, <1>11, <2>1, <2>2, SameStop DEF After, m
<1>13. SubSeq(s, f + o, (a - 1) + o) = SubSeq(t, f, a - 1)
  <2>1. ASSUME NEW k \in f..(a - 1) PROVE t[k] \in Char /\ s[k + o] = t[k]
    <3>1. k \in 1..m
      BY <1>1, <1>3, <1>5
    <3> QED BY <1>2, <3>1, ElementOfSeq DEF m
  <2> QED BY <1>1, <1>3, <1>5, <2>1, SameSlice
<1>14. After(s, p + o) - 1 = (a - 1) + o
  BY <1>1, <1>5, <1>12
<1>15. Abs(s, p + o) = Abs(t, p)
  BY <1>4, <1>11, <1>13, <1>14 DEF Abs
<1>16. a + o > f + o <=> a > f
  BY <1>1, <1>3, <1>5
<1> QED BY <1>4, <1>10, <1>11, <1>12, <1>15, <1>16, NumberParts

LEMMA JoinInside ==
  ASSUME NEW u \in Seq(Char), NEW v \in Seq(Char)
  PROVE  /\ u \o v \in Seq(Char) /\ Len(u \o v) = Len(u) + Len(v)
         /\ Inside(u, u \o v, 0) /\ Inside(v, u \o v, Len(u))
<1> DEFINE w == u \o v
           m == Len(u)
           n == Len(v)
<1>1. m \in Nat /\ n \in Nat
  BY LenProperties
<1>2. /\ w \in Seq(Char) /\ Len(w) = m + n
      /\ \A k \in 1..(m + n) : w[k] = IF k <= m THEN u[k] ELSE v[k - m]
  BY ConcatProperties
<1> HIDE DEF w, m, n
<1>3. \A k \in 1..m : w[k + 0] = u[k]
  BY <1>1, <1>2
<1>4. ASSUME NEW k \in 1..n PROVE w[k + m] = v[k]
  <2>1. k + m \in 1..(m + n) /\ ~(k + m <= m) /\ (k + m) - m = k
    BY <1>1
  <2> QED BY <1>2, <2>1
<1> QED BY <1>1, <1>2, <1>3, <1>4 DEF Inside, w, m, n

LEMMA InsideInside ==
  ASSUME NEW u \in Seq(Char), NEW v \in Seq(Char), NEW w \in Seq(Char), NEW o, NEW p,
         Inside(u, v, o), Inside(v, w, p)
  PROVE  Inside(u, w, o + p)
<1>1. /\ o \in Nat /\ p \in Nat /\ Len(u) \in Nat /\ Len(v) \in Nat /\ Len(w) \in Nat
      /\ o + Len(u) <= Len(v) /\ p + Len(v) <= Len(w)
  BY LenProperties DEF Inside
<1>2. ASSUME NEW k \in 1..Len(u) PROVE w[k + (o + p)] = u[k]
  <2>1. k + o \in 1..Len(v) /\ (k + o) + p = k + (o + p)
    BY <1>1
  <2>2. v[k + o] = u[k] /\ w[(k + o) + p] = v[k + o]
    BY <2>1 DEF Inside
  <2> QED BY <2>1, <2>2
<1> QED BY <1>1, <1>2 DEF Inside

LEMMA InsideJoin ==
  ASSUME NEW u \in Seq(Char), NEW v \in Seq(Char), NEW w \in Seq(Char), NEW o,
         Inside(u, w, o), Inside(v, w, o + Len(u))
  PROVE  Inside(u \o v, w, o)
<1> DEFINE t == u \o v
<1>1. /\ o \in Nat /\ Len(u) \in Nat /\ Len(v) \in Nat /\ Len(w) \in Nat
      /\ o + Len(u) + Len(v) <= Len(w) /\ Len(t) = Len(u) + Len(v)
  BY LenProperties, JoinInside DEF Inside
<1>2. ASSUME NEW k \in 1..Len(t) PROVE w[k + o] = t[k]
  <2>1. CASE k <= Len(u)
    <3>1. k \in 1..Len(u) /\ k + 0 = k
      BY <1>1, <2>1
    <3>2. t[k + 0] = u[k] /\ w[k + o] = u[k]
      BY <3>1, JoinInside DEF Inside
    <3> QED BY <3>1, <3>2
  <2>2. CASE ~(k <= Len(u))
    <3> DEFINE j == k - Len(u)
    <3>1. j \in 1..Len(v) /\ j + Len(u) = k /\ j + (o + Len(u)) = k + o
      BY <1>1, <2>2
    <3> HIDE DEF j
    <3>2. t[j + Len(u)] = v[j] /\ w[j + (o + Len(u))] = v[j]
      BY <3>1, JoinInside DEF Inside
    <3> QED BY <3>1, <3>2
  <2> QED BY <2>1, <2>2
<1> QED BY <1>1, <1>2 DEF Inside

\* What the client writes to the FIFO.
Line(a, n, b) == a \o <<Blank>> \o DigitsOf(n) \o <<Blank>> \o b

LEMMA LineParts ==
  ASSUME NEW a \in Seq(Char), NEW b \in Seq(Char), NEW n \in Nat
  PROVE  LET l == Line(a, n, b)
             d == DigitsOf(n)
         IN /\ l \in Seq(Char) /\ d \in Seq(Char) /\ Len(l) = Len(a) + Len(d) + Len(b) + 2
            /\ Inside(a, l, 0) /\ l[Len(a) + 1] = Blank
            /\ Inside(<<Blank>> \o d, l, Len(a)) /\ l[Len(a) + Len(d) + 2] = Blank
            /\ Inside(b, l, Len(a) + Len(d) + 2)
<1> DEFINE d == DigitsOf(n)
           e == <<Blank>>
           x == a \o e
           y == x \o d
           z == y \o e
           l == z \o b
           p == Len(a)
           q == Len(d)
<1>1. l = Line(a, n, b)
  BY DEF Line
<1>2. d \in Seq(Char)
  <2>1. d \in Seq(Digit)
    BY PrintedNumber
  <2> QED BY <2>1 DEF Char
<1>3. e \in Seq(Char) /\ Len(e) = 1 /\ e[1] = Blank
  BY DEF Char
<1>4. p \in Nat /\ q \in Nat /\ Len(b) \in Nat
  BY <1>2, LenProperties
<1> HIDE DEF d, e, x, y, z, l
<1>5. x \in Seq(Char) /\ Len(x) = p + 1 /\ Inside(a, x, 0) /\ Inside(e, x, p)
  <2>1. /\ x \in Seq(Char) /\ Len(x) = Len(a) + Len(e)
        /\ Inside(a, x, 0) /\ Inside(e, x, Len(a))
    BY <1>3, JoinInside DEF x
  <2> QED BY <1>3, <2>1
<1>6. y \in Seq(Char) /\ Len(y) = p + 1 + q /\ Inside(x, y, 0) /\ Inside(d, y, p + 1)
  <2>1. /\ y \in Seq(Char) /\ Len(y) = Len(x) + Len(d)
        /\ Inside(x, y, 0) /\ Inside(d, y, Len(x))
    BY <1>2, <1>5, JoinInside DEF y
  <2> QED BY <1>5, <2>1
<1>7. z \in Seq(Char) /\ Len(z) = p + q + 2 /\ Inside(y, z, 0) /\ Inside(e, z, p + 1 + q)
  <2>1. p + 1 + q + 1 = p + q + 2
    BY <1>4
  <2>2. /\ z \in Seq(Char) /\ Len(z) = Len(y) + Len(e)
        /\ Inside(y, z, 0) /\ Inside(e, z, Len(y))
    BY <1>3, <1>6, JoinInside DEF z
  <2> HIDE DEF p, q
  <2> QED BY <1>3, <1>4, <1>6, <2>1, <2>2
<1>8. /\ l \in Seq(Char) /\ Len(l) = p + q + 2 + Len(b)
      /\ Inside(z, l, 0) /\ Inside(b, l, p + q + 2)
  BY <1>7, JoinInside DEF l
<1> HIDE DEF p, q
<1>9. 0 + 0 = 0 /\ p + 0 = p /\ (p + 1) + 0 = p + 1 /\ (p + 1 + q) + 0 = p + 1 + q
  BY <1>4
<1>10. Inside(y, l, 0)
  BY <1>6, <1>7, <1>8, <1>9, InsideInside
<1>11. Inside(x, l, 0)
  BY <1>5, <1>6, <1>8, <1>9, <1>10, InsideInside
<1>12. Inside(a, l, 0)
  BY <1>5, <1>8, <1>9, <1>11, InsideInside
<1>13. Inside(e, l, p)
  BY <1>3, <1>5, <1>8, <1>9, <1>11, InsideInside
<1>14. Inside(d, l, p + 1)
  BY <1>2, <1>6, <1>8, <1>9, <1>10, InsideInside
<1>15. Inside(e, l, p + 1 + q)
  BY <1>3, <1>7, <1>8, <1>9, InsideInside
<1>16. Inside(e \o d, l, p)
  BY <1>2, <1>3, <1>8, <1>13, <1>14, InsideJoin
<1>17. l[p + 1] = Blank /\ l[p + q + 2] = Blank
  <2>1. 1 \in 1..Len(e) /\ 1 + p = p + 1 /\ 1 + (p + 1 + q) = p + q + 2
    BY <1>3, <1>4
  <2>2. l[1 + p] = e[1] /\ l[1 + (p + 1 + q)] = e[1]
    BY <1>13, <1>15, <2>1 DEF Inside
  <2> QED BY <1>3, <2>1, <2>2
<1>18. Len(l) = p + q + Len(b) + 2
  BY <1>4, <1>8
<1> QED BY <1>1, <1>2, <1>8, <1>12, <1>16, <1>17, <1>18 DEF p, q, d, e

\* A number the client printed is read back.
LEMMA PrintedIsRead ==
  ASSUME NEW n \in Nat
  PROVE  LET t == <<Blank>> \o DigitsOf(n)
         IN /\ NumberAt(t, 1).ok /\ NumberAt(t, 1).value = n
            /\ NumberAt(t, 1).next = Len(t) + 1
            /\ t \in Seq(Char) /\ Len(t) = Len(DigitsOf(n)) + 1
<1> DEFINE d == DigitsOf(n)
           e == <<Blank>>
           t == e \o d
           m == Len(t)
<1>1. d \in Seq(Digit) /\ d # <<>> /\ Value(d) = n
  BY PrintedNumber
<1>2. e \in Seq(Char) /\ Len(e) = 1 /\ e[1] = Blank
  BY DEF Char
<1> HIDE DEF d, e
<1>3. d \in Seq(Char) /\ \A k \in 1..Len(d) : d[k] \in Digit
  BY <1>1, ElementOfSeq DEF Char
<1>4. Len(d) \in Nat /\ Len(d) >= 1
  BY <1>1, LenProperties, EmptySeq
<1>5. t \in Seq(Char) /\ m = Len(e) + Len(d) /\ Inside(e, t, 0) /\ Inside(d, t, Len(e))
  BY <1>2, <1>3, JoinInside
<1> HIDE DEF t, m
<1>6. m = Len(d) + 1 /\ m \in Nat /\ m >= 2
  BY <1>2, <1>4, <1>5
<1>7. t[1] = Blank /\ \A k \in 1..Len(d) : t[k + 1] = d[k]
  <2>1. t[1 + 0] = e[1]
    BY <1>2, <1>5 DEF Inside
  <2> QED BY <1>2, <1>5, <2>1 DEF Inside
<1>8. \A k \in 2..m : t[k] \in Digit
  <2> SUFFICES ASSUME NEW k \in 2..m PROVE t[k] \in Digit
    OBVIOUS
  <2>1. k - 1 \in 1..Len(d) /\ (k - 1) + 1 = k
    BY <1>4, <1>6
  <2>2. t[(k - 1) + 1] = d[k - 1]
    BY <1>7, <2>1
  <2> QED BY <1>3, <2>1, <2>2
<1>9. Start(t, 1) = 2 /\ t[2] \in Digit
  <2>1. t[2] \in Digit
    BY <1>6, <1>8
  <2>2. StopsAt(t, 1, {Blank}, 2)
    <3>1. t[2] \notin {Blank}
      BY <2>1, DigitFacts
    <3>2. \A k \in 1..(2 - 1) : t[k] \in {Blank}
      BY <1>7
    <3> QED BY <1>6, <3>1, <3>2 DEF StopsAt, m
  <2>3. StopsAt(t, 1, {Blank}, Start(t, 1))
    BY <1>5, <1>6, SkipOverStops DEF Start, m
  <2> QED BY <1>5, <2>1, <2>2, <2>3, StopsOnce
<1>10. ~Signed(t, 1) /\ First(t, 1) = 2
  <2>1. t[2] # "-"
    BY <1>9, DigitFacts
  <2> QED BY <1>9, <2>1 DEF Signed, First
<1>11. After(t, 1) = m + 1
  <2>1. StopsAt(t, 2, Digit, m + 1)
    BY <1>6, <1>8 DEF StopsAt, m
  <2>2. StopsAt(t, 2, Digit, After(t, 1))
    BY <1>5, <1>6, <1>10, SkipOverStops DEF After, m
  <2> QED BY <1>5, <2>1, <2>2, StopsOnce
<1>12. Abs(t, 1) = n
  <2>1. SubSeq(t, 1 + 1, Len(d) + 1) = SubSeq(d, 1, Len(d))
    <3>1. \A k \in 1..Len(d) : d[k] \in Char /\ t[k + 1] = d[k]
      BY <1>3, <1>7, ElementOfSeq
    <3> QED BY <1>4, <3>1, SameSlice
  <2>2. SubSeq(d, 1, Len(d)) = d
    BY <1>3, SubSeqFull
  <2>3. First(t, 1) = 1 + 1 /\ After(t, 1) - 1 = Len(d) + 1
    BY <1>4, <1>6, <1>10, <1>11
  <2>4. SubSeq(t, First(t, 1), After(t, 1) - 1) = d
    BY <2>1, <2>2, <2>3
  <2> QED BY <1>1, <2>4 DEF Abs
<1>13. NumberAt(t, 1).ok /\ NumberAt(t, 1).value = n /\ NumberAt(t, 1).next = m + 1
  BY <1>6, <1>10, <1>11, <1>12, NumberParts
<1> QED BY <1>5, <1>6, <1>13 DEF m, t, d, e

\* The part of a list from its first character that is not a blank.
Trimmed(b) == SubSeq(b, Start(b, 1), Len(b))

LEMMA LineRead ==
  ASSUME NEW a \in Seq(Char), NEW b \in Seq(Char), NEW n \in Nat,
         a # <<>>, checkValidIntArgument(a).ok
  PROVE  LET l == Line(a, n, b)
         IN /\ l \in Seq(Char)
            /\ Wanted(l).ok /\ Wanted(l).value = NumberAt(a, 1).value
            /\ Preferred(l).ok /\ Preferred(l).value = n
            /\ Selected(l) = Trimmed(b)
<1> DEFINE l == Line(a, n, b)
           d == DigitsOf(n)
           t == <<Blank>> \o d
           p == Len(a)
           q == Len(d)
           r == Len(b)
<1>1. /\ l \in Seq(Char) /\ Len(l) = p + q + r + 2 /\ d \in Seq(Char)
      /\ Inside(a, l, 0) /\ l[p + 1] = Blank
      /\ Inside(t, l, p) /\ l[p + q + 2] = Blank
      /\ Inside(b, l, p + q + 2)
  BY LineParts
<1>2. NumberAt(a, 1).ok /\ NumberAt(a, 1).next = p + 1
  BY DEF checkValidIntArgument
<1>3. /\ t \in Seq(Char) /\ Len(t) = q + 1
      /\ NumberAt(t, 1).ok /\ NumberAt(t, 1).value = n /\ NumberAt(t, 1).next = q + 2
  <2>1. q \in Nat
    BY <1>1, LenProperties
  <2>2. (q + 1) + 1 = q + 2
    BY <2>1
  <2> QED BY <2>2, PrintedIsRead
<1>4. p \in Nat /\ q \in Nat /\ r \in Nat
  BY <1>1, LenProperties
<1> HIDE DEF l, d, t, p, q
<1>5. Wanted(l).ok /\ Wanted(l).value = NumberAt(a, 1).value /\ Wanted(l).next = p + 1
  <2>1. 1 \in 1..(Len(a) + 1) /\ 0 + Len(a) < Len(l) /\ l[0 + Len(a) + 1] = Blank /\ 1 + 0 = 1
    BY <1>1, <1>4 DEF p
  <2>2. /\ NumberAt(l, 1 + 0).ok <=> NumberAt(a, 1).ok
        /\ NumberAt(l, 1 + 0).value = NumberAt(a, 1).value
        /\ NumberAt(l, 1 + 0).next = NumberAt(a, 1).next + 0
    BY <1>1, <1>2, <2>1, NumberInside
  <2> QED BY <1>2, <1>4, <2>1, <2>2 DEF Wanted
<1>6. Preferred(l).ok /\ Preferred(l).value = n /\ Preferred(l).next = p + q + 2
  <2>1. /\ 1 \in 1..(Len(t) + 1) /\ p + Len(t) < Len(l) /\ l[p + Len(t) + 1] = Blank
        /\ 1 + p = p + 1 /\ q + 2 + p = p + q + 2
    <3>1. p + Len(t) + 1 = p + q + 2
      BY <1>3, <1>4
    <3> QED BY <1>1, <1>3, <1>4, <3>1
  <2>2. /\ NumberAt(l, 1 + p).ok <=> NumberAt(t, 1).ok
        /\ NumberAt(l, 1 + p).value = NumberAt(t, 1).value
        /\ NumberAt(l, 1 + p).next = NumberAt(t, 1).next + p
    BY <1>1, <1>3, <2>1, NumberInside
  <2> QED BY <1>3, <1>5, <2>1, <2>2 DEF Preferred
<1> DEFINE s == Start(b, 1)
           o == p + q + 2
<1>7. StopsAt(b, 1, {Blank}, s) /\ s \in 1..(r + 1) /\ s \in Nat
  BY <1>4, SkipOverStops DEF Start, StopsAt
<1> HIDE DEF s, r
<1>8. SkipOver(l, o, {Blank}) = s + o
  <2>1. SkipOver(l, 1 + o, {Blank}) = s + o /\ StopsAt(l, 1 + o, {Blank}, s + o)
    <3>1. 1 \in 1..(Len(b) + 1) /\ o + Len(b) = Len(l)
      BY <1>1, <1>4 DEF r
    <3> QED BY <1>1, <1>7, <3>1, SameStop
  <2>2. o \in Nat /\ o \in 1..(Len(l) + 1) /\ l[o] \in {Blank}
    <3>1. Len(l) = p + q + r + 2 /\ r \in Nat /\ l[o] = Blank
      BY <1>1, <1>4 DEF r
    <3>2. o \in Nat /\ o >= 1 /\ o <= Len(l) + 1 /\ Len(l) \in Nat
      BY <1>4, <3>1
    <3> HIDE DEF o
    <3> QED BY <3>1, <3>2
  <2> HIDE DEF o
  <2>3. StopsAt(l, o, {Blank}, s + o)
    <3> DEFINE e == s + o
               i == 1 + o
    <3>1. StopsAt(l, i, {Blank}, e) /\ i \in Nat /\ i = o + 1
      BY <2>1, <2>2
    <3> HIDE DEF e, i
    <3>2. /\ e \in i..(Len(l) + 1) /\ e \in Nat
          /\ \A k \in i..(e - 1) : l[k] \in {Blank}
          /\ e <= Len(l) => l[e] \notin {Blank}
      BY <3>1 DEF StopsAt
    <3>3. /\ e \in o..(Len(l) + 1)
          /\ \A k \in o..(e - 1) : k = o \/ k \in i..(e - 1)
      BY <2>2, <3>1, <3>2
    <3>4. \A k \in o..(e - 1) : l[k] \in {Blank}
      BY <2>2, <3>2, <3>3
    <3>5. StopsAt(l, o, {Blank}, e)
      BY <3>2, <3>3, <3>4 DEF StopsAt
    <3> QED BY <3>5 DEF e
  <2>4. StopsAt(l, o, {Blank}, SkipOver(l, o, {Blank}))
    BY <1>1, <2>2, SkipOverStops
  <2> QED BY <1>1, <2>2, <2>3, <2>4, StopsOnce
<1>9. SubSeq(l, s + o, r + o) = SubSeq(b, s, r)
  <2>1. \A k \in s..r : b[k] \in Char /\ l[k + o] = b[k]
    BY <1>1, <1>4, <1>7, ElementOfSeq DEF Inside, r
  <2>2. o \in Int /\ s \in Int /\ r \in Int
    BY <1>4, <1>7
  <2> HIDE DEF o
  <2> QED BY <2>1, <2>2, SameSlice
<1>10. Len(l) = r + o
  BY <1>1, <1>4 DEF r
<1>11. Selected(l) = Trimmed(b)
  BY <1>6, <1>8, <1>9, <1>10 DEF Selected, Trimmed, s, r
<1> QED BY <1>1, <1>5, <1>6, <1>11 DEF l

-----------------------------------------------------------------------------
(* Blanks in front of a list                                               *)

LEMMA OneToOne ==
  ASSUME NEW S, IsFiniteSet(S), NEW T, NEW f \in [S -> T],
         \A x, y \in S : f[x] = f[y] => x = y, \A z \in T : \E x \in S : f[x] = z
  PROVE  Cardinality(T) = Cardinality(S)
<1>1. f \in Bijection(S, T)
  BY DEF Bijection, Injection, Surjection, IsInjective
<1> QED BY <1>1, FS_Bijection DEF ExistsBijection

LEMMA TrimmedType ==
  ASSUME NEW b \in Seq(Char)
  PROVE  LET o == Start(b, 1) - 1
             t == Trimmed(b)
         IN /\ o \in Nat /\ t \in Seq(Char) /\ Inside(t, b, o) /\ o + Len(t) = Len(b)
            /\ \A k \in 1..o : b[k] = Blank
            /\ o < Len(b) => b[o + 1] # Blank
            /\ Start(b, o + 1) = o + 1
<1> DEFINE s == Start(b, 1)
           o == s - 1
           r == Len(b)
           t == Trimmed(b)
<1>1. r \in Nat
  BY LenProperties
<1>2. StopsAt(b, 1, {Blank}, s)
  BY <1>1, SkipOverStops DEF Start
<1>3. /\ s \in 1..(r + 1) /\ s \in Nat /\ (s <= r => b[s] \notin {Blank})
      /\ \A k \in 1..(s - 1) : b[k] \in {Blank}
  BY <1>2 DEF StopsAt
<1>4. t = SubSeq(b, s, r)
  BY DEF Trimmed
<1> HIDE DEF s, t, r
<1>5. \A k \in s..r : b[k] \in Char
  BY <1>1, <1>3, ElementOfSeq DEF r
<1>6. /\ t \in Seq(Char) /\ Len(t) = IF s <= r THEN r - s + 1 ELSE 0
      /\ \A k \in 1..(r - s + 1) : t[k] = b[s + k - 1]
  BY <1>1, <1>3, <1>4, <1>5, SubSeqProperties
<1>7. Len(t) = r - s + 1
  BY <1>1, <1>3, <1>6
<1>8. Inside(t, b, o)
  <2>1. o \in Nat /\ o + Len(t) <= r
    BY <1>1, <1>3, <1>7
  <2>2. ASSUME NEW k \in 1..Len(t) PROVE b[k + o] = t[k]
    <3>1. s + k - 1 = k + o /\ k \in 1..(r - s + 1)
      BY <1>3, <1>7
    <3> QED BY <1>6, <3>1
  <2> QED BY <2>1, <2>2 DEF Inside, r
<1>9. Start(b, s) = s
  <2>1. s \in 1..(Len(b) + 1) /\ StopsAt(b, s, {Blank}, s)
    BY <1>1, <1>3 DEF StopsAt, r
  <2>2. StopsAt(b, s, {Blank}, Start(b, s))
    BY <2>1, SkipOverStops DEF Start
  <2> QED BY <1>3, <2>1, <2>2, StopsOnce
<1>10. o \in Nat /\ o + 1 = s /\ o + Len(t) = r /\ (o < r => s <= r)
  BY <1>1, <1>3, <1>7
<1> QED BY <1>3, <1>6, <1>8, <1>9, <1>10 DEF s, t, r

\* They change neither the numbers found nor how many are counted.
LEMMA TrimmedNumbers ==
  ASSUME NEW b \in Seq(Char)
  PROVE  Conversions(Trimmed(b)) = Conversions(b)
<1> DEFINE o == Start(b, 1) - 1
           t == Trimmed(b)
           D == 1..(Len(t) + 1)
<1>1. /\ o \in Nat /\ t \in Seq(Char) /\ Inside(t, b, o) /\ o + Len(t) = Len(b)
      /\ Start(b, o + 1) = Start(b, 1)
  <2>1. Start(b, 1) \in Nat /\ Start(b, 1) = o + 1
    BY LenProperties, SkipOverStops DEF Start, StopsAt
  <2> QED BY <2>1, TrimmedType
<1> HIDE DEF o, t
<1>2. Len(t) \in Nat /\ Len(b) \in Nat
  BY <1>1, LenProperties
<1>3. PICK f : ConversionSteps(f, t) /\ Conversions(t) = f[1]
  BY <1>1, ConversionsFrom
<1>4. PICK g : ConversionSteps(g, b) /\ Conversions(b) = g[1]
  BY ConversionsFrom
<1>5. \A p \in D : /\ p + o \in 1..(Len(b) + 1)
                   /\ NumberAt(b, p + o).ok <=> NumberAt(t, p).ok
                   /\ NumberAt(b, p + o).value = NumberAt(t, p).value
                   /\ NumberAt(b, p + o).next = NumberAt(t, p).next + o
  <2> SUFFICES ASSUME NEW p \in D
               PROVE  /\ p + o \in 1..(Len(b) + 1)
                      /\ NumberAt(b, p + o).ok <=> NumberAt(t, p).ok
                      /\ NumberAt(b, p + o).value = NumberAt(t, p).value
                      /\ NumberAt(b, p + o).next = NumberAt(t, p).next + o
    OBVIOUS
  <2> QED BY <1>1, <1>2, NumberInside
<1> DEFINE G == {p \in D : g[p + o] = f[p]}
<1>6. ASSUME NEW p \in D, p \in NoNumber(t) PROVE p \in G
  <2>1. ~NumberAt(t, p).ok /\ ~NumberAt(b, p + o).ok /\ p + o \in 1..(Len(b) + 1)
    BY <1>5, <1>6 DEF NoNumber
  <2>2. f[p] = <<>> /\ g[p + o] = <<>>
    BY <1>3, <1>4, <2>1 DEF ConversionSteps
  <2> QED BY <2>2
<1>7. ASSUME NEW p \in D, Onward(t)[p] \in G PROVE p \in G
  <2>1. CASE NumberAt(t, p).ok
    <3>1. Onward(t)[p] = NumberAt(t, p).next
      BY <2>1 DEF Onward
    <3>2. g[NumberAt(t, p).next + o] = f[NumberAt(t, p).next]
      BY <1>7, <3>1
    <3>3. f[p] = <<NumberAt(t, p).value>> \o f[NumberAt(t, p).next]
      BY <1>3, <2>1 DEF ConversionSteps
    <3>4. g[p + o] = <<NumberAt(b, p + o).value>> \o g[NumberAt(b, p + o).next]
      BY <1>4, <1>5, <2>1 DEF ConversionSteps
    <3> QED BY <1>5, <3>2, <3>3, <3>4
  <2>2. CASE ~NumberAt(t, p).ok
    BY <1>6, <2>2 DEF NoNumber
  <2> QED BY <2>1, <2>2
<1>8. G = D
  <2>1. G \subseteq D
    OBVIOUS
  <2> HIDE DEF G
  <2>2. Inductive(G, D, NoNumber(t), Onward(t))
    BY <1>6, <1>7, <2>1 DEF Inductive
  <2> QED BY <1>1, <2>2, ConversionsAdvance, RecursionInduction
<1>9. g[1 + o] = f[1]
  <2>1. 1 \in D
    BY <1>2
  <2> HIDE DEF D
  <2> QED BY <1>8, <2>1
<1>10. g[o + 1] = g[1]
  <2>1. /\ Signed(b, o + 1) <=> Signed(b, 1)
        /\ First(b, o + 1) = First(b, 1) /\ After(b, o + 1) = After(b, 1)
        /\ Abs(b, o + 1) = Abs(b, 1)
    BY <1>1 DEF Signed, First, After, Abs
  <2>2. /\ NumberAt(b, o + 1).ok <=> NumberAt(b, 1).ok
        /\ NumberAt(b, o + 1).value = NumberAt(b, 1).value
        /\ NumberAt(b, o + 1).next = NumberAt(b, 1).next
    BY <2>1, NumberParts
  <2>3. 1 \in 1..(Len(b) + 1) /\ o + 1 \in 1..(Len(b) + 1)
    BY <1>1, <1>2
  <2> QED BY <1>4, <2>2, <2>3 DEF ConversionSteps
<1>11. 1 + o = o + 1
  BY <1>1
<1> QED BY <1>3, <1>4, <1>9, <1>10, <1>11 DEF t

LEMMA TrimmedAmount ==
  ASSUME NEW b \in Seq(Char)
  PROVE  getIntAmount(Trimmed(b)) = getIntAmount(b)
<1> DEFINE o == Start(b, 1) - 1
           t == Trimmed(b)
           f == [k \in LastDigits(t) |-> k + o]
<1>1. /\ o \in Nat /\ t \in Seq(Char) /\ Inside(t, b, o) /\ o + Len(t) = Len(b)
      /\ \A k \in 1..o : b[k] = Blank
  BY TrimmedType
<1> HIDE DEF o, t
<1>2. /\ Len(t) \in Nat /\ Len(b) \in Nat /\ DOMAIN t = 1..Len(t) /\ DOMAIN b = 1..Len(b)
      /\ \A k \in 1..Len(t) : b[k + o] = t[k]
  BY <1>1, LenProperties DEF Inside
<1>10. o \in Nat /\ o + Len(t) = Len(b) /\ Len(t) \in Nat /\ Len(b) \in Nat
  BY <1>1, <1>2
<1>3. ASSUME NEW k \in 1..Len(t) PROVE k \in LastDigits(t) <=> k + o \in LastDigits(b)
  <2>1. k + o \in 1..Len(b) /\ (k = Len(t) <=> k + o = Len(b))
    BY <1>10
  <2>2. k # Len(t) => k + 1 \in 1..Len(t) /\ (k + 1) + o = k + o + 1
    BY <1>10
  <2>3. b[k + o] = t[k]
    BY <1>2
  <2>4. k # Len(t) => b[(k + 1) + o] = t[k + 1]
    BY <1>2, <2>2
  <2>5. k # Len(t) => b[k + o + 1] = t[k + 1]
    BY <2>2, <2>4
  <2> QED BY <1>2, <2>1, <2>3, <2>5 DEF LastDigits
<1>4. \A k \in LastDigits(t) : k \in 1..Len(t)
  BY <1>2 DEF LastDigits
<1>5. ASSUME NEW j \in LastDigits(b) PROVE j - o \in 1..Len(t) /\ (j - o) + o = j
  <2>1. j \in 1..Len(b) /\ b[j] # Blank
    BY <1>2, DigitFacts DEF LastDigits
  <2>2. j \notin 1..o
    BY <1>1, <2>1
  <2> QED BY <1>10, <2>1, <2>2
<1>6. f \in [LastDigits(t) -> LastDigits(b)]
  BY <1>3, <1>4
<1>7. \A x, y \in LastDigits(t) : f[x] = f[y] => x = y
  BY <1>1, <1>4
<1>8. \A j \in LastDigits(b) : \E k \in LastDigits(t) : f[k] = j
  <2> SUFFICES ASSUME NEW j \in LastDigits(b) PROVE j - o \in LastDigits(t) /\ f[j - o] = j
    OBVIOUS
  <2> QED BY <1>3, <1>5
<1> HIDE DEF f
<1>9. IsFiniteSet(LastDigits(t))
  BY <1>1, AmountNatural
<1> QED BY <1>6, <1>7, <1>8, <1>9, OneToOne DEF getIntAmount, t

\* Blanks alone are no numbers.
LEMMA BlankList ==
  ASSUME NEW b \in Seq(Char), Trimmed(b) = <<>>
  PROVE  getIntAmount(b) = 0
<1>1. LastDigits(<<>>) = {}
  BY DEF LastDigits
<1>2. getIntAmount(<<>>) = 0
  BY <1>1, FS_EmptySet DEF getIntAmount
<1> QED BY <1>2, TrimmedAmount

-----------------------------------------------------------------------------
(* The inductive invariant: what the client sent, and what the office read.*)

\* A request goes out only when both arguments could be read, as one line.
SentOK ==
  /\ at = "refused" => ~populateRequest(args)
  /\ at \notin {"client", "refused"} =>
       populateRequest(args) /\ line = Line(args[1], getIntAmount(args[2]), args[2])

\* A list is there only when it is complete.
RequestType ==
  /\ request \in [wanted : Int \cup {Unset}, numPreferred : Int \cup {Unset},
                  list : Seq(Int) \cup {Null}, size : Nat,
                  error : {"AYE", "MAX", "NST", "IID", "ERR", "FUL"}]
  /\ request.list # Null => Len(request.list) = request.size
  /\ request.error = "ERR" => request.list = Null /\ at = "answered"
  /\ at \in {"client", "sent", "refused"} => request.list = Null

\* What the office has read is what the line says, in the client's order, and
\* the list is the one it made of the characters in selectedSeats.
ReadOK ==
  at \in {"read", "answered"} /\ request.error # "ERR" =>
    LET array == stringToIntArray(text, TRUE)
    IN /\ text = Selected(line)
       /\ request.wanted = Wanted(line).value
       /\ request.numPreferred = Preferred(line).value
       /\ request.size = array.size
       /\ request.list = IF array.ok THEN array.list ELSE Null
       /\ at = "read" => request.error = IF array.ok THEN "AYE" ELSE "IID"

\* Only a list that is missing, of the four fields, makes it an ERR.
ErrorOK ==
  request.error = "ERR" /\ args[1] # <<>> => request.numPreferred = 0

\* AYE has passed the three checks of verifyRequestErrors.
BookableOK ==
  at = "answered" /\ request.error = "AYE" =>
    /\ request.list # Null
    /\ request.wanted <= MaxCliSeats /\ request.wanted <= request.size
    /\ \E room \in Rooms : request.wanted <= room

\* stringToIntArray stores at most one int too many, and in a list of integers
\* none.
WritesOK ==
  /\ writes \in [client : Int, server : Int]
  /\ StoresInBounds

\* No more characters than the client's list has.
LengthOK == Len(text) <= Len(args[2])

Types ==
  /\ args \in Args /\ args \in Seq(Char) \X Seq(Char)
  /\ at \in {"client", "refused", "sent", "read", "answered"}
  /\ line \in Seq(Char) /\ text \in Seq(Char)

IInv == /\ Types /\ SentOK /\ RequestType /\ ReadOK /\ ErrorOK /\ BookableOK
        /\ WritesOK /\ LengthOK

-----------------------------------------------------------------------------
(* The words of a list                                                     *)

\* Back from a character of a word to the first one.
LEMMA WordStart ==
  ASSUME NEW b \in Seq(Char), NEW k \in 1..Len(b), b[k] # Blank
  PROVE  \E i \in 1..k : /\ \A j \in i..k : b[j] # Blank
                         /\ i = 1 \/ b[i - 1] = Blank
<1> DEFINE Q == {d \in 0..(k - 1) : d = k - 1 \/ b[k - d - 1] = Blank}
           d == Min(Q)
<1>1. k \in Nat /\ k >= 1
  BY LenProperties
<1>2. k - 1 \in Q /\ Q \subseteq Nat
  BY <1>1
<1>3. d \in Q /\ \A e \in Q : d <= e
  <2> HIDE DEF Q
  <2> QED BY <1>2, LeastIsMin
<1>4. d \in 0..(k - 1) /\ (d = k - 1 \/ b[k - d - 1] = Blank)
  BY <1>3
<1>5. ASSUME NEW j \in (k - d)..k PROVE b[j] # Blank
  <2>1. CASE j = k
    BY <2>1
  <2>2. CASE j # k
    <3> DEFINE e == k - j - 1
    <3>1. e \in 0..(k - 1) /\ k - e - 1 = j /\ e < d
      BY <1>1, <1>4, <2>2
    <3>2. e \notin Q
      <4> HIDE DEF Q, e
      <4>1. d \in Nat /\ e \in Nat
        BY <1>4, <3>1
      <4> QED BY <1>3, <3>1, <4>1
    <3> HIDE DEF e
    <3> QED BY <3>1, <3>2
  <2> QED BY <2>1, <2>2
<1> HIDE DEF d
<1>6. /\ k - d \in 1..k
      /\ k - d = 1 \/ b[k - d - 1] = Blank
  BY <1>1, <1>4
<1> QED BY <1>5, <1>6

LEMMA EveryWord ==
  ASSUME NEW b \in Seq(Char), NEW k \in 1..Len(b), b[k] # Blank
  PROVE  \E w \in Words(b) : w[1] <= k /\ k <= w[2]
<1> DEFINE S == Char \ {Blank}
           q == SkipOver(b, k, S)
<1>1. PICK i \in 1..k : /\ \A j \in i..k : b[j] # Blank
                        /\ i = 1 \/ b[i - 1] = Blank
  BY WordStart
<1>2. Len(b) \in Nat /\ k \in 1..(Len(b) + 1) /\ \A j \in 1..Len(b) : b[j] \in Char
  BY LenProperties, ElementOfSeq
<1>3. StopsAt(b, k, S, q)
  BY <1>2, SkipOverStops
<1> HIDE DEF q
<1>4. /\ q \in k..(Len(b) + 1) /\ q \in Nat
      /\ \A j \in k..(q - 1) : b[j] # Blank
      /\ q <= Len(b) => b[q] = Blank
  <2>1. /\ q \in k..(Len(b) + 1) /\ q \in Nat
        /\ \A j \in k..(q - 1) : b[j] \in S
        /\ q <= Len(b) => b[q] \notin S
    BY <1>3 DEF StopsAt
  <2>2. q <= Len(b) => q \in 1..Len(b)
    BY <1>2, <2>1
  <2> QED BY <1>2, <2>1, <2>2
<1>5. q # k
  BY <1>2, <1>4
<1> DEFINE w == <<i, q - 1>>
<1>6. /\ i \in 1..Len(b) /\ q - 1 \in 1..Len(b) /\ i <= q - 1 /\ i <= k /\ k <= q - 1
      /\ q - 1 = Len(b) \/ b[q - 1 + 1] = Blank
  <2>1. q - 1 + 1 = q
    BY <1>4
  <2> QED BY <1>2, <1>4, <1>5, <2>1
<1>7. \A j \in i..(q - 1) : b[j] # Blank
  <2>1. \A j \in i..(q - 1) : j \in i..k \/ j \in k..(q - 1)
    BY <1>2, <1>4
  <2> QED BY <1>1, <1>4, <2>1
<1>8. w \in Words(b)
  BY <1>1, <1>6, <1>7 DEF Words
<1> QED BY <1>6, <1>8

\* What a word is, one fact at a time.
LEMMA WordParts ==
  ASSUME NEW b, NEW w \in Words(b)
  PROVE  /\ w = <<w[1], w[2]>> /\ w[1] \in 1..Len(b) /\ w[2] \in 1..Len(b) /\ w[1] <= w[2]
         /\ \A k \in w[1]..w[2] : b[k] # Blank
         /\ w[1] = 1 \/ b[w[1] - 1] = Blank
         /\ w[2] = Len(b) \/ b[w[2] + 1] = Blank
BY DEF Words

\* Two words that begin or end at the same place are one.
LEMMA WordsApart ==
  ASSUME NEW b \in Seq(Char), NEW v \in Words(b), NEW w \in Words(b),
         v[1] = w[1] \/ v[2] = w[2]
  PROVE  v = w
<1>1. ASSUME NEW x \in Words(b), NEW y \in Words(b), x[1] = y[1] PROVE ~(x[2] < y[2])
  <2> SUFFICES ASSUME x[2] < y[2] PROVE FALSE
    OBVIOUS
  <2>1. /\ x[2] \in 1..Len(b) /\ y[2] \in 1..Len(b) /\ x[1] <= x[2] /\ x[1] \in 1..Len(b)
        /\ x[2] = Len(b) \/ b[x[2] + 1] = Blank
        /\ \A k \in y[1]..y[2] : b[k] # Blank
    BY WordParts
  <2>2. x[2] + 1 \in y[1]..y[2] /\ x[2] # Len(b)
    BY <1>1, <2>1, LenProperties
  <2> QED BY <2>1, <2>2
<1>2. ASSUME NEW x \in Words(b), NEW y \in Words(b), x[2] = y[2] PROVE ~(x[1] < y[1])
  <2> SUFFICES ASSUME x[1] < y[1] PROVE FALSE
    OBVIOUS
  <2>1. /\ x[1] \in 1..Len(b) /\ y[1] \in 1..Len(b) /\ y[2] \in 1..Len(b) /\ y[1] <= y[2]
        /\ y[1] = 1 \/ b[y[1] - 1] = Blank
        /\ \A k \in x[1]..x[2] : b[k] # Blank
    BY WordParts
  <2>2. y[1] - 1 \in x[1]..x[2] /\ y[1] # 1
    BY <1>2, <2>1, LenProperties
  <2> QED BY <2>1, <2>2
<1>3. /\ v[1] \in 1..Len(b) /\ v[2] \in 1..Len(b) /\ w[1] \in 1..Len(b) /\ w[2] \in 1..Len(b)
      /\ v = <<v[1], v[2]>> /\ w = <<w[1], w[2]>>
  BY WordParts
<1>4. v[1] = w[1] /\ v[2] = w[2]
  BY <1>1, <1>2, <1>3, LenProperties
<1> QED BY <1>3, <1>4

\* A list of integers, character by character.
Integers(b) ==
  \A k \in 1..Len(b) :
    \/ b[k] \in Digit
    \/ b[k] = Blank
    \/ /\ b[k] = "-" /\ (k = 1 \/ b[k - 1] = Blank)
       /\ k < Len(b) /\ b[k + 1] \in Digit

LEMMA WellFormedIntegers ==
  ASSUME NEW b \in Seq(Char), WellFormed(b)
  PROVE  Integers(b)
<1> SUFFICES ASSUME NEW k \in 1..Len(b), b[k] # Blank, b[k] \notin Digit
             PROVE  /\ b[k] = "-" /\ (k = 1 \/ b[k - 1] = Blank)
                    /\ k < Len(b) /\ b[k + 1] \in Digit
  BY DEF Integers
<1>1. PICK w \in Words(b) : w[1] <= k /\ k <= w[2]
  BY EveryWord
<1>2. /\ w[1] \in 1..Len(b) /\ w[2] \in 1..Len(b)
      /\ w[1] = 1 \/ b[w[1] - 1] = Blank
  BY WordParts
<1>3. /\ b[w[1]] \in Digit \/ (b[w[1]] = "-" /\ w[1] < w[2])
      /\ \A j \in (w[1] + 1)..w[2] : b[j] \in Digit
  BY DEF WellFormed, IsInteger
<1>4. k = w[1]
  <2>1. k # w[1] => k \in (w[1] + 1)..w[2]
    BY <1>1, <1>2
  <2> QED BY <1>3, <2>1
<1>5. b[k] = "-" /\ w[1] < w[2]
  BY <1>3, <1>4
<1>6. k + 1 \in (w[1] + 1)..w[2] /\ k < Len(b)
  BY <1>2, <1>4, <1>5
<1> QED BY <1>2, <1>3, <1>4, <1>5, <1>6

LEMMA FiniteWords ==
  ASSUME NEW b \in Seq(Char)
  PROVE  IsFiniteSet(Words(b))
<1> DEFINE D == 1..Len(b)
<1>1. IsFiniteSet(D)
  BY LenProperties, FS_Interval
<1>2. IsFiniteSet(D \X D)
  BY <1>1, FS_Product
<1>3. Words(b) \subseteq D \X D
  BY DEF Words
<1> QED BY <1>2, <1>3, FS_Subset

\* getIntAmount counts the words of a list of integers: each ends in a digit.
LEMMA AmountOfWords ==
  ASSUME NEW b \in Seq(Char), WellFormed(b)
  PROVE  getIntAmount(b) = Cardinality(Words(b))
<1> DEFINE last == [w \in Words(b) |-> w[2]]
<1>1. ASSUME NEW w \in Words(b) PROVE w[2] \in LastDigits(b)
  <2>1. /\ w[1] \in 1..Len(b) /\ w[2] \in 1..Len(b) /\ w[1] <= w[2]
        /\ w[2] = Len(b) \/ b[w[2] + 1] = Blank
    BY WordParts
  <2>2. /\ b[w[1]] \in Digit \/ (b[w[1]] = "-" /\ w[1] < w[2])
        /\ \A k \in (w[1] + 1)..w[2] : b[k] \in Digit
    BY DEF WellFormed, IsInteger
  <2>3. w[1] = w[2] \/ w[2] \in (w[1] + 1)..w[2]
    BY <2>1
  <2>4. b[w[2]] \in Digit
    BY <2>1, <2>2, <2>3
  <2> QED BY <2>1, <2>4, LenProperties DEF LastDigits
<1>2. last \in [Words(b) -> LastDigits(b)]
  BY <1>1
<1>3. \A v, w \in Words(b) : last[v] = last[w] => v = w
  BY WordsApart
<1>4. ASSUME NEW c \in LastDigits(b) PROVE \E w \in Words(b) : last[w] = c
  <2>1. c \in 1..Len(b) /\ b[c] # Blank /\ (c = Len(b) \/ b[c + 1] = Blank)
    BY LenProperties, DigitFacts DEF LastDigits
  <2>2. PICK w \in Words(b) : w[1] <= c /\ c <= w[2]
    BY <2>1, EveryWord
  <2>3. /\ w[1] \in 1..Len(b) /\ w[2] \in 1..Len(b)
        /\ \A k \in w[1]..w[2] : b[k] # Blank
    BY WordParts
  <2>4. ~(c < w[2])
    <3>1. c < w[2] => c + 1 \in w[1]..w[2] /\ c # Len(b)
      BY <2>1, <2>2, <2>3
    <3> QED BY <2>1, <2>3, <3>1
  <2>5. w[2] = c
    BY <2>1, <2>2, <2>3, <2>4
  <2> QED BY <2>5
<1>5. IsFiniteSet(Words(b))
  BY FiniteWords
<1> HIDE DEF last
<1>6. Cardinality(LastDigits(b)) = Cardinality(Words(b))
  BY <1>2, <1>3, <1>4, <1>5, OneToOne
<1> QED BY <1>6 DEF getIntAmount

\* Where a conversion starts that has not stopped inside a word.
Boundary(b, p) == p = 1 \/ p = Len(b) + 1 \/ b[p] = Blank

WordsFrom(b, p) == {w \in Words(b) : w[1] >= p}

\* From such a place on the next conversion finds the next word, if there is one.
LEMMA NextWord ==
  ASSUME NEW b \in Seq(Char), Integers(b), NEW p \in 1..(Len(b) + 1), Boundary(b, p)
  PROVE  LET s == Start(b, p)
             q == NumberAt(b, p).next
         IN /\ s \in p..(Len(b) + 1) /\ \A k \in p..(s - 1) : b[k] = Blank
            /\ s = Len(b) + 1 => ~NumberAt(b, p).ok
            /\ s # Len(b) + 1 =>
                 /\ NumberAt(b, p).ok /\ q \in 1..(Len(b) + 1) /\ s < q
                 /\ <<s, q - 1>> \in Words(b) /\ Boundary(b, q)
<1> DEFINE s == Start(b, p)
           f == First(b, p)
           q == After(b, p)
           n == Len(b)
<1>1. n \in Nat /\ p \in Nat /\ p >= 1 /\ \A k \in 1..n : b[k] \in Char
  BY LenProperties, ElementOfSeq
<1>2. /\ s \in p..(n + 1) /\ s \in Nat /\ \A k \in p..(s - 1) : b[k] = Blank
      /\ s <= n => b[s] # Blank
  BY <1>1, NumberType DEF StopsAt
<1>3. /\ f = IF Signed(b, p) THEN s + 1 ELSE s
      /\ Signed(b, p) <=> s <= n /\ b[s] = "-"
  BY DEF First, Signed
<1>8. StopsAt(b, f, Digit, q) /\ f \in Nat \ {0}
  BY NumberType
<1>9. f >= 1
  <2> HIDE DEF f
  <2> QED BY <1>8
<1>4. /\ q \in f..(n + 1) /\ q \in Nat /\ f \in Nat /\ f >= 1
      /\ \A k \in f..(q - 1) : b[k] \in Digit
      /\ q <= n => b[q] \notin Digit
  <2> HIDE DEF f, q
  <2> QED BY <1>8, <1>9 DEF StopsAt
<1>5. /\ NumberAt(b, p).ok <=> q > f
      /\ NumberAt(b, p).next = q
  BY NumberParts
<1> HIDE DEF s, f, q, n
<1>6. CASE s = n + 1
  <2>1. f = s /\ ~(q > f)
    BY <1>1, <1>3, <1>4, <1>6
  <2> QED BY <1>2, <1>5, <1>6, <2>1 DEF s, n
<1>7. CASE s # n + 1
  <2>1. s \in 1..n /\ b[s] # Blank
    BY <1>1, <1>2, <1>7
  <2>2. s = 1 \/ b[s - 1] = Blank
    <3>1. CASE s = p
      BY <1>1, <1>2, <1>7, <2>1, <3>1 DEF Boundary, n
    <3>2. CASE s # p
      <4>1. s - 1 \in p..(s - 1)
        BY <1>1, <1>2, <3>2
      <4> QED BY <1>2, <4>1
    <3> QED BY <3>1, <3>2
  <2>3. /\ f \in 1..n /\ b[f] \in Digit /\ (f = s \/ f = s + 1)
    <3>1. b[s] \in Digit \/ (b[s] = "-" /\ s < n /\ b[s + 1] \in Digit)
      BY <2>1 DEF Integers, n
    <3>2. b[s] \in Digit => b[s] # "-"
      BY DigitFacts
    <3> QED BY <1>1, <1>3, <2>1, <3>1, <3>2
  <2>4. q # f
    BY <1>1, <1>4, <2>3
  <2>5. s < q /\ q > f /\ q - 1 \in f..(q - 1) /\ q - 1 \in 1..n /\ q - 1 + 1 = q
    BY <1>1, <1>4, <2>1, <2>3, <2>4
  <2>6. \A k \in s..(q - 1) : b[k] # Blank
    <3>1. \A k \in s..(q - 1) : k = s \/ k \in f..(q - 1)
      BY <1>4, <2>1, <2>3
    <3> QED BY <1>4, <2>1, <3>1, DigitFacts
  <2>7. q = n + 1 \/ b[q] = Blank
    <3> SUFFICES ASSUME q # n + 1 PROVE b[q] = Blank
      OBVIOUS
    <3>1. q \in 1..n /\ q # 1
      BY <1>1, <1>4, <2>3, <2>5
    <3>2. b[q - 1] # Blank
      BY <2>1, <2>5, <1>4, DigitFacts
    <3>3. /\ \/ b[q] \in Digit
             \/ b[q] = Blank
             \/ b[q] = "-" /\ (q = 1 \/ b[q - 1] = Blank)
      BY <3>1 DEF Integers, n
    <3> QED BY <1>4, <3>1, <3>2, <3>3
  <2>8. <<s, q - 1>> \in Words(b)
    <3>1. s \in 1..Len(b) /\ q - 1 \in 1..Len(b) /\ s <= q - 1
      BY <2>1, <2>5, <1>4 DEF n
    <3>2. q - 1 = Len(b) \/ b[q - 1 + 1] = Blank
      BY <1>1, <2>5, <2>7 DEF n
    <3> QED BY <2>2, <2>6, <3>1, <3>2 DEF Words
  <2>9. Boundary(b, q) /\ q \in 1..(n + 1)
    BY <1>1, <1>4, <2>7 DEF Boundary, n
  <2> QED BY <1>2, <1>5, <1>7, <2>5, <2>8, <2>9 DEF s, n
<1> QED BY <1>6, <1>7

\* The value of a word by itself.
WordAt(b, w) == NumberAt(SubSeq(b, w[1], w[2]), 1).value

\* It is the number found in front of it.
LEMMA NextValue ==
  ASSUME NEW b \in Seq(Char), Integers(b), NEW p \in 1..(Len(b) + 1), Boundary(b, p),
         Start(b, p) # Len(b) + 1
  PROVE  LET w == <<Start(b, p), NumberAt(b, p).next - 1>>
         IN NumberAt(b, p).value = WordAt(b, w) /\ WordAt(b, w) \in Int
<1> DEFINE s == Start(b, p)
           q == NumberAt(b, p).next
           n == Len(b)
           t == SubSeq(b, s, q - 1)
           o == s - 1
<1>1. /\ s \in p..(n + 1) /\ q \in 1..(n + 1) /\ s < q /\ NumberAt(b, p).ok
      /\ <<s, q - 1>> \in Words(b) /\ Boundary(b, q)
  BY NextWord
<1>2. n \in Nat /\ p \in Nat /\ p >= 1 /\ \A k \in 1..n : b[k] \in Char
  BY LenProperties, ElementOfSeq
<1>3. /\ s \in 1..n /\ q - 1 \in 1..n /\ \A k \in s..(q - 1) : b[k] # Blank
      /\ q = n + 1 \/ b[q] = Blank
  <2>1. /\ s \in 1..n /\ q - 1 \in 1..n /\ \A k \in s..(q - 1) : b[k] # Blank
        /\ q - 1 = n \/ b[q - 1 + 1] = Blank
    BY <1>1, WordParts
  <2>2. q - 1 + 1 = q
    BY <1>1, <1>2
  <2> HIDE DEF s, q, n
  <2> QED BY <1>1, <1>2, <2>1, <2>2
<1> HIDE DEF s, q, n
<1>4. /\ t \in Seq(Char) /\ Len(t) = q - s
      /\ \A k \in 1..(q - s) : t[k] = b[k + o]
  <2>1. \A k \in s..(q - 1) : b[k] \in Char
    BY <1>2, <1>3
  <2>2. s \in Int /\ q - 1 \in Int /\ s <= q - 1 /\ q - 1 - s + 1 = q - s
    BY <1>1, <1>2, <1>3
  <2>3. /\ t \in Seq(Char) /\ Len(t) = q - s
        /\ \A k \in 1..(q - s) : t[k] = b[s + k - 1]
    BY <2>1, <2>2, SubSeqProperties
  <2>4. \A k \in 1..(q - s) : s + k - 1 = k + o
    BY <1>3
  <2> QED BY <2>3, <2>4
<1> HIDE DEF t
<1>5. o \in Nat /\ o + Len(t) = q - 1 /\ o + Len(t) + 1 = q /\ o + 1 = s /\ 1 + o = s
      /\ Len(t) \in Nat /\ Len(t) >= 1 /\ o + Len(t) <= n
  <2>1. s \in Nat /\ s >= 1 /\ q \in Nat /\ s < q /\ q <= n + 1
    BY <1>1, <1>2, <1>3
  <2> QED BY <1>2, <1>4, <2>1
<1>6. Inside(t, b, o)
  BY <1>4, <1>5 DEF Inside, n
<1> HIDE DEF o
<1>7. Start(b, s) = s
  <2>1. s \in 1..(Len(b) + 1) /\ s \in Nat /\ StopsAt(b, s, {Blank}, s)
    BY <1>1, <1>2, <1>3 DEF StopsAt, n
  <2>2. StopsAt(b, s, {Blank}, Start(b, s))
    BY <2>1, SkipOverStops DEF Start
  <2> QED BY <2>1, <2>2, StopsOnce
<1>8. /\ Signed(b, s) <=> Signed(b, p)
      /\ First(b, s) = First(b, p) /\ After(b, s) = After(b, p) /\ Abs(b, s) = Abs(b, p)
  BY <1>7 DEF Signed, First, After, Abs, s
<1>9. /\ NumberAt(b, s).value = NumberAt(b, p).value
      /\ NumberAt(b, s).ok /\ NumberAt(b, s).next = q
  BY <1>1, <1>8, NumberParts DEF q
<1>10. NumberAt(t, 1).ok
  <2>1. t[1] = b[s]
    BY <1>4, <1>5
  <2>2. t[1] # Blank
    BY <1>1, <1>2, <1>3, <2>1
  <2>3. Start(t, 1) = 1
    <3>1. 1 \in 1..(Len(t) + 1) /\ StopsAt(t, 1, {Blank}, 1)
      BY <1>5, <2>2 DEF StopsAt
    <3>2. StopsAt(t, 1, {Blank}, Start(t, 1))
      BY <1>4, <3>1, SkipOverStops DEF Start
    <3> QED BY <1>4, <3>1, <3>2, StopsOnce
  <2>4. /\ Signed(t, 1) <=> Signed(b, s)
        /\ First(t, 1) + o = First(b, s)
    <3>1. 1 <= Len(t) /\ s <= Len(b)
      BY <1>5, <1>3, <1>2 DEF n
    <3>2. Signed(t, 1) <=> Signed(b, s)
      BY <1>7, <2>1, <2>3, <3>1 DEF Signed
    <3>3. /\ First(t, 1) = IF Signed(t, 1) THEN 2 ELSE 1
          /\ First(b, s) = IF Signed(b, s) THEN s + 1 ELSE s
      BY <1>7, <2>3 DEF First
    <3>4. 2 + o = s + 1 /\ 1 + o = s
      BY <1>5
    <3> QED BY <3>2, <3>3, <3>4
  <2> DEFINE f == First(t, 1)
  <2>5. After(b, s) = q /\ q > First(b, s)
    BY <1>9, NumberParts
  <2>6. f \in Nat \ {0} /\ StopsAt(t, f, Digit, After(t, 1))
    <3>1. 1 \in 1..(Len(t) + 1)
      BY <1>5
    <3> QED BY <1>4, <3>1, NumberType
  <2>7. StopsAt(b, First(b, s), Digit, q) /\ First(b, s) \in Nat
    <3>1. s \in 1..(Len(b) + 1)
      BY <1>2, <1>3 DEF n
    <3> QED BY <2>5, <3>1, NumberType
  <2>8. b[First(b, s)] \in Digit
    <3> DEFINE g == First(b, s)
    <3>1. g \in Nat /\ q > g /\ q \in Nat /\ \A k \in g..(q - 1) : b[k] \in Digit
      BY <2>5, <2>7 DEF StopsAt
    <3> HIDE DEF g
    <3>2. g \in g..(q - 1)
      BY <3>1
    <3>3. b[g] \in Digit
      BY <3>1, <3>2
    <3> QED BY <3>3 DEF g
  <2> HIDE DEF f
  <2>9. f \in 1..Len(t) /\ t[f] \in Digit
    <3>1. f + o = First(b, s)
      BY <2>4 DEF f
    <3>2. f + o < q /\ f \in Nat /\ f >= 1
      BY <2>5, <2>6, <3>1
    <3>3. f \in 1..(q - s) /\ f \in 1..Len(t)
      BY <1>4, <1>5, <3>2
    <3>4. t[f] = b[f + o]
      BY <1>4, <3>3 DEF o
    <3> QED BY <2>8, <3>1, <3>3, <3>4
  <2> DEFINE a == After(t, 1)
  <2>10. a \in f..(Len(t) + 1) /\ (a <= Len(t) => t[a] \notin Digit) /\ a \in Nat
    BY <2>6 DEF StopsAt
  <2> HIDE DEF a
  <2>11. a > f
    BY <1>5, <2>9, <2>10
  <2> QED BY <2>11, NumberParts DEF a, f
<1>11. NumberAt(b, 1 + o).value = NumberAt(t, 1).value /\ NumberAt(t, 1).value \in Int
  <2>1. 1 \in 1..(Len(t) + 1)
    BY <1>5
  <2>2. \/ o + Len(t) = Len(b)
        \/ NumberAt(t, 1).ok /\ o + Len(t) < Len(b) /\ b[o + Len(t) + 1] = Blank
    BY <1>2, <1>3, <1>5, <1>10 DEF n
  <2> QED BY <1>4, <1>6, <2>1, <2>2, NumberInside, NumberType
<1>12. NumberAt(b, p).value = NumberAt(t, 1).value
  BY <1>5, <1>9, <1>11
<1> QED BY <1>11, <1>12 DEF WordAt, t, s, q

\* The words that are left: the next one, and those after it.
LEMMA WordsAfter ==
  ASSUME NEW b \in Seq(Char), Integers(b), NEW p \in 1..(Len(b) + 1), Boundary(b, p)
  PROVE  LET s == Start(b, p)
             q == NumberAt(b, p).next
         IN /\ ~NumberAt(b, p).ok => WordsFrom(b, p) = {}
            /\ NumberAt(b, p).ok =>
                 /\ WordsFrom(b, p) = WordsFrom(b, q) \cup {<<s, q - 1>>}
                 /\ \A w \in WordsFrom(b, q) : s < w[1]
<1> DEFINE s == Start(b, p)
           q == NumberAt(b, p).next
           n == Len(b)
           x == <<s, q - 1>>
<1>1. /\ s \in p..(n + 1) /\ \A k \in p..(s - 1) : b[k] = Blank
      /\ s = n + 1 => ~NumberAt(b, p).ok
      /\ s # n + 1 => NumberAt(b, p).ok /\ q \in 1..(n + 1) /\ s < q /\ x \in Words(b)
  BY NextWord
<1>2. n \in Nat /\ p \in Nat /\ p >= 1 /\ s \in Nat /\ s >= 1
  BY <1>1, LenProperties
<1> HIDE DEF s, q, n
<1>3. ASSUME NEW w \in WordsFrom(b, p) PROVE w[1] >= s /\ w[1] <= n
  <2>1. w \in Words(b) /\ w[1] >= p
    BY DEF WordsFrom
  <2>2. w[1] \in 1..n /\ b[w[1]] # Blank
    <3>1. /\ w[1] \in 1..Len(b) /\ w[2] \in 1..Len(b) /\ w[1] <= w[2]
          /\ \A k \in w[1]..w[2] : b[k] # Blank
      BY <2>1, WordParts
    <3>2. w[1] \in w[1]..w[2]
      BY <3>1
    <3> QED BY <3>1, <3>2 DEF n
  <2>3. w[1] \notin p..(s - 1)
    BY <1>1, <2>2
  <2> QED BY <1>2, <2>1, <2>2, <2>3
<1>4. CASE s = n + 1
  <2>1. ~NumberAt(b, p).ok
    BY <1>1, <1>4
  <2>2. WordsFrom(b, p) = {}
    <3> SUFFICES ASSUME NEW w \in WordsFrom(b, p) PROVE FALSE
      OBVIOUS
    <3>1. w[1] >= s /\ w[1] <= n /\ w[1] \in 1..n
      BY <1>3, WordParts DEF WordsFrom, n
    <3> QED BY <1>2, <1>4, <3>1
  <2> QED BY <2>1, <2>2
<1>5. CASE s # n + 1
  <2>1. NumberAt(b, p).ok /\ q \in Nat /\ s < q /\ x \in Words(b)
    BY <1>1, <1>2, <1>5
  <2>2. /\ \A k \in s..(q - 1) : b[k] # Blank
    BY <2>1, WordParts
  <2>3. ASSUME NEW w \in WordsFrom(b, p), w[1] # s PROVE w \in WordsFrom(b, q)
    <3>1. w \in Words(b) /\ w[1] \in 1..n /\ (w[1] = 1 \/ b[w[1] - 1] = Blank)
      BY WordParts DEF WordsFrom, n
    <3>2. w[1] - 1 \notin s..(q - 1) /\ w[1] > s
      <4>1. w[1] > s
        BY <1>2, <1>3, <2>3, <3>1
      <4>2. w[1] # 1
        BY <1>2, <3>1, <4>1
      <4> QED BY <2>2, <3>1, <4>1, <4>2
    <3>3. w[1] >= q
      BY <1>2, <2>1, <3>1, <3>2
    <3> QED BY <3>1, <3>3 DEF WordsFrom
  <2>4. ASSUME NEW w \in WordsFrom(b, p), w[1] = s PROVE w = x
    BY <2>1, <2>4, WordsApart DEF WordsFrom
  <2>5. ASSUME NEW w \in WordsFrom(b, q) PROVE w \in WordsFrom(b, p) /\ s < w[1]
    <3>1. w \in Words(b) /\ w[1] \in 1..n /\ w[1] >= q
      BY WordParts DEF WordsFrom, n
    <3>2. w[1] >= p /\ s < w[1]
      BY <1>1, <1>2, <2>1, <3>1
    <3> QED BY <3>1, <3>2 DEF WordsFrom
  <2>6. x \in WordsFrom(b, p)
    <3>1. x[1] = s /\ s >= p
      BY <1>1, <1>2
    <3> QED BY <2>1, <3>1 DEF WordsFrom
  <2> HIDE DEF x
  <2>7. WordsFrom(b, p) = WordsFrom(b, q) \cup {x}
    BY <2>3, <2>4, <2>5, <2>6
  <2> QED BY <2>1, <2>5, <2>7 DEF x, s, q
<1> QED BY <1>4, <1>5 DEF s, q

\* list has the values of the words of W, by where they begin.
Ranked(list, W, b) ==
  /\ Len(list) = Cardinality(W)
  /\ \A w \in W : LET rank == Cardinality({v \in W : v[1] <= w[1]})
                  IN rank \in 1..Len(list) /\ list[rank] = WordAt(b, w)

LEMMA RankedMore ==
  ASSUME NEW b, NEW W, IsFiniteSet(W), NEW list \in Seq(Int), Ranked(list, W, b),
         NEW x, x[1] \in Int, WordAt(b, x) \in Int,
         \A w \in W : w[1] \in Int /\ x[1] < w[1]
  PROVE  Ranked(<<WordAt(b, x)>> \o list, W \cup {x}, b)
<1> DEFINE val == WordAt(b, x)
           more == <<val>> \o list
           V == W \cup {x}
           n == Len(list)
           upto(w) == {v \in W : v[1] <= w[1]}
           upto2(w) == {v \in V : v[1] <= w[1]}
<1>1. n \in Nat /\ n = Cardinality(W) /\ x \notin W
  BY LenProperties DEF Ranked
<1>2. Cardinality(V) = n + 1
  BY <1>1, FS_AddElement
<1>3. /\ Len(more) = n + 1 /\ more[1] = val
      /\ \A k \in 1..n : more[k + 1] = list[k]
  <2>1. <<val>> \in Seq(Int) /\ Len(<<val>>) = 1 /\ <<val>>[1] = val
    OBVIOUS
  <2> DEFINE one == <<val>>
  <2> HIDE DEF one, val
  <2>2. /\ Len(one \o list) = 1 + n
        /\ \A k \in 1..(1 + n) : (one \o list)[k] = IF k <= 1 THEN one[k] ELSE list[k - 1]
    BY <2>1, ConcatProperties DEF one
  <2>3. \A k \in 1..n : k + 1 \in 1..(1 + n) /\ ~(k + 1 <= 1) /\ (k + 1) - 1 = k
    BY <1>1
  <2>4. \A k \in 1..n : (one \o list)[k + 1] = list[k]
    BY <2>2, <2>3
  <2>5. 1 \in 1..(1 + n) /\ 1 + n = n + 1
    BY <1>1
  <2>6. (one \o list)[1] = one[1]
    BY <2>2, <2>5
  <2> QED BY <2>1, <2>2, <2>4, <2>5, <2>6 DEF one
<1> HIDE DEF more, val, n
<1>4. ASSUME NEW w \in W
      PROVE  LET rank == Cardinality(upto2(w))
             IN rank \in 1..(n + 1) /\ more[rank] = WordAt(b, w)
  <2> DEFINE r == Cardinality(upto(w))
  <2>1. r \in 1..n /\ list[r] = WordAt(b, w)
    BY DEF Ranked, n
  <2>2. upto2(w) = upto(w) \cup {x} /\ x \notin upto(w)
    BY <1>1
  <2>3. IsFiniteSet(upto(w))
    BY FS_Subset
  <2> HIDE DEF upto, upto2
  <2>4. Cardinality(upto2(w)) = r + 1
    BY <2>2, <2>3, FS_AddElement
  <2> HIDE DEF r
  <2>5. r + 1 \in 1..(n + 1) /\ more[r + 1] = list[r]
    BY <1>1, <1>3, <2>1
  <2> QED BY <2>1, <2>4, <2>5
<1>5. Cardinality(upto2(x)) = 1
  <2>1. upto2(x) = {x}
    OBVIOUS
  <2> QED BY <2>1, FS_Singleton
<1>6. 1 \in 1..(n + 1)
  BY <1>1
<1>7. \A w \in V : LET rank == Cardinality(upto2(w))
                   IN rank \in 1..Len(more) /\ more[rank] = WordAt(b, w)
  <2> SUFFICES ASSUME NEW w \in V
               PROVE  Cardinality(upto2(w)) \in 1..(n + 1)
                      /\ more[Cardinality(upto2(w))] = WordAt(b, w)
    BY <1>3
  <2>1. CASE w \in W
    BY <1>4, <2>1
  <2>2. CASE w = x
    BY <1>3, <1>5, <1>6, <2>2 DEF val
  <2> QED BY <2>1, <2>2
<1>8. Len(more) = Cardinality(V)
  BY <1>2, <1>3
<1> QED BY <1>7, <1>8 DEF Ranked, more, val

\* What sscanf finds one after the other is the words, in their order.
LEMMA ConversionsRanked ==
  ASSUME NEW b \in Seq(Char), Integers(b)
  PROVE  Ranked(Conversions(b), WordsFrom(b, 1), b)
<1> DEFINE n == Len(b)
           D == 1..(n + 1)
<1>1. PICK f \in [D -> Seq(Int)] : ConversionSteps(f, b) /\ Conversions(b) = f[1]
  BY ConversionsFrom
<1> DEFINE G == {p \in D : Boundary(b, p) => Ranked(f[p], WordsFrom(b, p), b)}
<1>2. ASSUME NEW p \in D, p \in NoNumber(b) PROVE p \in G
  <2>1. ~NumberAt(b, p).ok
    BY <1>2 DEF NoNumber
  <2>2. f[p] = <<>>
    BY <1>1, <2>1 DEF ConversionSteps
  <2>3. Boundary(b, p) => WordsFrom(b, p) = {}
    BY <2>1, WordsAfter
  <2>4. Len(<<>>) = Cardinality({})
    BY FS_EmptySet
  <2> QED BY <2>2, <2>3, <2>4 DEF Ranked
<1>3. ASSUME NEW p \in D, p \notin NoNumber(b), Onward(b)[p] \in G PROVE p \in G
  <2> DEFINE s == Start(b, p)
             q == NumberAt(b, p).next
             x == <<s, q - 1>>
  <2>1. NumberAt(b, p).ok
    BY <1>3 DEF NoNumber
  <2>2. Onward(b)[p] = q
    BY <2>1 DEF Onward
  <2>3. f[p] = <<NumberAt(b, p).value>> \o f[q]
    BY <1>1, <2>1 DEF ConversionSteps
  <2> SUFFICES ASSUME Boundary(b, p) PROVE Ranked(f[p], WordsFrom(b, p), b)
    OBVIOUS
  <2>4. s \in Nat /\ s # n + 1 /\ Boundary(b, q)
    <3>1. s \in p..(n + 1) /\ (s = n + 1 => ~NumberAt(b, p).ok)
      BY NextWord
    <3>2. s # n + 1 => Boundary(b, q)
      BY NextWord
    <3> HIDE DEF s, q
    <3>3. p \in Nat /\ n + 1 \in Nat
      BY LenProperties
    <3> QED BY <2>1, <3>1, <3>2, <3>3
  <2>5. NumberAt(b, p).value = WordAt(b, x) /\ WordAt(b, x) \in Int
    BY <2>4, NextValue
  <2>6. /\ WordsFrom(b, p) = WordsFrom(b, q) \cup {x}
        /\ \A w \in WordsFrom(b, q) : s < w[1]
    BY <2>1, WordsAfter
  <2>7. q \in D /\ Ranked(f[q], WordsFrom(b, q), b)
    BY <1>3, <2>2, <2>4
  <2>8. f[q] \in Seq(Int)
    BY <1>1, <2>7
  <2>9. IsFiniteSet(WordsFrom(b, q)) /\ \A w \in WordsFrom(b, q) : w[1] \in Int
    <3>1. WordsFrom(b, q) \subseteq Words(b)
      BY DEF WordsFrom
    <3>2. \A w \in Words(b) : w[1] \in Int
      BY WordParts
    <3> QED BY <3>1, <3>2, FiniteWords, FS_Subset
  <2>10. x[1] = s
    OBVIOUS
  <2> HIDE DEF G, D, x, s, q
  <2> DEFINE W == WordsFrom(b, q)
             list == f[q]
  <2>12. /\ IsFiniteSet(W) /\ list \in Seq(Int) /\ Ranked(list, W, b)
         /\ x[1] \in Int /\ WordAt(b, x) \in Int
         /\ \A w \in W : w[1] \in Int /\ x[1] < w[1]
    BY <2>4, <2>5, <2>6, <2>7, <2>8, <2>9, <2>10
  <2> HIDE DEF W, list
  <2>11. Ranked(<<WordAt(b, x)>> \o list, W \cup {x}, b)
    BY <2>12, RankedMore
  <2> USE DEF W, list
  <2> QED BY <2>3, <2>5, <2>6, <2>11
<1>4. G = D
  <2>1. G \subseteq D
    OBVIOUS
  <2> HIDE DEF G
  <2>2. Inductive(G, D, NoNumber(b), Onward(b))
    BY <1>2, <1>3, <2>1 DEF Inductive
  <2> QED BY <2>2, ConversionsAdvance, RecursionInduction
<1>5. 1 \in D
  BY LenProperties
<1>6. Boundary(b, 1) => Ranked(f[1], WordsFrom(b, 1), b)
  BY <1>4, <1>5
<1> QED BY <1>1, <1>6 DEF Boundary

LEMMA WellFormedList ==
  ASSUME NEW b \in Seq(Char), WellFormed(b)
  PROVE  /\ getIntAmount(b) = Cardinality(Words(b))
         /\ Len(Conversions(b)) = getIntAmount(b)
         /\ Denotes(Conversions(b), b)
<1>1. getIntAmount(b) = Cardinality(Words(b))
  BY AmountOfWords
<1>2. WordsFrom(b, 1) = Words(b)
  <2>1. \A w \in Words(b) : w[1] >= 1
    BY WordParts
  <2> QED BY <2>1 DEF WordsFrom
<1>3. Ranked(Conversions(b), Words(b), b)
  BY <1>2, WellFormedIntegers, ConversionsRanked
<1> QED BY <1>1, <1>3 DEF Ranked, Denotes, WordAt

\* Words with one blank between them take no more room than that.
LEMMA WordsFit ==
  ASSUME NEW b \in Seq(Char), Len(b) # 0, NEW width \in Nat,
         \A w \in Words(b) : w[2] - w[1] + 1 <= width,
         \A k \in DOMAIN b : b[k] = Blank => k > 1 /\ k < Len(b) /\ b[k - 1] # Blank
  PROVE  Len(b) + 1 <= Cardinality(Words(b)) * (width + 1)
<1> DEFINE n == Len(b)
           D == 1..(n + 1)
           T == Words(b) \X (0..width)
           Near(k, w) == w[1] <= k /\ k <= w[2] + 1
           g == [k \in D |-> CHOOSE w \in Words(b) : Near(k, w)]
           f == [k \in D |-> <<g[k], k - g[k][1]>>]
<1>1. n \in Nat /\ n >= 1 /\ DOMAIN b = 1..n
  BY LenProperties
<1>2. \A w \in Words(b) : w[1] \in 1..n /\ w[2] \in 1..n
  BY WordParts
<1>12. \A k \in 1..n : b[k] = Blank => k > 1 /\ k < n /\ b[k - 1] # Blank
  BY <1>1
<1>3. ASSUME NEW k \in D PROVE \E w \in Words(b) : Near(k, w)
  <2>1. PICK e \in 1..n : b[e] # Blank /\ (e = k \/ e + 1 = k)
    <3>1. CASE k = n + 1
      <4>1. n \in 1..n /\ b[n] # Blank
        <5> HIDE DEF n
        <5>1. n \in 1..n /\ ~(n < n)
          BY <1>1
        <5> QED BY <1>12, <5>1
      <4> QED BY <3>1, <4>1
    <3>2. CASE k # n + 1 /\ b[k] = Blank
      <4>1. k > 1 /\ b[k - 1] # Blank
        <5> HIDE DEF n
        <5>1. k \in 1..n
          BY <1>1, <3>2
        <5> QED BY <1>12, <3>2, <5>1
      <4>2. k - 1 \in 1..n /\ k - 1 + 1 = k
        BY <1>1, <4>1
      <4> QED BY <4>1, <4>2
    <3>3. CASE k # n + 1 /\ b[k] # Blank
      <4>1. k \in 1..n
        BY <1>1, <3>3
      <4> QED BY <3>3, <4>1
    <3> QED BY <3>1, <3>2, <3>3
  <2>2. PICK w \in Words(b) : w[1] <= e /\ e <= w[2]
    BY <2>1, EveryWord
  <2>3. w[1] <= k /\ k <= w[2] + 1
    BY <1>1, <1>2, <2>1, <2>2
  <2> QED BY <2>3
<1> HIDE DEF n
<1>4. ASSUME NEW k \in D
      PROVE  /\ g[k] \in Words(b) /\ g[k][1] \in Int /\ k \in Int
             /\ k - g[k][1] \in 0..width
  <2>1. g[k] \in Words(b) /\ Near(k, g[k])
    BY <1>3
  <2> HIDE DEF g
  <2>2. /\ g[k][1] \in 1..n /\ g[k][2] \in 1..n
        /\ g[k][2] - g[k][1] + 1 <= width
    BY <1>2, <2>1
  <2> DEFINE i == g[k][1]
             j == g[k][2]
  <2>4. i <= k /\ k <= j + 1 /\ i \in 1..n /\ j \in 1..n /\ j - i + 1 <= width
    BY <2>1, <2>2
  <2>5. k \in Int
    BY <1>1
  <2> HIDE DEF i, j
  <2>3. k - i \in 0..width /\ i \in Int
    BY <1>1, <2>4, <2>5
  <2> QED BY <2>1, <2>3, <2>5 DEF i
<1> HIDE DEF g
<1>5. f \in [D -> T]
  BY <1>4
<1>6. ASSUME NEW j \in D, NEW k \in D, f[j] = f[k] PROVE j = k
  <2>1. g[j] = g[k] /\ j - g[j][1] = k - g[k][1]
    BY <1>6
  <2> QED BY <1>4, <2>1
<1>7. f \in Injection(D, T)
  <2> HIDE DEF f, D, T
  <2>1. DOMAIN f = D
    BY <1>5
  <2> QED BY <1>5, <1>6, <2>1 DEF Injection, IsInjective
<1>8. IsFiniteSet(0..width) /\ Cardinality(0..width) = width + 1
  BY FS_Interval
<1>9. IsFiniteSet(T) /\ Cardinality(T) = Cardinality(Words(b)) * (width + 1)
  BY <1>8, FiniteWords, FS_Product
<1>10. Cardinality(D) = n + 1
  BY <1>1, FS_Interval
<1> HIDE DEF f, D, T
<1>11. Cardinality(D) <= Cardinality(T)
  BY <1>7, <1>9, FS_Injection
<1> QED BY <1>9, <1>10, <1>11 DEF n

-----------------------------------------------------------------------------
(* Initially, and from one step to the next                                *)

LEMMA LineTypes ==
  ASSUME NEW l \in Seq(Char)
  PROVE  /\ Wanted(l).value \in Int /\ Preferred(l).value \in Int
         /\ Selected(l) \in Seq(Char)
<1>1. Len(l) \in Nat /\ 1 \in 1..(Len(l) + 1)
  BY LenProperties
<1>2. Wanted(l).value \in Int /\ Wanted(l).next \in 1..(Len(l) + 1)
  BY <1>1, NumberType DEF Wanted
<1>3. Preferred(l).value \in Int /\ Preferred(l).next \in Wanted(l).next..(Len(l) + 1)
  BY <1>2, NumberType DEF Preferred
<1>4. Preferred(l).next \in 1..(Len(l) + 1)
  BY <1>1, <1>2, <1>3
<1> DEFINE p == SkipOver(l, Preferred(l).next, {Blank})
<1>5. StopsAt(l, Preferred(l).next, {Blank}, p)
  BY <1>4, SkipOverStops
<1>6. p \in Nat /\ p >= 1
  BY <1>4, <1>5 DEF StopsAt
<1> HIDE DEF p
<1>7. Selected(l) \in Seq(Char)
  <2>1. \A k \in p..Len(l) : k \in 1..Len(l)
    BY <1>1, <1>6
  <2>2. \A k \in p..Len(l) : l[k] \in Char /\ l[k + 0] = l[k]
    BY <1>1, <2>1, ElementOfSeq
  <2>3. SubSeq(l, p, Len(l)) \in Seq(Char)
    BY <1>1, <1>6, <2>2, SameSlice
  <2> QED BY <2>3 DEF Selected, p
<1> QED BY <1>2, <1>3, <1>7

\* A line that was sent, as the office reads it.
LEMMA SentLine ==
  ASSUME Types, SentOK, at \notin {"client", "refused"}
  PROVE  LET b == args[2]
         IN /\ populateRequest(args) /\ getIntAmount(b) \in Nat
            /\ args[1] # <<>> =>
                 /\ Wanted(line).ok
                 /\ Wanted(line).value = checkValidIntArgument(args[1]).value
                 /\ Preferred(line).ok /\ Preferred(line).value = getIntAmount(b)
                 /\ Selected(line) = Trimmed(b)
<1> DEFINE a == args[1]
           b == args[2]
           n == getIntAmount(b)
<1>1. /\ a \in Seq(Char) /\ b \in Seq(Char)
      /\ populateRequest(args) /\ line = Line(a, n, b)
  BY DEF Types, SentOK
<1>2. n \in Nat
  BY <1>1, AmountNatural
<1>3. checkValidIntArgument(a).ok
  BY <1>1 DEF populateRequest
<1> HIDE DEF a, b, n
<1>4. ASSUME a # <<>>
      PROVE  /\ Wanted(line).ok
             /\ Wanted(line).value = checkValidIntArgument(a).value
             /\ Preferred(line).ok /\ Preferred(line).value = n
             /\ Selected(line) = Trimmed(b)
  <2>1. checkValidIntArgument(a).value = NumberAt(a, 1).value
    BY <1>4 DEF checkValidIntArgument
  <2> DEFINE l == Line(a, n, b)
  <2>2. /\ Wanted(l).ok /\ Wanted(l).value = NumberAt(a, 1).value
        /\ Preferred(l).ok /\ Preferred(l).value = n
        /\ Selected(l) = Trimmed(b)
    BY <1>1, <1>2, <1>3, <1>4, LineRead
  <2> QED BY <1>1, <2>1, <2>2
<1> QED BY <1>1, <1>2, <1>4 DEF a, b, n

\* The array of the server next to the client's: as long, and of the same numbers.
LEMMA SameArrays ==
  ASSUME NEW b \in Seq(Char)
  PROVE  LET seen == stringToIntArray(Trimmed(b), TRUE)
             meant == clientList(b)
         IN /\ seen.size = meant.size /\ meant.size = getIntAmount(b)
            /\ seen.ok <=> meant.ok /\ \A k \in 1..meant.size : meant.list[k] > 0
            /\ seen.ok => seen.list = meant.list
<1> DEFINE t == Trimmed(b)
<1>1. /\ t \in Seq(Char) /\ getIntAmount(t) = getIntAmount(b)
      /\ Conversions(t) = Conversions(b)
  BY TrimmedType, TrimmedNumbers, TrimmedAmount
<1> HIDE DEF t
<1> DEFINE seen == stringToIntArray(t, TRUE)
           meant == stringToIntArray(b, FALSE)
           n == getIntAmount(b)
           found == Conversions(b)
<1>2. /\ seen.size = n
      /\ seen.ok <=> (n <= Len(found) /\ \A k \in 1..n : found[k] > 0)
      /\ seen.ok => seen.list = SubSeq(found, 1, n)
  BY <1>1, ArrayOfString
<1>3. /\ meant.size = n
      /\ meant.ok <=> n <= Len(found)
      /\ meant.ok => meant.list = SubSeq(found, 1, n)
                     /\ \A k \in 1..n : meant.list[k] = found[k]
  BY ArrayOfString
<1> HIDE DEF seen, meant, n, found
<1>4. seen.ok <=> meant.ok /\ \A k \in 1..n : meant.list[k] > 0
  BY <1>2, <1>3
<1> QED BY <1>2, <1>3, <1>4 DEF seen, meant, n, clientList, t

LEMMA InitInv == ConstantsAssumption /\ Init => IInv
<1> SUFFICES ASSUME ConstantsAssumption, Init PROVE IInv
  OBVIOUS
<1> USE DEF ConstantsAssumption, Init
<1>1. Types
  BY DEF Types
<1>2. RequestType
  BY DEF RequestType
<1>3. SentOK /\ ReadOK /\ ErrorOK /\ BookableOK
  BY DEF SentOK, ReadOK, ErrorOK, BookableOK
<1>4. WritesOK
  BY DEF WritesOK, StoresInBounds
<1>5. LengthOK
  BY LenProperties DEF LengthOK
<1> QED BY <1>1, <1>2, <1>3, <1>4, <1>5 DEF IInv

LEMMA TypesStep == ConstantsAssumption /\ IInv /\ [Next]_vars => Types'
<1> SUFFICES ASSUME ConstantsAssumption, Types, SentOK, [Next]_vars PROVE Types'
  BY DEF IInv
<1> USE DEF Types
<1>1. CASE Send
  <2> DEFINE n == clientList(args[2]).size
             l == Line(args[1], n, args[2])
  <2>1. n \in Nat
    <3>1. args[2] \in Seq(Char)
      OBVIOUS
    <3>2. n = getIntAmount(args[2])
      BY DEF clientList, stringToIntArray
    <3> QED BY <3>1, <3>2, AmountNatural
  <2>2. l \in Seq(Char)
    BY <2>1, LineParts
  <2>3. line' = l \/ line' = <<>>
    BY <1>1 DEF Send, Line
  <2>6. <<>> \in Seq(Char)
    OBVIOUS
  <2>4. line' \in Seq(Char)
    BY <2>2, <2>3, <2>6
  <2>5. at' \in {"sent", "refused"} /\ UNCHANGED <<args, text>>
    BY <1>1 DEF Send
  <2> QED BY <2>4, <2>5
<1>2. CASE ReadError
  BY <1>2 DEF ReadError
<1>3. CASE ReadFields
  BY <1>3, LineTypes DEF ReadFields
<1>4. CASE verifyRequestErrors
  BY <1>4 DEF verifyRequestErrors
<1>5. CASE UNCHANGED vars
  BY <1>5 DEF vars
<1> QED BY <1>1, <1>2, <1>3, <1>4, <1>5 DEF Next

LEMMA SentStep == ConstantsAssumption /\ IInv /\ [Next]_vars => SentOK'
<1> SUFFICES ASSUME ConstantsAssumption, Types, SentOK, [Next]_vars PROVE SentOK'
  BY DEF IInv
<1> USE DEF SentOK
<1>1. CASE Send
  <2>1. clientList(args[2]).size = getIntAmount(args[2])
    BY ArrayOfString DEF clientList, Types
  <2>2. populateRequest(args) => line' = Line(args[1], getIntAmount(args[2]), args[2])
    BY <1>1, <2>1 DEF Send, Line
  <2> QED BY <1>1, <2>2 DEF Send
<1>2. CASE ReadError
  BY <1>2 DEF ReadError
<1>3. CASE ReadFields
  BY <1>3 DEF ReadFields
<1>4. CASE verifyRequestErrors
  BY <1>4 DEF verifyRequestErrors
<1>5. CASE UNCHANGED vars
  BY <1>5 DEF vars
<1> QED BY <1>1, <1>2, <1>3, <1>4, <1>5 DEF Next

\* The request that ReadFields fills in.
LEMMA ReadRequest ==
  ASSUME ConstantsAssumption, Types, ReadFields
  PROVE  LET array == stringToIntArray(text', TRUE)
         IN /\ text' = Selected(line) /\ text' \in Seq(Char)
            /\ request'.wanted = Wanted(line).value /\ request'.wanted \in Int
            /\ request'.numPreferred = Preferred(line).value /\ request'.numPreferred \in Int
            /\ request'.size = array.size /\ array.size \in Nat
            /\ request'.list = IF array.ok THEN array.list ELSE Null
            /\ array.ok => array.list \in Seq(Int) /\ Len(array.list) = array.size
            /\ request'.error = IF array.ok THEN "AYE" ELSE "IID"
            /\ request' = [wanted |-> request'.wanted,
                           numPreferred |-> request'.numPreferred,
                           list |-> request'.list, size |-> request'.size,
                           error |-> request'.error]
            /\ writes' = [writes EXCEPT !.server = array.writes - array.size]
            /\ array.writes \in Nat
<1>1. text' = Selected(line) /\ text' \in Seq(Char)
  BY LineTypes DEF ReadFields, Types
<1>2. Wanted(line).value \in Int /\ Preferred(line).value \in Int
  BY LineTypes DEF Types
<1> DEFINE array == stringToIntArray(text', TRUE)
<1>3. /\ array.size \in Nat /\ array.writes \in Nat
      /\ array.ok => array.list \in Seq(Int) /\ Len(array.list) = array.size
  BY <1>1, ArrayOfString
<1>4. /\ request' = [wanted |-> Wanted(line).value, numPreferred |-> Preferred(line).value,
                     list |-> IF array.ok THEN array.list ELSE Null,
                     size |-> array.size, error |-> IF array.ok THEN "AYE" ELSE "IID"]
      /\ writes' = [writes EXCEPT !.server = array.writes - array.size]
  BY DEF ReadFields
<1> HIDE DEF array
<1> QED BY <1>1, <1>2, <1>3, <1>4 DEF array

LEMMA RequestStep == ConstantsAssumption /\ IInv /\ [Next]_vars => RequestType'
<1> SUFFICES ASSUME ConstantsAssumption, Types, RequestType, [Next]_vars
             PROVE  RequestType'
  BY DEF IInv
<1>1. CASE Send
  BY <1>1 DEF Send, RequestType
<1>2. CASE ReadError
  <2>1. Wanted(line).value \in Int /\ Preferred(line).value \in Int
    BY LineTypes DEF Types
  <2>2. request.list = Null
    BY <1>2 DEF ReadError, RequestType
  <2> QED BY <1>2, <2>1, <2>2 DEF ReadError, RequestType
<1>3. CASE ReadFields
  <2>1. at' = "read"
    BY <1>3 DEF ReadFields
  <2>2. \A s \in Seq(Int) : s # Null
    BY DEF ConstantsAssumption
  <2> QED BY <1>3, <2>1, <2>2, ReadRequest DEF RequestType
<1>4. CASE verifyRequestErrors
  <2>1. PICK room \in Rooms : request' = [request EXCEPT !.error = Verdict(room)]
    BY <1>4 DEF verifyRequestErrors
  <2>2. /\ Verdict(room) \in {"MAX", "NST", "FUL", request.error}
        /\ request.error \in {"AYE", "MAX", "NST", "IID", "FUL"}
        /\ at' = "answered"
    BY <1>4 DEF verifyRequestErrors, Verdict, RequestType
  <2> QED BY <2>1, <2>2 DEF RequestType
<1>5. CASE UNCHANGED vars
  BY <1>5 DEF vars, RequestType
<1> QED BY <1>1, <1>2, <1>3, <1>4, <1>5 DEF Next

LEMMA ReadStep == ConstantsAssumption /\ IInv /\ [Next]_vars => ReadOK'
<1> SUFFICES ASSUME ConstantsAssumption, Types, RequestType, ReadOK, [Next]_vars
             PROVE  ReadOK'
  BY DEF IInv
<1>1. CASE Send
  BY <1>1 DEF Send, ReadOK
<1>2. CASE ReadError
  BY <1>2 DEF ReadError, ReadOK, RequestType
<1>3. CASE ReadFields
  <2>1. UNCHANGED line
    BY <1>3 DEF ReadFields
  <2> QED BY <1>3, <2>1, ReadRequest DEF ReadOK
<1>4. CASE verifyRequestErrors
  <2>1. PICK room \in Rooms : request' = [request EXCEPT !.error = Verdict(room)]
    BY <1>4 DEF verifyRequestErrors
  <2>2. /\ at = "read" /\ at' = "answered" /\ UNCHANGED <<line, text>>
        /\ request.error # "ERR"
    BY <1>4 DEF verifyRequestErrors, RequestType
  <2>3. /\ request'.wanted = request.wanted /\ request'.list = request.list
        /\ request'.numPreferred = request.numPreferred /\ request'.size = request.size
    BY <2>1 DEF RequestType
  <2> QED BY <2>2, <2>3 DEF ReadOK
<1>5. CASE UNCHANGED vars
  BY <1>5 DEF vars, ReadOK
<1> QED BY <1>1, <1>2, <1>3, <1>4, <1>5 DEF Next

LEMMA ErrorStep == ConstantsAssumption /\ IInv /\ [Next]_vars => ErrorOK'
<1> SUFFICES ASSUME ConstantsAssumption, Types, SentOK, RequestType, ErrorOK, [Next]_vars
             PROVE  ErrorOK'
  BY DEF IInv
<1>1. CASE Send
  BY <1>1 DEF Send, ErrorOK
<1>2. CASE ReadError
  <2> SUFFICES ASSUME args[1] # <<>> PROVE request'.numPreferred = 0
    BY <1>2 DEF ErrorOK, ReadError
  <2>1. at = "sent" /\ args[2] \in Seq(Char)
    BY <1>2 DEF ReadError, Types
  <2>2. /\ Wanted(line).ok /\ Preferred(line).ok
        /\ Preferred(line).value = getIntAmount(args[2])
        /\ Selected(line) = Trimmed(args[2])
    BY <2>1, SentLine
  <2>3. Selected(line) = <<>>
    BY <1>2, <2>2 DEF ReadError
  <2>4. getIntAmount(args[2]) = 0
    BY <2>1, <2>2, <2>3, BlankList
  <2> QED BY <1>2, <2>2, <2>4 DEF ReadError, RequestType
<1>3. CASE ReadFields
  BY <1>3, ReadRequest DEF ErrorOK
<1>4. CASE verifyRequestErrors
  <2>1. PICK room \in Rooms : request' = [request EXCEPT !.error = Verdict(room)]
    BY <1>4 DEF verifyRequestErrors
  <2>2. Verdict(room) \in {"MAX", "NST", "FUL", request.error} /\ request.error # "ERR"
    BY <1>4 DEF verifyRequestErrors, Verdict, RequestType
  <2> QED BY <2>1, <2>2 DEF ErrorOK, RequestType
<1>5. CASE UNCHANGED vars
  BY <1>5 DEF vars, ErrorOK
<1> QED BY <1>1, <1>2, <1>3, <1>4, <1>5 DEF Next

LEMMA BookableStep == ConstantsAssumption /\ IInv /\ [Next]_vars => BookableOK'
<1> SUFFICES ASSUME ConstantsAssumption, Types, RequestType, ReadOK, BookableOK, [Next]_vars
             PROVE  BookableOK'
  BY DEF IInv
<1>1. CASE Send
  BY <1>1 DEF Send, BookableOK
<1>2. CASE ReadError
  BY <1>2 DEF ReadError, BookableOK, RequestType
<1>3. CASE ReadFields
  BY <1>3 DEF ReadFields, BookableOK
<1>4. CASE verifyRequestErrors
  <2>1. PICK room \in Rooms : request' = [request EXCEPT !.error = Verdict(room)]
    BY <1>4 DEF verifyRequestErrors
  <2>2. at = "read" /\ at' = "answered" /\ request.error # "ERR"
    BY <1>4 DEF verifyRequestErrors, RequestType
  <2> SUFFICES ASSUME Verdict(room) = "AYE" PROVE BookableOK'
    BY <2>1, <2>2 DEF BookableOK, RequestType
  <2>3. /\ ~(request.wanted > MaxCliSeats) /\ ~(request.size < request.wanted)
        /\ ~(room < request.wanted) /\ request.error = "AYE"
    BY DEF Verdict
  <2>4. /\ request.wanted = Wanted(line).value
        /\ LET array == stringToIntArray(text, TRUE)
           IN array.ok /\ request.list = array.list
    BY <2>2, <2>3 DEF ReadOK
  <2>5. request.wanted \in Int
    BY <2>4, LineTypes DEF Types
  <2>6. request.list # Null
    <3> DEFINE array == stringToIntArray(text, TRUE)
    <3>1. array.ok => array.list \in Seq(Int)
      BY ArrayOfString DEF Types
    <3> HIDE DEF array
    <3>2. request.list \in Seq(Int)
      BY <2>4, <3>1 DEF array
    <3> QED BY <3>2 DEF ConstantsAssumption
  <2>7. /\ request.wanted <= MaxCliSeats /\ request.wanted <= request.size
        /\ request.wanted <= room
    BY <2>3, <2>5 DEF RequestType, ConstantsAssumption
  <2>8. /\ request'.wanted = request.wanted /\ request'.list = request.list
        /\ request'.size = request.size
    BY <2>1 DEF RequestType
  <2> QED BY <2>6, <2>7, <2>8 DEF BookableOK
<1>5. CASE UNCHANGED vars
  BY <1>5 DEF vars, BookableOK
<1> QED BY <1>1, <1>2, <1>3, <1>4, <1>5 DEF Next

\* What one call of stringToIntArray stores next to what it allocated.
LEMMA StoresOfArray ==
  ASSUME NEW b \in Seq(Char)
  PROVE  LET meant == clientList(b)
             seen == stringToIntArray(Trimmed(b), TRUE)
         IN /\ meant.writes - meant.size \in Int /\ meant.writes - meant.size <= 1
            /\ WellFormed(b) => /\ meant.writes - meant.size <= 0
                                /\ seen.writes - seen.size <= 0
<1> DEFINE t == Trimmed(b)
           seen == stringToIntArray(t, TRUE)
           meant == stringToIntArray(b, FALSE)
           n == getIntAmount(b)
           found == Conversions(b)
<1>1. /\ t \in Seq(Char) /\ getIntAmount(t) = n /\ Conversions(t) = found
  BY TrimmedType, TrimmedNumbers, TrimmedAmount
<1>2. /\ meant.size = n /\ n \in Nat /\ found \in Seq(Int)
      /\ meant.writes \in Nat /\ meant.writes <= Len(found) /\ meant.writes <= n + 1
  BY ArrayOfString
<1> HIDE DEF t
<1>3. seen.size = n /\ seen.writes \in Nat /\ seen.writes <= Len(found)
  BY <1>1, ArrayOfString
<1>4. WellFormed(b) => Len(found) = n
  BY WellFormedList
<1> HIDE DEF seen, meant, n, found
<1>5. Len(found) \in Nat
  BY <1>2, LenProperties
<1>6. /\ meant.writes - meant.size \in Int /\ meant.writes - meant.size <= 1
      /\ WellFormed(b) => meant.writes - meant.size <= 0 /\ seen.writes - seen.size <= 0
  BY <1>2, <1>3, <1>4, <1>5
<1> QED BY <1>6 DEF clientList, meant, seen, t

LEMMA WritesStep == ConstantsAssumption /\ IInv /\ [Next]_vars => WritesOK'
<1> SUFFICES ASSUME ConstantsAssumption, Types, SentOK, WritesOK, [Next]_vars
             PROVE  WritesOK'
  BY DEF IInv
<1> DEFINE b == args[2]
<1>1. CASE Send
  <2> DEFINE more == clientList(b).writes - clientList(b).size
  <2>1. more \in Int /\ more <= 1 /\ (WellFormed(b) => more <= 0)
    BY StoresOfArray DEF Types
  <2>2. PICK stored \in {0, more} : writes' = [writes EXCEPT !.client = stored]
    BY <1>1 DEF Send
  <2>3. stored \in Int /\ stored <= 1 /\ (WellFormed(b) => stored <= 0)
    BY <2>1, <2>2
  <2>4. UNCHANGED args
    BY <1>1 DEF Send
  <2> HIDE DEF more
  <2> QED BY <2>2, <2>3, <2>4 DEF WritesOK, StoresInBounds
<1>2. CASE ReadError
  BY <1>2 DEF ReadError, WritesOK, StoresInBounds
<1>3. CASE ReadFields
  <2> DEFINE array == stringToIntArray(text', TRUE)
             more == array.writes - array.size
  <2>1. /\ array.writes \in Nat /\ array.size \in Nat /\ text' = Selected(line)
        /\ writes' = [writes EXCEPT !.server = more]
    BY <1>3, ReadRequest
  <2>2. array.writes <= array.size + 1
    BY <1>3, ReadRequest, ArrayOfString
  <2>3. at = "sent" /\ UNCHANGED args
    BY <1>3 DEF ReadFields
  <2>4. args[1] # <<>> => text' = Trimmed(b)
    BY <2>1, <2>3, SentLine
  <2>5. args[1] # <<>> /\ WellFormed(b) => more <= 0
    BY <2>4, StoresOfArray DEF Types
  <2> HIDE DEF array
  <2>6. more \in Int /\ more <= 1
    BY <2>1, <2>2
  <2> HIDE DEF more
  <2> QED BY <2>1, <2>3, <2>5, <2>6 DEF WritesOK, StoresInBounds
<1>4. CASE verifyRequestErrors
  BY <1>4 DEF verifyRequestErrors, WritesOK, StoresInBounds
<1>5. CASE UNCHANGED vars
  BY <1>5 DEF vars, WritesOK, StoresInBounds
<1> QED BY <1>1, <1>2, <1>3, <1>4, <1>5 DEF Next

\* What is left of the line for selectedSeats, even if the first argument is
\* empty and the number of seats is read in its place.
LEMMA ShortList ==
  ASSUME Types, SentOK, at = "sent", Preferred(line).ok
  PROVE  Len(Selected(line)) <= Len(args[2])
<1> DEFINE a == args[1]
           b == args[2]
           n == getIntAmount(b)
           l == Line(a, n, b)
           d == DigitsOf(n)
           t == <<Blank>> \o d
           q == Len(d)
           r == Len(b)
<1>1. /\ a \in Seq(Char) /\ b \in Seq(Char) /\ n \in Nat /\ line = l
      /\ Len(b) \in Nat
  BY AmountNatural, LenProperties DEF Types, SentOK
<1>2. CASE a # <<>>
  <2>1. Selected(line) = Trimmed(b)
    BY <1>2, SentLine
  <2>2. /\ Start(b, 1) - 1 \in Nat /\ Trimmed(b) \in Seq(Char)
        /\ Start(b, 1) - 1 + Len(Trimmed(b)) = Len(b)
    BY <1>1, TrimmedType
  <2> DEFINE o == Start(b, 1) - 1
  <2> HIDE DEF o, b
  <2>3. Len(Trimmed(b)) <= Len(b)
    BY <1>1, <2>2, LenProperties DEF o
  <2> QED BY <2>1, <2>3 DEF b
<1>3. CASE a = <<>>
  <2>1. /\ l \in Seq(Char) /\ d \in Seq(Char) /\ Len(l) = Len(a) + q + r + 2
        /\ Inside(t, l, Len(a)) /\ l[Len(a) + q + 2] = Blank
    BY <1>1, LineParts
  <2>2. /\ t \in Seq(Char) /\ Len(t) = q + 1
        /\ NumberAt(t, 1).ok /\ NumberAt(t, 1).next = Len(t) + 1
    BY <1>1, PrintedIsRead
  <2>3. Len(a) = 0 /\ q \in Nat /\ r \in Nat
    BY <1>1, <1>3, <2>1, LenProperties
  <2> HIDE DEF a, b, n, l, d, t, q, r
  <2>4. /\ Len(l) = q + r + 2 /\ Inside(t, l, 0) /\ l[q + 2] = Blank
        /\ 0 + Len(t) < Len(l) /\ l[0 + Len(t) + 1] = Blank /\ 1 \in 1..(Len(t) + 1)
        /\ 1 + 0 = 1 /\ Len(t) + 1 + 0 = q + 2 /\ 0 + q + 2 = q + 2 /\ 0 + Len(t) + 1 = q + 2
    <3>1. /\ 0 + q + 2 = q + 2 /\ 0 + Len(t) + 1 = q + 2 /\ 0 + q + r + 2 = q + r + 2
          /\ 1 + 0 = 1 /\ Len(t) + 1 + 0 = q + 2 /\ 1 \in 1..(Len(t) + 1)
          /\ 0 + Len(t) < q + r + 2
      BY <2>2, <2>3
    <3> QED BY <2>1, <2>3, <3>1
  <2>5. NumberAt(l, 1 + 0).next = NumberAt(t, 1).next + 0
    BY <2>1, <2>2, <2>4, NumberInside
  <2>6. Wanted(l).next = q + 2
    BY <2>2, <2>4, <2>5 DEF Wanted
  <2>7. q + 2 \in 1..(Len(l) + 1)
    BY <2>3, <2>4
  <2> DEFINE p == Preferred(l).next
             s == SkipOver(l, p, {Blank})
  <2>8. p > q + 2 /\ p \in (q + 2)..(Len(l) + 1)
    BY <1>1, <2>1, <2>6, <2>7, NumberType DEF Preferred
  <2> HIDE DEF p
  <2>9. s \in Nat /\ s >= p /\ s <= Len(l) + 1
    <3>1. p \in 1..(Len(l) + 1)
      BY <2>3, <2>4, <2>8
    <3>2. StopsAt(l, p, {Blank}, s)
      BY <2>1, <3>1, SkipOverStops
    <3> HIDE DEF s
    <3> QED BY <2>3, <2>4, <2>8, <3>2 DEF StopsAt
  <2> HIDE DEF s
  <2>10. Len(SubSeq(l, s, Len(l))) = IF s <= Len(l) THEN Len(l) - s + 1 ELSE 0
    <3>1. Len(l) \in Int /\ s \in Int /\ \A k \in s..Len(l) : k \in 1..Len(l)
      BY <2>3, <2>4, <2>8, <2>9
    <3>2. \A k \in s..Len(l) : l[k] \in Char
      BY <2>1, <3>1, ElementOfSeq
    <3> QED BY <3>1, <3>2, SubSeqProperties
  <2>11. Len(SubSeq(l, s, Len(l))) <= r
    BY <2>3, <2>4, <2>8, <2>9, <2>10
  <2> QED BY <1>1, <2>11 DEF Selected, s, p, r, b
<1> QED BY <1>2, <1>3

LEMMA LengthStep == ConstantsAssumption /\ IInv /\ [Next]_vars => LengthOK'
<1> SUFFICES ASSUME ConstantsAssumption, Types, SentOK, LengthOK, [Next]_vars
             PROVE  LengthOK'
  BY DEF IInv
<1>1. CASE ReadFields
  BY <1>1, ShortList DEF ReadFields, LengthOK
<1>2. CASE UNCHANGED <<args, text>>
  BY <1>2 DEF LengthOK
<1> QED
  BY <1>1, <1>2 DEF Next, Send, ReadError, verifyRequestErrors, vars

-----------------------------------------------------------------------------
(* The theorems                                                            *)

\* The inductive invariant holds for any arguments, rooms and limits.
THEOREM Invariance == Spec => []IInv
<1>1. Init => IInv
  BY ConstantsAssumption, InitInv
<1>2. IInv /\ [Next]_vars => IInv'
  BY ConstantsAssumption, TypesStep, SentStep, RequestStep, ReadStep, ErrorStep,
     BookableStep, WritesStep, LengthStep DEF IInv
<1> QED BY <1>1, <1>2, PTL DEF Spec

\* The types of the request on its way; a list the office has is as long as the
\* size it has noted (populateRequest, processClientMsg, stringToIntArray).
THEOREM TypeCorrect == Spec => []TypeOK
<1>1. IInv => TypeOK
  BY DEF IInv, Types, RequestType, TypeOK
<1> QED BY <1>1, Invariance, PTL

\* verifyRequestErrors lets a request through to booking only with a list of
\* positive seats, as long as the number wanted, within the limit and the room.
THEOREM AyeIsBookableHolds == Spec => []AyeIsBookable
<1>1. IInv => AyeIsBookable
  <2> SUFFICES ASSUME IInv, at = "answered", request.error = "AYE"
               PROVE  /\ request.list # Null
                      /\ \A k \in DOMAIN request.list : request.list[k] > 0
                      /\ request.wanted <= Len(request.list)
    BY DEF AyeIsBookable, IInv, BookableOK
  <2> DEFINE array == stringToIntArray(text, TRUE)
  <2>1. /\ request.list # Null /\ request.wanted <= request.size
        /\ Len(request.list) = request.size
        /\ array.ok /\ request.list = array.list
    BY DEF IInv, BookableOK, RequestType, ReadOK
  <2>2. /\ array.ok => /\ array.list \in Seq(Int) /\ Len(array.list) = array.size
                       /\ \A k \in 1..array.size : array.list[k] > 0
    <3> DEFINE size == getIntAmount(text)
               found == Conversions(text)
    <3>1. /\ array.size = size
          /\ array.ok => /\ \A k \in 1..size : found[k] > 0
                         /\ array.list \in Seq(Int) /\ Len(array.list) = size
                         /\ \A k \in 1..size : array.list[k] = found[k]
      BY ArrayOfString DEF IInv, Types
    <3> HIDE DEF array, size, found
    <3> QED BY <3>1
  <2> HIDE DEF array
  <2>3. DOMAIN array.list = 1..array.size
    BY <2>1, <2>2, LenProperties
  <2> QED BY <2>1, <2>2, <2>3
<1> QED BY <1>1, Invariance, PTL

\* What a request that was read holds, in terms of the arguments.
LEMMA RequestOfArgs ==
  ASSUME IInv, at \in {"read", "answered"}, args[1] # <<>>, request.error # "ERR"
  PROVE  LET meant == clientList(args[2])
         IN /\ request.wanted = checkValidIntArgument(args[1]).value
            /\ request.numPreferred = getIntAmount(args[2])
            /\ request.size = getIntAmount(args[2])
            /\ request.list # Null => request.list = meant.list
            /\ request.list = Null =>
                 ~(meant.ok /\ \A k \in 1..meant.size : meant.list[k] > 0)
<1> DEFINE meant == clientList(args[2])
           seen == stringToIntArray(Trimmed(args[2]), TRUE)
<1>1. /\ Wanted(line).value = checkValidIntArgument(args[1]).value
      /\ Preferred(line).value = getIntAmount(args[2])
      /\ Selected(line) = Trimmed(args[2])
  BY SentLine DEF IInv
<1>2. /\ request.wanted = Wanted(line).value
      /\ request.numPreferred = Preferred(line).value
      /\ request.size = seen.size
      /\ request.list = IF seen.ok THEN seen.list ELSE Null
  BY <1>1 DEF IInv, ReadOK
<1>3. /\ seen.size = getIntAmount(args[2])
      /\ seen.ok <=> meant.ok /\ \A k \in 1..meant.size : meant.list[k] > 0
      /\ seen.ok => seen.list = meant.list
  BY SameArrays DEF IInv, Types
<1>4. seen.ok => seen.list # Null
  <2>1. ASSUME seen.ok PROVE request.list # Null
    <3>1. Trimmed(args[2]) \in Seq(Char)
      BY TrimmedType DEF IInv, Types
    <3>2. seen.list \in Seq(Int)
      BY <2>1, <3>1, ArrayOfString
    <3> HIDE DEF seen
    <3> QED BY <1>2, <2>1, <3>2, ConstantsAssumption DEF ConstantsAssumption
  <2> QED BY <1>2, <2>1
<1> HIDE DEF seen, meant
<1> QED BY <1>1, <1>2, <1>3, <1>4 DEF meant

\* Client and office make the same list of the second argument, and as long,
\* whatever it is; only an empty first argument moves the fields.
THEOREM ServerAgreesWithClientHolds == Spec => []ServerAgreesWithClient
<1>1. IInv => ServerAgreesWithClient
  <2> SUFFICES ASSUME IInv, at \in {"read", "answered"}, args[1] # <<>>,
                      request.error # "ERR"
               PROVE  /\ request.size = request.numPreferred
                      /\ request.list # Null => request.list = clientList(args[2]).list
    BY DEF IInv, ErrorOK, ServerAgreesWithClient
  <2> QED BY RequestOfArgs
<1> QED BY <1>1, Invariance, PTL

\* A client given a number and a list of integers is let through, and the office
\* sees the number, and the seats in their order or, if one is not positive, none.
THEOREM ServerSeesArgsHolds == Spec => []ServerSeesArgs
<1>1. IInv => ServerSeesArgs
  <2> DEFINE b == args[2]
             meant == clientList(b)
             found == Conversions(b)
  <2> SUFFICES ASSUME IInv, args[1] # <<>>, checkValidIntArgument(args[1]).ok,
                      WellFormed(b)
               PROVE  /\ at # "refused"
                      /\ at = "read" =>
                           /\ request.wanted = checkValidIntArgument(args[1]).value
                           /\ request.numPreferred = Cardinality(Words(b))
                           /\ \/ request.list # Null /\ Denotes(request.list, b)
                              \/ /\ request.list = Null
                                 /\ \E k \in 1..request.numPreferred : meant.list[k] <= 0
    BY DEF ServerSeesArgs
  <2>1. b \in Seq(Char)
    BY DEF IInv, Types
  <2>2. /\ getIntAmount(b) = Cardinality(Words(b)) /\ Len(found) = getIntAmount(b)
        /\ Denotes(found, b)
    BY <2>1, WellFormedList
  <2>3. /\ found \in Seq(Int) /\ getIntAmount(b) \in Nat
        /\ meant.size = getIntAmount(b)
        /\ meant.ok
        /\ meant.list = SubSeq(found, 1, getIntAmount(b))
        /\ \A k \in 1..meant.size : meant.list[k] \in Int
    <3> DEFINE n == getIntAmount(b)
    <3>1. /\ found \in Seq(Int) /\ n \in Nat
          /\ meant.size = n
          /\ meant.ok <=> n <= Len(found)
          /\ meant.ok => meant.list = SubSeq(found, 1, n) /\ meant.list \in Seq(Int)
                         /\ Len(meant.list) = n
      BY <2>1, ArrayOfString DEF clientList
    <3> HIDE DEF meant, found, n, b
    <3>2. Len(found) = n
      BY <2>2 DEF n
    <3>3. meant.ok
      BY <3>1, <3>2
    <3>4. \A k \in 1..meant.size : meant.list[k] \in Int
      BY <3>1, <3>3, ElementOfSeq
    <3> QED BY <3>1, <3>3, <3>4 DEF n
  <2>4. meant.list = found
    <3> HIDE DEF found, meant
    <3> QED BY <2>2, <2>3, SubSeqFull
  <2>5. at # "refused"
    BY <2>3 DEF IInv, SentOK, populateRequest
  <2>6. ASSUME at = "read"
        PROVE  /\ request.wanted = checkValidIntArgument(args[1]).value
               /\ request.numPreferred = getIntAmount(b)
               /\ request.list # Null => request.list = meant.list
               /\ request.list = Null =>
                    ~(meant.ok /\ \A k \in 1..meant.size : meant.list[k] > 0)
    <3>1. request.error # "ERR"
      BY <2>6 DEF IInv, RequestType
    <3> QED BY <2>6, <3>1, RequestOfArgs
  <2> HIDE DEF meant, found
  <2>7. ASSUME at = "read", request.list = Null
        PROVE  \E k \in 1..request.numPreferred : meant.list[k] <= 0
    <3>1. PICK k \in 1..meant.size : ~(meant.list[k] > 0)
      BY <2>3, <2>6, <2>7
    <3> QED BY <2>3, <2>6, <2>7, <3>1
  <2> QED BY <2>2, <2>4, <2>5, <2>6, <2>7
<1> QED BY <1>1, Invariance, PTL

\* stringToIntArray stores at most one int past what it allocated, and none for
\* a list of integers.
THEOREM StoresInBoundsHolds == Spec => []StoresInBounds
<1>1. IInv => StoresInBounds
  BY DEF IInv, WritesOK
<1> QED BY <1>1, Invariance, PTL

\* selectedSeats has room for any list of at most MAX_CLI_SEATS words of
\* WIDTH_SEAT characters with single blanks, but for the NUL of the longest.
THEOREM ListsFitHolds == Spec => []ListsFit
<1>1. IInv => ListsFit
  <2> DEFINE b == args[2]
             c == Cardinality(Words(b))
             S == SelectedSeatsSize
  <2> SUFFICES ASSUME IInv, c <= MaxCliSeats,
                      \A w \in Words(b) : w[2] - w[1] + 1 <= WidthSeat,
                      \A k \in DOMAIN b : b[k] = Blank =>
                        k > 1 /\ k < Len(b) /\ b[k - 1] # Blank
               PROVE  Len(text) + 1 <= S \/ Len(b) = S
    BY DEF ListsFit
  <2>1. b \in Seq(Char) /\ Len(text) \in Nat /\ Len(b) \in Nat /\ Len(text) <= Len(b)
    BY LenProperties DEF IInv, Types, LengthOK
  <2>2. MaxCliSeats \in Nat \ {0} /\ WidthSeat \in Nat \ {0} /\ c \in Nat
    BY <2>1, ConstantsAssumption, FiniteWords, FS_CardinalityType DEF ConstantsAssumption
  <2>3. Len(b) + 1 <= MaxCliSeats * (WidthSeat + 1)
    <3>1. CASE Len(b) = 0
      <4>1. \A m, w \in Nat \ {0} : 1 <= m * (w + 1)
        OBVIOUS
      <4> QED BY <2>2, <3>1, <4>1
    <3>2. CASE Len(b) # 0
      <4>1. Len(b) + 1 <= c * (WidthSeat + 1)
        BY <2>1, <2>2, <3>2, WordsFit
      <4>2. \A x, m, w \in Nat : x <= m => x * (w + 1) <= m * (w + 1)
        OBVIOUS
      <4>3. c * (WidthSeat + 1) <= MaxCliSeats * (WidthSeat + 1)
        BY <2>2, <4>2
      <4>4. c * (WidthSeat + 1) \in Nat /\ MaxCliSeats * (WidthSeat + 1) \in Nat
        BY <2>2
      <4> HIDE DEF b, c
      <4> QED BY <2>1, <4>1, <4>3, <4>4
    <3> QED BY <3>1, <3>2
  <2>4. S = MaxCliSeats * (WidthSeat + 1) - 1
    BY <2>2 DEF SelectedSeatsSize
  <2>5. MaxCliSeats * (WidthSeat + 1) \in Nat
    BY <2>2
  <2> HIDE DEF b, c, S
  <2>6. S \in Int /\ Len(b) <= S
    BY <2>1, <2>3, <2>4, <2>5
  <2> QED BY <2>1, <2>6
<1> QED BY <1>1, Invariance, PTL
=============================================================================
