----------------------------- MODULE IpAddressProofs -----------------------------
(***************************************************************************)
(* What ip4_address and to_string compute, for every text and every        *)
(* address.  The library's induction theorems take an operator and cannot  *)
(* be used; Induction below takes a set, and rests on the least element of *)
(* a set of natural numbers (WFMin).  With it the folds and sums of the    *)
(* definitions are shown to exist, and the loop of the constructor to know *)
(* at each place what the text says up to there (Parsed).                  *)
(***************************************************************************)
EXTENDS IpAddress, SequenceTheorems, FiniteSetTheorems, WellFoundedInduction, TLAPS

(* A set of natural numbers that is not empty has a least element. *)
LEMMA LeastNumber ==
  ASSUME NEW T, T \subseteq Nat, T # {}
  PROVE  \E m \in T : \A n \in T : ~ (n < m)
<1> DEFINE R == {ss \in Nat \X Nat : ss[1] < ss[2]}
<1>1. IsWellFoundedOn(R, Nat)
  BY NatLessThanWellFounded DEF OpToRel
<1>2. PICK m \in T : \A n \in T : <<n, m>> \notin R
  <2> HIDE DEF R
  <2> QED BY <1>1, WFMin
<1> QED
  BY <1>2
(* Induction, of a set that is closed under "plus one". *)
LEMMA Induction ==
  ASSUME NEW P, 0 \in P, \A n \in Nat : n \in P => n + 1 \in P
  PROVE  \A n \in Nat : n \in P
<1> DEFINE T == {n \in Nat : n \notin P}
<1> SUFFICES ASSUME T # {} PROVE FALSE
  OBVIOUS
<1>1. PICK m \in T : \A n \in T : ~ (n < m)
  <2>1. T \subseteq Nat
    OBVIOUS
  <2> HIDE DEF T
  <2> QED BY <2>1, LeastNumber
<1>2. m - 1 \in Nat /\ m - 1 < m
  BY <1>1
<1> QED
  BY <1>1, <1>2

(* The variables of the loop. *)
State == [acc : Nat, bytes : Seq(Nat), returned : BOOLEAN]

(* The body of the loop keeps the types of its variables. *)
LEMMA CharacterStep ==
  ASSUME NEW s \in State, NEW c \in Characters
  PROVE  character(s, c) \in State
<1>1. CASE s.returned
  BY <1>1 DEF character
<1>2. CASE ~ s.returned /\ c \in 0..9
  <2>1. character(s, c) = digit(s, c)
    BY <1>2 DEF character, Dot, Letter
  <2>2. 10 * s.acc + c \in Nat
    BY <1>2 DEF State
  <2>3. digit(s, c) = [acc |-> 10 * s.acc + c, bytes |-> s.bytes, returned |-> (10 * s.acc + c > 255)]
    <3> DEFINE a == 10 * s.acc + c
               r == a > 255
    <3>1. digit(s, c) = [s EXCEPT !.acc = a, !.returned = r]
      BY DEF digit
    <3> HIDE DEF a, r
    <3>2. digit(s, c) = [acc |-> a, bytes |-> s.bytes, returned |-> r]
      BY <3>1 DEF State
    <3> QED
      BY <3>2 DEF a, r
  <2> QED
    BY <2>1, <2>2, <2>3 DEF State
<1>3. CASE ~ s.returned /\ c = Dot
  <2>1. character(s, c) = dot(s)
    BY <1>3 DEF character, Dot, Letter
  <2>2. CASE Len(s.bytes) = 3
    BY <2>1, <2>2 DEF dot, State
  <2>3. CASE Len(s.bytes) # 3
    <3>1. dot(s) = [acc |-> 0, bytes |-> Append(s.bytes, s.acc), returned |-> s.returned]
      BY <2>3 DEF dot, State
    <3>2. Append(s.bytes, s.acc) \in Seq(Nat)
      BY DEF State
    <3> QED
      BY <2>1, <3>1, <3>2 DEF State
  <2> QED
    BY <2>2, <2>3
<1>4. CASE ~ s.returned /\ c = Letter
  <2>1. character(s, c) = [s EXCEPT !.returned = TRUE]
    BY <1>4 DEF character, Dot, Letter
  <2> QED
    BY <1>4, <2>1 DEF State
<1> QED
  BY <1>1, <1>2, <1>3, <1>4 DEF Characters

(* The largest number up to n of a set that has n. *)
LEMMA MaxTop ==
  ASSUME NEW n \in Nat, NEW s \in SUBSET (1..n), n \in s
  PROVE  Max(s) = n
<1>1. \A y \in s : n >= y
  OBVIOUS
<1>2. \A x \in s : (\A y \in s : x >= y) => x = n
  OBVIOUS
<1> QED
  BY <1>1, <1>2 DEF Max

(* g is the fold of the first n characters, over the sets of their positions. *)
Folded(g, text, n) ==
  /\ g \in [SUBSET (1..n) -> State]
  /\ \A s \in SUBSET (1..n) :
       g[s] = IF s = {} THEN Start ELSE character(g[s \ {Max(s)}], text[Max(s)])

(* The recursion that defines FoldLeft has a solution: one for n characters extends to
   the sets that have place n + 1. *)
LEMMA FoldExists ==
  ASSUME NEW text \in Seq(Characters), NEW n \in Nat, n =< Len(text)
  PROVE  \E g : Folded(g, text, n)
<1> DEFINE P == {k \in Nat : k =< Len(text) => \E g : Folded(g, text, k)}
<1>1. 0 \in P
  <2> DEFINE g == [s \in SUBSET (1..0) |-> Start]
  <2>1. Start \in State
    BY DEF Start, State
  <2>2. \A s \in SUBSET (1..0) : s = {}
    OBVIOUS
  <2>3. Folded(g, text, 0)
    BY <2>1, <2>2 DEF Folded
  <2> QED
    BY <2>3
<1>2. ASSUME NEW k \in Nat, k \in P PROVE k + 1 \in P
  <2> SUFFICES ASSUME k + 1 =< Len(text) PROVE \E g : Folded(g, text, k + 1)
    OBVIOUS
  <2>1. PICK h : Folded(h, text, k)
    BY <1>2
  <2> DEFINE top == k + 1
             rest(s) == s \ {top}
             g == [s \in SUBSET (1..top) |->
                     IF top \in s THEN character(h[rest(s)], text[top]) ELSE h[s]]
  <2>2. \A s \in SUBSET (1..top) : rest(s) \in SUBSET (1..k) /\ (top \notin s => s \in SUBSET (1..k))
    OBVIOUS
  <2>3. text[top] \in Characters
    OBVIOUS
  <2>4. g \in [SUBSET (1..top) -> State]
    BY <2>1, <2>2, <2>3, CharacterStep DEF Folded
  <2>5. ASSUME NEW s \in SUBSET (1..top)
        PROVE  g[s] = IF s = {} THEN Start ELSE character(g[s \ {Max(s)}], text[Max(s)])
    <3>1. CASE top \in s
      <4>1. Max(s) = top
        BY <3>1, MaxTop
      <4>2. rest(s) \in SUBSET (1..top) /\ top \notin rest(s)
        OBVIOUS
      <4>3. g[rest(s)] = h[rest(s)] /\ g[s] = character(h[rest(s)], text[top])
        BY <3>1, <4>2
      <4> HIDE DEF g
      <4> QED
        BY <3>1, <4>1, <4>3
    <3>2. CASE top \notin s
      <4>1. s \in SUBSET (1..k) /\ s \ {Max(s)} \in SUBSET (1..k) /\ s \ {Max(s)} \in SUBSET (1..top)
        BY <2>2, <3>2
      <4>2. top \notin s \ {Max(s)}
        BY <3>2
      <4>3. g[s] = h[s] /\ g[s \ {Max(s)}] = h[s \ {Max(s)}]
        BY <3>2, <4>1, <4>2
      <4> HIDE DEF g
      <4> QED
        BY <2>1, <4>1, <4>3 DEF Folded
    <3> QED
      BY <3>1, <3>2
  <2> HIDE DEF g
  <2>6. Folded(g, text, top)
    BY <2>4, <2>5 DEF Folded
  <2> QED
    BY <2>6
<1> HIDE DEF P
<1>3. n \in P
  BY <1>1, <1>2, Induction
<1> QED
  BY <1>3 DEF P

(* run follows the loop of the constructor through the text. *)
Follows(run, text) ==
  /\ run \in [0..Len(text) -> State]
  /\ run[0] = Start
  /\ \A n \in 1..Len(text) : run[n] = character(run[n - 1], text[n])

(* FoldLeft is what the loop holds after the last character. *)
LEMMA RunOfText ==
  ASSUME NEW text \in Seq(Characters)
  PROVE  \E run : Follows(run, text) /\ FoldLeft(character, Start, text) = run[Len(text)]
<1> DEFINE D == DOMAIN text
           IsFold(g) == g = [s \in SUBSET D |->
                               IF s = {} THEN Start ELSE character(g[s \ {Max(s)}], text[Max(s)])]
<1>1. FoldLeft(character, Start, text) = (CHOOSE g : IsFold(g))[D]
  BY DEF FoldLeft, MapThenFoldSet
<1>2. D = 1..Len(text) /\ Len(text) \in Nat
  OBVIOUS
<1>3. PICK h : Folded(h, text, Len(text))
  BY <1>2, FoldExists
<1>4. IsFold(h)
  BY <1>2, <1>3 DEF Folded
<1>5. PICK g : IsFold(g) /\ g = (CHOOSE f : IsFold(f))
  BY <1>4
<1> DEFINE run == [n \in 0..Len(text) |-> g[1..n]]
<1>6. run[0] = Start
  <2>1. 1..0 = {} /\ {} \in SUBSET D
    OBVIOUS
  <2> QED
    BY <1>2, <1>5, <2>1
<1>7. ASSUME NEW n \in 1..Len(text)
      PROVE  run[n] = character(run[n - 1], text[n])
  <2>1. 1..n \in SUBSET D /\ 1..n # {} /\ n \in Nat /\ n - 1 \in 0..Len(text)
    BY <1>2
  <2>2. Max(1..n) = n
    BY <2>1, MaxTop
  <2>3. (1..n) \ {n} = 1..(n - 1)
    BY <2>1
  <2>4. g[1..n] = character(g[1..(n - 1)], text[n])
    BY <1>5, <2>1, <2>2, <2>3
  <2> QED
    BY <2>1, <2>4
<1>8. ASSUME NEW n \in Nat
      PROVE  n =< Len(text) => run[n] \in State
  <2> DEFINE P == {k \in Nat : k =< Len(text) => run[k] \in State}
  <2>1. 0 \in P
    BY <1>6 DEF Start, State
  <2>2. ASSUME NEW k \in Nat, k \in P PROVE k + 1 \in P
    <3> SUFFICES ASSUME k + 1 =< Len(text) PROVE run[k + 1] \in State
      OBVIOUS
    <3>1. k + 1 \in 1..Len(text) /\ (k + 1) - 1 = k /\ text[k + 1] \in Characters
      OBVIOUS
    <3>2. run[k] \in State
      BY <2>2, <3>1
    <3> HIDE DEF run
    <3> QED
      BY <1>7, <3>1, <3>2, CharacterStep
  <2> HIDE DEF P
  <2>3. n \in P
    BY <2>1, <2>2, Induction
  <2> QED
    BY <2>3 DEF P
<1>9. Follows(run, text)
  <2>1. run \in [0..Len(text) -> State]
    BY <1>8
  <2> HIDE DEF run
  <2> QED
    BY <1>6, <1>7, <2>1 DEF Follows
<1>10. run[Len(text)] = FoldLeft(character, Start, text)
  <2>1. FoldLeft(character, Start, text) = g[1..Len(text)]
    BY <1>1, <1>2, <1>5
  <2> QED
    BY <1>2, <2>1
<1> QED
  BY <1>9, <1>10

-------------------------------------------------------------------------------
(* TenTo is defined by a recursion that has a solution: the solutions up to each n agree. *)
LEMMA TenToExists ==
  \E g \in [Nat -> Nat] : g = [k \in Nat |-> IF k = 0 THEN 1 ELSE 10 * g[k - 1]]
<1> DEFINE Upto(h, n) == /\ h \in [0..n -> Nat] /\ h[0] = 1
                         /\ \A i \in 1..n : h[i] = 10 * h[i - 1]
           P == {n \in Nat : \E h : Upto(h, n)}
<1>1. 0 \in P
  <2> DEFINE h == [i \in 0..0 |-> 1]
  <2>1. Upto(h, 0)
    OBVIOUS
  <2> QED
    BY <2>1
<1>2. ASSUME NEW n \in Nat, n \in P PROVE n + 1 \in P
  <2>1. PICK h : Upto(h, n)
    BY <1>2
  <2> DEFINE g == [i \in 0..(n + 1) |-> IF i = n + 1 THEN 10 * h[n] ELSE h[i]]
  <2>2. Upto(g, n + 1)
    BY <2>1
  <2> HIDE DEF g, Upto
  <2>3. \E f : Upto(f, n + 1)
    BY <2>2
  <2> QED
    BY <2>3
<1>3. \A n \in Nat : \E h : Upto(h, n)
  <2> HIDE DEF P
  <2>1. \A n \in Nat : n \in P
    BY <1>1, <1>2, Induction
  <2> QED
    BY <2>1 DEF P
<1> DEFINE up == [n \in Nat |-> CHOOSE h : Upto(h, n)]
           g == [n \in Nat |-> up[n][n]]
<1>4. \A n \in Nat : Upto(up[n], n)
  BY <1>3
<1> HIDE DEF up
<1>5. ASSUME NEW m \in Nat, NEW n \in Nat
      PROVE  m =< n => up[m][m] = up[n][m]
  <2> DEFINE Q == {k \in Nat : k =< m => (k =< n => up[m][k] = up[n][k])}
  <2>1. 0 \in Q
    BY <1>4
  <2>2. ASSUME NEW k \in Nat, k \in Q PROVE k + 1 \in Q
    <3> SUFFICES ASSUME k + 1 =< m, k + 1 =< n PROVE up[m][k + 1] = up[n][k + 1]
      OBVIOUS
    <3>1. k + 1 \in 1..m /\ k + 1 \in 1..n /\ (k + 1) - 1 = k
      OBVIOUS
    <3>2. up[m][k + 1] = 10 * up[m][k] /\ up[n][k + 1] = 10 * up[n][k]
      BY <1>4, <3>1
    <3> QED
      BY <2>2, <3>2
  <2> HIDE DEF Q
  <2>3. m \in Q
    BY <2>1, <2>2, Induction
  <2> QED
    BY <2>3 DEF Q
<1>6. g \in [Nat -> Nat] /\ g[0] = 1
  BY <1>4
<1>7. ASSUME NEW k \in Nat, k # 0 PROVE g[k] = 10 * g[k - 1]
  <2>1. k \in 1..k /\ k - 1 \in Nat /\ k - 1 =< k
    BY <1>7
  <2>2. up[k][k] = 10 * up[k][k - 1]
    BY <1>4, <2>1
  <2>3. up[k - 1][k - 1] = up[k][k - 1]
    BY <1>5, <2>1
  <2> QED
    BY <2>1, <2>2, <2>3
<1> HIDE DEF g
<1>8. g = [k \in Nat |-> IF k = 0 THEN 1 ELSE 10 * g[k - 1]]
  BY <1>6, <1>7
<1> QED
  BY <1>6, <1>8

(* So its equations hold. *)
LEMMA TenToIs ==
  /\ TenTo[0] = 1
  /\ \A k \in Nat : TenTo[k] \in Nat /\ TenTo[k + 1] = 10 * TenTo[k]
<1> DEFINE IsTen(g) == g = [k \in Nat |-> IF k = 0 THEN 1 ELSE 10 * g[k - 1]]
<1>1. IsTen(TenTo)
  <2>1. \E g : IsTen(g)
    BY TenToExists
  <2>2. TenTo = CHOOSE g : IsTen(g)
    BY DEF TenTo
  <2> QED
    BY <2>1, <2>2
<1>2. TenTo[0] = 1 /\ \A k \in Nat : TenTo[k + 1] = 10 * TenTo[k]
  BY <1>1
<1> DEFINE P == {k \in Nat : TenTo[k] \in Nat}
<1>3. 0 \in P
  BY <1>2
<1>4. \A k \in Nat : k \in P => k + 1 \in P
  BY <1>2
<1> HIDE DEF P
<1>5. \A k \in Nat : k \in P
  BY <1>3, <1>4, Induction
<1> QED
  BY <1>2, <1>5 DEF P
(* The element the fold of a sum takes next. *)
Pick(s) == CHOOSE x \in s : TRUE

(* g is the sum of f over each set of numbers up to n. *)
SumOf(g, f, n) ==
  /\ n \in Nat /\ f \in [1..n -> Nat]
  /\ g = [s \in SUBSET (1..n) |-> IF s = {} THEN 0 ELSE f[Pick(s)] + g[s \ {Pick(s)}]]

(* What is left of a set of numbers without one of them. *)
LEMMA OneLess ==
  ASSUME NEW n \in Nat, NEW s \in SUBSET (1..n)
  PROVE  /\ Cardinality(s) \in Nat /\ Cardinality(s) =< n
         /\ s # {} => Pick(s) \in s
         /\ s # {} => Cardinality(s) # 0
         /\ \A y \in s : /\ s \ {y} \in SUBSET (1..n)
                         /\ Cardinality(s \ {y}) = Cardinality(s) - 1
<1>1. IsFiniteSet(1..n) /\ Cardinality(1..n) = n
  <2>1. IsFiniteSet(1..n) /\ Cardinality(1..n) = IF 1 > n THEN 0 ELSE n - 1 + 1
    BY FS_Interval
  <2> QED
    BY <2>1
<1>2. IsFiniteSet(s) /\ Cardinality(s) =< n
  BY <1>1, FS_Subset
<1>3. Cardinality(s) \in Nat
  BY <1>2, FS_CardinalityType
<1>4. s # {} => Cardinality(s) # 0
  BY <1>2, FS_EmptySet
<1>5. \A y \in s : Cardinality(s \ {y}) = Cardinality(s) - 1
  BY <1>2, FS_RemoveElement
<1>6. s # {} => Pick(s) \in s
  BY DEF Pick
<1> QED
  BY <1>2, <1>3, <1>4, <1>5, <1>6

(* There is a sum: one that is right for sets of k numbers gives one for k + 1. *)
LEMMA SumExists ==
  ASSUME NEW n \in Nat, NEW f \in [1..n -> Nat]
  PROVE  \E g : SumOf(g, f, n)
<1> DEFINE S == SUBSET (1..n)
           Upto(g, k) ==
             /\ g \in [S -> Nat]
             /\ \A s \in S : Cardinality(s) =< k =>
                  g[s] = IF s = {} THEN 0 ELSE f[Pick(s)] + g[s \ {Pick(s)}]
           P == {k \in Nat : \E g : Upto(g, k)}
<1>0. /\ {} \in S
      /\ \A s \in S : /\ Cardinality(s) \in Nat /\ (s = {} <=> Cardinality(s) = 0)
                      /\ s # {} => Pick(s) \in s
                      /\ \A y \in s : /\ f[y] \in Nat /\ s \ {y} \in S
                                      /\ Cardinality(s \ {y}) = Cardinality(s) - 1
  BY OneLess, FS_EmptySet
<1>a. \A s \in S : Cardinality(s) =< n
  BY OneLess
<1>b. S = SUBSET (1..n)
  OBVIOUS
<1> HIDE DEF S
<1>1. 0 \in P
  <2> DEFINE g == [s \in S |-> 0]
  <2>1. g \in [S -> Nat] /\ \A s \in S : g[s] = 0
    OBVIOUS
  <2>2. \A s \in S : Cardinality(s) =< 0 => s = {}
    BY <1>0
  <2> HIDE DEF g
  <2>3. Upto(g, 0)
    BY <2>1, <2>2
  <2> HIDE DEF Upto
  <2> QED
    BY <2>3
<1>2. ASSUME NEW k \in Nat, k \in P PROVE k + 1 \in P
  <2>1. PICK h : Upto(h, k)
    BY <1>2
  <2> DEFINE g == [s \in S |-> IF Cardinality(s) =< k THEN h[s]
                               ELSE f[Pick(s)] + h[s \ {Pick(s)}]]
  <2>2. ASSUME NEW s \in S, s # {}
        PROVE  /\ Pick(s) \in s /\ f[Pick(s)] \in Nat /\ s \ {Pick(s)} \in S
               /\ Cardinality(s) \in Nat
               /\ Cardinality(s \ {Pick(s)}) = Cardinality(s) - 1
    BY <1>0, <2>2
  <2>3. ASSUME NEW s \in S PROVE Cardinality(s) \in Nat /\ (~ Cardinality(s) =< k => s # {})
    BY <1>0
  <2>4. g \in [S -> Nat]
    <3> SUFFICES ASSUME NEW s \in S PROVE g[s] \in Nat
      OBVIOUS
    <3>1. CASE Cardinality(s) =< k
      BY <2>1, <3>1
    <3>2. CASE ~ Cardinality(s) =< k
      <4>1. f[Pick(s)] \in Nat /\ s \ {Pick(s)} \in S
        BY <2>2, <2>3, <3>2
      <4>2. h[s \ {Pick(s)}] \in Nat
        BY <2>1, <4>1
      <4>3. g[s] = f[Pick(s)] + h[s \ {Pick(s)}]
        BY <3>2
      <4> QED
        BY <4>1, <4>2, <4>3
    <3> QED
      BY <3>1, <3>2
  <2>5. ASSUME NEW s \in S, Cardinality(s) =< k + 1
        PROVE  g[s] = IF s = {} THEN 0 ELSE f[Pick(s)] + g[s \ {Pick(s)}]
    <3>1. CASE s = {}
      <4>1. Cardinality(s) =< k
        BY <1>0, <3>1
      <4> QED
        BY <2>1, <3>1, <4>1
    <3>2. CASE s # {}
      <4>1. /\ s \ {Pick(s)} \in S /\ Cardinality(s \ {Pick(s)}) =< k
        <5>1. s \ {Pick(s)} \in S /\ Cardinality(s \ {Pick(s)}) = Cardinality(s) - 1
          BY <2>2, <3>2
        <5>2. Cardinality(s) \in Nat
          BY <2>3
        <5> QED
          BY <2>5, <5>1, <5>2
      <4>2. g[s \ {Pick(s)}] = h[s \ {Pick(s)}]
        BY <4>1
      <4>3. g[s] = f[Pick(s)] + h[s \ {Pick(s)}]
        BY <2>1, <3>2
      <4> HIDE DEF g
      <4> QED
        BY <3>2, <4>2, <4>3
    <3> QED
      BY <3>1, <3>2
  <2> HIDE DEF g
  <2>6. Upto(g, k + 1)
    BY <2>4, <2>5
  <2> HIDE DEF Upto
  <2> QED
    BY <2>6
<1> HIDE DEF P
<1>3. n \in P
  BY <1>1, <1>2, Induction
<1>4. PICK g : Upto(g, n)
  BY <1>3 DEF P
<1>5. \A s \in S : g[s] = IF s = {} THEN 0 ELSE f[Pick(s)] + g[s \ {Pick(s)}]
  BY <1>4, <1>a
<1>6. SumOf(g, f, n)
  BY <1>4, <1>5, <1>b DEF SumOf
<1> QED
  BY <1>6

(* The order of the summands does not matter. *)
LEMMA SumSplits ==
  ASSUME NEW n, NEW f, NEW g, SumOf(g, f, n), NEW s \in SUBSET (1..n)
  PROVE  /\ g[s] \in Nat
         /\ s = {} => g[s] = 0
         /\ \A y \in s : g[s] = f[y] + g[s \ {y}]
<1> DEFINE S == SUBSET (1..n)
<1>0. n \in Nat /\ f \in [1..n -> Nat]
  BY DEF SumOf
<1>1. g[{}] = 0
  BY DEF SumOf
<1>2. /\ {} \in S
      /\ \A t \in S : /\ Cardinality(t) \in Nat
                      /\ t # {} => Pick(t) \in t /\ Cardinality(t) # 0
                      /\ \A y \in t : /\ f[y] \in Nat /\ t \ {y} \in S
                                      /\ Cardinality(t \ {y}) = Cardinality(t) - 1
  BY <1>0, OneLess
<1>3. \A t \in S : t # {} => g[t] = f[Pick(t)] + g[t \ {Pick(t)}]
  BY DEF SumOf
<1>4. s \in S
  OBVIOUS
<1> HIDE DEF S
<1>5. \A t \in S : g[t] \in Nat
  <2> DEFINE P == {k \in Nat : \A t \in S : Cardinality(t) = k => g[t] \in Nat}
  <2>1. 0 \in P
    <3> SUFFICES ASSUME NEW t \in S, Cardinality(t) = 0 PROVE g[t] \in Nat
      OBVIOUS
    <3>1. t = {}
      BY <1>2
    <3> QED
      BY <1>1, <3>1
  <2>2. ASSUME NEW k \in Nat, k \in P PROVE k + 1 \in P
    <3> SUFFICES ASSUME NEW t \in S, Cardinality(t) = k + 1 PROVE g[t] \in Nat
      OBVIOUS
    <3>1. t = {} \/ Pick(t) \in t
      BY <1>2
    <3>2. CASE t = {}
      BY <1>1, <3>2
    <3>3. CASE t # {}
      <4>1. Pick(t) \in t /\ g[t] = f[Pick(t)] + g[t \ {Pick(t)}]
        BY <1>3, <3>1, <3>3
      <4>2. t \ {Pick(t)} \in S /\ Cardinality(t \ {Pick(t)}) = k /\ f[Pick(t)] \in Nat
        BY <1>2, <4>1
      <4>3. g[t \ {Pick(t)}] \in Nat
        BY <2>2, <4>2
      <4> QED
        BY <4>1, <4>2, <4>3
    <3> QED
      BY <3>2, <3>3
  <2> HIDE DEF P
  <2>3. \A k \in Nat : k \in P
    BY <2>1, <2>2, Induction
  <2> QED
    BY <1>2, <2>3 DEF P
<1>6. \A t \in S : \A y \in t : g[t] = f[y] + g[t \ {y}]
  <2> DEFINE P == {k \in Nat : \A t \in S : Cardinality(t) = k =>
                                 \A y \in t : g[t] = f[y] + g[t \ {y}]}
  <2>1. 0 \in P
    <3> SUFFICES ASSUME NEW t \in S, Cardinality(t) = 0, NEW y \in t PROVE FALSE
      OBVIOUS
    <3> QED
      BY <1>2
  <2>2. ASSUME NEW k \in Nat, k \in P PROVE k + 1 \in P
    <3> SUFFICES ASSUME NEW t \in S, Cardinality(t) = k + 1, NEW y \in t
                 PROVE  g[t] = f[y] + g[t \ {y}]
      OBVIOUS
    <3> DEFINE x == Pick(t)
    <3>1. x \in t /\ g[t] = f[x] + g[t \ {x}]
      BY <1>2, <1>3
    <3> HIDE DEF x
    <3>2. CASE y = x
      BY <3>1, <3>2
    <3>3. CASE y # x
      <4>1. /\ t \ {x} \in S /\ Cardinality(t \ {x}) = k /\ y \in t \ {x}
            /\ t \ {y} \in S /\ Cardinality(t \ {y}) = k /\ x \in t \ {y}
            /\ f[x] \in Nat /\ f[y] \in Nat
        BY <1>2, <3>1, <3>3
      <4> DEFINE rest == (t \ {x}) \ {y}
      <4>2. rest = (t \ {y}) \ {x}
        OBVIOUS
      <4>3. rest \in S
        BY <1>2, <4>1
      <4>4. g[t \ {x}] = f[y] + g[rest]
        BY <2>2, <4>1
      <4>5. g[t \ {y}] = f[x] + g[(t \ {y}) \ {x}]
        BY <2>2, <4>1
      <4>6. g[rest] \in Nat
        BY <1>5, <4>3
      <4> HIDE DEF rest
      <4> QED
        BY <3>1, <4>1, <4>2, <4>4, <4>5, <4>6
    <3> QED
      BY <3>2, <3>3
  <2> HIDE DEF P
  <2>3. \A k \in Nat : k \in P
    BY <2>1, <2>2, Induction
  <2> QED
    BY <1>2, <2>3 DEF P
<1> QED
  BY <1>1, <1>4, <1>5, <1>6

-------------------------------------------------------------------------------
(* Ten times the summands, ten times the sum. *)
LEMMA SumScales ==
  ASSUME NEW n, NEW f, NEW g, SumOf(g, f, n), NEW m, NEW e, NEW h, SumOf(h, e, m),
         n =< m, \A i \in 1..n : e[i] = 10 * f[i]
  PROVE  \A s \in SUBSET (1..n) : h[s] = 10 * g[s]
<1> DEFINE S == SUBSET (1..n)
           P == {k \in Nat : \A s \in S : Cardinality(s) = k => h[s] = 10 * g[s]}
<1>0. n \in Nat /\ f \in [1..n -> Nat] /\ m \in Nat
  BY DEF SumOf
<1>1. /\ {} \in S
      /\ \A s \in S : /\ Cardinality(s) \in Nat
                      /\ s # {} => Pick(s) \in s /\ Cardinality(s) # 0
                      /\ \A y \in s : /\ e[y] = 10 * f[y] /\ f[y] \in Nat /\ s \ {y} \in S
                                      /\ Cardinality(s \ {y}) = Cardinality(s) - 1
  BY <1>0, OneLess
<1>2. /\ g[{}] = 0 /\ h[{}] = 0
      /\ \A s \in S : s # {} => g[s] = f[Pick(s)] + g[s \ {Pick(s)}]
  BY DEF SumOf
<1>3. S \in SUBSET (SUBSET (1..m))
  BY <1>0
<1>4. \A s \in S : s # {} => h[s] = e[Pick(s)] + h[s \ {Pick(s)}]
  BY <1>3 DEF SumOf
<1>5. \A s \in S : g[s] \in Nat
  BY SumSplits
<1> HIDE DEF S
<1>6. 0 \in P
  <2> SUFFICES ASSUME NEW s \in S, Cardinality(s) = 0 PROVE h[s] = 10 * g[s]
    OBVIOUS
  <2>1. s = {}
    BY <1>1
  <2> QED
    BY <1>2, <2>1
<1>7. ASSUME NEW k \in Nat, k \in P PROVE k + 1 \in P
  <2> SUFFICES ASSUME NEW s \in S, Cardinality(s) = k + 1 PROVE h[s] = 10 * g[s]
    OBVIOUS
  <2>1. CASE s = {}
    BY <1>2, <2>1
  <2>2. CASE s # {}
    <3> DEFINE x == Pick(s)
    <3>1. x \in s /\ g[s] = f[x] + g[s \ {x}] /\ h[s] = e[x] + h[s \ {x}]
      BY <1>1, <1>2, <1>4, <2>2
    <3> HIDE DEF x
    <3>2. /\ e[x] = 10 * f[x] /\ f[x] \in Nat /\ s \ {x} \in S
          /\ Cardinality(s \ {x}) = Cardinality(s) - 1
      BY <1>1, <3>1, Zenon
    <3>4. Cardinality(s \ {x}) = k
      BY <3>2
    <3>3. h[s \ {x}] = 10 * g[s \ {x}] /\ g[s \ {x}] \in Nat
      BY <1>5, <1>7, <3>2, <3>4
    <3> QED
      BY <3>1, <3>2, <3>3
  <2> QED
    BY <2>1, <2>2
<1> HIDE DEF P
<1>8. \A k \in Nat : k \in P
  BY <1>6, <1>7, Induction
<1>9. \A s \in S : h[s] = 10 * g[s]
  BY <1>1, <1>8 DEF P
<1> QED
  BY <1>9 DEF S

(* One more summand, the others ten times as large. *)
LEMMA SumGrows ==
  ASSUME NEW n, NEW f, NEW g, SumOf(g, f, n), NEW e, NEW h, SumOf(h, e, n + 1),
         \A i \in 1..n : e[i] = 10 * f[i]
  PROVE  /\ g[1..n] \in Nat
         /\ h[1..(n + 1)] = e[n + 1] + 10 * g[1..n]
<1>0. n \in Nat
  BY DEF SumOf
<1>1. PICK m \in Nat : m = n + 1
  BY <1>0
<1>2. SumOf(h, e, m) /\ n =< m
  BY <1>0, <1>1
<1>3. 1..n \in SUBSET (1..n) /\ 1..m \in SUBSET (1..m) /\ m \in 1..m
  BY <1>0, <1>1
<1>4. \A s \in SUBSET (1..n) : h[s] = 10 * g[s]
  BY <1>2, SumScales
<1>6. h[1..m] = e[m] + h[(1..m) \ {m}]
  <2> DEFINE all == 1..m
  <2>1. all \in SUBSET (1..m) /\ m \in all
    BY <1>3
  <2> HIDE DEF all
  <2>2. \A y \in all : h[all] = e[y] + h[all \ {y}]
    BY <1>2, <2>1, SumSplits
  <2> QED
    BY <2>1, <2>2 DEF all
<1>7. (1..m) \ {m} = 1..n
  BY <1>0, <1>1
<1>8. g[1..n] \in Nat
  BY <1>3, SumSplits
<1> QED
  BY <1>1, <1>3, <1>4, <1>6, <1>7, <1>8

(* The digits of a part by the place they stand at. *)
Weighed(part) == [i \in 1..Len(part) |-> part[i] * TenTo[Len(part) - i]]

(* The weighed digits are numbers. *)
LEMMA WeighedInNat ==
  ASSUME NEW part \in Seq(Characters)
  PROVE  Weighed(part) \in [1..Len(part) -> Nat]
<1> SUFFICES ASSUME NEW i \in 1..Len(part) PROVE part[i] * TenTo[Len(part) - i] \in Nat
  BY DEF Weighed
<1>1. part[i] \in Nat
  BY DEF Characters, Dot, Letter
<1>2. Len(part) - i \in Nat
  OBVIOUS
<1>3. TenTo[Len(part) - i] \in Nat
  BY <1>2, TenToIs
<1> QED
  BY <1>1, <1>3

(* Number is such a sum. *)
LEMMA NumberIsSum ==
  ASSUME NEW part \in Seq(Characters)
  PROVE  \E g : SumOf(g, Weighed(part), Len(part)) /\ Number(part) = g[1..Len(part)]
<1> DEFINE n == Len(part)
           IsSum(g) == g = [s \in SUBSET (1..n) |->
                              IF s = {} THEN 0
                              ELSE part[Pick(s)] * TenTo[n - Pick(s)] + g[s \ {Pick(s)}]]
<1>1. Number(part) = (CHOOSE g : IsSum(g))[1..n]
  BY DEF Number, MapThenSumSet, MapThenFoldSet, Pick
<1>2. ASSUME NEW g PROVE SumOf(g, Weighed(part), n) <=> IsSum(g)
  <2>1. \A s \in SUBSET (1..n) : s # {} => Pick(s) \in 1..n
    BY DEF Pick
  <2>2. \A s \in SUBSET (1..n) : s # {} => Weighed(part)[Pick(s)] = part[Pick(s)] * TenTo[n - Pick(s)]
    BY <2>1 DEF Weighed
  <2>3. [s \in SUBSET (1..n) |->
            IF s = {} THEN 0 ELSE Weighed(part)[Pick(s)] + g[s \ {Pick(s)}]]
        = [s \in SUBSET (1..n) |->
            IF s = {} THEN 0 ELSE part[Pick(s)] * TenTo[n - Pick(s)] + g[s \ {Pick(s)}]]
    BY <2>2
  <2>4. n \in Nat /\ Weighed(part) \in [1..n -> Nat]
    BY WeighedInNat
  <2>5. SumOf(g, Weighed(part), n)
        <=> g = [s \in SUBSET (1..n) |->
                   IF s = {} THEN 0 ELSE Weighed(part)[Pick(s)] + g[s \ {Pick(s)}]]
    BY <2>4 DEF SumOf
  <2> QED
    BY <2>3, <2>5, Zenon
<1>3. \E g : SumOf(g, Weighed(part), n)
  BY WeighedInNat, SumExists
<1> HIDE DEF IsSum
<1>4. PICK g : IsSum(g) /\ g = CHOOSE f : IsSum(f)
  BY <1>2, <1>3
<1> QED
  BY <1>1, <1>2, <1>4

(* A character more: ten times the number, and the character. *)
LEMMA NumberGrows ==
  ASSUME NEW part \in Seq(Characters), NEW c \in Characters
  PROVE  Number(part) \in Nat /\ Number(Append(part, c)) = 10 * Number(part) + c
<1> DEFINE n == Len(part)
           more == Append(part, c)
           f == Weighed(part)
           e == Weighed(more)
<1>1. n \in Nat /\ more \in Seq(Characters) /\ Len(more) = n + 1
      /\ more[n + 1] = c /\ \A i \in 1..n : more[i] = part[i]
  OBVIOUS
<1>2. PICK g : SumOf(g, f, n) /\ Number(part) = g[1..n]
  BY NumberIsSum
<1>3. PICK h : SumOf(h, e, n + 1) /\ Number(more) = h[1..(n + 1)]
  BY <1>1, NumberIsSum
<1>4. f \in [1..n -> Nat] /\ e \in [1..(n + 1) -> Nat]
  BY <1>1, WeighedInNat
<1>0. n \in Nat
  OBVIOUS
<1>5. ASSUME NEW i \in 1..n PROVE e[i] = 10 * f[i]
  <2> DEFINE t == TenTo[n - i]
  <2>1. n - i \in Nat /\ (n + 1) - i = (n - i) + 1
    BY <1>1
  <2>2. t \in Nat /\ TenTo[(n + 1) - i] = 10 * t
    BY <2>1, TenToIs
  <2>3. e[i] = part[i] * TenTo[(n + 1) - i] /\ f[i] = part[i] * t
    BY <1>1 DEF Weighed
  <2>4. part[i] \in Nat
    BY DEF Characters, Dot, Letter
  <2> HIDE DEF t, n, f, e
  <2>5. \A a, b \in Nat : a * (10 * b) = 10 * (a * b)
    OBVIOUS
  <2> QED
    BY <2>2, <2>3, <2>4, <2>5
<1>6. e[n + 1] = c
  <2>1. e[n + 1] = more[n + 1] * TenTo[(n + 1) - (n + 1)]
    BY <1>1 DEF Weighed
  <2>2. (n + 1) - (n + 1) = 0 /\ c \in Nat
    BY <1>1 DEF Characters, Dot, Letter
  <2>3. TenTo[0] = 1 /\ more[n + 1] = c
    BY <1>1, TenToIs
  <2> HIDE DEF n, more, e
  <2>4. e[n + 1] = c * 1
    BY <2>1, <2>2, <2>3
  <2> QED
    BY <2>2, <2>4
<1> HIDE DEF n, f, e, more
<1>7. g[1..n] \in Nat /\ h[1..(n + 1)] = e[n + 1] + 10 * g[1..n]
  BY <1>2, <1>3, <1>5, SumGrows
<1>12. c \in Nat
  BY DEF Characters, Dot, Letter
<1>13. Number(more) = 10 * Number(part) + c
  <2>1. Number(more) = c + 10 * Number(part) /\ Number(part) \in Nat
    BY <1>2, <1>3, <1>6, <1>7
  <2> QED
    BY <1>12, <2>1
<1> QED
  BY <1>2, <1>7, <1>13 DEF more

(* An empty part is 0. *)
LEMMA NumberOfNothing ==
  Number(<< >>) = 0
<1>1. << >> \in Seq(Characters) /\ Len(<< >>) = 0
  OBVIOUS
<1>2. PICK g : SumOf(g, Weighed(<< >>), 0) /\ Number(<< >>) = g[1..0]
  BY <1>1, NumberIsSum
<1>3. 1..0 = {}
  OBVIOUS
<1> QED
  BY <1>2, <1>3 DEF SumOf

-------------------------------------------------------------------------------
(* How many dots there are up to place n. *)
Rank(text, n) == Cardinality({j \in Dots(text) : j =< n})

(* The rank starts with 0, grows by one at each dot, and nowhere else. *)
LEMMA RankCounts ==
  ASSUME NEW text \in Seq(Characters)
  PROVE  /\ \A n \in Nat : Rank(text, n) \in Nat
         /\ Rank(text, 0) = 0
         /\ Rank(text, Len(text)) = Cardinality(Dots(text))
         /\ \A n \in 0..(Len(text) - 1) :
              Rank(text, n + 1) = Rank(text, n) + IF text[n + 1] = Dot THEN 1 ELSE 0
         /\ \A i, j \in Nat : i =< j => Rank(text, i) =< Rank(text, j)
         /\ \A i \in Nat : \A j \in Dots(text) : i < j => Rank(text, i) < Rank(text, j)
<1> DEFINE L == Len(text)
           D == Dots(text)
           Upto(n) == {j \in D : j =< n}
<1>1. L \in Nat /\ D \in SUBSET (1..L)
  BY DEF Dots
<1>2. IsFiniteSet(D)
  <2>1. IsFiniteSet(1..L)
    BY <1>1, FS_Interval
  <2> QED
    BY <1>1, <2>1, FS_Subset
<1>3. \A n \in Nat : IsFiniteSet(Upto(n)) /\ Cardinality(Upto(n)) \in Nat
  BY <1>2, FS_Subset, FS_CardinalityType
<1>4. Upto(0) = {} /\ Upto(L) = D
  BY <1>1
<1>5. Cardinality({}) = 0
  BY FS_EmptySet
<1>6. ASSUME NEW n \in 0..(L - 1)
      PROVE  Cardinality(Upto(n + 1)) = Cardinality(Upto(n)) + IF text[n + 1] = Dot THEN 1 ELSE 0
  <2>1. n \in Nat /\ n + 1 \in 1..L
    BY <1>1
  <2>2. n + 1 \in D <=> text[n + 1] = Dot
    BY <2>1 DEF Dots
  <2>3. CASE text[n + 1] = Dot
    <3>1. Upto(n + 1) = Upto(n) \cup {n + 1} /\ n + 1 \notin Upto(n)
      BY <1>1, <2>1, <2>2, <2>3
    <3> HIDE DEF Upto
    <3>2. Cardinality(Upto(n) \cup {n + 1}) = Cardinality(Upto(n)) + 1
      BY <1>3, <2>1, <3>1, FS_AddElement
    <3> QED
      BY <2>3, <3>1, <3>2
  <2>4. CASE text[n + 1] # Dot
    <3>1. Upto(n + 1) = Upto(n)
      BY <1>1, <2>1, <2>2, <2>4
    <3> HIDE DEF Upto
    <3> QED
      BY <1>3, <2>1, <2>4, <3>1
  <2> QED
    BY <2>3, <2>4
<1>7. ASSUME NEW i \in Nat, NEW j \in Nat, i =< j
      PROVE  /\ Cardinality(Upto(i)) =< Cardinality(Upto(j))
             /\ j \in D /\ i < j => Cardinality(Upto(i)) < Cardinality(Upto(j))
  <2>1. Upto(i) \in SUBSET Upto(j)
    BY <1>1, <1>7
  <2>2. j \in D /\ i < j => Upto(i) # Upto(j)
    OBVIOUS
  <2> HIDE DEF Upto
  <2>3. /\ Cardinality(Upto(i)) =< Cardinality(Upto(j))
        /\ Cardinality(Upto(j)) = Cardinality(Upto(i)) => Upto(j) = Upto(i)
    BY <1>3, <2>1, FS_Subset
  <2>4. Cardinality(Upto(i)) \in Nat /\ Cardinality(Upto(j)) \in Nat
    BY <1>3
  <2> QED
    BY <2>2, <2>3, <2>4
<1>8. \A n : Rank(text, n) = Cardinality(Upto(n))
  BY DEF Rank
<1> HIDE DEF Upto
<1>9. \A j \in D : j \in Nat
  BY <1>1
<1>10. /\ \A n \in Nat : Rank(text, n) \in Nat
       /\ Rank(text, 0) = 0 /\ Rank(text, L) = Cardinality(D)
  BY <1>3, <1>4, <1>5, <1>8
<1>11. \A n \in 0..(L - 1) : Rank(text, n + 1) = Rank(text, n) + IF text[n + 1] = Dot THEN 1 ELSE 0
  BY <1>6, <1>8
<1>12. /\ \A i, j \in Nat : i =< j => Rank(text, i) =< Rank(text, j)
       /\ \A i \in Nat : \A j \in D : i < j => Rank(text, i) < Rank(text, j)
  BY <1>7, <1>8, <1>9
<1> QED
  BY <1>10, <1>11, <1>12

(* Each number up to the rank of a place is the rank of a dot before it. *)
LEMMA RankReached ==
  ASSUME NEW text \in Seq(Characters), NEW n \in 0..Len(text), NEW k \in 1..Rank(text, n)
  PROVE  \E i \in Dots(text) : i =< n /\ Rank(text, i) = k
<1> DEFINE P == {m \in Nat : m =< Len(text) => \A r \in 1..Rank(text, m) :
                               \E i \in Dots(text) : i =< m /\ Rank(text, i) = r}
<1>1. 0 \in P
  BY RankCounts
<1>2. ASSUME NEW m \in Nat, m \in P PROVE m + 1 \in P
  <2> SUFFICES ASSUME m + 1 =< Len(text), NEW r \in 1..Rank(text, m + 1)
               PROVE  \E i \in Dots(text) : i =< m + 1 /\ Rank(text, i) = r
    OBVIOUS
  <2>1. m \in 0..(Len(text) - 1) /\ Rank(text, m) \in Nat
    <3>1. m \in 0..(Len(text) - 1)
      OBVIOUS
    <3> QED
      BY <3>1, RankCounts
  <2>2. Rank(text, m + 1) = Rank(text, m) + IF text[m + 1] = Dot THEN 1 ELSE 0
    BY <2>1, RankCounts
  <2>3. CASE r \in 1..Rank(text, m)
    <3>1. PICK i \in Dots(text) : i =< m /\ Rank(text, i) = r
      BY <1>2, <2>1, <2>3
    <3>2. i =< m + 1
      BY <3>1 DEF Dots
    <3> QED
      BY <3>1, <3>2
  <2>4. CASE r \notin 1..Rank(text, m)
    <3>1. text[m + 1] = Dot /\ r = Rank(text, m + 1)
      BY <2>1, <2>2, <2>4
    <3>2. m + 1 \in Dots(text) /\ m + 1 =< m + 1
      BY <2>1, <3>1 DEF Dots
    <3> QED
      BY <3>1, <3>2
  <2> QED
    BY <2>3, <2>4
<1> HIDE DEF P
<1>3. n \in P
  BY <1>1, <1>2, Induction
<1> QED
  BY <1>3 DEF P

(* A dot is found by its rank, since no two have the same. *)
LEMMA DotBeforeIs ==
  ASSUME NEW text \in Seq(Characters), NEW k \in 2..4, NEW i \in Dots(text),
         Rank(text, i) = k - 1
  PROVE  DotBefore(text, k) = i
<1>1. \A j \in Dots(text) : Rank(text, j) = k - 1 => j = i
  <2> SUFFICES ASSUME NEW j \in Dots(text), Rank(text, j) = k - 1, j # i PROVE FALSE
    OBVIOUS
  <2>1. i \in Nat /\ j \in Nat
    BY DEF Dots
  <2>2. i < j \/ j < i
    BY <2>1
  <2>3. Rank(text, i) # Rank(text, j)
    BY <2>1, <2>2, RankCounts
  <2> QED
    BY <2>3
<1>2. DotBefore(text, k) = CHOOSE j \in Dots(text) : Rank(text, j) = k - 1
  <2>1. k # 1
    OBVIOUS
  <2> QED
    BY <2>1 DEF DotBefore, Rank
<1> QED
  BY <1>1, <1>2

(* The number between place a and place n, both included but for a. *)
Value(text, a, n) == Number(SubSeq(text, a + 1, n))

(* The value of a part, character by character. *)
LEMMA ValueSteps ==
  ASSUME NEW text \in Seq(Characters), NEW a \in 0..Len(text)
  PROVE  /\ Value(text, a, a) = 0
         /\ \A n \in a..Len(text) : Value(text, a, n) \in Nat
         /\ \A n \in a..(Len(text) - 1) :
              Value(text, a, n + 1) = 10 * Value(text, a, n) + text[n + 1]
<1>1. Value(text, a, a) = 0
  <2>1. SubSeq(text, a + 1, a) = << >>
    BY SubSeqEmpty
  <2> QED
    BY <2>1, NumberOfNothing DEF Value
<1>2. ASSUME NEW n \in a..Len(text)
      PROVE  SubSeq(text, a + 1, n) \in Seq(Characters)
  <2>1. \A i \in (a + 1)..n : text[i] \in Characters
    OBVIOUS
  <2>2. a + 1 \in Int /\ n \in Int
    OBVIOUS
  <2> QED
    BY <2>1, <2>2, SubSeqProperties
<1>3. \A n \in a..Len(text) : Value(text, a, n) \in Nat
  <2>1. 0 \in Characters
    BY DEF Characters
  <2> QED
    BY <1>2, <2>1, NumberGrows DEF Value
<1>4. ASSUME NEW n \in a..(Len(text) - 1)
      PROVE  Value(text, a, n + 1) = 10 * Value(text, a, n) + text[n + 1]
  <2> DEFINE part == SubSeq(text, a + 1, n)
             more == SubSeq(text, a + 1, n + 1)
  <2>1. n \in a..Len(text) /\ n + 1 \in a..Len(text) /\ text[n + 1] \in Characters
    OBVIOUS
  <2>2. part \in Seq(Characters)
    BY <1>2, <2>1
  <2>3. more = Append(part, text[n + 1])
    <3>1. a + 1 \in 1..Len(text) /\ n + 1 \in (a + 1)..Len(text) /\ (n + 1) - 1 = n
      OBVIOUS
    <3>2. more = SubSeq(text, a + 1, (n + 1) - 1) \o <<text[n + 1]>>
      BY <3>1, SubSeqRecursiveSecond
    <3>3. Append(part, text[n + 1]) = part \o <<text[n + 1]>>
      BY <2>1, <2>2, AppendIsConcat
    <3> QED
      BY <3>1, <3>2, <3>3
  <2> HIDE DEF part, more
  <2>4. Number(more) = 10 * Number(part) + text[n + 1]
    BY <2>1, <2>2, <2>3, NumberGrows
  <2> QED
    BY <2>4 DEF Value, part, more
<1> QED
  BY <1>1, <1>3, <1>4

(* A part that goes on has no smaller value: once over 255, always over 255. *)
LEMMA ValueGrows ==
  ASSUME NEW text \in Seq(Characters), NEW a \in 0..Len(text),
         NEW n \in a..Len(text), NEW m \in n..Len(text)
  PROVE  Value(text, a, n) =< Value(text, a, m)
<1> DEFINE P == {k \in Nat : n + k =< Len(text) => Value(text, a, n) =< Value(text, a, n + k)}
<1>1. 0 \in P
  BY ValueSteps
<1>2. ASSUME NEW k \in Nat, k \in P PROVE k + 1 \in P
  <2> SUFFICES ASSUME n + (k + 1) =< Len(text) PROVE Value(text, a, n) =< Value(text, a, n + (k + 1))
    OBVIOUS
  <2>1. n + k \in a..(Len(text) - 1) /\ n + k \in a..Len(text) /\ n + (k + 1) = (n + k) + 1
    OBVIOUS
  <2>2. text[(n + k) + 1] \in Nat
    <3>1. text[(n + k) + 1] \in Characters
      BY <2>1
    <3> QED
      BY <3>1 DEF Characters, Dot, Letter
  <2>3. Value(text, a, (n + k) + 1) = 10 * Value(text, a, n + k) + text[(n + k) + 1]
    BY <2>1, ValueSteps
  <2>4. Value(text, a, n + k) \in Nat /\ Value(text, a, n) \in Nat
    BY <2>1, ValueSteps
  <2>5. Value(text, a, n) =< Value(text, a, n + k)
    BY <1>2, <2>1
  <2> QED
    BY <2>1, <2>2, <2>3, <2>4, <2>5
<1> HIDE DEF P
<1>3. m - n \in Nat
  OBVIOUS
<1>4. m - n \in P
  BY <1>1, <1>2, <1>3, Induction
<1>5. n + (m - n) = m /\ m =< Len(text)
  OBVIOUS
<1> QED
  BY <1>4, <1>5 DEF P

-------------------------------------------------------------------------------
LEMMA BytesAre ==
  \A v : v \in Byte <=> v \in Nat /\ v =< 255
BY DEF Byte

(* Where the part begins that place n is in. *)
Begin(text, n) == DotBefore(text, Rank(text, n) + 1)

(* It begins behind the last dot before n. *)
LEMMA BeginOfPart ==
  ASSUME NEW text \in Seq(Characters), NEW n \in 0..Len(text), Rank(text, n) =< 3
  PROVE  /\ Begin(text, n) \in 0..n
         /\ \A i \in (Begin(text, n) + 1)..n : text[i] # Dot
<1> DEFINE r == Rank(text, n)
<1>1. r \in 0..3 /\ n \in Nat
  <2>1. n \in Nat
    OBVIOUS
  <2>2. r \in Nat
    BY <2>1, RankCounts
  <2> QED
    BY <2>1, <2>2
<1>2. CASE r = 0
  <2>1. Begin(text, n) = 0
    BY <1>2 DEF Begin, DotBefore
  <2>2. ASSUME NEW i \in 1..n, text[i] = Dot PROVE FALSE
    <3>1. i \in Dots(text)
      BY <2>2 DEF Dots
    <3>2. Rank(text, 0) < Rank(text, i) /\ Rank(text, i) =< r /\ Rank(text, 0) \in Nat /\ Rank(text, i) \in Nat
      BY <1>1, <3>1, RankCounts
    <3> QED
      BY <1>2, <3>2
  <2> QED
    BY <1>1, <2>1, <2>2
<1>3. CASE r # 0
  <2>1. r \in 1..Rank(text, n)
    BY <1>1, <1>3
  <2>2. PICK d \in Dots(text) : d =< n /\ Rank(text, d) = r
    BY <2>1, RankReached
  <2>3. Begin(text, n) = d
    <3>1. r + 1 \in 2..4 /\ Rank(text, d) = (r + 1) - 1
      BY <1>1, <1>3, <2>2
    <3> QED
      BY <3>1, DotBeforeIs DEF Begin
  <2>4. d \in 1..n
    BY <1>1, <2>2 DEF Dots
  <2>5. ASSUME NEW i \in (d + 1)..n, text[i] = Dot PROVE FALSE
    <3>1. i \in Dots(text) /\ d \in Nat /\ d < i /\ i \in Nat /\ i =< n
      BY <1>1, <2>4, <2>5 DEF Dots
    <3>2. Rank(text, d) < Rank(text, i) /\ Rank(text, i) =< r /\ Rank(text, i) \in Nat
      BY <1>1, <3>1, RankCounts
    <3> QED
      BY <1>1, <2>2, <3>2
  <2> QED
    BY <1>1, <2>3, <2>4, <2>5
<1> QED
  BY <1>2, <1>3

(* The part that place n is in reaches at least to n, if there are four. *)
LEMMA PartReaches ==
  ASSUME NEW text \in Seq(Characters), Cardinality(Dots(text)) = 3,
         NEW n \in 0..Len(text)
  PROVE  /\ Rank(text, n) \in 0..3
         /\ DotAfter(text, Rank(text, n) + 1) \in (n + 1)..(Len(text) + 1)
         /\ Number(Part(text, Rank(text, n) + 1))
              = Value(text, Begin(text, n), DotAfter(text, Rank(text, n) + 1) - 1)
<1> DEFINE r == Rank(text, n)
<1>1. r \in 0..3 /\ n \in Nat /\ Len(text) \in Nat
  <2>1. n \in Nat /\ Len(text) \in Nat /\ n =< Len(text)
    OBVIOUS
  <2>2. r \in Nat /\ r =< Rank(text, Len(text)) /\ Rank(text, Len(text)) = 3
    BY <2>1, RankCounts
  <2> QED
    BY <2>1, <2>2
<1>2. DotAfter(text, r + 1) \in (n + 1)..(Len(text) + 1)
  <2>1. CASE r = 3
    BY <1>1, <2>1 DEF DotAfter
  <2>2. CASE r # 3
    <3>1. r + 1 \in 1..Rank(text, Len(text)) /\ Len(text) \in 0..Len(text)
      BY <1>1, <2>2, RankCounts
    <3>2. PICK d \in Dots(text) : Rank(text, d) = r + 1
      BY <3>1, RankReached
    <3>3. (r + 1) + 1 \in 2..4 /\ Rank(text, d) = ((r + 1) + 1) - 1 /\ r + 1 # 4
      BY <1>1, <2>2, <3>2
    <3>4. DotBefore(text, (r + 1) + 1) = d
      BY <3>3, DotBeforeIs
    <3>5. DotAfter(text, r + 1) = d
      BY <3>3, <3>4 DEF DotAfter
    <3>6. d \in 1..Len(text)
      BY DEF Dots
    <3>7. n < d
      <4> SUFFICES ASSUME d =< n PROVE FALSE
        BY <1>1, <3>6
      <4>1. Rank(text, d) =< r
        BY <1>1, <3>6, RankCounts
      <4> QED
        BY <1>1, <3>2, <4>1
    <3> QED
      BY <1>1, <3>5, <3>6, <3>7
  <2> QED
    BY <2>1, <2>2
<1>3. Part(text, r + 1) = SubSeq(text, Begin(text, n) + 1, DotAfter(text, r + 1) - 1)
  BY DEF Part, Begin
<1> QED
  BY <1>1, <1>2, <1>3 DEF Value

(* What the loop knows at place n. *)
Parsed(s, text, n) ==
  IF s.returned THEN ~ WellFormed(text)
  ELSE /\ \A i \in 1..n : text[i] # Letter
       /\ Rank(text, n) =< 3 /\ Len(s.bytes) = Rank(text, n)
       /\ s.acc = Value(text, Begin(text, n), n) /\ s.acc \in Byte
       /\ \A k \in 1..Rank(text, n) :
            s.bytes[k] = Number(Part(text, k)) /\ s.bytes[k] \in Byte

(* The body of the loop keeps that, for each kind of character and each early return. *)
LEMMA ParsedStep ==
  ASSUME NEW text \in Seq(Characters), NEW n \in 0..(Len(text) - 1), NEW s \in State,
         Parsed(s, text, n)
  PROVE  Parsed(character(s, text[n + 1]), text, n + 1)
<1> DEFINE c == text[n + 1]
           t == character(s, c)
           r == Rank(text, n)
<1>1. n \in 0..Len(text) /\ n + 1 \in 1..Len(text) /\ n + 1 \in 0..Len(text) /\ c \in Characters
  OBVIOUS
<1>2. Rank(text, n + 1) = r + IF c = Dot THEN 1 ELSE 0
  BY RankCounts
<1>3. CASE s.returned
  BY <1>3 DEF character, Parsed
<1>4. CASE ~ s.returned
  <2>1. /\ \A i \in 1..n : text[i] # Letter
        /\ r =< 3 /\ Len(s.bytes) = r
        /\ s.acc = Value(text, Begin(text, n), n) /\ s.acc \in Byte
        /\ \A k \in 1..r : s.bytes[k] = Number(Part(text, k)) /\ s.bytes[k] \in Byte
    BY <1>4 DEF Parsed
  <2>2. r \in 0..3
    <3>1. n \in Nat
      BY <1>1
    <3>2. r \in Nat
      BY <3>1, RankCounts
    <3> QED
      BY <2>1, <3>2
  <2>3. Begin(text, n) \in 0..n
    BY <1>1, <2>1, BeginOfPart
  <2>4. CASE c \in 0..9
    <3>1. c # Dot /\ c # Letter
      BY <2>4 DEF Dot, Letter
    <3>2. Rank(text, n + 1) = r /\ Begin(text, n + 1) = Begin(text, n)
      BY <1>2, <2>2, <3>1 DEF Begin
    <3>3. Value(text, Begin(text, n), n + 1) = 10 * s.acc + c
      <4>1. Begin(text, n) \in 0..Len(text) /\ n \in Begin(text, n)..(Len(text) - 1)
        BY <1>1, <2>3
      <4> QED
        BY <2>1, <4>1, ValueSteps
    <3>4. t = digit(s, c)
      BY <1>4, <2>4, <3>1 DEF character
    <3>5. /\ t.acc = 10 * s.acc + c /\ t.bytes = s.bytes
          /\ t.returned <=> 10 * s.acc + c > 255
      BY <3>4 DEF digit, State
    <3>8. s.acc \in Nat /\ c \in Nat
      <4>1. s.acc \in Nat
        BY DEF State
      <4>2. c \in Nat
        BY <2>4
      <4> QED
        BY <4>1, <4>2
    <3>6. CASE 10 * s.acc + c > 255
      <4> SUFFICES ASSUME WellFormed(text) PROVE FALSE
        BY <3>5, <3>6 DEF Parsed
      <4> DEFINE m == DotAfter(text, r + 1) - 1
                 b == Begin(text, n)
      <4>1. /\ DotAfter(text, r + 1) \in ((n + 1) + 1)..(Len(text) + 1)
            /\ Number(Part(text, r + 1)) = Value(text, b, m)
        BY <1>1, <3>2, PartReaches DEF WellFormed
      <4>2. m \in (n + 1)..Len(text) /\ n + 1 \in b..Len(text) /\ b \in 0..Len(text)
        BY <1>1, <2>3, <4>1
      <4> HIDE DEF m, b, c
      <4>3. Value(text, b, n + 1) =< Value(text, b, m)
        BY <4>2, ValueGrows
      <4>4. Value(text, b, m) \in Byte
        <5>1. r + 1 \in 1..4
          BY <2>2
        <5> QED
          BY <4>1, <5>1 DEF WellFormed
      <4> QED
        <5>1. Value(text, b, n + 1) > 255 /\ Value(text, b, n + 1) \in Nat
          BY <3>3, <3>6, <3>8 DEF b
        <5> QED
          BY <4>3, <4>4, <5>1, BytesAre
    <3>7. CASE ~ 10 * s.acc + c > 255
      <4>1. 10 * s.acc + c \in Byte
        <5>1. 10 * s.acc + c \in Nat
          BY <3>8
        <5> QED
          BY <3>7, <5>1, BytesAre
      <4>2. \A i \in 1..(n + 1) : text[i] # Letter
        BY <1>1, <2>1, <3>1
      <4> HIDE DEF t
      <4>3. ~ t.returned /\ t.acc = Value(text, Begin(text, n + 1), n + 1) /\ t.acc \in Byte
            /\ t.bytes = s.bytes
        BY <3>2, <3>3, <3>5, <3>7, <4>1
      <4>4. Parsed(t, text, n + 1)
        BY <2>1, <3>2, <4>2, <4>3 DEF Parsed
      <4> QED
        BY <4>4 DEF t
    <3> QED
      BY <3>6, <3>7
  <2>5. CASE c = Dot
    <3>1. c # Letter /\ t = dot(s)
      BY <1>4, <2>5 DEF character, Dot, Letter
    <3>2. Rank(text, n + 1) = r + 1
      BY <1>2, <2>5
    <3>3. CASE r = 3
      <4>1. t.returned
        BY <2>1, <3>1, <3>3 DEF dot, State
      <4>2. Cardinality(Dots(text)) # 3
        <5>1. Rank(text, n + 1) =< Rank(text, Len(text))
          BY <1>1, RankCounts
        <5> QED
          BY <3>2, <3>3, <5>1, RankCounts
      <4> QED
        BY <4>1, <4>2 DEF Parsed, WellFormed
    <3>4. CASE r # 3
      <4>1. t = [acc |-> 0, bytes |-> Append(s.bytes, s.acc), returned |-> FALSE]
        BY <1>4, <2>1, <3>1, <3>4 DEF dot, State
      <4>2. Begin(text, n + 1) = n + 1
        <5>1. n + 1 \in Dots(text)
          BY <1>1, <2>5 DEF Dots
        <5>2. (r + 1) + 1 \in 2..4 /\ Rank(text, n + 1) = ((r + 1) + 1) - 1
          BY <2>2, <3>2, <3>4
        <5>3. DotBefore(text, (r + 1) + 1) = n + 1
          BY <5>1, <5>2, DotBeforeIs
        <5> QED
          BY <3>2, <5>3 DEF Begin
      <4>3. Value(text, n + 1, n + 1) = 0
        BY <1>1, ValueSteps
      <4>4. Number(Part(text, r + 1)) = s.acc
        <5>1. DotAfter(text, r + 1) = n + 1
          <6>1. r + 1 # 4 /\ DotBefore(text, (r + 1) + 1) = n + 1
            BY <2>2, <3>2, <3>4, <4>2 DEF Begin
          <6> QED
            BY <6>1 DEF DotAfter
        <5>2. (n + 1) - 1 = n
          OBVIOUS
        <5> QED
          BY <2>1, <5>1, <5>2 DEF Part, Begin, Value
      <4>5. /\ Len(Append(s.bytes, s.acc)) = r + 1
            /\ \A k \in 1..(r + 1) : Append(s.bytes, s.acc)[k] = IF k = r + 1 THEN s.acc ELSE s.bytes[k]
        BY <2>1, <2>2 DEF State
      <4>6. \A k \in 1..(r + 1) : /\ Append(s.bytes, s.acc)[k] = Number(Part(text, k))
                                  /\ Append(s.bytes, s.acc)[k] \in Byte
        BY <2>1, <2>2, <4>4, <4>5
      <4>7. \A i \in 1..(n + 1) : text[i] # Letter
        BY <1>1, <2>1, <3>1
      <4>8. r + 1 =< 3 /\ 0 \in Byte
        BY <2>2, <3>4 DEF Byte
      <4> HIDE DEF t
      <4>9. Parsed(t, text, n + 1)
        BY <3>2, <4>1, <4>2, <4>3, <4>5, <4>6, <4>7, <4>8 DEF Parsed
      <4> QED
        BY <4>9 DEF t
    <3> QED
      BY <3>3, <3>4
  <2>6. CASE c = Letter
    <3>1. t = [s EXCEPT !.returned = TRUE]
      BY <1>4, <2>6 DEF character, Dot, Letter
    <3>2. t.returned
      BY <3>1 DEF State
    <3>3. Letter \in Range(text)
      BY <1>1, <2>6 DEF Range
    <3> QED
      BY <3>2, <3>3 DEF Parsed, WellFormed
  <2> QED
    BY <1>1, <2>4, <2>5, <2>6 DEF Characters
<1> QED
  BY <1>3, <1>4

(* What Append does to the bytes. *)
LEMMA LastByte ==
  ASSUME NEW b \in Seq(Nat), NEW v \in Nat, NEW m \in Nat, Len(b) = m
  PROVE  /\ Append(b, v) \in Seq(Nat) /\ Len(Append(b, v)) = m + 1
         /\ Append(b, v)[m + 1] = v
         /\ \A k \in 1..m : Append(b, v)[k] = b[k]
BY AppendProperties

(* The same, for the last byte of an address. *)
LEMMA FourthByte ==
  ASSUME NEW b \in Seq(Nat), NEW v \in Nat, Len(b) = 3
  PROVE  /\ Append(b, v) \in Seq(Nat) /\ Len(Append(b, v)) = 4 /\ Append(b, v)[4] = v
         /\ \A k \in 1..3 : Append(b, v)[k] = b[k]
<1> DEFINE a == Append(b, v)
<1>1. PICK m \in Nat : m = 3
  OBVIOUS
<1>2. Len(b) = m
  BY <1>1
<1>3. a \in Seq(Nat) /\ Len(a) = m + 1 /\ a[m + 1] = v /\ \A k \in 1..m : a[k] = b[k]
  BY <1>1, <1>2, LastByte
<1> HIDE DEF a
<1>4. a \in Seq(Nat) /\ Len(a) = 4 /\ a[4] = v /\ \A k \in 1..3 : a[k] = b[k]
  BY <1>1, <1>3
<1> QED
  BY <1>4 DEF a

(* For every text of any length: the constructor of ip4_address gives the address that the
   text says, 0.0.0.0 if it says none, whichever early return it takes. *)
THEOREM TextIsRead ==
  ASSUME NEW text \in Seq(Characters)
  PROVE  ip4_address(text) = Says(text) /\ ip4_address(text) \in Address
<1>1. PICK run : Follows(run, text) /\ FoldLeft(character, Start, text) = run[Len(text)]
  BY RunOfText
<1>2. \A n \in 0..Len(text) : Parsed(run[n], text, n)
  <2> DEFINE P == {n \in Nat : n =< Len(text) => Parsed(run[n], text, n)}
  <2>1. 0 \in P
    <3>1. Rank(text, 0) = 0 /\ Begin(text, 0) = 0
      BY RankCounts DEF Begin, DotBefore
    <3>2. Value(text, 0, 0) = 0
      BY ValueSteps
    <3>3. Parsed(Start, text, 0)
      BY <3>1, <3>2 DEF Parsed, Start, Byte
    <3> QED
      BY <1>1, <3>3 DEF Follows
  <2>2. ASSUME NEW n \in Nat, n \in P PROVE n + 1 \in P
    <3> SUFFICES ASSUME n + 1 =< Len(text) PROVE Parsed(run[n + 1], text, n + 1)
      OBVIOUS
    <3>1. n \in 0..(Len(text) - 1) /\ n + 1 \in 1..Len(text) /\ (n + 1) - 1 = n /\ n \in 0..Len(text)
      OBVIOUS
    <3>2. run[n + 1] = character(run[n], text[n + 1]) /\ run[n] \in State
      BY <1>1, <3>1 DEF Follows
    <3>3. Parsed(run[n], text, n)
      BY <2>2, <3>1
    <3> QED
      BY <3>1, <3>2, <3>3, ParsedStep
  <2> HIDE DEF P
  <2>3. \A n \in Nat : n \in P
    BY <2>1, <2>2, Induction
  <2> QED
    BY <2>3 DEF P
<1> DEFINE L == Len(text)
           s == run[L]
<1>3. L \in 0..L /\ s \in State
  BY <1>1 DEF Follows
<1>4. Parsed(s, text, L)
  BY <1>2, <1>3
<1>5. ip4_address(text) = IF s.returned \/ Len(s.bytes) # 3 THEN AddressAny ELSE Append(s.bytes, s.acc)
  BY <1>1 DEF ip4_address
<1>6. AddressAny \in Address
  BY DEF AddressAny, Address, Byte
<1>7. CASE s.returned
  BY <1>4, <1>5, <1>6, <1>7 DEF Parsed, Says
<1>8. CASE ~ s.returned
  <2>1. /\ \A i \in 1..L : text[i] # Letter
        /\ Rank(text, L) =< 3 /\ Len(s.bytes) = Rank(text, L)
        /\ s.acc = Value(text, Begin(text, L), L) /\ s.acc \in Byte
        /\ \A k \in 1..Rank(text, L) : s.bytes[k] = Number(Part(text, k)) /\ s.bytes[k] \in Byte
    BY <1>4, <1>8 DEF Parsed
  <2>2. Rank(text, L) = Cardinality(Dots(text))
    BY RankCounts
  <2>3. CASE Cardinality(Dots(text)) # 3
    BY <1>5, <1>6, <2>1, <2>2, <2>3 DEF Says, WellFormed
  <2>4. CASE Cardinality(Dots(text)) = 3
    <3>1. Number(Part(text, 4)) = s.acc
      <4>1. DotAfter(text, 4) = L + 1 /\ (L + 1) - 1 = L
        BY DEF DotAfter
      <4>2. Begin(text, L) = DotBefore(text, 4)
        BY <2>2, <2>4 DEF Begin
      <4> QED
        BY <2>1, <4>1, <4>2 DEF Part, Value
    <3>2. \A k \in 1..3 : s.bytes[k] = Number(Part(text, k)) /\ s.bytes[k] \in Byte
      BY <2>1, <2>2, <2>4
    <3>3. Letter \notin Range(text)
      BY <2>1 DEF Range
    <3>4. \A k \in 1..4 : k \in 1..3 \/ k = 4
      OBVIOUS
    <3>5. WellFormed(text)
      BY <2>1, <2>4, <3>1, <3>2, <3>3, <3>4 DEF WellFormed
    <3>6. ip4_address(text) = Append(s.bytes, s.acc)
      BY <1>5, <1>8, <2>1, <2>2, <2>4
    <3> DEFINE a == Append(s.bytes, s.acc)
    <3>7. Len(s.bytes) = 3 /\ s.bytes \in Seq(Nat) /\ s.acc \in Nat
      BY <1>3, <2>1, <2>2, <2>4 DEF State
    <3> HIDE DEF s, L
    <3>8. a \in Seq(Nat) /\ Len(a) = 4 /\ a[4] = s.acc /\ \A k \in 1..3 : a[k] = s.bytes[k]
      BY <3>7, FourthByte
    <3> HIDE DEF a
    <3>9. a = [k \in 1..4 |-> Number(Part(text, k))]
      <4>1. \A k \in 1..4 : a[k] = Number(Part(text, k))
        BY <3>1, <3>2, <3>4, <3>8
      <4>2. a = [k \in 1..4 |-> a[k]]
        BY <3>8
      <4> QED
        BY <4>1, <4>2
    <3>10. a \in Address
      BY <3>5, <3>9 DEF WellFormed, Address
    <3> QED
      BY <3>5, <3>6, <3>9, <3>10 DEF Says, a
  <2> QED
    BY <2>3, <2>4
<1> QED
  BY <1>7, <1>8

-------------------------------------------------------------------------------
(* After a text the loop is in state s. *)
Reads(text, s) ==
  text \in Seq(Characters) /\ \A run : Follows(run, text) => run[Len(text)] = s

(* Before an early return: in a part of value v so far, behind the complete bytes. *)
InPart(v, bytes) == [acc |-> v, bytes |-> bytes, returned |-> FALSE]

(* One more character is one more turn of the loop. *)
LEMMA ReadsOneMore ==
  ASSUME NEW text, NEW s, NEW c \in Characters, Reads(text, s)
  PROVE  Reads(text \o <<c>>, character(s, c))
<1> DEFINE L == Len(text)
           more == text \o <<c>>
<1>1. text \in Seq(Characters) /\ L \in Nat
  BY DEF Reads
<1>2. /\ more \in Seq(Characters) /\ Len(more) = L + 1 /\ more[L + 1] = c
      /\ \A i \in 1..L : more[i] = text[i]
  BY <1>1
<1> HIDE DEF more
<1>3. ASSUME NEW run, Follows(run, more) PROVE run[L + 1] = character(s, c)
  <2> DEFINE r == [n \in 0..L |-> run[n]]
  <2>1. /\ run \in [0..(L + 1) -> State] /\ run[0] = Start
        /\ \A n \in 1..(L + 1) : run[n] = character(run[n - 1], more[n])
    BY <1>2, <1>3 DEF Follows
  <2>2. Follows(r, text)
    <3>1. r \in [0..L -> State] /\ r[0] = Start
      BY <1>1, <2>1
    <3>2. ASSUME NEW n \in 1..L PROVE r[n] = character(r[n - 1], text[n])
      <4>1. n \in 1..(L + 1) /\ n \in 0..L /\ n - 1 \in 0..L
        BY <1>1
      <4>2. run[n] = character(run[n - 1], text[n])
        BY <1>2, <2>1, <4>1
      <4> QED
        BY <4>1, <4>2
    <3> HIDE DEF r
    <3> QED
      BY <3>1, <3>2 DEF Follows
  <2>3. r[L] = s
    BY <2>2 DEF Reads
  <2>4. run[L] = s
    BY <1>1, <2>3
  <2>5. L + 1 \in 1..(L + 1) /\ (L + 1) - 1 = L
    BY <1>1
  <2> QED
    BY <1>2, <2>1, <2>4, <2>5
<1>4. Reads(more, character(s, c))
  BY <1>2, <1>3 DEF Reads
<1> QED
  BY <1>4 DEF more

(* Before the first character. *)
LEMMA ReadsNothing == Reads(<< >>, InPart(0, << >>))
BY DEF Reads, Follows, InPart, Start

(* A digit that fits. *)
LEMMA ReadsDigit ==
  ASSUME NEW text, NEW v \in Nat, NEW bytes, Reads(text, InPart(v, bytes)),
         NEW c \in 0..9, 10 * v + c =< 255
  PROVE  Reads(text \o <<c>>, InPart(10 * v + c, bytes))
<1> DEFINE s == InPart(v, bytes)
<1>1. c \in Characters /\ c # Dot /\ c # Letter
  BY DEF Characters, Dot, Letter
<1>2. character(s, c) = digit(s, c)
  BY <1>1 DEF character, InPart
<1>3. digit(s, c) = InPart(10 * v + c, bytes)
  <2> DEFINE a == 10 * v + c
             over == a > 255
  <2>1. over = FALSE
    OBVIOUS
  <2>2. digit(s, c) = [s EXCEPT !.acc = a, !.returned = over]
    BY DEF digit, InPart
  <2> HIDE DEF a, over
  <2>3. digit(s, c) = [acc |-> a, bytes |-> bytes, returned |-> FALSE]
    BY <2>1, <2>2 DEF InPart
  <2> QED
    BY <2>3 DEF InPart, a
<1> HIDE DEF s
<1>4. Reads(text \o <<c>>, character(s, c))
  BY <1>1, ReadsOneMore DEF s
<1> QED
  BY <1>2, <1>3, <1>4

(* A dot that is not the fourth. *)
LEMMA ReadsDot ==
  ASSUME NEW text, NEW v \in Nat, NEW bytes, Reads(text, InPart(v, bytes)), Len(bytes) # 3
  PROVE  Reads(text \o <<Dot>>, InPart(0, Append(bytes, v)))
<1> DEFINE s == InPart(v, bytes)
<1>1. Dot \in Characters /\ Dot # Letter /\ Dot \notin 0..9
  BY DEF Characters, Dot, Letter
<1>2. character(s, Dot) = dot(s)
  BY <1>1 DEF character, InPart
<1>3. dot(s) = InPart(0, Append(bytes, v))
  BY DEF dot, InPart
<1> HIDE DEF s
<1>4. Reads(text \o <<Dot>>, character(s, Dot))
  BY <1>1, ReadsOneMore DEF s
<1> QED
  BY <1>2, <1>3, <1>4

(* The one, two or three digits of a byte are read as that byte. *)
LEMMA ReadsDecimal ==
  ASSUME NEW text, NEW bytes, Reads(text, InPart(0, bytes)), NEW n \in Byte
  PROVE  /\ Reads(text \o Decimal(n), InPart(n, bytes))
         /\ Decimal(n) \in Seq(Characters) /\ Len(Decimal(n)) =< 3
<1> DEFINE x == n \div 100
           y == (n \div 10) % 10
           z == n % 10
<1>0. n \in Nat /\ n =< 255 /\ text \in Seq(Characters)
  BY BytesAre DEF Reads
<1>1. x \in 0..9 /\ y \in 0..9 /\ z \in 0..9 /\ 0 \in Nat
  BY <1>0
<1>2. n = 100 * x + 10 * y + z
  BY <1>0
<1>3. (n < 100 => x = 0) /\ (n < 10 => y = 0)
  BY <1>0
<1>4. Decimal(n) = (IF n >= 100 THEN <<x>> ELSE << >>) \o (IF n >= 10 THEN <<y>> ELSE << >>) \o <<z>>
  BY DEF Decimal
<1>5. x \in Characters /\ y \in Characters /\ z \in Characters
  BY <1>1 DEF Characters
<1> HIDE DEF x, y, z
<1>9. <<x>> \in Seq(Characters) /\ <<y>> \in Seq(Characters) /\ <<z>> \in Seq(Characters)
  BY <1>5
<1>10. /\ Len(<<x>>) = 1 /\ Len(<<y>>) = 1 /\ Len(<<z>>) = 1
  OBVIOUS
<1>6. CASE n >= 100
  <2>1. n >= 10
    BY <1>0, <1>6
  <2>2. Decimal(n) = (<<x>> \o <<y>>) \o <<z>>
    BY <1>4, <1>6, <2>1
  <2>3. Reads(text \o <<x>>, InPart(x, bytes))
    <3>1. 10 * 0 + x = x /\ x =< 255
      BY <1>1
    <3> QED
      BY <1>1, <3>1, ReadsDigit
  <2>4. Reads((text \o <<x>>) \o <<y>>, InPart(10 * x + y, bytes))
    <3>1. 10 * x + y =< 255 /\ x \in Nat
      BY <1>0, <1>1, <1>2
    <3> QED
      BY <1>1, <2>3, <3>1, ReadsDigit
  <2>5. Reads(((text \o <<x>>) \o <<y>>) \o <<z>>, InPart(n, bytes))
    <3>1. 10 * (10 * x + y) + z = n /\ 10 * x + y \in Nat
      BY <1>0, <1>1, <1>2
    <3> QED
      BY <1>0, <1>1, <2>4, <3>1, ReadsDigit
  <2>6. <<x>> \o <<y>> \in Seq(Characters) /\ Len(<<x>> \o <<y>>) = 2
    BY <1>9, <1>10, ConcatProperties
  <2>7. ((text \o <<x>>) \o <<y>>) \o <<z>> = text \o ((<<x>> \o <<y>>) \o <<z>>)
    <3>1. (text \o <<x>>) \o <<y>> = text \o (<<x>> \o <<y>>)
      BY <1>0, <1>9, ConcatAssociative
    <3>2. (text \o (<<x>> \o <<y>>)) \o <<z>> = text \o ((<<x>> \o <<y>>) \o <<z>>)
      BY <1>0, <1>9, <2>6, ConcatAssociative
    <3> QED
      BY <3>1, <3>2
  <2>8. Decimal(n) \in Seq(Characters) /\ Len(Decimal(n)) = 3
    BY <1>9, <1>10, <2>2, <2>6, ConcatProperties
  <2> QED
    <3>1. text \o Decimal(n) = ((text \o <<x>>) \o <<y>>) \o <<z>>
      BY <2>2, <2>7
    <3>2. Reads(text \o Decimal(n), InPart(n, bytes))
      BY <2>5, <3>1, Zenon
    <3> QED
      BY <2>8, <3>2
<1>7. CASE n < 100 /\ n >= 10
  <2>1. ~ n >= 100 /\ n >= 10
    BY <1>0, <1>7
  <2>2. Decimal(n) = <<y>> \o <<z>>
    <3>1. << >> \o <<y>> = <<y>>
      BY <1>9, ConcatEmptySeq
    <3> QED
      BY <1>4, <2>1, <3>1
  <2>3. Reads(text \o <<y>>, InPart(y, bytes))
    <3>1. 10 * 0 + y = y /\ y =< 255
      BY <1>1
    <3> QED
      BY <1>1, <3>1, ReadsDigit
  <2>5. Reads((text \o <<y>>) \o <<z>>, InPart(n, bytes))
    <3>1. 10 * y + z = n /\ y \in Nat
      BY <1>0, <1>1, <1>2, <1>3, <1>7
    <3> QED
      BY <1>0, <1>1, <2>3, <3>1, ReadsDigit
  <2>6. (text \o <<y>>) \o <<z>> = text \o (<<y>> \o <<z>>)
    BY <1>0, <1>9, ConcatAssociative
  <2>7. Decimal(n) \in Seq(Characters) /\ Len(Decimal(n)) = 2
    BY <1>9, <1>10, <2>2, ConcatProperties
  <2> QED
    <3>1. text \o Decimal(n) = (text \o <<y>>) \o <<z>>
      BY <2>2, <2>6
    <3>2. Reads(text \o Decimal(n), InPart(n, bytes))
      BY <2>5, <3>1, Zenon
    <3> QED
      BY <2>7, <3>2
<1>8. CASE n < 10
  <2>1. ~ n >= 100 /\ ~ n >= 10
    BY <1>0, <1>8
  <2>2. Decimal(n) = <<z>>
    <3>1. << >> \o << >> = << >>
      OBVIOUS
    <3>2. << >> \o <<z>> = <<z>>
      BY <1>9, ConcatEmptySeq
    <3> QED
      BY <1>4, <2>1, <3>1, <3>2
  <2>3. 10 * 0 + z = n
    BY <1>0, <1>1, <1>2, <1>3, <1>8
  <2>4. Reads(text \o <<z>>, InPart(n, bytes))
    BY <1>0, <1>1, <2>3, ReadsDigit
  <2> QED
    BY <1>9, <1>10, <2>2, <2>4
<1> QED
  BY <1>0, <1>6, <1>7, <1>8

(* The bytes that are complete when the loop comes to the last part of address a. *)
LEMMA InitialBytes ==
  ASSUME NEW a \in Address
  PROVE  LET b1 == Append(<< >>, a[1])
             b2 == Append(b1, a[2])
             b3 == Append(b2, a[3])
         IN  /\ Len(b1) = 1 /\ Len(b2) = 2 /\ Len(b3) = 3
             /\ b3 \in Seq(Nat) /\ Append(b3, a[4]) = a
<1>0. a[1] \in Nat /\ a[2] \in Nat /\ a[3] \in Nat /\ a[4] \in Nat
  BY BytesAre DEF Address
<1> DEFINE b1 == Append(<< >>, a[1])
           b2 == Append(b1, a[2])
           b3 == Append(b2, a[3])
           b4 == Append(b3, a[4])
<1>1. b1 \in Seq(Nat) /\ Len(b1) = 1 /\ b1[1] = a[1]
  <2>0. PICK m \in Nat : m = 0
    OBVIOUS
  <2>1. << >> \in Seq(Nat) /\ Len(<< >>) = m /\ a[1] \in Nat
    BY <1>0, <2>0
  <2>2. /\ b1 \in Seq(Nat) /\ Len(b1) = m + 1 /\ b1[m + 1] = a[1]
        /\ \A k \in 1..m : b1[k] = << >>[k]
    BY <2>1, LastByte
  <2> HIDE DEF b1
  <2> QED
    BY <2>0, <2>2
<1> HIDE DEF b1
<1>2. b2 \in Seq(Nat) /\ Len(b2) = 2 /\ b2[1] = a[1] /\ b2[2] = a[2]
  <2>0. PICK m \in Nat : m = 1
    OBVIOUS
  <2>1. b1 \in Seq(Nat) /\ Len(b1) = m /\ a[2] \in Nat
    BY <1>0, <1>1, <2>0
  <2>2. /\ b2 \in Seq(Nat) /\ Len(b2) = m + 1 /\ b2[m + 1] = a[2]
        /\ \A k \in 1..m : b2[k] = b1[k]
    BY <2>1, LastByte
  <2> HIDE DEF b2
  <2> QED
    BY <2>0, <2>2, <1>1
<1> HIDE DEF b2
<1>3. /\ b3 \in Seq(Nat) /\ Len(b3) = 3
      /\ b3[1] = a[1] /\ b3[2] = a[2] /\ b3[3] = a[3]
  <2>0. PICK m \in Nat : m = 2
    OBVIOUS
  <2>1. b2 \in Seq(Nat) /\ Len(b2) = m /\ a[3] \in Nat
    BY <1>0, <1>2, <2>0
  <2>2. /\ b3 \in Seq(Nat) /\ Len(b3) = m + 1 /\ b3[m + 1] = a[3]
        /\ \A k \in 1..m : b3[k] = b2[k]
    BY <2>1, LastByte
  <2> HIDE DEF b3
  <2> QED
    BY <2>0, <2>2, <1>2
<1> HIDE DEF b3
<1>4. b4 \in Seq(Nat) /\ Len(b4) = 4 /\ b4[4] = a[4] /\ \A k \in 1..3 : b4[k] = b3[k]
  BY <1>0, <1>3, FourthByte
<1> HIDE DEF b4
<1>5. b4 = a
  <2>1. b4 = [k \in 1..4 |-> b4[k]] /\ a = [k \in 1..4 |-> a[k]]
    BY <1>4 DEF Address
  <2>2. \A k \in 1..4 : b4[k] = a[k]
    <3>1. \A k \in 1..4 : k = 1 \/ k = 2 \/ k = 3 \/ k = 4
      OBVIOUS
    <3> QED
      BY <1>3, <1>4, <3>1
  <2> QED
    BY <2>1, <2>2
<1> QED
  BY <1>1, <1>2, <1>3, <1>5 DEF b1, b2, b3, b4

(* For every address: what to_string prints fits the 16 characters of szRet with the final
   zero, and the constructor reads the same address from it. *)
THEOREM PrintedIsRead ==
  ASSUME NEW a \in Address
  PROVE  ip4_address(to_string(a)) = a /\ Len(to_string(a)) < 16
<1> DEFINE d(i) == Decimal(a[i])
           t1 == << >> \o d(1)
           t2 == (t1 \o <<Dot>>) \o d(2)
           t3 == (t2 \o <<Dot>>) \o d(3)
           t4 == (t3 \o <<Dot>>) \o d(4)
           b1 == Append(<< >>, a[1])
           b2 == Append(b1, a[2])
           b3 == Append(b2, a[3])
<1>0. a[1] \in Byte /\ a[2] \in Byte /\ a[3] \in Byte /\ a[4] \in Byte
  BY DEF Address
<1>a. \A v \in Byte : v \in Nat
  BY BytesAre
<1>b. \A i \in 1..4 : Decimal(a[i]) \in Seq(Characters) /\ Len(Decimal(a[i])) =< 3
  BY ReadsNothing, ReadsDecimal DEF Address
<1>c. b3 \in Seq(Nat) /\ Len(b3) = 3 /\ Append(b3, a[4]) = a
  BY InitialBytes
<1>d. Len(b1) # 3 /\ Len(b2) # 3 /\ Len(<< >>) # 3
  BY InitialBytes
<1>1. Reads(t1, InPart(a[1], << >>))
  BY <1>0, ReadsNothing, ReadsDecimal
<1> HIDE DEF t1
<1>2. Reads(t2, InPart(a[2], b1))
  BY <1>0, <1>1, <1>a, <1>d, ReadsDot, ReadsDecimal
<1> HIDE DEF t2, b1
<1>3. Reads(t3, InPart(a[3], b2))
  BY <1>0, <1>2, <1>a, <1>d, ReadsDot, ReadsDecimal
<1> HIDE DEF t3, b2
<1>4. Reads(t4, InPart(a[4], b3))
  BY <1>0, <1>3, <1>a, <1>d, ReadsDot, ReadsDecimal
<1> HIDE DEF t4, b3
<1>5. to_string(a) = t4
  <2>1. d(1) = << >> \o d(1)
    BY <1>b, ConcatEmptySeq
  <2>2. to_string(a) = d(1) \o <<Dot>> \o d(2) \o <<Dot>> \o d(3) \o <<Dot>> \o d(4)
    BY DEF to_string, Printed
  <2> HIDE DEF d
  <2> QED
    BY <2>1, <2>2 DEF t1, t2, t3, t4
<1>6. ip4_address(t4) = a
  <2>1. PICK run : Follows(run, t4) /\ FoldLeft(character, Start, t4) = run[Len(t4)]
    BY <1>4, RunOfText DEF Reads
  <2>2. FoldLeft(character, Start, t4) = InPart(a[4], b3)
    BY <1>4, <2>1 DEF Reads
  <2> QED
    BY <1>c, <2>2 DEF ip4_address, InPart
<1>7. Len(t4) < 16
  <2>1. <<Dot>> \in Seq(Characters) /\ Len(<<Dot>>) = 1
    BY DEF Characters
  <2>2. t1 \in Seq(Characters) /\ Len(t1) =< 3
    BY <1>b, ConcatEmptySeq DEF t1
  <2>3. t2 \in Seq(Characters) /\ Len(t2) =< 7
    BY <1>b, <2>1, <2>2, ConcatProperties DEF t2
  <2>4. t3 \in Seq(Characters) /\ Len(t3) =< 11
    BY <1>b, <2>1, <2>3, ConcatProperties DEF t3
  <2>5. t4 \in Seq(Characters) /\ Len(t4) =< 15
    BY <1>b, <2>1, <2>4, ConcatProperties DEF t4
  <2> QED
    BY <2>5
<1> QED
  BY <1>5, <1>6, <1>7
==================================================================================
