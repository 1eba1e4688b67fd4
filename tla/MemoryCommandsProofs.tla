------------------------- MODULE MemoryCommandsProofs -------------------------
(***************************************************************************)
(* Proofs about MemoryCommands: an upload is where the host put it, no     *)
(* command changes what was not named, and every answer is true.           *)
(*                                                                         *)
(* Sums and numbers are folds over sequences.  A fold is a CHOOSE, so each *)
(* needs a witness; from it comes the chain of values on the way, and      *)
(* from the chain what a number of two or four digits reads as.  The       *)
(* induction this takes is the least counterexample among the numbers.     *)
(***************************************************************************)
EXTENDS MemoryCommands, SequenceTheorems, FiniteSetTheorems, WellFoundedInduction, TLAPS

\* The order of the numbers is well-founded.
LEMMA Descent ==
  \E R : IsWellFoundedOn(R, Nat) /\ \A x, y \in Nat : y < x => <<y, x>> \in R
<1> DEFINE R == OpToRel(<, Nat)
<1>1. IsWellFoundedOn(R, Nat)
  BY NatLessThanWellFounded
<1>2. \A x, y \in Nat : y < x => <<y, x>> \in R
  BY DEF OpToRel
<1> HIDE DEF R
<1> QED
  BY <1>1, <1>2

\* A set of numbers with 0, and with n + 1 when n is in it, has all.
LEMMA AllNumbers ==
  ASSUME NEW I, 0 \in I, \A n \in Nat : n \in I => n + 1 \in I
  PROVE  \A n \in Nat : n \in I
<1> DEFINE J == {n \in Nat : n \notin I}
<1>1. PICK R : IsWellFoundedOn(R, Nat) /\ \A x, y \in Nat : y < x => <<y, x>> \in R
  BY Descent
<1>2. \A x, y \in Nat : y < x => <<y, x>> \in R
  BY <1>1
<1>3. SUFFICES ASSUME J # {} PROVE FALSE
  OBVIOUS
<1>4. PICK x \in J : \A y \in J : ~ (<<y, x>> \in R)
  BY <1>1, <1>3, WFMin
<1>5. x \in Nat /\ x # 0 /\ x \notin I
  BY <1>4
<1>6. x - 1 \in Nat /\ x - 1 < x /\ x - 1 + 1 = x
  BY <1>5
<1>7. x - 1 \in I
  <2>1. <<x - 1, x>> \in R
    BY <1>2, <1>5, <1>6
  <2> QED
    BY <1>4, <1>6, <2>1
<1> QED
  BY <1>5, <1>6, <1>7

\* Folding a function of two arguments: g gives the value for every set of
\* places, the last of which is taken first.
FoldOf(g, F, base, s, n) ==
  g = [t \in SUBSET (1 .. n) |->
         IF t = {} THEN base ELSE F[<<g[t \ {Max(t)}], s[Max(t)]>>]]

\* A set of places that is not empty has a last one.
LEMMA MaxIsIn ==
  \A n \in Nat : \A t \in SUBSET (1 .. n) :
     t # {} => Max(t) \in t /\ \A i \in t : i <= Max(t)
<1> DEFINE I == {n \in Nat : \A t \in SUBSET (1 .. n) : t # {} =>
                    \E x \in t : \A i \in t : x >= i}
<1>1. 0 \in I
  <2>1. 1 .. 0 = {}
    OBVIOUS
  <2>2. \A t \in SUBSET (1 .. 0) : t = {}
    BY <2>1
  <2> QED
    BY <2>2
<1>2. ASSUME NEW n \in Nat, n \in I PROVE n + 1 \in I
  <2> SUFFICES ASSUME NEW t \in SUBSET (1 .. n + 1), t # {}
               PROVE  \E x \in t : \A i \in t : x >= i
    OBVIOUS
  <2>1. CASE n + 1 \in t
    <3>1. \A i \in t : n + 1 >= i
      OBVIOUS
    <3> QED
      BY <2>1, <3>1
  <2>2. CASE n + 1 \notin t
    <3>1. t \in SUBSET (1 .. n)
      BY <2>2
    <3> QED
      BY <1>2, <3>1
  <2> QED
    BY <2>1, <2>2
<1>3. \A n \in Nat : n \in I
  <2> HIDE DEF I
  <2> QED
    BY <1>1, <1>2, AllNumbers
<1>4. ASSUME NEW n \in Nat, NEW t \in SUBSET (1 .. n), t # {}
      PROVE  Max(t) \in t /\ \A i \in t : i <= Max(t)
  <2>1. \E x \in t : \A i \in t : x >= i
    BY <1>3, <1>4
  <2>2. Max(t) \in t /\ \A i \in t : Max(t) >= i
    BY <2>1 DEF Max
  <2>3. \A i \in t : i \in Int
    OBVIOUS
  <2> QED
    BY <2>2, <2>3
<1> QED
  BY <1>4

FoldIn(V, F, base, s, n) ==
  \E g \in [SUBSET (1 .. n) -> V] : FoldOf(g, F, base, s, n)

\* There is such a function, for every sequence.
LEMMA FoldExists ==
  ASSUME NEW V, NEW W, NEW F \in [V \X W -> V], NEW base \in V, NEW s \in Seq(W)
  PROVE  FoldIn(V, F, base, s, Len(s))
<1>0. Len(s) \in Nat /\ \A i \in 1 .. Len(s) : s[i] \in W
  BY LenProperties, ElementOfSeq
<1> DEFINE I == {n \in Nat : n <= Len(s) => FoldIn(V, F, base, s, n)}
<1>1. 0 \in I
  <2> DEFINE g == [t \in SUBSET (1 .. 0) |-> base]
  <2>1. g \in [SUBSET (1 .. 0) -> V]
    OBVIOUS
  <2>0. 1 .. 0 = {}
    OBVIOUS
  <2>2. \A t \in SUBSET (1 .. 0) : t = {}
    BY <2>0
  <2>3. FoldOf(g, F, base, s, 0)
    BY <2>2 DEF FoldOf
  <2> HIDE DEF g
  <2>4. FoldIn(V, F, base, s, 0)
    BY <2>1, <2>3 DEF FoldIn
  <2> QED
    BY <2>4
<1>2. ASSUME NEW n \in Nat, n \in I PROVE n + 1 \in I
  <2> SUFFICES ASSUME n + 1 <= Len(s)
               PROVE  FoldIn(V, F, base, s, n + 1)
    OBVIOUS
  <2>0. FoldIn(V, F, base, s, n)
    BY <1>0, <1>2
  <2>1. PICK g \in [SUBSET (1 .. n) -> V] : FoldOf(g, F, base, s, n)
    BY <2>0 DEF FoldIn
  <2> DEFINE h == [t \in SUBSET (1 .. n + 1) |->
                     IF n + 1 \in t THEN F[<<g[t \ {n + 1}], s[n + 1]>>] ELSE g[t]]
  <2>2. \A t \in SUBSET (1 .. n + 1) : t \ {n + 1} \in SUBSET (1 .. n)
    OBVIOUS
  <2>3. s[n + 1] \in W
    BY <1>0
  <2>4. \A t \in SUBSET (1 .. n + 1) : n + 1 \notin t => t \in SUBSET (1 .. n)
    OBVIOUS
  <2>5. \A t \in SUBSET (1 .. n + 1) :
           (IF n + 1 \in t THEN F[<<g[t \ {n + 1}], s[n + 1]>>] ELSE g[t]) \in V
    BY <2>2, <2>3, <2>4
  <2>6. h \in [SUBSET (1 .. n + 1) -> V]
    BY <2>5
  <2>7. ASSUME NEW t \in SUBSET (1 .. n + 1)
        PROVE  h[t] = IF t = {} THEN base ELSE F[<<h[t \ {Max(t)}], s[Max(t)]>>]
    <3>1. \A u \in SUBSET (1 .. n) :
             g[u] = IF u = {} THEN base ELSE F[<<g[u \ {Max(u)}], s[Max(u)]>>]
      BY <2>1 DEF FoldOf
    <3>2. \A u \in SUBSET (1 .. n) : u \in SUBSET (1 .. n + 1) /\ h[u] = g[u]
      OBVIOUS
    <3>3. CASE n + 1 \in t
      <4>1. Max(t) = n + 1
        <5>1. n + 1 \in Nat /\ t # {}
          BY <3>3
        <5>2. Max(t) \in t /\ \A i \in t : i <= Max(t)
          BY <5>1, MaxIsIn
        <5>3. Max(t) \in 1 .. n + 1 /\ n + 1 <= Max(t)
          BY <3>3, <5>2
        <5> QED
          BY <5>3
      <4>2. h[t] = F[<<g[t \ {n + 1}], s[n + 1]>>]
        BY <3>3
      <4>3. h[t \ {n + 1}] = g[t \ {n + 1}]
        BY <2>2, <3>2
      <4> QED
        BY <3>3, <4>1, <4>2, <4>3
    <3>4. CASE n + 1 \notin t
      <4>1. t \in SUBSET (1 .. n) /\ h[t] = g[t]
        BY <2>4, <3>2, <3>4
      <4>2. t \ {Max(t)} \in SUBSET (1 .. n)
        BY <4>1
      <4>3. h[t \ {Max(t)}] = g[t \ {Max(t)}]
        BY <3>2, <4>2
      <4> HIDE DEF h
      <4> QED
        BY <3>1, <4>1, <4>3
    <3> QED
      BY <3>3, <3>4
  <2> HIDE DEF h
  <2>8. FoldOf(h, F, base, s, n + 1)
    BY <2>6, <2>7 DEF FoldOf
  <2> QED
    BY <2>6, <2>8 DEF FoldIn
<1>3. \A n \in Nat : n \in I
  <2> HIDE DEF I
  <2> QED
    BY <1>1, <1>2, AllNumbers
<1> QED
  BY <1>0, <1>3

\* The first places, and the last of them.
LEMMA PlacesFacts ==
  ASSUME NEW n \in Nat
  PROVE  /\ 1 .. 0 = {}
         /\ \A i \in 0 .. n : 1 .. i \in SUBSET (1 .. n)
         /\ \A i \in 1 .. n : 1 .. i # {} /\ Max(1 .. i) = i /\ (1 .. i) \ {i} = 1 .. i - 1
<1>1. ASSUME NEW i \in 1 .. n PROVE Max(1 .. i) = i
  <2>1. 1 .. i \in SUBSET (1 .. n) /\ i \in 1 .. i /\ 1 .. i # {}
    OBVIOUS
  <2>2. Max(1 .. i) \in 1 .. i /\ \A j \in 1 .. i : j <= Max(1 .. i)
    BY <2>1, MaxIsIn
  <2>3. Max(1 .. i) >= i /\ Max(1 .. i) \in 1 .. i
    BY <2>1, <2>2
  <2> QED
    BY <2>3
<1>2. \A i \in 1 .. n : 1 .. i # {} /\ (1 .. i) \ {i} = 1 .. i - 1
  OBVIOUS
<1>3. 1 .. 0 = {} /\ \A i \in 0 .. n : 1 .. i \in SUBSET (1 .. n)
  OBVIOUS
<1> QED
  BY <1>1, <1>2, <1>3

\* The values on the way, from the base to the result.
Chain(f, F, base, s) ==
  f[0] = base /\ \A i \in 1 .. Len(s) : f[i] = F[<<f[i - 1], s[i]>>]

ChainTo(V, F, base, s, r) ==
  \E f \in [0 .. Len(s) -> V] : Chain(f, F, base, s) /\ f[Len(s)] = r

\* G folds s as long as the values are in V.
Folds(G, V, F, base, s) ==
  /\ G[{}] = base
  /\ \A t \in SUBSET (1 .. Len(s)) : t # {} /\ G[t \ {Max(t)}] \in V =>
        G[t] = F[<<G[t \ {Max(t)}], s[Max(t)]>>]

\* The value of a fold is the last of a chain that takes the places in order.
LEMMA FoldChain ==
  ASSUME NEW V, NEW W, NEW F \in [V \X W -> V], NEW base \in V, NEW s \in Seq(W),
         NEW G, Folds(G, V, F, base, s)
  PROVE  ChainTo(V, F, base, s, G[1 .. Len(s)])
<1> DEFINE n == Len(s)
           f == [i \in 0 .. n |-> G[1 .. i]]
           I == {i \in Nat : i <= n => G[1 .. i] \in V}
<1>1. n \in Nat /\ \A i \in 1 .. n : s[i] \in W
  BY LenProperties, ElementOfSeq
<1>2. G[1 .. 0] = base
  BY PlacesFacts DEF Folds
<1>3. ASSUME NEW i \in 1 .. n, G[1 .. i - 1] \in V
      PROVE  G[1 .. i] = F[<<G[1 .. i - 1], s[i]>>]
  <2>1. /\ 1 .. i # {} /\ Max(1 .. i) = i /\ (1 .. i) \ {i} = 1 .. i - 1
        /\ 1 .. i \in SUBSET (1 .. n)
    BY <1>1, PlacesFacts
  <2> QED
    BY <1>3, <2>1 DEF Folds
<1>4. 0 \in I
  BY <1>2
<1>5. ASSUME NEW i \in Nat, i \in I PROVE i + 1 \in I
  <2> SUFFICES ASSUME i + 1 <= n PROVE G[1 .. i + 1] \in V
    OBVIOUS
  <2>1. G[1 .. i] \in V
    BY <1>1, <1>5
  <2> DEFINE j == i + 1
  <2>2. j \in 1 .. n /\ j - 1 = i
    BY <1>1
  <2> HIDE DEF j, n
  <2>3. G[1 .. j] = F[<<G[1 .. i], s[j]>>] /\ s[j] \in W
    BY <1>1, <1>3, <2>1, <2>2
  <2> QED
    BY <2>1, <2>3 DEF j
<1>6. \A i \in Nat : i \in I
  <2> HIDE DEF I
  <2> QED
    BY <1>4, <1>5, AllNumbers
<1>7. \A i \in 0 .. n : G[1 .. i] \in V
  BY <1>1, <1>6
<1>8. f \in [0 .. n -> V]
  BY <1>7
<1>9. f[0] = base /\ f[n] = G[1 .. n]
  BY <1>1, <1>2
<1>10. \A i \in 1 .. n : f[i] = F[<<f[i - 1], s[i]>>]
  BY <1>1, <1>3, <1>7
<1> HIDE DEF f
<1>11. Chain(f, F, base, s)
  BY <1>9, <1>10 DEF Chain
<1> QED
  BY <1>8, <1>9, <1>11 DEF ChainTo

Plus == [p \in Int \X Int |-> p[1] + p[2]]

\* A sum is reached byte by byte.
LEMMA SumFold ==
  ASSUME NEW s \in Seq(Int)
  PROVE  ChainTo(Int, Plus, 0, s, SumOf(s))
<1> DEFINE n == Len(s)
           Eq(g) == g = [t \in SUBSET (1 .. n) |->
                IF t = {} THEN 0 ELSE g[t \ {Max(t)}] + s[Max(t)]]
           G == CHOOSE g : Eq(g)
<1>1. n \in Nat /\ DOMAIN s = 1 .. n /\ \A i \in 1 .. n : s[i] \in Int
  BY LenProperties, ElementOfSeq
<1>2. Plus \in [Int \X Int -> Int] /\ \A x, y \in Int : Plus[<<x, y>>] = x + y
  BY DEF Plus
<1>3. ASSUME NEW t \in SUBSET (1 .. n), t # {}
      PROVE  s[Max(t)] \in Int /\ t \ {Max(t)} \in SUBSET (1 .. n)
  BY <1>1, <1>3, MaxIsIn
<1>4. \E g : Eq(g)
  <2>1. FoldIn(Int, Plus, 0, s, Len(s))
    BY ONLY <1>2, 0 \in Int, s \in Seq(Int), FoldExists, Zenon
  <2>2. PICK g \in [SUBSET (1 .. n) -> Int] : FoldOf(g, Plus, 0, s, n)
    BY <2>1 DEF FoldIn
  <2>3. ASSUME NEW t \in SUBSET (1 .. n), t # {}
        PROVE  Plus[<<g[t \ {Max(t)}], s[Max(t)]>>] = g[t \ {Max(t)}] + s[Max(t)]
    BY <1>2, <1>3, <2>3
  <2>4. Eq(g)
    BY <2>2, <2>3 DEF FoldOf
  <2> QED
    BY <2>4
<1>5. Eq(G)
  BY <1>4
<1>6. SumOf(s) = G[1 .. n]
  BY <1>1 DEF SumOf, FoldLeft, MapThenFoldSet
<1> HIDE DEF G
<1>7. G[{}] = 0
  BY <1>5
<1>8. ASSUME NEW t \in SUBSET (1 .. n), t # {}, G[t \ {Max(t)}] \in Int
      PROVE  G[t] = Plus[<<G[t \ {Max(t)}], s[Max(t)]>>]
  BY <1>2, <1>3, <1>5, <1>8
<1>9. Folds(G, Int, Plus, 0, s)
  BY <1>7, <1>8 DEF Folds
<1>10. ChainTo(Int, Plus, 0, s, G[1 .. Len(s)])
  BY ONLY <1>2, <1>9, 0 \in Int, s \in Seq(Int), FoldChain, Zenon
<1> QED
  BY <1>6, <1>10

Digit(c) == IF c >= 65 THEN c - 55 ELSE c - 48

Hexing == [p \in Int \X Int |-> p[1] * 16 + Digit(p[2])]

\* A number is read digit by digit.
LEMMA HexFold ==
  ASSUME NEW s \in Seq(Int)
  PROVE  ChainTo(Int, Hexing, 0, s, util_hexasc_to_u32(s))
<1> DEFINE n == Len(s)
           Eq(g) == g = [t \in SUBSET (1 .. n) |->
                IF t = {} THEN 0 ELSE g[t \ {Max(t)}] * 16 + Digit(s[Max(t)])]
           G == CHOOSE g : Eq(g)
<1>1. n \in Nat /\ DOMAIN s = 1 .. n /\ \A i \in 1 .. n : s[i] \in Int
  BY LenProperties, ElementOfSeq
<1>2. Hexing \in [Int \X Int -> Int] /\ \A x, y \in Int : Hexing[<<x, y>>] = x * 16 + Digit(y)
  BY DEF Hexing, Digit
<1>3. ASSUME NEW t \in SUBSET (1 .. n), t # {}
      PROVE  s[Max(t)] \in Int /\ t \ {Max(t)} \in SUBSET (1 .. n)
  BY <1>1, <1>3, MaxIsIn
<1>4. \E g : Eq(g)
  <2>1. FoldIn(Int, Hexing, 0, s, Len(s))
    BY ONLY <1>2, 0 \in Int, s \in Seq(Int), FoldExists, Zenon
  <2>2. PICK g \in [SUBSET (1 .. n) -> Int] : FoldOf(g, Hexing, 0, s, n)
    BY <2>1 DEF FoldIn
  <2>3. ASSUME NEW t \in SUBSET (1 .. n), t # {}
        PROVE  Hexing[<<g[t \ {Max(t)}], s[Max(t)]>>] = g[t \ {Max(t)}] * 16 + Digit(s[Max(t)])
    BY <1>2, <1>3, <2>3
  <2>4. Eq(g)
    BY <2>2, <2>3 DEF FoldOf
  <2> QED
    BY <2>4
<1>5. Eq(G)
  BY <1>4
<1>6. util_hexasc_to_u32(s) = G[1 .. n]
  BY <1>1 DEF util_hexasc_to_u32, FoldLeft, MapThenFoldSet, Digit
<1> HIDE DEF G
<1>7. G[{}] = 0
  BY <1>5
<1>8. ASSUME NEW t \in SUBSET (1 .. n), t # {}, G[t \ {Max(t)}] \in Int
      PROVE  G[t] = Hexing[<<G[t \ {Max(t)}], s[Max(t)]>>]
  BY <1>2, <1>3, <1>5, <1>8
<1>9. Folds(G, Int, Hexing, 0, s)
  BY <1>7, <1>8 DEF Folds
<1>10. ChainTo(Int, Hexing, 0, s, G[1 .. Len(s)])
  BY ONLY <1>2, <1>9, 0 \in Int, s \in Seq(Int), FoldChain, Zenon
<1> QED
  BY <1>6, <1>10

-----------------------------------------------------------------------------
(* Numbers as characters.                                                  *)

\* What one, two and four characters read as.
LEMMA HexValues ==
  ASSUME NEW s \in Seq(Int)
  PROVE  /\ util_hexasc_to_u32(s) \in Int
         /\ Len(s) = 1 => util_hexasc_to_u32(s) = Digit(s[1])
         /\ Len(s) = 2 => util_hexasc_to_u32(s) = 16 * Digit(s[1]) + Digit(s[2])
         /\ Len(s) = 4 => util_hexasc_to_u32(s) =
               16 * (16 * (16 * Digit(s[1]) + Digit(s[2])) + Digit(s[3])) + Digit(s[4])
<1>1. PICK f \in [0 .. Len(s) -> Int] :
         Chain(f, Hexing, 0, s) /\ f[Len(s)] = util_hexasc_to_u32(s)
  BY HexFold DEF ChainTo
<1>2. Len(s) \in Nat /\ \A i \in 1 .. Len(s) : s[i] \in Int
  BY LenProperties, ElementOfSeq
<1>3. \A i \in 1 .. Len(s) : f[i] = f[i - 1] * 16 + Digit(s[i]) /\ f[i - 1] \in Int
  <2>1. \A x, y \in Int : Hexing[<<x, y>>] = x * 16 + Digit(y)
    BY DEF Hexing
  <2>2. \A i \in 1 .. Len(s) : f[i] = Hexing[<<f[i - 1], s[i]>>]
    BY <1>1 DEF Chain
  <2>3. \A i \in 1 .. Len(s) : i - 1 \in 0 .. Len(s)
    BY <1>2
  <2>4. \A i \in 1 .. Len(s) : f[i - 1] \in Int
    BY <1>1, <2>3
  <2> QED
    BY <1>2, <2>1, <2>2, <2>4
<1>4. f[0] = 0
  BY <1>1 DEF Chain
<1>5. \A i \in 1 .. Len(s) : Digit(s[i]) \in Int
  BY <1>2 DEF Digit
<1>6. ASSUME Len(s) = 1
      PROVE  util_hexasc_to_u32(s) = Digit(s[1])
  <2>1. f[1] = f[0] * 16 + Digit(s[1])
    BY <1>3, <1>6
  <2> QED
    BY <1>1, <1>4, <1>5, <1>6, <2>1
<1>7. ASSUME Len(s) = 2
      PROVE  util_hexasc_to_u32(s) = 16 * Digit(s[1]) + Digit(s[2])
  <2>1. f[1] = f[0] * 16 + Digit(s[1]) /\ f[2] = f[1] * 16 + Digit(s[2])
    BY <1>3, <1>7
  <2>2. Digit(s[1]) \in Int /\ Digit(s[2]) \in Int
    BY <1>5, <1>7
  <2> QED
    BY <1>1, <1>4, <1>7, <2>1, <2>2
<1>8. ASSUME Len(s) = 4
      PROVE  util_hexasc_to_u32(s) =
               16 * (16 * (16 * Digit(s[1]) + Digit(s[2])) + Digit(s[3])) + Digit(s[4])
  <2>1. /\ f[1] = f[0] * 16 + Digit(s[1]) /\ f[2] = f[1] * 16 + Digit(s[2])
        /\ f[3] = f[2] * 16 + Digit(s[3]) /\ f[4] = f[3] * 16 + Digit(s[4])
    BY <1>3, <1>8
  <2>2. /\ Digit(s[1]) \in Int /\ Digit(s[2]) \in Int
        /\ Digit(s[3]) \in Int /\ Digit(s[4]) \in Int
    BY <1>5, <1>8
  <2>3. f[4] = util_hexasc_to_u32(s)
    BY <1>1, <1>8
  <2> DEFINE a == Digit(s[1])
             b == Digit(s[2])
             c == Digit(s[3])
             e == Digit(s[4])
  <2>4. /\ f[1] = f[0] * 16 + a /\ f[2] = f[1] * 16 + b
        /\ f[3] = f[2] * 16 + c /\ f[4] = f[3] * 16 + e
    BY <2>1
  <2>5. a \in Int /\ b \in Int /\ c \in Int /\ e \in Int
    BY <2>2
  <2> HIDE DEF a, b, c, e
  <2>6. f[1] = a /\ f[2] = 16 * a + b
    BY ONLY <1>4, <2>4, <2>5
  <2>7. f[3] = 16 * (16 * a + b) + c
    BY ONLY <2>4, <2>5, <2>6
  <2>8. f[4] = 16 * (16 * (16 * a + b) + c) + e
    BY ONLY <2>4, <2>5, <2>7
  <2> QED
    BY ONLY <2>3, <2>8 DEF a, b, c, e
<1> QED
  BY <1>1, <1>2, <1>6, <1>7, <1>8

\* A function of the first n places is a sequence.
LEMMA FunctionIsSeq ==
  ASSUME NEW S, NEW n \in Nat, NEW f \in [1 .. n -> S]
  PROVE  f \in Seq(S) /\ Len(f) = n
<1>1. f \in Seq(S)
  BY SeqDef
<1> QED
  BY <1>1, LenProperties

\* A sum of numbers is a number.
LEMMA SumType ==
  ASSUME NEW s \in Seq(Int)
  PROVE  SumOf(s) \in Int
<1>1. PICK f \in [0 .. Len(s) -> Int] : Chain(f, Plus, 0, s) /\ f[Len(s)] = SumOf(s)
  BY SumFold DEF ChainTo
<1> QED
  BY <1>1, LenProperties

\* The digits written are those of the number.
Written1(v) == /\ Hexasc(v, 1) \in Seq(Int) /\ Len(Hexasc(v, 1)) = 1
               /\ Digit(Hexasc(v, 1)[1]) = v % 16

Written2(v) == /\ Hexasc(v, 2) \in Seq(Int) /\ Len(Hexasc(v, 2)) = 2
               /\ Digit(Hexasc(v, 2)[1]) = (v \div 16) % 16
               /\ Digit(Hexasc(v, 2)[2]) = v % 16

Written4(v) == /\ Hexasc(v, 4) \in Seq(Int) /\ Len(Hexasc(v, 4)) = 4
               /\ Digit(Hexasc(v, 4)[1]) = (v \div 4096) % 16
               /\ Digit(Hexasc(v, 4)[2]) = (v \div 256) % 16
               /\ Digit(Hexasc(v, 4)[3]) = (v \div 16) % 16
               /\ Digit(Hexasc(v, 4)[4]) = v % 16

\* One, two and four digits, the most significant first.
LEMMA HexascFacts == \A v \in Nat : Written1(v) /\ Written2(v) /\ Written4(v)
<1> TAKE v \in Nat
<1> DEFINE Char(d) == IF d > 9 THEN d + 55 ELSE d + 48
<1>1. \A d \in 0 .. 15 : Char(d) \in Int /\ Digit(Char(d)) = d
  BY DEF Digit
<1>2. 16 ^ 0 = 1 /\ 16 ^ 1 = 16 /\ 16 ^ 2 = 256 /\ 16 ^ 3 = 4096
  OBVIOUS
<1>3. /\ v \div 1 = v /\ v \div 16 \in Nat /\ v \div 256 \in Nat /\ v \div 4096 \in Nat
  OBVIOUS
<1>4. \A x \in Nat : x % 16 \in 0 .. 15
  OBVIOUS
<1>5. Hexasc(v, 1) = [i \in 1 .. 1 |-> Char((v \div 16 ^ (1 - i)) % 16)]
  BY DEF Hexasc
<1>6. Hexasc(v, 2) = [i \in 1 .. 2 |-> Char((v \div 16 ^ (2 - i)) % 16)]
  BY DEF Hexasc
<1>7. Hexasc(v, 4) = [i \in 1 .. 4 |-> Char((v \div 16 ^ (4 - i)) % 16)]
  BY DEF Hexasc
<1> HIDE DEF Char
<1>8. Hexasc(v, 1)[1] = Char(v % 16)
  BY <1>2, <1>3, <1>5
<1>9. Hexasc(v, 2)[1] = Char((v \div 16) % 16) /\ Hexasc(v, 2)[2] = Char(v % 16)
  BY <1>2, <1>3, <1>6
<1>10. /\ Hexasc(v, 4)[1] = Char((v \div 4096) % 16) /\ Hexasc(v, 4)[2] = Char((v \div 256) % 16)
       /\ Hexasc(v, 4)[3] = Char((v \div 16) % 16) /\ Hexasc(v, 4)[4] = Char(v % 16)
  BY <1>2, <1>3, <1>7
<1>11. /\ (v \div 4096) % 16 \in 0 .. 15 /\ (v \div 256) % 16 \in 0 .. 15
       /\ (v \div 16) % 16 \in 0 .. 15 /\ v % 16 \in 0 .. 15
  BY <1>3, <1>4
<1>12. Hexasc(v, 1) \in Seq(Int) /\ Len(Hexasc(v, 1)) = 1
  <2>1. \A i \in 1 .. 1 : Hexasc(v, 1)[i] \in Int
    BY <1>1, <1>8, <1>11
  <2>2. Hexasc(v, 1) \in [1 .. 1 -> Int]
    BY <1>5, <2>1
  <2> QED
    BY <2>2, FunctionIsSeq
<1>13. Hexasc(v, 2) \in Seq(Int) /\ Len(Hexasc(v, 2)) = 2
  <2>1. \A i \in 1 .. 2 : Hexasc(v, 2)[i] \in Int
    BY <1>1, <1>9, <1>11
  <2>2. Hexasc(v, 2) \in [1 .. 2 -> Int]
    BY <1>6, <2>1
  <2> QED
    BY <2>2, FunctionIsSeq
<1>14. Hexasc(v, 4) \in Seq(Int) /\ Len(Hexasc(v, 4)) = 4
  <2>1. \A i \in 1 .. 4 : Hexasc(v, 4)[i] \in Int
    BY <1>1, <1>10, <1>11
  <2>2. Hexasc(v, 4) \in [1 .. 4 -> Int]
    BY <1>7, <2>1
  <2> QED
    BY <2>2, FunctionIsSeq
<1>15. /\ Digit(Hexasc(v, 1)[1]) = v % 16
       /\ Digit(Hexasc(v, 2)[1]) = (v \div 16) % 16
       /\ Digit(Hexasc(v, 2)[2]) = v % 16
       /\ Digit(Hexasc(v, 4)[1]) = (v \div 4096) % 16
       /\ Digit(Hexasc(v, 4)[2]) = (v \div 256) % 16
       /\ Digit(Hexasc(v, 4)[3]) = (v \div 16) % 16
       /\ Digit(Hexasc(v, 4)[4]) = v % 16
  <2>1. \A d, c : d \in 0 .. 15 /\ c = Char(d) => Digit(c) = d
    BY <1>1
  <2> QED
    BY ONLY <1>8, <1>9, <1>10, <1>11, <2>1
<1> QED
  BY ONLY <1>12, <1>13, <1>14, <1>15 DEF Written1, Written2, Written4

\* And they are read back.
LEMMA ReadBack1 == \A v \in 0 .. 15 : util_hexasc_to_u32(Hexasc(v, 1)) = v
<1> TAKE v \in 0 .. 15
<1>1. v \in Nat /\ v % 16 = v
  OBVIOUS
<1>2. /\ Hexasc(v, 1) \in Seq(Int) /\ Len(Hexasc(v, 1)) = 1
      /\ Digit(Hexasc(v, 1)[1]) = v % 16
  BY <1>1, HexascFacts DEF Written1
<1> QED
  BY <1>1, <1>2, HexValues

\* The same with two digits: an address, a checksum of a frame.
LEMMA ReadBack2 == \A v \in 0 .. 255 : util_hexasc_to_u32(Hexasc(v, 2)) = v
<1> TAKE v \in 0 .. 255
<1>1. v \in Nat /\ 16 * ((v \div 16) % 16) + (v % 16) = v
  OBVIOUS
<1>2. /\ Hexasc(v, 2) \in Seq(Int) /\ Len(Hexasc(v, 2)) = 2
      /\ Digit(Hexasc(v, 2)[1]) = (v \div 16) % 16
      /\ Digit(Hexasc(v, 2)[2]) = v % 16
  BY <1>1, HexascFacts DEF Written2
<1> QED
  BY <1>1, <1>2, HexValues

\* The same with four digits: the checksum RQRC and RQCS answer with.
LEMMA ReadBack4 ==
  ASSUME NEW v \in Int, 0 <= v, v < 65536
  PROVE  util_hexasc_to_u32(Hexasc(v, 4)) = v
<1>1. v \in Nat
  OBVIOUS
<1> DEFINE a == v \div 4096
           b == v \div 256
           c == v \div 16
<1>2. /\ a \in Int /\ 0 <= a /\ a < 16
      /\ b \in Int /\ 0 <= b /\ b < 256
      /\ c \in Int /\ 0 <= c /\ c < 4096
  OBVIOUS
<1>3. a % 16 = a
  BY <1>2
<1>4. b = 16 * a + (b % 16)
  <2>1. v = 4096 * a + (v % 4096) /\ v % 4096 \in Int /\ 0 <= v % 4096 /\ v % 4096 < 4096
    OBVIOUS
  <2>2. v = 256 * b + (v % 256) /\ v % 256 \in Int /\ 0 <= v % 256 /\ v % 256 < 256
    OBVIOUS
  <2> DEFINE x == b \div 16
             y == b % 16
             q == v % 4096
             r == v % 256
  <2>3. b = 16 * x + y /\ x \in Int /\ y \in Int /\ 0 <= y /\ y < 16
    BY <1>2
  <2> HIDE DEF a, b, x, y, q, r
  <2>4. x = a
    BY <1>2, <2>1, <2>2, <2>3 DEF q, r
  <2> QED
    BY <2>3, <2>4 DEF y
<1>5. c = 16 * b + (c % 16)
  <2>1. v = 256 * b + (v % 256) /\ v % 256 \in Int /\ 0 <= v % 256 /\ v % 256 < 256
    OBVIOUS
  <2>2. v = 16 * c + (v % 16) /\ v % 16 \in Int /\ 0 <= v % 16 /\ v % 16 < 16
    OBVIOUS
  <2> DEFINE x == c \div 16
             y == c % 16
             q == v % 256
             r == v % 16
  <2>3. c = 16 * x + y /\ x \in Int /\ y \in Int /\ 0 <= y /\ y < 16
    BY <1>2
  <2> HIDE DEF b, c, x, y, q, r
  <2>4. x = b
    BY <1>2, <2>1, <2>2, <2>3 DEF q, r
  <2> QED
    BY <2>3, <2>4 DEF y
<1>6. v = 16 * c + (v % 16)
  OBVIOUS
<1>7. Written4(v)
  BY <1>1, HexascFacts
<1>8. util_hexasc_to_u32(Hexasc(v, 4))
        = 16 * (16 * (16 * (a % 16) + (b % 16)) + (c % 16)) + (v % 16)
  <2> DEFINE w == Hexasc(v, 4)
  <2>1. /\ w \in Seq(Int) /\ Len(w) = 4
        /\ Digit(w[1]) = a % 16 /\ Digit(w[2]) = b % 16
        /\ Digit(w[3]) = c % 16 /\ Digit(w[4]) = v % 16
    BY ONLY <1>7 DEF Written4, a, b, c
  <2> HIDE DEF w, a, b, c
  <2>2. util_hexasc_to_u32(w) =
          16 * (16 * (16 * Digit(w[1]) + Digit(w[2])) + Digit(w[3])) + Digit(w[4])
    BY ONLY <2>1, HexValues
  <2> QED
    BY ONLY <2>1, <2>2 DEF w
<1> HIDE DEF a, b, c
<1> QED
  BY <1>2, <1>3, <1>4, <1>5, <1>6, <1>8

\* Two digits out of many.
LEMMA TwoDigits ==
  ASSUME NEW s \in Seq(Int), NEW i \in 1 .. Len(s) - 1
  PROVE  util_hexasc_to_u32(SubSeq(s, i, i + 1)) = 16 * Digit(s[i]) + Digit(s[i + 1])
<1> DEFINE u == SubSeq(s, i, i + 1)
<1>1. Len(s) \in Nat
  BY LenProperties
<1>2. u \in Seq(Int) /\ Len(u) = 2 /\ u[1] = s[i] /\ u[2] = s[i + 1]
  BY <1>1, SubSeqProperties
<1> HIDE DEF u
<1>3. util_hexasc_to_u32(u) = 16 * Digit(u[1]) + Digit(u[2])
  BY <1>2, HexValues
<1> QED
  BY <1>2, <1>3 DEF u

\* The sum behind the characters, and what is made of it.
LEMMA ProtectedFacts ==
  ASSUME NEW chars \in Seq(Int), NEW ok \in BOOLEAN
  PROVE  /\ Protected(chars, ok) \in Seq(Int)
         /\ Len(Protected(chars, ok)) = Len(chars) + 2
         /\ \A i \in 1 .. Len(chars) : Protected(chars, ok)[i] = chars[i]
         /\ ChecksumOk(Protected(chars, ok), Len(chars)) <=> ok
<1> DEFINE n == Len(chars)
           sum == SumOf(chars)
           told == (sum + (IF ok THEN 0 ELSE 1)) % 256
           two == Hexasc(told, 2)
           p == chars \o two
<1>1. n \in Nat /\ sum \in Int
  BY SumType, LenProperties
<1>2. told \in 0 .. 255 /\ (told = sum % 256 <=> ok)
  <2> HIDE DEF sum
  <2> QED
    BY <1>1
<1>3. Protected(chars, ok) = p
  BY DEF Protected
<1> HIDE DEF sum, told
<1>4. two \in Seq(Int) /\ Len(two) = 2 /\ util_hexasc_to_u32(two) = told
  <2>1. told \in Nat
    BY <1>2
  <2>2. two \in Seq(Int) /\ Len(two) = 2
    BY <2>1, HexascFacts DEF Written2
  <2>3. told \in 0 .. 255
    BY <1>2
  <2>4. util_hexasc_to_u32(Hexasc(told, 2)) = told
    BY <2>3, ReadBack2
  <2> QED
    BY <2>2, <2>4
<1> HIDE DEF two
<1>5. /\ p \in Seq(Int) /\ Len(p) = n + 2
      /\ \A i \in 1 .. n + 2 : p[i] = IF i <= n THEN chars[i] ELSE two[i - n]
  <2>1. /\ p \in Seq(Int) /\ Len(p) = Len(chars) + Len(two)
        /\ \A i \in 1 .. Len(chars) + Len(two) :
              p[i] = IF i <= Len(chars) THEN chars[i] ELSE two[i - Len(chars)]
    BY ONLY <1>4, chars \in Seq(Int), ConcatProperties
  <2> QED
    BY <1>4, <2>1
<1> HIDE DEF p
<1>6. SubSeq(p, 1, n) = chars
  <2>1. SubSeq(p, 1, n) \in Seq(Int) /\ Len(SubSeq(p, 1, n)) = n
    BY <1>1, <1>5, SubSeqProperties
  <2>2. \A i \in 1 .. n : SubSeq(p, 1, n)[i] = p[i]
    BY <1>1, <1>5, SubSeqProperties
  <2>3. \A i \in 1 .. n : p[i] = chars[i]
    BY <1>1, <1>5
  <2> QED
    BY <2>1, <2>2, <2>3, SeqEqual
<1>7. util_hexasc_to_u32(SubSeq(p, n + 1, n + 2)) = told
  <2>1. n + 1 \in 1 .. Len(p) - 1 /\ n + 1 + 1 = n + 2
    BY <1>1, <1>5
  <2>2. util_hexasc_to_u32(SubSeq(p, n + 1, n + 2)) = 16 * Digit(p[n + 1]) + Digit(p[n + 2])
    BY ONLY <1>5, <2>1, TwoDigits
  <2>3. p[n + 1] = two[1] /\ p[n + 2] = two[2]
    BY <1>1, <1>5
  <2>4. util_hexasc_to_u32(two) = 16 * Digit(two[1]) + Digit(two[2])
    BY <1>4, HexValues
  <2> QED
    BY <1>4, <2>2, <2>3, <2>4
<1>8. ChecksumOk(p, n) <=> ok
  BY <1>2, <1>6, <1>7 DEF ChecksumOk, sum
<1>9. \A i \in 1 .. n : p[i] = chars[i]
  BY <1>1, <1>5
<1> QED
  BY <1>3, <1>5, <1>8, <1>9

-----------------------------------------------------------------------------
(* BIN: the payload is moved up.                                           *)

Buffer(n) == [1 .. n -> Int]

Count(n) == [k \in 1 .. n |-> k]

Moving(n, first, size, shift) ==
  [p \in Buffer(n) \X (1 .. size) |->
     [p[1] EXCEPT ![first + size - p[2] + shift] = p[1][first + size - p[2]]]]

\* Byte by byte from the end on, it is a chain of single moves.
LEMMA MoveFold ==
  ASSUME NEW n \in Nat, NEW buf \in Buffer(n), NEW first \in Nat \ {0}, NEW size \in Nat,
         NEW shift \in Nat, first + size <= n + 1
  PROVE  ChainTo(Buffer(n), Moving(n, first, size, shift), buf, Count(size),
                 MoveRight(buf, first, size, shift))
<1> DEFINE V == Buffer(n)
           W == 1 .. size
           s == Count(size)
           F == Moving(n, first, size, shift)
           Step(b, k) == [b EXCEPT ![first + size - k + shift] = b[first + size - k]]
           Eq(g) == g = [t \in SUBSET (1 .. size) |->
                IF t = {} THEN buf ELSE Step(g[t \ {Max(t)}], s[Max(t)])]
           G == CHOOSE g : Eq(g)
<1>1. s \in Seq(W) /\ Len(s) = size /\ DOMAIN s = 1 .. size /\ \A k \in 1 .. size : s[k] = k
  <2>1. s \in [1 .. size -> W]
    BY DEF Count
  <2>2. s \in Seq(W) /\ Len(s) = size
    BY ONLY <2>1, size \in Nat, FunctionIsSeq
  <2> QED
    BY <2>1, <2>2 DEF Count
<1>2. F \in [V \X W -> V] /\ \A b \in V : \A k \in W : F[<<b, k>>] = Step(b, k)
  <2>1. \A b \in V : \A k \in W : Step(b, k) \in V
    <3> TAKE b \in V
    <3> TAKE k \in W
    <3>1. first + size - k \in 1 .. n
      OBVIOUS
    <3>2. b[first + size - k] \in Int
      BY <3>1 DEF Buffer
    <3> DEFINE x == b[first + size - k]
               q == first + size - k + shift
    <3> HIDE DEF x, q
    <3>3. [b EXCEPT ![q] = x] \in V
      BY <3>2 DEF Buffer, x
    <3> QED
      BY <3>3 DEF x, q
  <2> HIDE DEF W
  <2>2. F = [p \in V \X W |-> Step(p[1], p[2])]
    BY DEF Moving, W
  <2> HIDE DEF Step, F, V
  <2> QED
    BY <2>1, <2>2
<1>0. buf \in V
  OBVIOUS
<1> HIDE DEF F, V, s
<1>3. ASSUME NEW t \in SUBSET (1 .. size), t # {}
      PROVE  s[Max(t)] \in W /\ t \ {Max(t)} \in SUBSET (1 .. size)
  BY <1>1, <1>3, MaxIsIn
<1> HIDE DEF Step, W
<1>4. \E g : Eq(g)
  <2>1. FoldIn(V, F, buf, s, Len(s))
    BY ONLY <1>0, <1>1, <1>2, FoldExists, Zenon
  <2>2. PICK g \in [SUBSET (1 .. size) -> V] : FoldOf(g, F, buf, s, size)
    BY <1>1, <2>1 DEF FoldIn
  <2>3. ASSUME NEW t \in SUBSET (1 .. size), t # {}
        PROVE  F[<<g[t \ {Max(t)}], s[Max(t)]>>] = Step(g[t \ {Max(t)}], s[Max(t)])
    BY <1>2, <1>3, <2>3
  <2>4. Eq(g)
    BY <2>2, <2>3 DEF FoldOf
  <2> QED
    BY <2>4
<1>5. Eq(G)
  BY <1>4
<1>6. MoveRight(buf, first, size, shift) = G[1 .. size]
  BY <1>1 DEF MoveRight, FoldLeft, MapThenFoldSet, Step, s, Count
<1> HIDE DEF G
<1>7. G[{}] = buf
  BY <1>5
<1>8. ASSUME NEW t \in SUBSET (1 .. size), t # {}, G[t \ {Max(t)}] \in V
      PROVE  G[t] = F[<<G[t \ {Max(t)}], s[Max(t)]>>]
  BY <1>2, <1>3, <1>5, <1>8
<1>9. Folds(G, V, F, buf, s)
  BY <1>1, <1>7, <1>8 DEF Folds
<1>10. ChainTo(V, F, buf, s, G[1 .. Len(s)])
  BY ONLY <1>0, <1>1, <1>2, <1>9, FoldChain, Zenon
<1> QED
  BY <1>1, <1>6, <1>10 DEF F, V, s

Moved(moved, n, buf, first, size, shift) ==
  /\ moved \in Buffer(n)
  /\ \A i \in 1 .. size : moved[first + i - 1 + shift] = buf[first + i - 1]

\* Moved up, the payload is whole: a byte is read before it is overwritten.
LEMMA MoveFacts ==
  ASSUME NEW n \in Nat, NEW buf \in Buffer(n), NEW first \in Nat \ {0}, NEW size \in Nat,
         NEW shift \in Nat, first + size + shift <= n + 1
  PROVE  Moved(MoveRight(buf, first, size, shift), n, buf, first, size, shift)
<1> DEFINE V == Buffer(n)
           s == Count(size)
           F == Moving(n, first, size, shift)
           moved == MoveRight(buf, first, size, shift)
<1>0. Len(s) = size /\ \A k \in 1 .. size : s[k] = k
  <2>1. s \in [1 .. size -> 1 .. size]
    BY DEF Count
  <2>2. Len(s) = size
    BY ONLY <2>1, size \in Nat, FunctionIsSeq
  <2> QED
    BY <2>2 DEF Count
<1>1. first + size <= n + 1
  OBVIOUS
<1>2. ChainTo(V, F, buf, s, moved)
  BY <1>1, MoveFold
<1>3. PICK f \in [0 .. Len(s) -> V] : Chain(f, F, buf, s) /\ f[Len(s)] = moved
  BY <1>2 DEF ChainTo
<1>4. f[0] = buf /\ f[size] = moved /\ \A i \in 0 .. size : f[i] \in V
  BY <1>0, <1>3 DEF Chain
<1>5. ASSUME NEW k \in 1 .. size
      PROVE  f[k] = [f[k - 1] EXCEPT ![first + size - k + shift] = f[k - 1][first + size - k]]
  <2>1. f[k] = F[<<f[k - 1], s[k]>>] /\ s[k] = k
    BY <1>0, <1>3 DEF Chain
  <2>2. f[k - 1] \in V /\ k \in 1 .. size
    BY <1>4
  <2> QED
    BY <2>1, <2>2 DEF Moving
<1> HIDE DEF s, F, moved
<1> DEFINE Kept(k) == \A j \in 1 .. n : j < first + size - k + shift => f[k][j] = buf[j]
           There(k) == \A j \in first + size - k .. first + size - 1 :
                          f[k][j + shift] = buf[j]
           I == {k \in Nat : k <= size => Kept(k) /\ There(k)}
<1>6. 0 \in I
  BY <1>4
<1>7. ASSUME NEW i \in Nat, i \in I PROVE i + 1 \in I
  <2> SUFFICES ASSUME i + 1 <= size PROVE Kept(i + 1) /\ There(i + 1)
    OBVIOUS
  <2> DEFINE k == i + 1
             q == first + size - k
  <2>1. Kept(i) /\ There(i)
    BY <1>7
  <2>2. k \in 1 .. size /\ k - 1 = i
    OBVIOUS
  <2>3. f[i] \in [1 .. n -> Int]
    BY <1>4 DEF Buffer
  <2> HIDE DEF k
  <2>4. f[k] = [f[i] EXCEPT ![q + shift] = f[i][q]]
    BY <1>5, <2>2
  <2>5. q \in Nat /\ q + 1 = first + size - i /\ q \in 1 .. n /\ q + shift \in 1 .. n
    BY <2>2 DEF k
  <2> HIDE DEF q
  <2>6. f[i][q] = buf[q]
    BY <2>1, <2>5
  <2>7. \A j \in 1 .. n : j # q + shift => f[k][j] = f[i][j]
    BY <2>3, <2>4
  <2>8. f[k][q + shift] = buf[q]
    BY <2>3, <2>4, <2>5, <2>6
  <2>9. \A j \in 1 .. n : j < q + shift => f[k][j] = buf[j]
    BY <2>1, <2>5, <2>7
  <2>10. \A j \in q .. first + size - 1 : f[k][j + shift] = buf[j]
    <3> SUFFICES ASSUME NEW j \in q .. first + size - 1 PROVE f[k][j + shift] = buf[j]
      OBVIOUS
    <3>1. CASE j = q
      BY <2>8, <3>1
    <3>2. CASE j # q
      <4>1. j \in first + size - i .. first + size - 1
        BY <2>5, <3>2
      <4>2. f[i][j + shift] = buf[j]
        BY <2>1, <4>1
      <4>3. j + shift \in 1 .. n /\ j + shift # q + shift
        BY <2>5, <3>2
      <4> QED
        BY <2>7, <4>2, <4>3
    <3> QED
      BY <3>1, <3>2
  <2> QED
    BY <2>9, <2>10 DEF k, q
<1>8. \A k \in Nat : k \in I
  <2> HIDE DEF I
  <2> QED
    BY <1>6, <1>7, AllNumbers
<1>9. There(size)
  BY <1>8
<1>10. \A i \in 1 .. size : moved[first + i - 1 + shift] = buf[first + i - 1]
  <2> TAKE i \in 1 .. size
  <2>1. first + i - 1 \in first + size - size .. first + size - 1
    OBVIOUS
  <2> QED
    BY <1>4, <1>9, <2>1
<1> QED
  BY <1>4, <1>10 DEF moved, Moved

-----------------------------------------------------------------------------
(* The invariant.                                                          *)

MemType == /\ mem \in [Cells -> 0 .. 255]
           /\ known \in [Cells -> 0 .. Unknown]
           /\ align \in 0 .. 3

\* A BIN goes to the address acknowledged last; before there is one, it goes
\* to address 0, in the flash, where a store does nothing.
AddressInv ==
  \/ target = blvar_received_address_ptr /\ target \in RAM_START .. RAM_END
  \/ /\ target = AddrSpace /\ blvar_received_address_ptr = 0
     /\ \A a \in Cells : known[a] = Unknown

MemInv == MemType /\ AddressInv /\ UploadIsThere

OnlyNamed ==
  \A a \in Cells : mem'[a] # mem[a] =>
     \/ reply' = ACK /\ (known'[a] = mem'[a] \/ (a \in Flash /\ known'[a] = Unknown))
     \/ reply'.kind = "ERR" /\ a \in Flash /\ known'[a] = Unknown

\* The bounds of the memory.
LEMMA MapFacts ==
  /\ FlashEnd \in Nat /\ RAM_START \in Nat /\ RAM_END \in Nat /\ RamTop \in Nat
  /\ 0 < FlashEnd /\ FlashEnd <= RAM_START /\ RAM_START <= RAM_END
  /\ RAM_START + 1 < RamTop /\ RamTop <= 256 /\ AddrSpace = 256
  /\ \A a \in Cells : a \in Int /\ 0 <= a /\ a < RamTop
  /\ \A a \in Cells : a \in Ram <=> RAM_START <= a
  /\ \A a \in Cells : a \in Flash <=> a < FlashEnd
  /\ \A a \in Int : RAM_START <= a /\ a < RamTop => a \in Cells /\ a \in Ram
<1>1. AddrSpace = 256
  <2>1. 16 ^ 2 = 256
    OBVIOUS
  <2> QED
    BY <2>1 DEF AddrSpace, ADDR_DIGITS
<1>2. /\ FlashEnd \in Nat /\ RAM_START \in Nat /\ RAM_END \in Nat /\ RamTop \in Nat
      /\ 0 < FlashEnd /\ FlashEnd <= RAM_START /\ RAM_START <= RAM_END
      /\ RAM_START + 1 < RamTop /\ RamTop <= 256
  <2>1. /\ FlashEnd \in Nat \ {0} /\ RAM_START \in Nat /\ RAM_END \in Nat /\ RamTop \in Nat
        /\ FlashEnd <= RAM_START /\ RAM_START <= RAM_END
        /\ RAM_START + 1 < RamTop /\ RamTop <= AddrSpace
    BY MemoryAssumption, Zenon
  <2> QED
    BY <1>1, <2>1
<1>3. \A a \in Cells : a \in Int /\ 0 <= a /\ a < RamTop
  BY <1>2 DEF Cells, Flash, Ram
<1>4. /\ \A a \in Cells : a \in Ram <=> RAM_START <= a
      /\ \A a \in Cells : a \in Flash <=> a < FlashEnd
  BY <1>2 DEF Cells, Flash, Ram
<1>5. \A a \in Int : RAM_START <= a /\ a < RamTop => a \in Cells /\ a \in Ram
  BY <1>2 DEF Cells, Ram
<1> QED
  BY ONLY <1>1, <1>2, <1>3, <1>4, <1>5

\* Bytes are numbers.
LEMMA ByteSeq ==
  ASSUME NEW n \in Nat, NEW d \in [1 .. n -> 0 .. 255]
  PROVE  d \in Seq(Int) /\ Len(d) = n
<1>1. \A i \in 1 .. n : d[i] \in 0 .. 255
  OBVIOUS
<1>2. \A x \in 0 .. 255 : x \in Int
  OBVIOUS
<1>3. d \in [1 .. n -> Int]
  BY <1>1, <1>2
<1> QED
  BY ONLY <1>3, n \in Nat, FunctionIsSeq

\* Two sequences of numbers, one behind the other.
LEMMA Joined ==
  ASSUME NEW a \in Seq(Int), NEW b \in Seq(Int)
  PROVE  /\ a \o b \in Seq(Int) /\ Len(a \o b) = Len(a) + Len(b)
         /\ \A i \in 1 .. Len(a) + Len(b) :
               (a \o b)[i] = IF i <= Len(a) THEN a[i] ELSE b[i - Len(a)]
BY ConcatProperties

\* The frame of a BIN: its size, and the payload from the third byte on.
LEMMA FrameFacts ==
  ASSUME NEW n \in Nat, NEW d \in [1 .. n -> 0 .. 255]
  PROVE  /\ BinFrame(d) \in Buffer(n + 6) /\ BinFrame(d) \in Seq(Int)
         /\ Len(BinFrame(d)) = n + 6
         /\ BinFrame(d)[1] * 256 + BinFrame(d)[2] = n
         /\ \A i \in 1 .. n : BinFrame(d)[2 + i] = d[i]
<1> DEFINE head == <<n \div 256, n % 256>>
           rest == <<0, 0, 0, 0>>
           first == head \o d
           buf == first \o rest
<1>1. d \in Seq(Int) /\ Len(d) = n
  BY ByteSeq
<1>2. head \in Seq(Int) /\ Len(head) = 2 /\ head[1] = n \div 256 /\ head[2] = n % 256
  OBVIOUS
<1>3. rest \in Seq(Int) /\ Len(rest) = 4
  OBVIOUS
<1>4. BinFrame(d) = buf
  BY <1>1 DEF BinFrame
<1>5. head[1] * 256 + head[2] = n
  BY <1>2
<1> HIDE DEF head, rest
<1>6. /\ first \in Seq(Int) /\ Len(first) = Len(head) + Len(d)
      /\ \A i \in 1 .. Len(head) + Len(d) :
            first[i] = IF i <= Len(head) THEN head[i] ELSE d[i - Len(head)]
  BY ONLY <1>1, <1>2, Joined, Zenon DEF first
<1> HIDE DEF first
<1>7. /\ buf \in Seq(Int) /\ Len(buf) = Len(first) + Len(rest)
      /\ \A i \in 1 .. Len(first) + Len(rest) :
            buf[i] = IF i <= Len(first) THEN first[i] ELSE rest[i - Len(first)]
  BY ONLY <1>3, <1>6, Joined, Zenon DEF buf
<1> HIDE DEF buf
<1>8. Len(first) = n + 2 /\ Len(buf) = n + 6
  BY <1>1, <1>2, <1>3, <1>6, <1>7
<1>9. buf \in Buffer(n + 6)
  <2>1. DOMAIN buf = 1 .. n + 6 /\ \A i \in 1 .. n + 6 : buf[i] \in Int
    BY <1>7, <1>8, LenProperties, ElementOfSeq
  <2>2. buf = [i \in DOMAIN buf |-> buf[i]]
    BY <1>7, SeqDef
  <2> QED
    BY <2>1, <2>2 DEF Buffer
<1>10. \A i \in 1 .. n + 2 : buf[i] = first[i]
  BY <1>1, <1>2, <1>3, <1>7, <1>8
<1>11. \A i \in 1 .. n + 2 : first[i] = IF i <= 2 THEN head[i] ELSE d[i - 2]
  BY <1>1, <1>2, <1>6
<1>12. buf[1] = head[1] /\ buf[2] = head[2]
  BY <1>10, <1>11
<1>13. \A i \in 1 .. n : buf[2 + i] = d[i]
  BY <1>10, <1>11
<1> QED
  BY <1>4, <1>5, <1>7, <1>8, <1>9, <1>12, <1>13

\* Two bytes of size stand before the payload.
LEMMA MovedUp ==
  ASSUME NEW n \in Nat, NEW buf \in Buffer(n), NEW size \in Nat, NEW shift \in Nat,
         3 + size + shift <= n + 1
  PROVE  Moved(MoveRight(buf, 3, size, shift), n, buf, 3, size, shift)
<1> DEFINE first == 3
<1>1. first \in Nat \ {0} /\ first + size + shift <= n + 1
  OBVIOUS
<1> HIDE DEF first
<1>2. Moved(MoveRight(buf, first, size, shift), n, buf, first, size, shift)
  BY <1>1, MoveFacts
<1> QED
  BY <1>2 DEF first

\* Wherever the payload lies in recvData, what is moved up is the payload.
LEMMA MovedFacts ==
  ASSUME NEW n \in Nat, NEW d \in [1 .. n -> 0 .. 255], NEW shift \in 0 .. 3
  PROVE  /\ SubSeq(BinFrame(d), 3, 2 + n) = d
         /\ SubSeq(MoveRight(BinFrame(d), 3, n, shift), 3 + shift, 2 + shift + n) = d
<1> DEFINE buf == BinFrame(d)
           m == n + 6
           moved == MoveRight(buf, 3, n, shift)
<1>1. /\ buf \in Buffer(m) /\ buf \in Seq(Int) /\ Len(buf) = n + 6
      /\ \A i \in 1 .. n : buf[2 + i] = d[i]
  BY FrameFacts, SMTT(30)
<1>2. d \in Seq(Int) /\ Len(d) = n
  BY ByteSeq
<1> HIDE DEF buf
<1>3. SubSeq(buf, 3, 2 + n) = d
  <2> DEFINE u == SubSeq(buf, 3, 2 + n)
  <2>1. u \in Seq(Int) /\ Len(u) = n /\ \A i \in 1 .. n : u[i] = buf[3 + i - 1]
    BY <1>1, SubSeqProperties
  <2>2. \A i \in 1 .. n : u[i] = d[i]
    BY <1>1, <2>1
  <2> QED
    BY <1>2, <2>1, <2>2, SeqEqual
<1>4. /\ moved \in Buffer(m)
      /\ \A i \in 1 .. n : moved[3 + i - 1 + shift] = buf[3 + i - 1]
  <2>1. m \in Nat /\ shift \in Nat /\ 3 + n + shift <= m + 1
    OBVIOUS
  <2> HIDE DEF m
  <2> QED
    BY <1>1, <2>1, MovedUp DEF moved, Moved
<1> HIDE DEF moved
<1>5. moved \in Seq(Int) /\ Len(moved) = m
  <2>1. moved \in [1 .. m -> Int] /\ m \in Nat
    BY <1>4 DEF Buffer
  <2> QED
    BY ONLY <2>1, FunctionIsSeq
<1>6. SubSeq(moved, 3 + shift, 2 + shift + n) = d
  <2> DEFINE u == SubSeq(moved, 3 + shift, 2 + shift + n)
  <2>1. u \in Seq(Int) /\ Len(u) = n /\ \A i \in 1 .. n : u[i] = moved[3 + shift + i - 1]
    BY <1>5, SubSeqProperties
  <2>2. \A i \in 1 .. n : 3 + i - 1 + shift = 3 + shift + i - 1 /\ 3 + i - 1 = 2 + i
    OBVIOUS
  <2>3. \A i \in 1 .. n : u[i] = d[i]
    BY <1>1, <1>4, <2>1, <2>2
  <2> QED
    BY <1>2, <2>1, <2>3, SeqEqual
<1> QED
  BY <1>3, <1>6 DEF buf, moved

-----------------------------------------------------------------------------
(* What a handler does to the invariant, and what it answers.              *)

Good == MemInv' /\ OnlyNamed /\ AnswersTrue'

\* The answers that say something.
Telling == {"RBIN", "RSRC", "RSCS", "ERR", "RSVN"}

\* A handler that changes neither memory nor the address.
LEMMA Quiet ==
  ASSUME MemInv, UNCHANGED <<mem, blvar_received_address_ptr, align, known, target>>
  PROVE  MemInv' /\ OnlyNamed
<1>1. OnlyNamed
  BY DEF OnlyNamed
<1>2. MemType'
  BY DEF MemInv, MemType
<1>3. AddressInv'
  BY DEF MemInv, AddressInv
<1>4. UploadIsThere'
  BY DEF MemInv, UploadIsThere
<1> QED
  BY <1>1, <1>2, <1>3, <1>4 DEF MemInv

\* An answer that says nothing of memory.
LEMMA PlainAnswer ==
  ASSUME reply'.kind \notin Telling
  PROVE  AnswersTrue'
<1>1. /\ reply'.kind # "RBIN" /\ reply'.kind # "RSRC" /\ reply'.kind # "RSCS"
      /\ reply'.kind # "ERR" /\ reply'.kind # "RSVN"
  BY DEF Telling
<1> QED
  BY ONLY <1>1 DEF AnswersTrue

\* An acknowledgement is one.
LEMMA AckAnswer ==
  ASSUME reply' = ACK
  PROVE  AnswersTrue'
<1>1. reply'.kind \notin Telling
  BY DEF ACK, Telling
<1> QED
  BY <1>1, PlainAnswer

\* An error names a wrong checksum, or a name that is not served.
LEMMA ErrorAnswer ==
  ASSUME NEW code, reply' = ERR(code), asked' \in [served : BOOLEAN, ok : BOOLEAN],
         code = "UNKNOWN_COMMAND" <=> ~asked'.served, code = "BAD_CHECKSUM" <=> ~asked'.ok
  PROVE  AnswersTrue'
<1>1. reply'.kind = "ERR" /\ reply'.data = <<code>>
  BY DEF ERR, Answer
<1>2. reply'.data[1] = code
  BY <1>1
<1>3. asked'.served \in BOOLEAN /\ asked'.ok \in BOOLEAN
  OBVIOUS
<1>4. /\ (reply'.data[1] = "UNKNOWN_COMMAND") = ~asked'.served
      /\ (reply'.data[1] = "BAD_CHECKSUM") = ~asked'.ok
  <2>1. (code = "UNKNOWN_COMMAND") = ~asked'.served
    BY <1>3
  <2>2. (code = "BAD_CHECKSUM") = ~asked'.ok
    BY <1>3
  <2> QED
    BY ONLY <1>2, <2>1, <2>2
<1>5. /\ reply'.kind # "RBIN" /\ reply'.kind # "RSRC" /\ reply'.kind # "RSCS"
      /\ reply'.kind # "RSVN"
  BY <1>1
<1> QED
  BY ONLY <1>1, <1>4, <1>5 DEF AnswersTrue

\* The names that are served.
LEMMA AskedFacts ==
  ASSUME NEW ok \in BOOLEAN, NEW name, Asked(name, ok)
  PROVE  /\ asked' \in [served : BOOLEAN, ok : BOOLEAN] /\ asked'.ok = ok
         /\ name \in Served => asked'.served
<1>1. asked' = [served |-> map_command(name) \in Served, ok |-> ok]
  BY DEF Asked
<1>2. (map_command(name) \in Served) \in BOOLEAN
  OBVIOUS
<1>3. name \in Served => map_command(name) \in Served
  BY DEF map_command, Served, NeedsData, command_tbl
<1> QED
  BY ONLY <1>1, <1>2, <1>3, ok \in BOOLEAN

\* The address at the start of some data.
LEMMA AddressType ==
  ASSUME NEW data \in Seq(Int), Len(data) >= 2
  PROVE  Address(data) \in Int
<1> DEFINE u == SubSeq(data, 1, 2)
<1>1. u \in Seq(Int)
  BY LenProperties, SubSeqProperties
<1> HIDE DEF u
<1>2. util_hexasc_to_u32(u) \in Int
  BY <1>1, HexValues
<1> QED
  BY <1>2 DEF Address, ADDR_DIGITS, u

\* ADDR: what is acknowledged is where the next BIN goes.
LEMMA AddrStep ==
  ASSUME MemInv, NEW a \in Nat, NEW ok \in BOOLEAN, Asked("ADDR", ok),
         ADDR(Protected(Hexasc(a, ADDR_DIGITS), ok))
  PROVE  Good
<1> DEFINE chars == Hexasc(a, ADDR_DIGITS)
           data == Protected(chars, ok)
<1>1. chars \in Seq(Int) /\ Len(chars) = 2
  BY HexascFacts DEF ADDR_DIGITS, Written2
<1>2. ADDR(data)
  OBVIOUS
<1> HIDE DEF chars
<1>3. data \in Seq(Int) /\ Len(data) = 4 /\ (ChecksumOk(data, ADDR_DIGITS) <=> ok)
  <2>1. /\ data \in Seq(Int) /\ Len(data) = Len(chars) + 2
        /\ (ChecksumOk(data, Len(chars)) <=> ok)
    BY <1>1, ProtectedFacts
  <2> QED
    BY <1>1, <2>1 DEF ADDR_DIGITS
<1> HIDE DEF data
<1>4. Address(data) \in Int
  <2>1. Len(data) >= 2
    BY <1>3
  <2> QED
    BY <1>3, <2>1, AddressType
<1>5. /\ asked' \in [served : BOOLEAN, ok : BOOLEAN]
      /\ asked'.ok = ok /\ asked'.served
  BY AskedFacts DEF Served, NeedsData
<1>6. CASE ChecksumOk(data, ADDR_DIGITS) /\ parser_valid_address(Address(data))
  <2>1. /\ blvar_received_address_ptr' = Address(data) /\ target' = Address(data)
        /\ reply' = ACK /\ UNCHANGED <<mem, align, on, known>>
    BY <1>2, <1>6 DEF ADDR
  <2>2. target' \in RAM_START .. RAM_END
    BY <1>4, <1>6, <2>1, MapFacts DEF parser_valid_address
  <2>3. AddressInv'
    BY <2>1, <2>2 DEF AddressInv
  <2>4. MemType' /\ UploadIsThere' /\ OnlyNamed
    BY <2>1 DEF MemInv, MemType, UploadIsThere, OnlyNamed
  <2> QED
    BY <2>1, <2>3, <2>4, AckAnswer DEF Good, MemInv
<1>7. CASE ~ (ChecksumOk(data, ADDR_DIGITS) /\ parser_valid_address(Address(data)))
  <2>1. /\ reply' = ERR(IF ChecksumOk(data, ADDR_DIGITS) THEN "ADDRESS_INVALID"
                        ELSE "BAD_CHECKSUM")
        /\ UNCHANGED <<mem, blvar_received_address_ptr, align, known, target>>
    BY <1>2, <1>7 DEF ADDR
  <2>2. MemInv' /\ OnlyNamed
    BY <2>1, Quiet
  <2>3. AnswersTrue'
    <3> DEFINE code == IF ChecksumOk(data, ADDR_DIGITS) THEN "ADDRESS_INVALID"
                       ELSE "BAD_CHECKSUM"
    <3>1. code # "UNKNOWN_COMMAND" /\ (code = "BAD_CHECKSUM" <=> ~ok)
      BY <1>3
    <3>2. reply' = ERR(code)
      BY <2>1
    <3> HIDE DEF code
    <3> QED
      BY <1>5, <3>1, <3>2, ErrorAnswer
  <2> QED
    BY <2>2, <2>3 DEF Good
<1> QED
  BY <1>6, <1>7

\* JUMP: acknowledged, and no command after it.
LEMMA JumpStep ==
  ASSUME MemInv, NEW a \in Nat, NEW ok \in BOOLEAN, Asked("JUMP", ok),
         JUMP(Protected(Hexasc(a, ADDR_DIGITS), ok))
  PROVE  Good
<1> DEFINE chars == Hexasc(a, ADDR_DIGITS)
           data == Protected(chars, ok)
<1>1. chars \in Seq(Int) /\ Len(chars) = 2
  BY HexascFacts DEF ADDR_DIGITS, Written2
<1>2. JUMP(data)
  OBVIOUS
<1> HIDE DEF chars
<1>3. ChecksumOk(data, ADDR_DIGITS) <=> ok
  BY <1>1, ProtectedFacts DEF ADDR_DIGITS
<1> HIDE DEF data
<1>4. /\ asked' \in [served : BOOLEAN, ok : BOOLEAN]
      /\ asked'.ok = ok /\ asked'.served
  BY AskedFacts DEF Served, NeedsData
<1>5. UNCHANGED <<mem, blvar_received_address_ptr, align, known, target>>
  BY <1>2 DEF JUMP
<1>6. MemInv' /\ OnlyNamed
  BY <1>5, Quiet
<1>7. CASE ok
  <2>1. reply' = ACK
    BY <1>2, <1>3, <1>7 DEF JUMP
  <2> QED
    BY <1>6, <2>1, AckAnswer DEF Good
<1>8. CASE ~ok
  <2>1. reply' = ERR("BAD_CHECKSUM")
    BY <1>2, <1>3, <1>8 DEF JUMP
  <2>2. AnswersTrue'
    BY <1>4, <1>8, <2>1, ErrorAnswer
  <2> QED
    BY <1>6, <2>2 DEF Good
<1> QED
  BY <1>7, <1>8

\* BIN: memory and what the host believes change alike.
LEMMA BinStep ==
  ASSUME MemInv, NEW d \in Payloads, Asked("BIN", TRUE), BIN(BinFrame(d))
  PROVE  Good
<1>1. PICK n \in BinSizes : d \in [1 .. n -> 0 .. 255]
  <2>1. PICK n \in BinSizes : d \in (IF n % MIN_NUMB_BYTES = 0 THEN [1 .. n -> Bytes]
                                     ELSE {[i \in 1 .. n |-> 0]})
    BY DEF Payloads
  <2>2. CASE n % MIN_NUMB_BYTES = 0
    <3>1. d \in [1 .. n -> Bytes]
      BY <2>1, <2>2
    <3>2. Bytes \subseteq 0 .. 255
      BY MemoryAssumption, Zenon
    <3> QED
      BY <3>1, <3>2
  <2>3. CASE n % MIN_NUMB_BYTES # 0
    <3>1. d = [i \in 1 .. n |-> 0]
      BY <2>1, <2>3
    <3>2. 0 \in 0 .. 255
      OBVIOUS
    <3> QED
      BY <3>1, <3>2
  <2> QED
    BY <2>2, <2>3
<1>2. n \in Nat /\ RAM_END + n <= RamTop /\ n <= RAM_START
  BY MemoryAssumption, Zenon
<1> DEFINE buf == BinFrame(d)
           shift == (4 - align) % 4
           moved == MoveRight(buf, 3, n, shift)
<1>3. buf[1] * 256 + buf[2] = n
  BY <1>1, <1>2, FrameFacts
<1>4. shift \in 0 .. 3
  BY DEF MemInv, MemType
<1>5. SubSeq(buf, 3, 2 + n) = d /\ SubSeq(moved, 3 + shift, 2 + shift + n) = d
  <2> HIDE DEF shift
  <2> QED
    BY <1>1, <1>2, <1>4, MovedFacts
<1>6. BIN(buf)
  OBVIOUS
<1>7. /\ asked' \in [served : BOOLEAN, ok : BOOLEAN] /\ asked'.ok /\ asked'.served
  BY AskedFacts DEF Served, NeedsData
<1> HIDE DEF buf
<1>8. CASE n % MIN_NUMB_BYTES # 0
  <2>1. /\ reply' = ERR("PACKET_SZ_INVALID")
        /\ UNCHANGED <<mem, blvar_received_address_ptr, align, known, target>>
    BY <1>3, <1>6, <1>8 DEF BIN
  <2>2. MemInv' /\ OnlyNamed
    BY <2>1, Quiet
  <2>3. AnswersTrue'
    BY <1>7, <2>1, ErrorAnswer
  <2> QED
    BY <2>2, <2>3 DEF Good
<1>9. CASE n % MIN_NUMB_BYTES = 0
  <2>1. /\ mem' = Store(mem, blvar_received_address_ptr, d)
        /\ known' = Store(known, target, d)
        /\ reply' = ACK
        /\ UNCHANGED <<blvar_received_address_ptr, align, target>>
    BY <1>3, <1>5, <1>6, <1>9, ZenonT(60) DEF BIN
  <2>2. DOMAIN d = 1 .. n /\ \A i \in 1 .. n : d[i] \in 0 .. 255
    BY <1>1
  <2>3. \A a \in Cells : mem'[a] = IF a \in Ram /\ a - blvar_received_address_ptr + 1 \in 1 .. n
                                   THEN d[a - blvar_received_address_ptr + 1] ELSE mem[a]
    BY <2>1, <2>2 DEF Store
  <2>4. \A a \in Cells : known'[a] = IF a \in Ram /\ a - target + 1 \in 1 .. n
                                     THEN d[a - target + 1] ELSE known[a]
    BY <2>1, <2>2 DEF Store
  <2>5. /\ mem \in [Cells -> 0 .. 255] /\ known \in [Cells -> 0 .. 256] /\ align \in 0 .. 3
        /\ UploadIsThere /\ AddressInv
    BY DEF MemInv, MemType, Unknown
  <2>6. MemType'
    <3>1. DOMAIN mem' = Cells /\ DOMAIN known' = Cells /\ mem' = [a \in Cells |-> mem'[a]]
          /\ known' = [a \in Cells |-> known'[a]]
      BY <2>1 DEF Store
    <3>2. ASSUME NEW a \in Cells PROVE mem'[a] \in 0 .. 255
      <4>1. CASE a \in Ram /\ a - blvar_received_address_ptr + 1 \in 1 .. n
        <5>1. mem'[a] = d[a - blvar_received_address_ptr + 1]
          BY <4>1, <2>3
        <5> QED
          BY <2>2, <4>1, <5>1
      <4>2. CASE ~ (a \in Ram /\ a - blvar_received_address_ptr + 1 \in 1 .. n)
        <5>1. mem'[a] = mem[a]
          BY <4>2, <2>3
        <5> QED
          BY <2>5, <5>1
      <4> QED
        BY <4>1, <4>2
    <3>3. ASSUME NEW a \in Cells PROVE known'[a] \in 0 .. 256
      <4>1. CASE a \in Ram /\ a - target + 1 \in 1 .. n
        <5>1. known'[a] = d[a - target + 1]
          BY <4>1, <2>4
        <5>2. \A x \in 0 .. 255 : x \in 0 .. 256
          OBVIOUS
        <5>3. d[a - target + 1] \in 0 .. 255
          BY <2>2, <4>1
        <5> QED
          BY ONLY <5>1, <5>2, <5>3
      <4>2. CASE ~ (a \in Ram /\ a - target + 1 \in 1 .. n)
        <5>1. known'[a] = known[a]
          BY <4>2, <2>4
        <5> QED
          BY <2>5, <5>1
      <4> QED
        BY <4>1, <4>2
    <3> QED
      BY <2>1, <2>5, <3>1, <3>2, <3>3 DEF MemType, Unknown
  <2>7. CASE target = blvar_received_address_ptr /\ target \in RAM_START .. RAM_END
    <3>1. AddressInv'
      BY <2>1, <2>7 DEF AddressInv
    <3>2. UploadIsThere'
      BY <2>3, <2>4, <2>5, <2>7 DEF UploadIsThere
    <3>3. OnlyNamed
      BY <2>1, <2>3, <2>4, <2>7 DEF OnlyNamed
    <3> QED
      BY <2>1, <2>6, <3>1, <3>2, <3>3, AckAnswer DEF Good, MemInv
  <2>8. CASE /\ target = AddrSpace /\ blvar_received_address_ptr = 0
             /\ \A a \in Cells : known[a] = Unknown
    <3>1. \A a \in Cells : mem'[a] = mem[a]
      BY <1>2, <2>3, <2>8, MapFacts
    <3>2. \A a \in Cells : known'[a] = known[a]
      BY <1>2, <2>4, <2>8, MapFacts
    <3>3. AddressInv'
      BY <2>1, <2>8, <3>2 DEF AddressInv
    <3>4. UploadIsThere' /\ OnlyNamed
      BY <2>5, <3>1, <3>2 DEF UploadIsThere, OnlyNamed
    <3> QED
      BY <2>1, <2>6, <3>3, <3>4, AckAnswer DEF Good, MemInv
  <2> QED
    BY <2>5, <2>7, <2>8 DEF AddressInv
<1> QED
  BY <1>8, <1>9

\* FLASH: what is copied is what the source held and the host knew of it; what
\* fails is forgotten.
LEMMA FlashStep ==
  ASSUME MemInv, NEW source \in Nat, NEW dest \in Nat, NEW n \in Nat, NEW ok \in BOOLEAN,
         Asked("FLASH", ok),
         FLASH(Protected(Hexasc(source, ADDR_DIGITS) \o Hexasc(dest, ADDR_DIGITS)
                           \o Hexasc(n, ADDR_DIGITS), ok))
  PROVE  Good
<1> DEFINE one == Hexasc(source, ADDR_DIGITS)
           two == Hexasc(dest, ADDR_DIGITS)
           three == Hexasc(n, ADDR_DIGITS)
           both == one \o two
           chars == both \o three
           data == Protected(chars, ok)
           Field(k) == util_hexasc_to_u32(SubSeq(data, k * ADDR_DIGITS + 1, (k + 1) * ADDR_DIGITS))
<1>1. /\ one \in Seq(Int) /\ Len(one) = 2 /\ two \in Seq(Int) /\ Len(two) = 2
      /\ three \in Seq(Int) /\ Len(three) = 2
  BY HexascFacts DEF ADDR_DIGITS, Written2
<1>2. FLASH(data)
  OBVIOUS
<1> HIDE DEF one, two, three
<1>3. both \in Seq(Int) /\ Len(both) = 4
  <2>1. both \in Seq(Int) /\ Len(both) = Len(one) + Len(two)
    BY <1>1, Joined
  <2> QED
    BY <1>1, <2>1
<1> HIDE DEF both
<1>4. chars \in Seq(Int) /\ Len(chars) = 6
  <2>1. chars \in Seq(Int) /\ Len(chars) = Len(both) + Len(three)
    BY <1>1, <1>3, Joined
  <2> QED
    BY <1>1, <1>3, <2>1
<1> HIDE DEF chars
<1>5. data \in Seq(Int) /\ Len(data) = 8 /\ (ChecksumOk(data, 3 * ADDR_DIGITS) <=> ok)
  <2>1. /\ data \in Seq(Int) /\ Len(data) = Len(chars) + 2
        /\ (ChecksumOk(data, Len(chars)) <=> ok)
    BY <1>4, ProtectedFacts
  <2> QED
    BY <1>4, <2>1 DEF ADDR_DIGITS
<1> HIDE DEF data
<1>6. \A k \in 0 .. 2 : Field(k) \in Int
  <2> TAKE k \in 0 .. 2
  <2> DEFINE u == SubSeq(data, k * 2 + 1, (k + 1) * 2)
  <2> DEFINE from == k * 2 + 1
             to == (k + 1) * 2
  <2>0. from \in Int /\ to \in Int /\ \A i \in from .. to : i \in 1 .. Len(data)
    BY <1>5
  <2>1. \A i \in from .. to : data[i] \in Int
    BY <1>5, <2>0, ElementOfSeq
  <2> HIDE DEF from, to
  <2>3. SubSeq(data, from, to) \in Seq(Int)
    BY <2>0, <2>1, SubSeqProperties
  <2>4. u \in Seq(Int)
    BY <2>3 DEF from, to
  <2> HIDE DEF u
  <2>2. util_hexasc_to_u32(u) \in Int
    BY <2>4, HexValues
  <2> QED
    BY <2>2 DEF ADDR_DIGITS, u
<1> DEFINE from == Field(0)
           to == Field(1)
           size == Field(2)
<1>7. from \in Int /\ to \in Int /\ size \in Int
  BY <1>6
<1>8. \/ /\ ~ChecksumOk(data, 3 * ADDR_DIGITS) /\ reply' = ERR("BAD_CHECKSUM")
         /\ UNCHANGED <<mem, known>>
      \/ /\ ChecksumOk(data, 3 * ADDR_DIGITS) /\ ~FlashArguments(from, to, size)
         /\ reply' = ERR(IF size % BlockSize # 0 THEN "FLASH_SIZE_INVALID" ELSE "ADDRESS_INVALID")
         /\ UNCHANGED <<mem, known>>
      \/ /\ ChecksumOk(data, 3 * ADDR_DIGITS) /\ FlashArguments(from, to, size)
         /\ mem' = Copied(mem, from, to, size, size, Erased)
         /\ known' = Copied(known, from, to, size, size, Unknown)
         /\ reply' = ACK
      \/ /\ ChecksumOk(data, 3 * ADDR_DIGITS) /\ FlashArguments(from, to, size)
         /\ \/ UNCHANGED mem /\ reply' = ERR("FLASH_NOT_ERASED")
            \/ \E m \in 0 .. size : mem' = Copied(mem, from, to, 0, m, Erased)
                                    /\ reply' = ERR("ERASE_FAILED")
            \/ \E m \in 0 .. size : mem' = Copied(mem, from, to, m, size, Erased)
                                    /\ reply' = ERR("PROGRAMMING")
         /\ known' = Copied(known, from, to, 0, size, Unknown)
  BY <1>2 DEF FLASH
<1>9. UNCHANGED <<blvar_received_address_ptr, align, target>>
  BY <1>2 DEF FLASH
<1>10. /\ asked' \in [served : BOOLEAN, ok : BOOLEAN] /\ asked'.ok = ok /\ asked'.served
  BY AskedFacts DEF Served, NeedsData
<1>11. /\ mem \in [Cells -> 0 .. 255] /\ known \in [Cells -> 0 .. 256] /\ align \in 0 .. 3
       /\ UploadIsThere /\ AddressInv
  BY DEF MemInv, MemType, Unknown
<1> HIDE DEF from, to, size, Field
<1>12. CASE /\ ~ChecksumOk(data, 3 * ADDR_DIGITS) /\ reply' = ERR("BAD_CHECKSUM")
            /\ UNCHANGED <<mem, known>>
  <2>1. MemInv' /\ OnlyNamed
    BY <1>9, <1>12, Quiet
  <2>2. AnswersTrue'
    BY <1>5, <1>10, <1>12, ErrorAnswer
  <2> QED
    BY <2>1, <2>2 DEF Good
<1>13. CASE /\ ChecksumOk(data, 3 * ADDR_DIGITS)
            /\ reply' = ERR(IF size % BlockSize # 0 THEN "FLASH_SIZE_INVALID" ELSE "ADDRESS_INVALID")
            /\ UNCHANGED <<mem, known>>
  <2>1. MemInv' /\ OnlyNamed
    BY <1>9, <1>13, Quiet
  <2>2. AnswersTrue'
    <3> DEFINE code == IF size % BlockSize # 0 THEN "FLASH_SIZE_INVALID" ELSE "ADDRESS_INVALID"
    <3>1. code # "UNKNOWN_COMMAND" /\ code # "BAD_CHECKSUM"
      OBVIOUS
    <3>2. reply' = ERR(code)
      BY <1>13
    <3> HIDE DEF code
    <3> QED
      BY <1>5, <1>10, <1>13, <3>1, <3>2, ErrorAnswer
  <2> QED
    BY <2>1, <2>2 DEF Good
<1>14. ASSUME FlashArguments(from, to, size)
       PROVE  /\ \A a \in Cells : a \in to .. to + size - 1 => a \in Flash
              /\ \A m \in 0 .. size : \A a \in to .. to + m - 1 :
                    a - to + from \in Cells /\ a \in to .. to + size - 1
              /\ \A m \in 0 .. size : m \in Int
  <2>1. to + size <= FlashEnd /\ from >= RAM_START /\ from + size <= RamTop
    BY <1>14 DEF FlashArguments
  <2> QED
    BY <1>7, <2>1, MapFacts
<1>15. ASSUME NEW m \in Int, NEW f, NEW rest, NEW k \in Int,
              FlashArguments(from, to, size), NEW a \in Cells
       PROVE  Copied(f, from, to, m, k, rest)[a]
                = IF a \in to .. to + m - 1 THEN f[a - to + from]
                  ELSE IF a \in to .. to + k - 1 THEN rest ELSE f[a]
  BY DEF Copied
<1>16. ASSUME NEW m \in 0 .. size, NEW k \in 0 .. size, FlashArguments(from, to, size)
       PROVE  /\ Copied(mem, from, to, m, k, Erased) \in [Cells -> 0 .. 255]
              /\ Copied(known, from, to, m, k, Unknown) \in [Cells -> 0 .. 256]
  <2>1. ASSUME NEW a \in Cells
        PROVE  /\ a \in to .. to + m - 1 =>
                     /\ mem[a - to + from] \in 0 .. 255 /\ known[a - to + from] \in 0 .. 256
               /\ mem[a] \in 0 .. 255 /\ known[a] \in 0 .. 256
    BY <1>11, <1>14, <1>16
  <2>2. Erased \in 0 .. 255 /\ Unknown \in 0 .. 256
    BY DEF Erased, Unknown
  <2>3. Copied(mem, from, to, m, k, Erased) \in [Cells -> 0 .. 255]
    BY <2>1, <2>2 DEF Copied
  <2>4. Copied(known, from, to, m, k, Unknown) \in [Cells -> 0 .. 256]
    BY <2>1, <2>2 DEF Copied
  <2> QED
    BY <2>3, <2>4
<1>17. CASE /\ ChecksumOk(data, 3 * ADDR_DIGITS) /\ FlashArguments(from, to, size)
            /\ mem' = Copied(mem, from, to, size, size, Erased)
            /\ known' = Copied(known, from, to, size, size, Unknown)
            /\ reply' = ACK
  <2>1. size \in 0 .. size
    BY <1>7, <1>17 DEF FlashArguments
  <2>2. MemType'
    BY <1>9, <1>11, <1>16, <1>17, <2>1 DEF MemType, Unknown
  <2>3. \A a \in Cells : mem'[a] = IF a \in to .. to + size - 1 THEN mem[a - to + from] ELSE mem[a]
    BY <1>7, <1>15, <1>17
  <2>4. \A a \in Cells : known'[a] = IF a \in to .. to + size - 1 THEN known[a - to + from]
                                     ELSE known[a]
    BY <1>7, <1>15, <1>17
  <2>5. \A a \in Cells : a \in to .. to + size - 1 => a - to + from \in Cells /\ a \in Flash
    BY <1>14, <1>17, <2>1
  <2>6. UploadIsThere'
    BY <1>11, <2>3, <2>4, <2>5 DEF UploadIsThere
  <2>7. AddressInv'
    <3>1. CASE \A a \in Cells : known[a] = Unknown
      <4>1. \A a \in Cells : known'[a] = Unknown
        BY <2>4, <2>5, <3>1
      <4> QED
        BY <1>9, <1>11, <4>1 DEF AddressInv
    <3>2. CASE ~ \A a \in Cells : known[a] = Unknown
      BY <1>9, <1>11, <3>2 DEF AddressInv
    <3> QED
      BY <3>1, <3>2
  <2>8. OnlyNamed
    <3> SUFFICES ASSUME NEW a \in Cells, mem'[a] # mem[a]
                 PROVE  reply' = ACK /\ (known'[a] = mem'[a] \/ (a \in Flash /\ known'[a] = Unknown))
      BY DEF OnlyNamed
    <3>1. a \in to .. to + size - 1
      BY <2>3
    <3>2. a \in Flash /\ a - to + from \in Cells
      BY <2>5, <3>1
    <3>3. known'[a] = known[a - to + from] /\ mem'[a] = mem[a - to + from]
      BY <2>3, <2>4, <3>1
    <3>4. known[a - to + from] \in {Unknown, mem[a - to + from]}
      BY <1>11, <3>2 DEF UploadIsThere
    <3> QED
      BY <1>17, <3>2, <3>3, <3>4
  <2> QED
    BY <1>17, <2>2, <2>6, <2>7, <2>8, AckAnswer DEF Good, MemInv
<1>18. ASSUME FlashArguments(from, to, size), ok, NEW code,
              code # "UNKNOWN_COMMAND", code # "BAD_CHECKSUM", reply' = ERR(code),
              mem' \in [Cells -> 0 .. 255],
              \A a \in Cells : a \notin to .. to + size - 1 => mem'[a] = mem[a],
              known' = Copied(known, from, to, 0, size, Unknown)
       PROVE  Good
  <2>1. size \in 0 .. size /\ 0 \in 0 .. size
    BY <1>7, <1>18 DEF FlashArguments
  <2>2. MemType'
    BY <1>9, <1>11, <1>16, <1>18, <2>1 DEF MemType, Unknown
  <2>3. \A a \in Cells : known'[a] = IF a \in to .. to + size - 1 THEN Unknown ELSE known[a]
    <3> TAKE a \in Cells
    <3>1. ~ (a \in to .. to + 0 - 1)
      BY <1>7
    <3> QED
      BY <1>7, <1>15, <1>18, <3>1
  <2>4. \A a \in Cells : a \in to .. to + size - 1 => a \in Flash
    BY <1>14, <1>18
  <2>5. UploadIsThere'
    BY <1>11, <1>18, <2>3 DEF UploadIsThere
  <2>6. AddressInv'
    BY <1>9, <1>11, <2>3 DEF AddressInv
  <2>7. OnlyNamed
    <3>1. reply'.kind = "ERR"
      BY <1>18 DEF ERR, Answer
    <3> QED
      BY <1>18, <2>3, <2>4, <3>1 DEF OnlyNamed
  <2>8. AnswersTrue'
    BY <1>10, <1>18, ErrorAnswer
  <2> QED
    BY <2>2, <2>5, <2>6, <2>7, <2>8 DEF Good, MemInv
<1>19. CASE /\ ChecksumOk(data, 3 * ADDR_DIGITS) /\ FlashArguments(from, to, size)
            /\ \/ UNCHANGED mem /\ reply' = ERR("FLASH_NOT_ERASED")
               \/ \E m \in 0 .. size : mem' = Copied(mem, from, to, 0, m, Erased)
                                       /\ reply' = ERR("ERASE_FAILED")
               \/ \E m \in 0 .. size : mem' = Copied(mem, from, to, m, size, Erased)
                                       /\ reply' = ERR("PROGRAMMING")
            /\ known' = Copied(known, from, to, 0, size, Unknown)
  <2>1. size \in 0 .. size /\ 0 \in 0 .. size /\ ok
    BY <1>5, <1>7, <1>19 DEF FlashArguments
  <2>2. CASE UNCHANGED mem /\ reply' = ERR("FLASH_NOT_ERASED")
    BY <1>11, <1>18, <1>19, <2>1, <2>2
  <2>3. ASSUME NEW m \in 0 .. size, mem' = Copied(mem, from, to, 0, m, Erased),
               reply' = ERR("ERASE_FAILED")
        PROVE  Good
    <3>1. mem' \in [Cells -> 0 .. 255]
      BY <1>16, <1>19, <2>1, <2>3
    <3>2. ASSUME NEW a \in Cells, a \notin to .. to + size - 1 PROVE mem'[a] = mem[a]
      <4>1. a \notin to .. to + m - 1 /\ a \notin to .. to + 0 - 1
        BY <1>7, <1>14, <1>19, <3>2
      <4> QED
        BY <1>7, <1>15, <1>19, <2>3, <4>1
    <3> QED
      BY <1>18, <1>19, <2>1, <2>3, <3>1, <3>2
  <2>4. ASSUME NEW m \in 0 .. size, mem' = Copied(mem, from, to, m, size, Erased),
               reply' = ERR("PROGRAMMING")
        PROVE  Good
    <3>1. mem' \in [Cells -> 0 .. 255]
      BY <1>16, <1>19, <2>1, <2>4
    <3>2. ASSUME NEW a \in Cells, a \notin to .. to + size - 1 PROVE mem'[a] = mem[a]
      <4>1. a \notin to .. to + m - 1
        BY <1>7, <1>14, <1>19, <3>2
      <4> QED
        BY <1>7, <1>15, <1>19, <2>4, <3>2, <4>1
    <3> QED
      BY <1>18, <1>19, <2>1, <2>4, <3>1, <3>2
  <2> QED
    BY <1>19, <2>2, <2>3, <2>4
<1> QED
  BY <1>8, <1>12, <1>13, <1>17, <1>19

\* Two digits written first are read as the address.
LEMMA AddressRead ==
  ASSUME NEW a \in 0 .. 255, NEW data \in Seq(Int), Len(data) >= 2,
         data[1] = Hexasc(a, 2)[1], data[2] = Hexasc(a, 2)[2]
  PROVE  Address(data) = a
<1> DEFINE u == SubSeq(data, 1, 2)
           w == Hexasc(a, 2)
<1>1. Len(data) \in Nat /\ 1 \in 1 .. Len(data) - 1
  BY LenProperties
<1>2. util_hexasc_to_u32(SubSeq(data, 1, 1 + 1)) = 16 * Digit(data[1]) + Digit(data[1 + 1])
  BY <1>1, TwoDigits
<1>3. w \in Seq(Int) /\ Len(w) = 2
  <2>1. a \in Nat
    OBVIOUS
  <2> QED
    BY <2>1, HexascFacts DEF Written2
<1>4. util_hexasc_to_u32(w) = a
  BY ReadBack2
<1> HIDE DEF w
<1>5. util_hexasc_to_u32(w) = 16 * Digit(w[1]) + Digit(w[2])
  BY <1>3, HexValues
<1>6. util_hexasc_to_u32(u) = a
  BY <1>2, <1>4, <1>5 DEF w
<1> QED
  BY <1>6 DEF Address, ADDR_DIGITS, u

\* A range of memory, byte by byte.
LEMMA RangeFacts ==
  ASSUME MemInv, NEW first \in Int, NEW last \in Int, first .. last \subseteq Cells
  PROVE  /\ Range8(first, last) \in Seq(Int)
         /\ Len(Range8(first, last)) = IF last < first THEN 0 ELSE last - first + 1
         /\ \A i \in 1 .. last - first + 1 : Range8(first, last)[i] = mem[first + i - 1]
<1> DEFINE read == Range8(first, last)
<1>1. read = [i \in 1 .. last - first + 1 |-> mem[first + i - 1]]
  BY DEF Range8
<1>2. \A i \in 1 .. last - first + 1 : mem[first + i - 1] \in Int
  <2>1. \A i \in 1 .. last - first + 1 : first + i - 1 \in Cells
    OBVIOUS
  <2>2. \A a \in Cells : mem[a] \in 0 .. 255
    BY DEF MemInv, MemType
  <2>3. \A x \in 0 .. 255 : x \in Int
    OBVIOUS
  <2> QED
    BY <2>1, <2>2, <2>3
<1>3. read \in [1 .. last - first + 1 -> Int]
  BY <1>1, <1>2
<1> HIDE DEF read
<1>4. CASE last < first
  <2>1. 1 .. last - first + 1 = 1 .. 0
    BY <1>4
  <2>2. read \in [1 .. 0 -> Int] /\ 0 \in Nat
    BY <1>3, <2>1
  <2>3. read \in Seq(Int) /\ Len(read) = 0
    BY ONLY <2>2, FunctionIsSeq
  <2> QED
    BY <1>1, <1>4, <2>3 DEF read
<1>5. CASE last >= first
  <2> DEFINE k == last - first + 1
  <2>1. k \in Nat /\ read \in [1 .. k -> Int]
    BY <1>3, <1>5
  <2> HIDE DEF k
  <2>2. read \in Seq(Int) /\ Len(read) = k
    BY ONLY <2>1, FunctionIsSeq
  <2> QED
    BY <1>1, <1>5, <2>2 DEF read, k
<1> QED
  BY <1>4, <1>5

\* RBIN: the bytes and their sum.
LEMMA RbinStep ==
  ASSUME MemInv, NEW a \in 0 .. 255, NEW n \in 0 .. 15, NEW ok \in BOOLEAN,
         a .. a + n - 1 \subseteq Cells, Asked("RBIN", ok),
         RBIN(Protected(Hexasc(a, ADDR_DIGITS) \o Hexasc(n, SIZE_DIGITS), ok))
  PROVE  Good
<1> DEFINE one == Hexasc(a, 2)
           two == Hexasc(n, 1)
           chars == one \o two
           data == Protected(chars, ok)
<1>1. one \in Seq(Int) /\ Len(one) = 2 /\ two \in Seq(Int) /\ Len(two) = 1
  <2>1. a \in Nat /\ n \in Nat
    OBVIOUS
  <2> QED
    BY <2>1, HexascFacts DEF Written1, Written2
<1>2. RBIN(data)
  BY DEF ADDR_DIGITS, SIZE_DIGITS
<1>3. util_hexasc_to_u32(two) = n
  BY ReadBack1
<1> HIDE DEF one, two
<1>4. /\ chars \in Seq(Int) /\ Len(chars) = 3
      /\ chars[1] = one[1] /\ chars[2] = one[2] /\ chars[3] = two[1]
  <2>1. /\ chars \in Seq(Int) /\ Len(chars) = Len(one) + Len(two)
        /\ \A i \in 1 .. Len(one) + Len(two) :
              chars[i] = IF i <= Len(one) THEN one[i] ELSE two[i - Len(one)]
    BY <1>1, Joined
  <2> QED
    BY <1>1, <2>1
<1> HIDE DEF chars
<1>5. /\ data \in Seq(Int) /\ Len(data) = 5
      /\ data[1] = one[1] /\ data[2] = one[2] /\ data[3] = two[1]
      /\ (ChecksumOk(data, 3) <=> ok)
  <2>1. /\ data \in Seq(Int) /\ Len(data) = Len(chars) + 2
        /\ \A i \in 1 .. Len(chars) : data[i] = chars[i]
        /\ (ChecksumOk(data, Len(chars)) <=> ok)
    BY <1>4, ProtectedFacts
  <2> QED
    BY <1>4, <2>1
<1> HIDE DEF data
<1>6. Address(data) = a
  <2>1. Len(data) >= 2
    BY <1>5
  <2> QED
    BY <1>5, <2>1, AddressRead DEF one
<1>7. util_hexasc_to_u32(SubSeq(data, ADDR_DIGITS + 1, ADDR_DIGITS + SIZE_DIGITS)) = n
  <2> DEFINE u == SubSeq(data, 3, 3)
  <2>1. u \in Seq(Int) /\ Len(u) = 1 /\ u[1] = data[3]
    BY <1>5, SubSeqProperties
  <2> HIDE DEF u
  <2>2. util_hexasc_to_u32(u) = Digit(u[1])
    BY <2>1, HexValues
  <2>3. util_hexasc_to_u32(two) = Digit(two[1])
    BY <1>1, HexValues
  <2>4. util_hexasc_to_u32(u) = n
    BY <1>3, <1>5, <2>1, <2>2, <2>3
  <2> QED
    BY <2>4 DEF ADDR_DIGITS, SIZE_DIGITS, u
<1>8. UNCHANGED <<mem, blvar_received_address_ptr, align, known, target>>
  BY <1>2 DEF RBIN
<1>9. MemInv' /\ OnlyNamed
  BY <1>8, Quiet
<1>10. CASE ~ok
  <2>1. reply' = ERR("BAD_CHECKSUM")
    BY <1>2, <1>5, <1>10 DEF RBIN, ADDR_DIGITS, SIZE_DIGITS
  <2>2. /\ asked' \in [served : BOOLEAN, ok : BOOLEAN] /\ asked'.ok = ok /\ asked'.served
    BY AskedFacts DEF Served, NeedsData
  <2>3. AnswersTrue'
    BY <1>10, <2>1, <2>2, ErrorAnswer
  <2> QED
    BY <1>9, <2>3 DEF Good
<1>11. CASE ok
  <2> DEFINE read == Range8(a, a + n - 1)
             sum == SumOf(read) % 256
             all == Append(read, sum)
  <2>1. reply' = Answer("RBIN", all, <<a, a + n - 1>>)
    <3>1. ChecksumOk(data, ADDR_DIGITS + SIZE_DIGITS)
      BY <1>5, <1>11 DEF ADDR_DIGITS, SIZE_DIGITS
    <3> QED
      BY <1>2, <1>6, <1>7, <3>1 DEF RBIN
  <2>2. /\ read \in Seq(Int) /\ Len(read) = n
        /\ \A i \in 1 .. n : read[i] = mem[a + i - 1]
    <3>1. a \in Int /\ a + n - 1 \in Int /\ a + n - 1 - a + 1 = n
          /\ n = IF a + n - 1 < a THEN 0 ELSE n
      OBVIOUS
    <3>2. /\ read \in Seq(Int)
          /\ Len(read) = IF a + n - 1 < a THEN 0 ELSE a + n - 1 - a + 1
          /\ \A i \in 1 .. a + n - 1 - a + 1 : read[i] = mem[a + i - 1]
      BY <3>1, RangeFacts
    <3> QED
      BY <3>1, <3>2
  <2> HIDE DEF read
  <2>3. sum \in Int
    <3>1. SumOf(read) \in Int
      BY <2>2, SumType
    <3> QED
      BY <3>1
  <2> HIDE DEF sum
  <2>4. /\ all \in Seq(Int) /\ Len(all) = n + 1 /\ all[n + 1] = sum
        /\ \A i \in 1 .. n : all[i] = read[i]
    BY <2>2, <2>3, AppendProperties
  <2>5. Last(all) = sum
    BY <2>4 DEF Last
  <2> HIDE DEF all
  <2>6. Front(all) = read
    <3>1. Front(all) = SubSeq(all, 1, n)
      BY <2>4 DEF Front
    <3>2. SubSeq(all, 1, n) \in Seq(Int) /\ Len(SubSeq(all, 1, n)) = n
          /\ \A i \in 1 .. n : SubSeq(all, 1, n)[i] = all[i]
      BY <2>4, SubSeqProperties
    <3> QED
      BY <2>2, <2>4, <3>1, <3>2, SeqEqual
  <2>7. \A x \in a .. a + n - 1 : known'[x] \in {Unknown, all[x - a + 1]}
    <3> TAKE x \in a .. a + n - 1
    <3>1. x - a + 1 \in 1 .. n /\ a + (x - a + 1) - 1 = x
      OBVIOUS
    <3>2. all[x - a + 1] = mem[x]
      BY <2>2, <2>4, <3>1
    <3>3. x \in Cells
      OBVIOUS
    <3>4. known[x] \in {Unknown, mem[x]}
      BY <3>3 DEF MemInv, UploadIsThere
    <3> QED
      BY <1>8, <3>2, <3>4
  <2>8. Len(all) = a + n - 1 - a + 2
    BY <2>4
  <2>9. Last(all) = SumOf(Front(all)) % 256
    BY <2>5, <2>6 DEF sum
  <2>10. /\ reply'.kind = "RBIN" /\ reply'.data = all
         /\ reply'.about[1] = a /\ reply'.about[2] = a + n - 1
    BY <2>1 DEF Answer
  <2>11. AnswersTrue'
    <3>1. /\ reply'.kind # "RSRC" /\ reply'.kind # "RSCS" /\ reply'.kind # "ERR"
          /\ reply'.kind # "RSVN"
      BY <2>10
    <3> QED
      BY ONLY <2>7, <2>8, <2>9, <2>10, <3>1 DEF AnswersTrue
  <2> QED
    BY <1>9, <2>11 DEF Good
<1> QED
  BY <1>10, <1>11

\* RQRC: the sum of the range, also of the empty one.
LEMMA RqrcStep ==
  ASSUME MemInv, NEW a \in 0 .. 255, NEW b \in 0 .. 255, a .. b \subseteq Cells,
         Asked("RQRC", TRUE),
         RQRC(Hexasc(a, ADDR_DIGITS) \o << 44 >> \o Hexasc(b, ADDR_DIGITS))
  PROVE  Good
<1> DEFINE one == Hexasc(a, 2)
           comma == << 44 >>
           two == Hexasc(b, 2)
           chars == one \o comma
           data == chars \o two
<1>1. one \in Seq(Int) /\ Len(one) = 2 /\ two \in Seq(Int) /\ Len(two) = 2
  <2>1. a \in Nat /\ b \in Nat
    OBVIOUS
  <2> QED
    BY <2>1, HexascFacts DEF Written2
<1>2. comma \in Seq(Int) /\ Len(comma) = 1
  OBVIOUS
<1>3. RQRC(data)
  BY DEF ADDR_DIGITS
<1>4. util_hexasc_to_u32(two) = b
  BY ReadBack2
<1> HIDE DEF one, comma, two
<1>5. /\ chars \in Seq(Int) /\ Len(chars) = 3
      /\ chars[1] = one[1] /\ chars[2] = one[2]
  <2>1. /\ chars \in Seq(Int) /\ Len(chars) = Len(one) + Len(comma)
        /\ \A i \in 1 .. Len(one) + Len(comma) :
              chars[i] = IF i <= Len(one) THEN one[i] ELSE comma[i - Len(one)]
    BY <1>1, <1>2, Joined
  <2> QED
    BY <1>1, <1>2, <2>1
<1> HIDE DEF chars
<1>6. /\ data \in Seq(Int) /\ Len(data) = 5
      /\ data[1] = one[1] /\ data[2] = one[2] /\ data[4] = two[1] /\ data[5] = two[2]
  <2>1. /\ data \in Seq(Int) /\ Len(data) = Len(chars) + Len(two)
        /\ \A i \in 1 .. Len(chars) + Len(two) :
              data[i] = IF i <= Len(chars) THEN chars[i] ELSE two[i - Len(chars)]
    BY <1>1, <1>5, Joined
  <2> HIDE DEF data
  <2>2. \A i \in 1 .. 5 : data[i] = IF i <= 3 THEN chars[i] ELSE two[i - 3]
    BY ONLY <1>1, <1>5, <2>1
  <2>3. data[1] = chars[1] /\ data[2] = chars[2]
    BY ONLY <2>2
  <2>4. data[4] = two[1] /\ data[5] = two[2]
    BY ONLY <2>2
  <2> QED
    BY ONLY <1>1, <1>5, <2>1, <2>3, <2>4
<1> HIDE DEF data
<1>7. Address(data) = a
  <2>1. Len(data) >= 2
    BY <1>6
  <2> QED
    BY <1>6, <2>1, AddressRead DEF one
<1>8. util_hexasc_to_u32(SubSeq(data, ADDR_DIGITS + 2, 2 * ADDR_DIGITS + 1)) = b
  <2>1. 4 \in 1 .. Len(data) - 1
    BY <1>6
  <2>2. util_hexasc_to_u32(SubSeq(data, 4, 4 + 1)) = 16 * Digit(data[4]) + Digit(data[4 + 1])
    BY <1>6, <2>1, TwoDigits
  <2>3. util_hexasc_to_u32(two) = 16 * Digit(two[1]) + Digit(two[2])
    BY <1>1, HexValues
  <2>4. util_hexasc_to_u32(SubSeq(data, 4, 5)) = b
    BY <1>4, <1>6, <2>2, <2>3
  <2> QED
    BY <2>4 DEF ADDR_DIGITS
<1>9. UNCHANGED <<mem, blvar_received_address_ptr, align, known, target>>
  BY <1>3 DEF RQRC
<1>10. MemInv' /\ OnlyNamed
  BY <1>9, Quiet
<1>11. CASE (b - a) % AddrSpace < MIN_RAM_SIZE
  <2>1. reply' = ERR("DATA_INVALID")
    BY <1>3, <1>7, <1>8, <1>11 DEF RQRC
  <2>2. /\ asked' \in [served : BOOLEAN, ok : BOOLEAN] /\ asked'.ok /\ asked'.served
    BY AskedFacts DEF Served, NeedsData
  <2>3. AnswersTrue'
    BY <2>1, <2>2, ErrorAnswer
  <2> QED
    BY <1>10, <2>3 DEF Good
<1>12. CASE ~ ((b - a) % AddrSpace < MIN_RAM_SIZE)
  <2> DEFINE read == Range8(a, b)
             sum == SumOf(read) % 65536
             seen == [i \in 1 .. b - a + 1 |-> known[a + i - 1]]
  <2>1. reply' = Answer("RSRC", Hexasc(sum, 4), <<a, b>>)
    BY <1>3, <1>7, <1>8, <1>12 DEF RQRC
  <2>2. read \in Seq(Int)
    <3>1. a \in Int /\ b \in Int
      OBVIOUS
    <3> QED
      BY <3>1, RangeFacts
  <2>3. sum \in Int /\ 0 <= sum /\ sum < 65536
    <3>1. SumOf(read) \in Int
      BY <2>2, SumType
    <3> HIDE DEF read
    <3> QED
      BY <3>1
  <2>4. util_hexasc_to_u32(Hexasc(sum, 4)) = sum
    <3> HIDE DEF sum
    <3> QED
      BY <2>3, ReadBack4
  <2>5. ASSUME \A x \in a .. b : known[x] # Unknown
        PROVE  read = seen
    <3>1. \A i \in 1 .. b - a + 1 : a + i - 1 \in a .. b
      OBVIOUS
    <3>2. \A x \in a .. b : x \in Cells
      OBVIOUS
    <3>3. \A x \in a .. b : known[x] = mem[x]
      BY <2>5, <3>2 DEF MemInv, UploadIsThere
    <3>4. \A i \in 1 .. b - a + 1 : mem[a + i - 1] = known[a + i - 1]
      BY <3>1, <3>3
    <3> QED
      BY <3>4 DEF Range8
  <2> HIDE DEF read
  <2>6. (\A x \in a .. b : known[x] # Unknown) =>
           util_hexasc_to_u32(Hexasc(sum, 4)) = SumOf(seen) % 65536
    <3> HIDE DEF seen
    <3>1. ASSUME \A x \in a .. b : known[x] # Unknown PROVE sum = SumOf(seen) % 65536
      BY <2>5, <3>1 DEF sum
    <3> HIDE DEF sum
    <3> QED
      BY ONLY <2>4, <3>1
  <2> HIDE DEF sum
  <2>7. /\ reply'.kind = "RSRC" /\ reply'.data = Hexasc(sum, 4)
        /\ reply'.about[1] = a /\ reply'.about[2] = b
    BY <2>1 DEF Answer
  <2>8. (\A x \in a .. b : known'[x] # Unknown) =>
           util_hexasc_to_u32(reply'.data)
             = SumOf([i \in 1 .. b - a + 1 |-> known'[a + i - 1]]) % 65536
    BY <1>9, <2>6, <2>7
  <2>9. AnswersTrue'
    <3>1. /\ reply'.kind # "RBIN" /\ reply'.kind # "RSCS" /\ reply'.kind # "ERR"
          /\ reply'.kind # "RSVN"
      BY <2>7
    <3> QED
      BY ONLY <2>7, <2>8, <3>1 DEF AnswersTrue
  <2> QED
    BY <1>10, <2>9 DEF Good
<1> QED
  BY <1>11, <1>12

-----------------------------------------------------------------------------
(* The header compiled into the loader, and what is told of it.            *)

\* The table of groups: five are there, two undefined, the rest empty.
LEMMA TableFacts ==
  /\ Len(Table) = 21 /\ GroupCount = 5
  /\ \A i \in 1 .. 21 :
        /\ Table[i] = "present" <=> i \in {1, 2, 3, 4, 7}
        /\ Table[i] = "undefined" <=> i \in {5, 6}
  /\ flash_bootloader_barker_is_valid /\ main_code_barker_is_valid
  /\ just_flashed_main_code_barker_is_valid
<1>1. Table = [i \in 1 .. 21 |-> CASE i \in {1, 2, 3, 4, 7} -> "present"
                                   [] i \in {5, 6}          -> "undefined"
                                   [] OTHER                 -> "empty"]
  BY DEF Table, debug_code_group0, BLOADER_NUM_SECTIONS
<1>2. GroupCount = 5
  BY DEF GroupCount, debug_code_group0
<1>3. flash_bootloader_barker_is_valid /\ main_code_barker_is_valid
  BY DEF flash_bootloader_barker_is_valid, main_code_barker_is_valid, debug_flash_header,
         debug_code_group0, FLASH_BL_BARKER_VALUE, PU_MAIN_CODE_BARKER_VALUE
<1>4. just_flashed_main_code_barker_is_valid
  BY <1>3 DEF just_flashed_main_code_barker_is_valid
<1>5. \A i \in 1 .. 21 : \/ i \in {1, 2, 3, 4, 7} /\ Table[i] = "present"
                         \/ i \in {5, 6} /\ Table[i] = "undefined"
                         \/ i \notin {1, 2, 3, 4, 7} /\ i \notin {5, 6} /\ Table[i] = "empty"
  BY <1>1
<1> DEFINE What == {"present", "undefined", "empty"}
<1>6. Table \in [1 .. 21 -> What]
  <2>1. \A i \in 1 .. 21 : Table[i] \in What
    BY ONLY <1>5
  <2> QED
    BY ONLY <1>1, <2>1
<1> HIDE DEF Table, What
<1>7. Len(Table) = 21
  <2>1. 21 \in Nat
    OBVIOUS
  <2> QED
    BY ONLY <1>6, <2>1, FunctionIsSeq
<1>8. \A i \in {5, 6} : i \notin {1, 2, 3, 4, 7}
  OBVIOUS
<1>9. \A i \in 1 .. 21 :
        /\ Table[i] = "present" <=> i \in {1, 2, 3, 4, 7}
        /\ Table[i] = "undefined" <=> i \in {5, 6}
  BY ONLY <1>5, <1>8, SMTT(60)
<1> QED
  BY <1>2, <1>3, <1>4, <1>7, <1>9

\* The checksums, section by section: the table satisfies its definition.
SectionBody(S) ==
  [i \in 0 .. Len(Table) |->
     LET left == IF i <= 1 THEN GroupCount ELSE S[i - 1].left
     IN  IF i = 0
         THEN [csum |-> IF flash_bootloader_barker_is_valid THEN Sums[1] ELSE 0,
               valid |-> TRUE, left |-> 0]
         ELSE IF i = 1 /\ ~just_flashed_main_code_barker_is_valid
         THEN [csum |-> 0, valid |-> FALSE, left |-> 0]
         ELSE IF Table[i] = "present"
         THEN [csum |-> Sums[i + 1], valid |-> TRUE, left |-> (left - 1) % 256]
         ELSE [csum |-> 0, valid |-> FALSE, left |-> left]]

\* There is a table that does, so the recursive definition holds of Section.
LEMMA SectionExists == Section = SectionBody(Section)
<1> DEFINE After(i) == IF i = 0 THEN 0 ELSE IF i <= 4 THEN 5 - i ELSE IF i <= 6 THEN 1 ELSE 0
           Rest(i) == [csum |-> 0, valid |-> FALSE, left |-> After(i)]
           Code(i) == [csum |-> Sums[i + 1], valid |-> TRUE, left |-> After(i)]
           W == [i \in 0 .. 21 |-> IF i \in {0, 1, 2, 3, 4, 7} THEN Code(i) ELSE Rest(i)]
           Body(i) == LET left == IF i <= 1 THEN GroupCount ELSE W[i - 1].left
                      IN  IF i = 0
                          THEN [csum |-> IF flash_bootloader_barker_is_valid THEN Sums[1] ELSE 0,
                                valid |-> TRUE, left |-> 0]
                          ELSE IF i = 1 /\ ~just_flashed_main_code_barker_is_valid
                          THEN [csum |-> 0, valid |-> FALSE, left |-> 0]
                          ELSE IF Table[i] = "present"
                          THEN [csum |-> Sums[i + 1], valid |-> TRUE, left |-> (left - 1) % 256]
                          ELSE [csum |-> 0, valid |-> FALSE, left |-> left]
<1>1. \A i \in 0 .. 21 : W[i] = IF i \in {0, 1, 2, 3, 4, 7} THEN Code(i) ELSE Rest(i)
  OBVIOUS
<1>2. \A i \in 0 .. 21 : W[i].left = After(i)
  BY <1>1
<1>3. W = [i \in 0 .. 21 |-> W[i]]
  OBVIOUS
<1> HIDE DEF W
<1>4. W[0] = Body(0)
  <2>1. W[0] = Code(0)
    <3> HIDE DEF Code, Rest
    <3>1. 0 \in 0 .. 21 /\ 0 \in {0, 1, 2, 3, 4, 7}
      OBVIOUS
    <3> QED
      BY ONLY <1>1, <3>1
  <2>2. Code(0) = [csum |-> Sums[1], valid |-> TRUE, left |-> 0]
    OBVIOUS
  <2>3. Body(0) = [csum |-> IF flash_bootloader_barker_is_valid THEN Sums[1] ELSE 0,
                   valid |-> TRUE, left |-> 0]
    OBVIOUS
  <2> HIDE DEF Code, Body
  <2> QED
    BY <2>1, <2>2, <2>3, TableFacts
<1>5. ASSUME NEW i \in {1, 2, 3, 4, 7} PROVE W[i] = Body(i)
  <2> DEFINE left == IF i <= 1 THEN GroupCount ELSE W[i - 1].left
  <2>1. i \in 1 .. 21 /\ i # 0 /\ W[i] = Code(i)
    <3>1. i \in 1 .. 21 /\ i # 0 /\ i \in 0 .. 21 /\ i \in {0, 1, 2, 3, 4, 7}
      OBVIOUS
    <3> HIDE DEF Code, Rest
    <3> QED
      BY ONLY <1>1, <3>1
  <2>2. left = After(i) + 1
    <3>1. CASE i = 1
      BY <3>1, TableFacts
    <3>2. CASE i # 1
      <4>1. left = After(i - 1)
        BY <1>2, <3>2
      <4> QED
        BY <3>2, <4>1
    <3> QED
      BY <3>1, <3>2
  <2>3. After(i) \in 0 .. 4
    OBVIOUS
  <2>4. (left - 1) % 256 = After(i)
    <3> HIDE DEF left, After
    <3> QED
      BY <2>2, <2>3
  <2>5. Table[i] = "present" /\ just_flashed_main_code_barker_is_valid
    BY <2>1, TableFacts
  <2> HIDE DEF left, After
  <2>6. Body(i) = [csum |-> Sums[i + 1], valid |-> TRUE, left |-> (left - 1) % 256]
    BY <2>1, <2>5 DEF left
  <2>7. Code(i) = [csum |-> Sums[i + 1], valid |-> TRUE, left |-> After(i)]
    OBVIOUS
  <2> HIDE DEF Code, Body
  <2> QED
    BY ONLY <2>1, <2>4, <2>6, <2>7
<1>6. ASSUME NEW i \in 1 .. 21, i \notin {1, 2, 3, 4, 7} PROVE W[i] = Body(i)
  <2> DEFINE left == IF i <= 1 THEN GroupCount ELSE W[i - 1].left
  <2>1. i # 0 /\ i # 1 /\ i > 1 /\ W[i] = Rest(i)
    <3>1. i # 0 /\ i # 1 /\ i > 1 /\ i \in 0 .. 21 /\ i \notin {0, 1, 2, 3, 4, 7}
      BY <1>6
    <3> HIDE DEF Code, Rest
    <3> QED
      BY ONLY <1>1, <3>1
  <2>2. left = After(i)
    <3>1. left = After(i - 1)
      BY <1>2, <2>1
    <3> QED
      BY <1>6, <3>1
  <2>3. Table[i] # "present"
    BY <1>6, TableFacts
  <2> HIDE DEF left, After
  <2>4. Body(i) = [csum |-> 0, valid |-> FALSE, left |-> left]
    BY <2>1, <2>3 DEF left
  <2> QED
    BY <2>1, <2>2, <2>4
<1>7. \A i \in 0 .. 21 : W[i] = Body(i)
  <2>1. \A i \in 0 .. 21 : i = 0 \/ i \in {1, 2, 3, 4, 7} \/ (i \in 1 .. 21 /\ i \notin {1, 2, 3, 4, 7})
    OBVIOUS
  <2> HIDE DEF Body
  <2> QED
    BY <1>4, <1>5, <1>6, <2>1
<1>8. W = SectionBody(W)
  <2>1. SectionBody(W) = [i \in 0 .. 21 |-> Body(i)]
    BY TableFacts DEF SectionBody
  <2> HIDE DEF Body
  <2> QED
    BY <1>3, <1>7, <2>1
<1> HIDE DEF W
<1>9. \E S : S = SectionBody(S)
  BY <1>8
<1> QED
  BY ONLY <1>9, ZenonT(60) DEF Section, SectionBody

\* The first sections: those of the groups that are there have the checksum
\* that was computed, and the count is used up at the seventh.
LEMMA SectionFacts ==
  /\ Section[0].csum = Sums[1]
  /\ \A i \in {1, 2, 3, 4, 7} : Section[i].csum = Sums[i + 1] /\ Section[i].valid
  /\ \A i \in {5, 6} : ~Section[i].valid
  /\ LastSection = 7
<1>1. \A i \in 0 .. 21 : Section[i] = SectionBody(Section)[i]
  BY SectionExists
<1> DEFINE left(i) == IF i <= 1 THEN GroupCount ELSE Section[i - 1].left
<1>2. Section[0].csum = Sums[1]
  <2>1. 0 \in 0 .. 21
    OBVIOUS
  <2>2. Section[0] = [csum |-> Sums[1], valid |-> TRUE, left |-> 0]
    BY <1>1, <2>1, TableFacts DEF SectionBody
  <2> QED
    BY <2>2
<1>3. ASSUME NEW i \in {1, 2, 3, 4, 7}
      PROVE  Section[i] = [csum |-> Sums[i + 1], valid |-> TRUE, left |-> (left(i) - 1) % 256]
  <2>1. i \in 0 .. 21 /\ i \in 1 .. 21 /\ i # 0
    OBVIOUS
  <2>2. Table[i] = "present" /\ just_flashed_main_code_barker_is_valid
    BY <2>1, TableFacts
  <2>3. Len(Table) = 21
    BY TableFacts
  <2>4. Section[i] = SectionBody(Section)[i]
    BY <1>1, <2>1
  <2>5. SectionBody(Section)[i]
          = [csum |-> Sums[i + 1], valid |-> TRUE, left |-> (left(i) - 1) % 256]
    BY <2>1, <2>2, <2>3 DEF SectionBody
  <2> QED
    BY <2>4, <2>5
<1>4. ASSUME NEW i \in {5, 6}
      PROVE  Section[i] = [csum |-> 0, valid |-> FALSE, left |-> left(i)]
  <2>1. i \in 0 .. 21 /\ i \in 1 .. 21 /\ i # 0 /\ i # 1 /\ i \notin {1, 2, 3, 4, 7}
    OBVIOUS
  <2>2. Table[i] # "present"
    BY <2>1, TableFacts
  <2>3. Len(Table) = 21
    BY TableFacts
  <2>4. Section[i] = SectionBody(Section)[i]
    BY <1>1, <2>1
  <2>5. SectionBody(Section)[i] = [csum |-> 0, valid |-> FALSE, left |-> left(i)]
    BY <2>1, <2>2, <2>3 DEF SectionBody
  <2> QED
    BY <2>4, <2>5
<1>5. /\ Section[1].left = (left(1) - 1) % 256 /\ Section[2].left = (left(2) - 1) % 256
      /\ Section[3].left = (left(3) - 1) % 256 /\ Section[4].left = (left(4) - 1) % 256
      /\ Section[5].left = left(5) /\ Section[6].left = left(6)
      /\ Section[7].left = (left(7) - 1) % 256
  <2> HIDE DEF left
  <2>1. \A i \in {1, 2, 3, 4, 7} : Section[i].left = (left(i) - 1) % 256
    BY <1>3
  <2>2. \A i \in {5, 6} : Section[i].left = left(i)
    BY <1>4
  <2> QED
    BY ONLY <2>1, <2>2
<1>6. /\ left(1) = GroupCount /\ left(2) = Section[1].left /\ left(3) = Section[2].left
      /\ left(4) = Section[3].left /\ left(5) = Section[4].left /\ left(6) = Section[5].left
      /\ left(7) = Section[6].left
  OBVIOUS
<1>7. GroupCount = 5
  BY TableFacts
<1> HIDE DEF left
<1>8. /\ Section[1].left = 4 /\ Section[2].left = 3 /\ Section[3].left = 2
      /\ Section[4].left = 1 /\ Section[5].left = 1 /\ Section[6].left = 1
      /\ Section[7].left = 0
  BY ONLY <1>5, <1>6, <1>7
<1>9. LastSection = 7
  <2> DEFINE done == {i \in 1 .. 21 : Section[i].left = 0}
  <2>1. 7 \in done
    BY <1>8
  <2>2. \A i \in 1 .. 6 : i \notin done
    BY <1>8
  <2>3. \A i \in done : i \in 1 .. 21
    OBVIOUS
  <2> HIDE DEF done
  <2>4. \A j \in done : 7 <= j
    BY <2>2, <2>3
  <2>5. \A i \in done : (\A j \in done : i <= j) => i = 7
    BY <2>1, <2>3, <2>4
  <2>6. (CHOOSE i \in done : \A j \in done : i <= j) = 7
    BY <2>1, <2>4, <2>5
  <2> QED
    BY <2>1, <2>6, TableFacts DEF LastSection, done
<1>10. \A i \in {1, 2, 3, 4, 7} : Section[i].csum = Sums[i + 1] /\ Section[i].valid
  BY <1>3
<1>11. \A i \in {5, 6} : ~Section[i].valid
  BY <1>4
<1> QED
  BY <1>2, <1>9, <1>10, <1>11

Distinct(a, b, c, d, e) ==
  a \notin {b, c, d, e} /\ b \notin {c, d, e} /\ c \notin {d, e} /\ d # e

AreFive(a, b, c, d, e) == Cardinality({a, b, c, d, e}) = 5

\* Five distinct things are five.
LEMMA FiveThings ==
  ASSUME NEW a, NEW b, NEW c, NEW d, NEW e, Distinct(a, b, c, d, e)
  PROVE  AreFive(a, b, c, d, e)
<1>0. a \notin {b, c, d, e} /\ b \notin {c, d, e} /\ c \notin {d, e} /\ d # e
  BY DEF Distinct
<1>1. IsFiniteSet({}) /\ Cardinality({}) = 0
  BY FS_EmptySet
<1>2. IsFiniteSet({e}) /\ Cardinality({e}) = 1
  <2>1. {} \cup {e} = {e} /\ e \notin {}
    OBVIOUS
  <2> QED
    BY ONLY <1>1, <2>1, FS_AddElement
<1>3. IsFiniteSet({d, e}) /\ Cardinality({d, e}) = 2
  <2>1. {e} \cup {d} = {d, e} /\ d \notin {e}
    BY <1>0
  <2> QED
    BY ONLY <1>2, <2>1, FS_AddElement
<1>4. IsFiniteSet({c, d, e}) /\ Cardinality({c, d, e}) = 3
  <2>1. {d, e} \cup {c} = {c, d, e} /\ c \notin {d, e}
    BY <1>0
  <2> QED
    BY ONLY <1>3, <2>1, FS_AddElement
<1>5. IsFiniteSet({b, c, d, e}) /\ Cardinality({b, c, d, e}) = 4
  <2>1. {c, d, e} \cup {b} = {b, c, d, e} /\ b \notin {c, d, e}
    BY <1>0
  <2> QED
    BY ONLY <1>4, <2>1, FS_AddElement
<1> QED
  <2>1. {b, c, d, e} \cup {a} = {a, b, c, d, e} /\ a \notin {b, c, d, e}
    BY <1>0
  <2> QED
    BY ONLY <1>5, <2>1, FS_AddElement DEF AreFive

\* The groups counted: five of them, the fifth at the seventh place.
LEMMA Counted ==
  ASSUME NEW Q, Q \in {"present", "undefined"}
  PROVE  LET Hit(j) == IF Q = "present" THEN Table[j] = "present" ELSE Table[j] # "undefined"
         IN  /\ Cardinality({j \in 1 .. 7 : Hit(j)}) = 5
             /\ \A i \in 0 .. 6 : Cardinality({j \in 1 .. i : Hit(j)}) # 5
<1> DEFINE Hit(j) == IF Q = "present" THEN Table[j] = "present" ELSE Table[j] # "undefined"
<1>1. \A j \in 1 .. 7 : Hit(j) <=> j \in {1, 2, 3, 4, 7}
  <2>1. \A j \in 1 .. 7 : j \in 1 .. 21
    OBVIOUS
  <2>2. \A j \in 1 .. 7 : j \notin {5, 6} <=> j \in {1, 2, 3, 4, 7}
    OBVIOUS
  <2> QED
    BY ONLY <2>1, <2>2, TableFacts
<1> HIDE DEF Hit
<1>2. Cardinality({j \in 1 .. 7 : Hit(j)}) = 5
  <2>1. {j \in 1 .. 7 : Hit(j)} = {1, 2, 3, 4, 7}
    BY ONLY <1>1
  <2>2. Distinct(1, 2, 3, 4, 7)
    BY DEF Distinct
  <2>3. AreFive(1, 2, 3, 4, 7)
    BY ONLY <2>2, FiveThings, Zenon
  <2> QED
    BY <2>1, <2>3 DEF AreFive
<1>3. ASSUME NEW i \in 0 .. 6
      PROVE  Cardinality({j \in 1 .. i : Hit(j)}) # 5
  <2>1. {j \in 1 .. i : Hit(j)} \subseteq 1 .. 4
    BY <1>1
  <2>2. IsFiniteSet(1 .. 4) /\ Cardinality(1 .. 4) = 4
    <3>1. 1 \in Int /\ 4 \in Int
      OBVIOUS
    <3>2. IsFiniteSet(1 .. 4) /\ Cardinality(1 .. 4) = IF 1 > 4 THEN 0 ELSE 4 - 1 + 1
      BY ONLY <3>1, FS_Interval, Zenon
    <3> QED
      BY <3>2
  <2>3. Cardinality({j \in 1 .. i : Hit(j)}) <= Cardinality(1 .. 4)
        /\ IsFiniteSet({j \in 1 .. i : Hit(j)})
    BY <2>1, <2>2, FS_Subset
  <2>4. Cardinality({j \in 1 .. i : Hit(j)}) \in Nat
    BY <2>3, FS_CardinalityType
  <2> QED
    BY <2>2, <2>3, <2>4
<1> QED
  BY <1>2, <1>3 DEF Hit

\* The promised table ends at the seventh group.
LEMMA ChecksumTableFacts ==
  ChecksumTable = [i \in 1 .. 8 |->
                     IF i = 1 \/ Table[i - 1] = "present" THEN Hexasc(Sums[i], 4) ELSE Spaces]
<1> DEFINE present(i) == Cardinality({j \in 1 .. i : Table[j] = "present"})
           last == CHOOSE i \in 1 .. Len(Table) : Table[i] = "present" /\ present(i) = GroupCount
<1>1. /\ Cardinality({j \in 1 .. 7 : Table[j] = "present"}) = 5
      /\ \A i \in 0 .. 6 : Cardinality({j \in 1 .. i : Table[j] = "present"}) # 5
  BY Counted
<1>2. present(7) = 5 /\ \A i \in 0 .. 6 : present(i) # 5
  BY <1>1
<1> HIDE DEF present
<1>3. /\ Len(Table) = 21 /\ GroupCount = 5
      /\ \A i \in 1 .. 21 : Table[i] = "present" <=> i \in {1, 2, 3, 4, 7}
  BY TableFacts
<1>4. last = 7
  <2>1. \A i \in {1, 2, 3, 4, 7} : i \in 0 .. 6 \/ i = 7
    OBVIOUS
  <2>2. \A i \in 1 .. 21 : Table[i] = "present" /\ present(i) = 5 <=> i = 7
    BY <1>2, <1>3, <2>1
  <2>3. 7 \in 1 .. 21
    OBVIOUS
  <2> QED
    BY <1>3, <2>2, <2>3
<1>5. ChecksumTable = [i \in 1 .. last + 1 |->
                         IF i = 1 \/ Table[i - 1] = "present" THEN Hexasc(Sums[i], 4) ELSE Spaces]
  BY DEF ChecksumTable, present
<1> HIDE DEF last
<1>6. last + 1 = 8
  BY <1>4
<1> QED
  BY <1>5, <1>6

\* RQCS: the promised table.
LEMMA RqcsStep ==
  ASSUME MemInv, RQCS
  PROVE  Good
<1>1. MemInv' /\ OnlyNamed
  <2>1. UNCHANGED <<mem, blvar_received_address_ptr, align, known, target>>
    BY DEF RQCS
  <2> QED
    BY <2>1, Quiet
<1>2. /\ reply'.kind = "RSCS"
      /\ reply'.data = IF Section[0].csum = 0 THEN <<>>
                       ELSE [i \in 1 .. LastSection + 1 |-> RSCS(i - 1)]
  BY DEF RQCS, Answer
<1>3. ASSUME Sums[1] # 0
      PROVE  reply'.data = ChecksumTable
  <2>1. Section[0].csum = Sums[1] /\ LastSection = 7 /\ LastSection + 1 = 8
    BY SectionFacts
  <2>2. reply'.data = [i \in 1 .. 8 |-> RSCS(i - 1)]
    BY <1>2, <1>3, <2>1
  <2>3. ASSUME NEW i \in 1 .. 8
        PROVE  RSCS(i - 1) = IF i = 1 \/ Table[i - 1] = "present" THEN Hexasc(Sums[i], 4)
                             ELSE Spaces
    <3>1. CASE i = 1
      <4>1. RSCS(0) = Hexasc(Sums[1], 4)
        BY <2>1 DEF RSCS
      <4> QED
        BY <3>1, <4>1
    <3>2. CASE i - 1 \in {1, 2, 3, 4, 7}
      <4> DEFINE k == i - 1
      <4>1. k \in 1 .. 21 /\ k + 1 = i
        BY <3>2
      <4> HIDE DEF k
      <4>2. k \in {1, 2, 3, 4, 7}
        BY <3>2 DEF k
      <4>3. Table[k] = "present" /\ Section[k].csum = Sums[i] /\ Section[k].valid
        BY <4>1, <4>2, TableFacts, SectionFacts
      <4>4. RSCS(k) = Hexasc(Sums[i], 4)
        BY <4>3 DEF RSCS
      <4> QED
        BY <4>3, <4>4 DEF k
    <3>3. CASE i - 1 \in {5, 6}
      <4> DEFINE k == i - 1
      <4>1. k \in 1 .. 21 /\ k >= 1 /\ k < 7 /\ i # 1 /\ k \notin {1, 2, 3, 4, 7}
        BY <3>3
      <4> HIDE DEF k
      <4>2. k \in {5, 6}
        BY <3>3 DEF k
      <4>3. Table[k] # "present" /\ ~Section[k].valid
        BY <4>1, <4>2, TableFacts, SectionFacts
      <4>4. RSCS(k) = Spaces
        BY <2>1, <4>1, <4>3 DEF RSCS
      <4> QED
        BY <4>1, <4>3, <4>4 DEF k
    <3>4. i = 1 \/ i - 1 \in {1, 2, 3, 4, 7} \/ i - 1 \in {5, 6}
      OBVIOUS
    <3> QED
      BY <3>1, <3>2, <3>3, <3>4
  <2> QED
    BY <2>2, <2>3, ChecksumTableFacts
<1>4. AnswersTrue'
  <2>1. /\ reply'.kind # "RBIN" /\ reply'.kind # "RSRC" /\ reply'.kind # "ERR"
        /\ reply'.kind # "RSVN"
    BY <1>2
  <2>2. reply'.kind = "RSCS" /\ Sums[1] # 0 => reply'.data = ChecksumTable
    BY <1>3
  <2> QED
    BY ONLY <2>1, <2>2 DEF AnswersTrue
<1> QED
  BY <1>1, <1>4 DEF Good

\* RQVN: what is put together fits, and shows the five groups.
LEMMA RqvnStep ==
  ASSUME MemInv, RQVN
  PROVE  Good
<1>1. MemInv' /\ OnlyNamed
  <2>1. UNCHANGED <<mem, blvar_received_address_ptr, align, known, target>>
    BY DEF RQVN
  <2> QED
    BY <2>1, Quiet
<1>2. reply'.kind = "RSVN" /\ reply'.about = VersionFields
  BY DEF RQVN, Answer
<1>3. Walked = 7
  <2> DEFINE counted(i) == Cardinality({j \in 1 .. i : Table[j] # "undefined"})
             done == {i \in 0 .. 21 : counted(i) = 5}
  <2>1. /\ Cardinality({j \in 1 .. 7 : Table[j] # "undefined"}) = 5
        /\ \A i \in 0 .. 6 : Cardinality({j \in 1 .. i : Table[j] # "undefined"}) # 5
    <3>1. "undefined" \in {"present", "undefined"} /\ "undefined" # "present"
      OBVIOUS
    <3> DEFINE Q == "undefined"
    <3> HIDE DEF Q
    <3>2. LET Hit(j) == IF Q = "present" THEN Table[j] = "present" ELSE Table[j] # "undefined"
          IN  /\ Cardinality({j \in 1 .. 7 : Hit(j)}) = 5
              /\ \A i \in 0 .. 6 : Cardinality({j \in 1 .. i : Hit(j)}) # 5
      BY <3>1, Counted DEF Q
    <3> QED
      BY <3>1, <3>2 DEF Q
  <2>2. counted(7) = 5 /\ \A i \in 0 .. 6 : counted(i) # 5
    BY <2>1
  <2>3. /\ Len(Table) = 21 /\ GroupCount = 5
        /\ flash_bootloader_barker_is_valid /\ main_code_barker_is_valid
    BY TableFacts
  <2>4. Walked = IF done = {} THEN BLOADER_NUM_SECTIONS ELSE CHOOSE i \in done : \A j \in done : i <= j
    BY <2>3 DEF Walked
  <2> HIDE DEF counted
  <2>5. 7 \in done /\ \A i \in 0 .. 6 : i \notin done
    BY <2>2
  <2>6. \A i \in done : i \in 0 .. 21
    OBVIOUS
  <2> HIDE DEF done
  <2>7. \A j \in done : 7 <= j
    BY <2>5, <2>6
  <2>8. \A i \in done : (\A j \in done : i <= j) => i = 7
    BY <2>5, <2>6, <2>7
  <2>9. (CHOOSE i \in done : \A j \in done : i <= j) = 7
    BY <2>5, <2>7, <2>8
  <2> QED
    BY <2>4, <2>5, <2>9
<1> DEFINE What == {"boot", "package", "group", "FF"}
           head == <<get_running_boot_info,
                     Descriptor(flash_bootloader_barker_is_valid, "boot"),
                     Descriptor(flash_bootloader_barker_is_valid /\ main_code_barker_is_valid,
                                "package")>>
           groups == [i \in 1 .. 7 |-> Descriptor(Table[i] # "undefined", "group")]
           fields == head \o groups
<1>4. head \in Seq(What) /\ Len(head) = 3
  BY DEF get_running_boot_info, Descriptor
<1>5. groups \in Seq(What) /\ Len(groups) = 7
  <2>1. groups \in [1 .. 7 -> What]
    BY DEF Descriptor
  <2>2. 7 \in Nat
    OBVIOUS
  <2> HIDE DEF groups, What
  <2> QED
    BY ONLY <2>1, <2>2, FunctionIsSeq
<1>6. \A i \in 1 .. 7 : groups[i] = "group" <=> i \in {1, 2, 3, 4, 7}
  <2>1. \A i \in 1 .. 7 : i \in 1 .. 21 /\ (i \notin {5, 6} <=> i \in {1, 2, 3, 4, 7})
    OBVIOUS
  <2>2. \A i \in 1 .. 7 : Table[i] # "undefined" <=> i \in {1, 2, 3, 4, 7}
    BY ONLY <2>1, TableFacts
  <2> QED
    BY <2>2 DEF Descriptor
<1>7. VersionFields = fields
  BY <1>3 DEF VersionFields
<1> HIDE DEF What, head, groups
<1>8. /\ fields \in Seq(What) /\ Len(fields) = Len(head) + Len(groups)
      /\ \A i \in 1 .. Len(head) + Len(groups) :
            fields[i] = IF i <= Len(head) THEN head[i] ELSE groups[i - Len(head)]
  BY ONLY <1>4, <1>5, ConcatProperties, Zenon DEF fields
<1> HIDE DEF fields
<1>9. Len(fields) = 10 /\ \A i \in 4 .. 10 : fields[i] = groups[i - 3]
  BY ONLY <1>4, <1>5, <1>8
<1>10. {i \in 4 .. Len(fields) : fields[i] = "group"} = {4, 5, 6, 7, 10}
  <2>1. \A i \in 4 .. 10 : i - 3 \in 1 .. 7
    OBVIOUS
  <2>2. \A i \in 4 .. 10 : i - 3 \in {1, 2, 3, 4, 7} <=> i \in {4, 5, 6, 7, 10}
    OBVIOUS
  <2>3. \A i \in 4 .. 10 : fields[i] = "group" <=> i \in {4, 5, 6, 7, 10}
    BY ONLY <1>6, <1>9, <2>1, <2>2
  <2>4. \A i \in {4, 5, 6, 7, 10} : i \in 4 .. 10
    OBVIOUS
  <2> QED
    BY ONLY <1>9, <2>3, <2>4
<1>11. Cardinality({i \in 4 .. Len(fields) : fields[i] = "group"}) = 5
  <2>1. Distinct(4, 5, 6, 7, 10)
    BY DEF Distinct
  <2>2. AreFive(4, 5, 6, 7, 10)
    BY ONLY <2>1, FiveThings, Zenon
  <2> QED
    BY <1>10, <2>2 DEF AreFive
<1>12. 17 * Len(fields) <= MAX_RESPONSE_SIZE
  BY <1>9 DEF MAX_RESPONSE_SIZE, BLOADER_NUM_SECTIONS
<1>13. AnswersTrue'
  <2>1. /\ reply'.kind # "RBIN" /\ reply'.kind # "RSRC" /\ reply'.kind # "ERR"
        /\ reply'.kind # "RSCS"
    BY <1>2
  <2>2. /\ 17 * Len(reply'.about) <= MAX_RESPONSE_SIZE
        /\ Cardinality({i \in 4 .. Len(reply'.about) : reply'.about[i] = "group"}) = GroupCount
    BY <1>2, <1>7, <1>11, <1>12, TableFacts
  <2> QED
    BY ONLY <2>1, <2>2 DEF AnswersTrue
<1> QED
  BY <1>1, <1>13 DEF Good

-----------------------------------------------------------------------------
(* The theorems.                                                           *)

\* In the beginning nothing was uploaded or answered.
LEMMA InitGood == Init => MemInv /\ AnswersTrue
<1> SUFFICES ASSUME Init PROVE MemInv /\ AnswersTrue
  OBVIOUS
<1>1. MemType
  <2>1. Erased \in 0 .. 255 /\ 0 \in 0 .. 255 /\ Unknown \in 0 .. Unknown
    BY DEF Erased, Unknown
  <2> QED
    BY <2>1 DEF Init, MemType
<1>2. AddressInv
  BY DEF Init, AddressInv
<1>3. UploadIsThere
  BY DEF Init, UploadIsThere
<1>4. AnswersTrue
  <2>1. reply.kind = "none"
    BY DEF Init, NoReply
  <2>2. /\ reply.kind # "RBIN" /\ reply.kind # "RSRC" /\ reply.kind # "ERR"
        /\ reply.kind # "RSCS" /\ reply.kind # "RSVN"
    BY <2>1
  <2> QED
    BY ONLY <2>2 DEF AnswersTrue
<1> QED
  BY <1>1, <1>2, <1>3, <1>4 DEF MemInv

\* ADDR and JUMP, with the right sum or not.
LEMMA OnAddressStep ==
  ASSUME MemInv, NEW ok \in BOOLEAN, OnAddress(ok)
  PROVE  Good
<1>1. PICK a \in IF ok THEN Addresses ELSE {RAM_START} :
         \/ Asked("ADDR", ok) /\ ADDR(Protected(Hexasc(a, ADDR_DIGITS), ok))
         \/ Asked("JUMP", ok) /\ JUMP(Protected(Hexasc(a, ADDR_DIGITS), ok))
  BY DEF OnAddress
<1>2. a \in Nat
  <2>1. RAM_START \in Nat /\ RAM_END \in Nat /\ RAM_START - 1 \in Nat
    BY MapFacts
  <2>2. RAM_START \in Nat /\ \A x \in Addresses : x \in Nat
    BY <2>1 DEF Addresses
  <2>3. a \in Addresses \/ a = RAM_START
    OBVIOUS
  <2> QED
    BY <2>2, <2>3
<1>3. CASE Asked("ADDR", ok) /\ ADDR(Protected(Hexasc(a, ADDR_DIGITS), ok))
  BY <1>2, <1>3, AddrStep
<1>4. CASE Asked("JUMP", ok) /\ JUMP(Protected(Hexasc(a, ADDR_DIGITS), ok))
  BY <1>2, <1>4, JumpStep
<1> QED
  BY <1>1, <1>3, <1>4

\* RBIN and FLASH, with the right sum or not.
LEMMA OnRangeStep ==
  ASSUME MemInv, NEW ok \in BOOLEAN, OnRange(ok)
  PROVE  Good
<1>1. CASE \E a \in ReadFrom, n \in ReadSizes :
             /\ a .. a + n - 1 \subseteq Cells
             /\ Asked("RBIN", ok)
             /\ RBIN(Protected(Hexasc(a, ADDR_DIGITS) \o Hexasc(n, SIZE_DIGITS), ok))
  <2>1. PICK a \in ReadFrom, n \in ReadSizes :
             /\ a .. a + n - 1 \subseteq Cells
             /\ Asked("RBIN", ok)
             /\ RBIN(Protected(Hexasc(a, ADDR_DIGITS) \o Hexasc(n, SIZE_DIGITS), ok))
    BY <1>1
  <2>2. a \in 0 .. 255
    BY MapFacts DEF ReadFrom
  <2>3. n \in 0 .. 15
    BY MemoryAssumption, ZenonT(60)
  <2> QED
    BY <2>1, <2>2, <2>3, RbinStep
<1>2. CASE \E source \in Ram, dest \in Flash, n \in BinSizes :
             /\ Asked("FLASH", ok)
             /\ FLASH(Protected(Hexasc(source, ADDR_DIGITS) \o Hexasc(dest, ADDR_DIGITS)
                                  \o Hexasc(n, ADDR_DIGITS), ok))
  <2>1. PICK source \in Ram, dest \in Flash, n \in BinSizes :
             /\ Asked("FLASH", ok)
             /\ FLASH(Protected(Hexasc(source, ADDR_DIGITS) \o Hexasc(dest, ADDR_DIGITS)
                                  \o Hexasc(n, ADDR_DIGITS), ok))
    BY <1>2
  <2>2. source \in Nat /\ dest \in Nat
    BY MapFacts DEF Ram, Flash
  <2>3. n \in Nat
    BY MemoryAssumption, Zenon
  <2> QED
    BY <2>1, <2>2, <2>3, FlashStep
<1> QED
  BY <1>1, <1>2 DEF OnRange

\* Every command leaves memory as the host believes it, and is answered truly.
LEMMA HandlerStep ==
  ASSUME MemInv, Handler
  PROVE  Good
<1>1. ASSUME NEW ok \in BOOLEAN, OnAddress(ok) \/ OnRange(ok) PROVE Good
  BY <1>1, OnAddressStep, OnRangeStep
<1>2. ASSUME NEW d \in Payloads, Asked("BIN", TRUE), BIN(BinFrame(d)) PROVE Good
  BY <1>2, BinStep
<1>3. ASSUME NEW a \in ReadFrom, NEW b \in Cells, a .. b \subseteq Cells, Asked("RQRC", TRUE),
             RQRC(Hexasc(a, ADDR_DIGITS) \o << 44 >> \o Hexasc(b, ADDR_DIGITS))
      PROVE  Good
  <2>1. a \in 0 .. 255 /\ b \in 0 .. 255
    BY MapFacts DEF ReadFrom
  <2> QED
    BY <1>3, <2>1, RqrcStep
<1>4. ASSUME Asked("RQCS", TRUE), RQCS PROVE Good
  BY <1>4, RqcsStep
<1>5. ASSUME Asked("RQHW", TRUE), RQHW PROVE Good
  <2>1. UNCHANGED <<mem, blvar_received_address_ptr, align, known, target>>
    BY <1>5 DEF RQHW
  <2>2. reply'.kind \notin Telling
    <3>1. reply'.kind = "RSHW"
      BY <1>5 DEF RQHW, Answer
    <3> QED
      BY <3>1 DEF Telling
  <2> QED
    BY <2>1, <2>2, Quiet, PlainAnswer DEF Good
<1>6. ASSUME Asked("RQVN", TRUE), RQVN PROVE Good
  BY <1>6, RqvnStep
<1>7. ASSUME Asked("POWER_DOWN", TRUE), PWR_DOWN PROVE Good
  <2>1. /\ UNCHANGED <<mem, blvar_received_address_ptr, align, known, target>>
        /\ reply' = ACK
    BY <1>7 DEF PWR_DOWN
  <2> QED
    BY <2>1, Quiet, AckAnswer DEF Good
<1>8. ASSUME NEW name \in NeedsData, Asked(name, TRUE), NoData PROVE Good
  <2>1. /\ UNCHANGED <<mem, blvar_received_address_ptr, align, known, target>>
        /\ reply' = ERR("DATA_INVALID")
    BY <1>8 DEF NoData
  <2>2. /\ asked' \in [served : BOOLEAN, ok : BOOLEAN] /\ asked'.ok /\ asked'.served
    <3>1. name \in Served
      BY DEF Served
    <3> QED
      BY <1>8, <3>1, AskedFacts
  <2>3. AnswersTrue'
    BY <2>1, <2>2, ErrorAnswer
  <2> QED
    BY <2>1, <2>3, Quiet DEF Good
<1>9. ASSUME NEW name \in OtherNames, map_command(name) \notin Served, Asked(name, TRUE), BadCommand
      PROVE  Good
  <2>1. /\ UNCHANGED <<mem, blvar_received_address_ptr, align, known, target>>
        /\ reply' = ERR("UNKNOWN_COMMAND")
    BY <1>9 DEF BadCommand
  <2>2. /\ asked' \in [served : BOOLEAN, ok : BOOLEAN] /\ asked'.ok /\ ~asked'.served
    <3>1. asked' = [served |-> map_command(name) \in Served, ok |-> TRUE]
      BY <1>9 DEF Asked
    <3>2. (map_command(name) \in Served) = FALSE
      BY <1>9
    <3> QED
      BY ONLY <3>1, <3>2
  <2>3. AnswersTrue'
    BY <2>1, <2>2, ErrorAnswer
  <2> QED
    BY <2>1, <2>3, Quiet DEF Good
<1> HIDE DEF Good
<1> QED
  BY <1>1, <1>2, <1>3, <1>4, <1>5, <1>6, <1>7, <1>8, <1>9 DEF Handler

\* The invariant holds, and what is answered is true.
THEOREM MemoryIsKnown == Spec => [](MemInv /\ AnswersTrue)
<1>1. Init => MemInv /\ AnswersTrue
  BY InitGood
<1>2. MemInv /\ AnswersTrue /\ [Next]_vars => (MemInv /\ AnswersTrue)'
  <2> SUFFICES ASSUME MemInv, AnswersTrue, [Next]_vars PROVE (MemInv /\ AnswersTrue)'
    OBVIOUS
  <2>1. CASE Next
    BY <2>1, HandlerStep DEF Next, Good
  <2>2. CASE UNCHANGED vars
    <3>1. UNCHANGED <<mem, blvar_received_address_ptr, align, known, target>>
      BY <2>2 DEF vars
    <3>2. AnswersTrue'
      BY <2>2 DEF vars, AnswersTrue
    <3> QED
      BY <3>1, <3>2, Quiet
  <2> QED
    BY <2>1, <2>2
<1> QED
  BY <1>1, <1>2, PTL DEF Spec

\* Whatever was acknowledged since, memory holds what the host believes.
THEOREM UploadArrives == Spec => []UploadIsThere
<1>1. MemInv => UploadIsThere
  BY DEF MemInv
<1> QED
  BY <1>1, MemoryIsKnown, PTL

\* Every answer is true.
THEOREM EveryAnswerTrue == Spec => []AnswersTrue
BY MemoryIsKnown, PTL

\* No command changes a byte the host did not name.
THEOREM NothingElse == Spec => NothingElseChanges
<1>1. MemInv /\ [Next]_vars => [OnlyNamed]_vars
  <2> SUFFICES ASSUME MemInv, [Next]_vars PROVE [OnlyNamed]_vars
    OBVIOUS
  <2>1. CASE Next
    BY <2>1, HandlerStep DEF Next, Good
  <2>2. CASE UNCHANGED vars
    BY <2>2
  <2> QED
    BY <2>1, <2>2
<1>2. NothingElseChanges <=> [][OnlyNamed]_vars
  BY DEF NothingElseChanges, OnlyNamed
<1> QED
  BY <1>1, <1>2, MemoryIsKnown, PTL DEF Spec
===============================================================================
