-------------------------- MODULE ArithmeticProofs --------------------------
(***************************************************************************)
(* The arithmetic that the other proofs rest on.                           *)
(*                                                                         *)
(* Splits: what the reference split guarantees of every request it         *)
(* accepts. The payouts are natural numbers, nothing is paid past the last *)
(* share, and together they are the amount.                                *)
(*                                                                         *)
(* Sums over a finite set: what they are, what a change of the summed      *)
(* function does to them, and how those over the keys of some slots are    *)
(* the totals of the slots. The sums are the folds of the community        *)
(* modules, taken as they are. What is proved of them is proved by         *)
(* induction on the size of the set, with a set of sizes in the place of   *)
(* the predicate: a counterexample of least size (WFMin) is taken apart.   *)
(***************************************************************************)
EXTENDS Split, FiniteSetTheorems, WellFoundedInduction, TLAPS

-----------------------------------------------------------------------------
(* Splits                                                                  *)

\* Floor division, of a u128 product by the denominator.
LEMMA DivFacts ==
  ASSUME NEW a \in Nat, NEW d \in Nat \ {0}
  PROVE  /\ a \div d \in Nat
         /\ (a \div d) * d <= a
         /\ a < ((a \div d) + 1) * d
  OBVIOUS

\* A value within its width is not changed by the cast to it.
LEMMA ModFacts ==
  ASSUME NEW a \in Nat, NEW m \in Nat, a <= m
  PROVE  a % (m + 1) = a
  OBVIOUS

\* Multiplication by a natural number preserves order.
LEMMA MulMonotone ==
  ASSUME NEW a \in Nat, NEW b \in Nat, NEW c \in Nat, a <= b
  PROVE  /\ c * a \in Nat
         /\ c * a <= c * b
         /\ a * c <= b * c
  OBVIOUS

\* A product of natural numbers is one.
LEMMA MulNat ==
  ASSUME NEW a \in Nat, NEW b \in Nat
  PROVE  a * b \in Nat
  OBVIOUS

\* A positive factor can be cancelled.
LEMMA CancelFactor ==
  ASSUME NEW a \in Nat, NEW b \in Nat, NEW d \in Nat \ {0}, a * d <= b * d
  PROVE  a <= b
  OBVIOUS

\* Multiplication distributes over addition; the prover needs it spelled out.
LEMMA Distribute ==
  ASSUME NEW a \in Nat, NEW b \in Nat, NEW c \in Nat
  PROVE  /\ a * (b + c) = a * b + a * c
         /\ (b + c) * a = b * a + c * a
  OBVIOUS

\* ... over the eight slots of a split.
LEMMA DistributeTotal ==
  ASSUME NEW f \in [1..8 -> Nat], NEW c \in Nat
  PROVE  /\ Total(f) \in Nat
         /\ Total([k \in 1..8 |-> c * f[k]]) = c * Total(f)
<1> DEFINE t1 == f[1]  t2 == t1 + f[2]  t3 == t2 + f[3]  t4 == t3 + f[4]
           t5 == t4 + f[5]  t6 == t5 + f[6]  t7 == t6 + f[7]  t8 == t7 + f[8]
<1>1. /\ f[1] \in Nat /\ f[2] \in Nat /\ f[3] \in Nat /\ f[4] \in Nat
      /\ f[5] \in Nat /\ f[6] \in Nat /\ f[7] \in Nat /\ f[8] \in Nat
  OBVIOUS
<1>2. /\ t1 \in Nat /\ t2 \in Nat /\ t3 \in Nat /\ t4 \in Nat
      /\ t5 \in Nat /\ t6 \in Nat /\ t7 \in Nat /\ t8 \in Nat
  BY <1>1
<1>3. Total(f) = t8
  BY DEF Total
<1>4. /\ t2 = t1 + f[2] /\ t3 = t2 + f[3] /\ t4 = t3 + f[4] /\ t5 = t4 + f[5]
      /\ t6 = t5 + f[6] /\ t7 = t6 + f[7] /\ t8 = t7 + f[8] /\ t1 = f[1]
  OBVIOUS
<1> HIDE DEF t1, t2, t3, t4, t5, t6, t7, t8
<1>d2. c * t2 = c * t1 + c * f[2]
  BY <1>1, <1>2, <1>4, Distribute
<1>d3. c * t3 = c * t2 + c * f[3]
  BY <1>1, <1>2, <1>4, Distribute
<1>d4. c * t4 = c * t3 + c * f[4]
  BY <1>1, <1>2, <1>4, Distribute
<1>d5. c * t5 = c * t4 + c * f[5]
  BY <1>1, <1>2, <1>4, Distribute
<1>d6. c * t6 = c * t5 + c * f[6]
  BY <1>1, <1>2, <1>4, Distribute
<1>d7. c * t7 = c * t6 + c * f[7]
  BY <1>1, <1>2, <1>4, Distribute
<1>d8. c * t8 = c * t7 + c * f[8]
  BY <1>1, <1>2, <1>4, Distribute
<1>5. Total([k \in 1..8 |-> c * f[k]])
        = c * f[1] + c * f[2] + c * f[3] + c * f[4]
          + c * f[5] + c * f[6] + c * f[7] + c * f[8]
  BY DEF Total
<1>6. \A k \in 1..8 : c * f[k] \in Nat
  BY MulNat
<1> QED
  BY <1>2, <1>3, <1>4, <1>5, <1>6, <1>d2, <1>d3, <1>d4, <1>d5, <1>d6, <1>d7, <1>d8

\* A sum over the slots is no less than one of no greater terms.
LEMMA TotalMonotone ==
  ASSUME NEW f \in [1..8 -> Nat], NEW g \in [1..8 -> Nat],
         \A k \in 1..8 : f[k] <= g[k]
  PROVE  Total(f) <= Total(g)
  BY DEF Total

\* The floored shares of an accepted request add up to at most the amount.
LEMMA FlooredWithinAmount ==
  ASSUME NEW amount \in Nat, NEW bps \in Seq(Nat),
         SplitVerdict(amount, bps) = "ok"
  PROVE  /\ Len(bps) \in 1..8
         /\ FlooredShares(amount, bps) \in [1..8 -> Nat]
         /\ Total(FlooredShares(amount, bps)) \in Nat
         /\ Total(FlooredShares(amount, bps)) <= amount
<1> DEFINE f == FlooredShares(amount, bps)
           p == Padded(bps)
           D == BPS_DENOMINATOR
           df == [k \in 1..8 |-> D * f[k]]
           ap == [k \in 1..8 |-> amount * p[k]]
<1>1. /\ Len(bps) \in 1..8 /\ Total(p) = D
  BY DEF SplitVerdict, ShareCountOk, Slots, MAX_SHARES
<1>2. D \in Nat \ {0}
  BY DenominatorAssumption
<1>3. p \in [1..8 -> Nat]
  <2>1. \A k \in 1..Len(bps) : bps[k] \in Nat
    OBVIOUS
  <2> QED
    BY <1>1, <2>1 DEF Padded, Slots, MAX_SHARES
<1>4. ASSUME NEW k \in 1..8
      PROVE  f[k] \in Nat /\ D * f[k] \in Nat /\ D * f[k] <= amount * p[k]
  <2>1. p[k] \in Nat /\ amount * p[k] \in Nat
    <3>1. p[k] \in Nat
      BY <1>3
    <3> HIDE DEF p
    <3> QED
      BY <3>1, MulNat
  <2>2. CASE k < Len(bps)
    <3>1. p[k] = bps[k]
      BY <2>2 DEF Padded, Slots, MAX_SHARES
    <3>2. f[k] = (amount * p[k]) \div D
      BY <2>2, <3>1 DEF FlooredShares, Slots, MAX_SHARES
    <3> DEFINE x == amount * p[k]
    <3>3. x \in Nat
      BY <2>1
    <3>4. x \div D \in Nat /\ (x \div D) * D <= x
      <4> HIDE DEF x
      <4> QED
        BY <1>2, <3>3, DivFacts
    <3>5. f[k] \in Nat /\ f[k] * D <= amount * p[k] /\ D * f[k] \in Nat
      BY <1>2, <3>2, <3>4, MulMonotone
    <3>6. D * f[k] = f[k] * D
      BY <1>2, <3>5
    <3> QED
      BY <3>5, <3>6
  <2>3. CASE ~(k < Len(bps))
    <3>1. f[k] = 0
      BY <2>3 DEF FlooredShares, Slots, MAX_SHARES
    <3> QED
      BY <1>2, <2>1, <3>1
  <2> QED
    BY <2>2, <2>3
<1>5. f \in [1..8 -> Nat]
  <2>1. f = [k \in 1..8 |-> f[k]]
    BY DEF FlooredShares, Slots, MAX_SHARES
  <2> HIDE DEF f
  <2> QED
    BY <1>4, <2>1
<1> HIDE DEF f, p, D
<1>6. df \in [1..8 -> Nat] /\ ap \in [1..8 -> Nat]
  <2>1. \A k \in 1..8 : amount * p[k] \in Nat
    BY <1>3, MulNat
  <2> QED
    BY <1>4, <2>1
<1>7. Total(df) <= Total(ap)
  <2>1. \A k \in 1..8 : df[k] <= ap[k]
    BY <1>4
  <2> HIDE DEF df, ap
  <2> QED
    BY <1>6, <2>1, TotalMonotone
<1>8. Total(df) = D * Total(f) /\ Total(ap) = amount * D /\ Total(f) \in Nat
  BY <1>1, <1>2, <1>3, <1>5, DistributeTotal
<1>9. Total(f) * D <= amount * D
  BY <1>2, <1>7, <1>8
<1>10. Total(f) <= amount
  BY <1>2, <1>8, <1>9, CancelFactor
<1> QED
  BY <1>1, <1>5, <1>8, <1>10 DEF f

\* The payouts are the floored shares with the rest in the last one's slot.
LEMMA PayoutsOfFloored ==
  ASSUME NEW amount \in Nat, NEW bps, Len(bps) \in 1..8,
         FlooredShares(amount, bps) \in [1..8 -> Nat],
         Total(FlooredShares(amount, bps)) \in Nat,
         Total(FlooredShares(amount, bps)) <= amount
  PROVE  /\ Payouts(amount, bps) \in [1..8 -> Nat]
         /\ Total(Payouts(amount, bps)) = amount
         /\ \A k \in 1..8 : k > Len(bps) => Payouts(amount, bps)[k] = 0
<1>1. PICK n \in 1..8, f \in [1..8 -> Nat], rest \in Nat :
        /\ n = Len(bps) /\ f = FlooredShares(amount, bps)
        /\ rest = amount - Total(f)
  OBVIOUS
<1>2. \A k \in 1..8 : k >= n => f[k] = 0
  BY <1>1 DEF FlooredShares, Slots, MAX_SHARES
<1>3. f[n] = 0
  BY <1>2
<1>4. PICK out \in [1..8 -> Nat] : out = [f EXCEPT ![n] = rest]
  OBVIOUS
<1>5. Total(out) = amount
  <2>1. \A k \in 1..8 : out[k] = IF k = n THEN rest ELSE f[k]
    BY <1>4
  <2>2. f[1] + f[2] + f[3] + f[4] + f[5] + f[6] + f[7] + f[8] + rest = amount
    <3>1. /\ f[1] \in Nat /\ f[2] \in Nat /\ f[3] \in Nat /\ f[4] \in Nat
          /\ f[5] \in Nat /\ f[6] \in Nat /\ f[7] \in Nat /\ f[8] \in Nat
      OBVIOUS
    <3>2. rest = amount - Total(f)
      BY <1>1
    <3> QED
      BY <3>1, <3>2 DEF Total
  <2>3. out[1] + out[2] + out[3] + out[4] + out[5] + out[6] + out[7] + out[8]
          = amount
    BY <1>3, <2>1, <2>2
  <2> QED
    BY <2>3 DEF Total
<1>6. \A k \in 1..8 : k > n => out[k] = 0
  BY <1>2, <1>4
<1>7. Payouts(amount, bps) = out
  BY <1>1, <1>4 DEF Payouts
<1> QED
  BY <1>1, <1>5, <1>6, <1>7

\* An accepted request pays natural amounts that add up to the gross amount, and
\* nothing past the last recipient.
THEOREM PayoutsWellFormed ==
  ASSUME NEW amount \in Nat, NEW bps \in Seq(Nat),
         SplitVerdict(amount, bps) = "ok"
  PROVE  /\ Len(bps) \in 1..8
         /\ Payouts(amount, bps) \in [1..8 -> Nat]
         /\ Total(Payouts(amount, bps)) = amount
         /\ \A k \in 1..8 : k > Len(bps) => Payouts(amount, bps)[k] = 0
  BY FlooredWithinAmount, PayoutsOfFloored

-----------------------------------------------------------------------------
(* Induction over finite sets, with sets in the place of predicates        *)

LEMMA NaturalOrder ==
  \E R : IsWellFoundedOn(R, Nat) /\ \A x, y \in Nat : <<x, y>> \in R <=> x < y
<1>1. IsWellFoundedOn(OpToRel(<, Nat), Nat)
  BY NatLessThanWellFounded
<1>2. \A x, y \in Nat : <<x, y>> \in OpToRel(<, Nat) <=> x < y
  BY DEF OpToRel
<1> QED
  BY <1>1, <1>2, Zenon

\* A set of natural numbers with an element has a least one.
LEMMA LeastNatural ==
  ASSUME NEW T \in SUBSET Nat, T # {}
  PROVE  \E n \in T : \A m \in T : n <= m
<1>1. PICK R : IsWellFoundedOn(R, Nat) /\ \A x, y \in Nat : <<x, y>> \in R <=> x < y
  BY NaturalOrder
<1>2. T \subseteq Nat /\ T # {}
  OBVIOUS
<1>3. \E x \in T : \A y \in T : ~(<<y, x>> \in R)
  <2>1. IsWellFoundedOn(R, Nat)
    BY <1>1
  <2> QED
    BY <2>1, <1>2, WFMin, Zenon
<1>4. PICK n \in T : \A m \in T : ~(<<m, n>> \in R)
  BY <1>3
<1>5. ASSUME NEW m \in T PROVE n <= m
  <2>1. n \in Nat /\ m \in Nat
    BY <1>2
  <2>2. ~(m < n)
    BY <1>1, <1>4, <2>1
  <2> QED
    BY <2>1, <2>2
<1> QED
  BY <1>5

\* What holds of zero, and of a number up to m when it holds of the one before it.
LEMMA CountInduction ==
  ASSUME NEW m \in Nat, NEW P, 0 \in P, \A n \in 1..m : n - 1 \in P => n \in P
  PROVE  \A n \in 0..m : n \in P
<1> DEFINE N == {n \in 0..m : n \notin P}
<1> SUFFICES ASSUME N # {} PROVE FALSE
  OBVIOUS
<1>1. N \in SUBSET Nat
  OBVIOUS
<1>2. PICK n \in N : \A k \in N : n <= k
  BY <1>1, LeastNatural
<1>3. n \in 1..m /\ n - 1 \in 0..m
  BY <1>2
<1>4. n - 1 \notin N
  BY <1>1, <1>2, <1>3
<1>5. n - 1 \in P
  BY <1>3, <1>4
<1>6. n \in P
  BY <1>3, <1>5
<1> QED
  BY <1>2, <1>6

\* The element the folds take first.
First(S) == CHOOSE x \in S : TRUE

LEMMA FirstOut ==
  ASSUME NEW S, IsFiniteSet(S), S # {}
  PROVE  /\ First(S) \in S
         /\ IsFiniteSet(S \ {First(S)})
         /\ Cardinality(S) \in Nat /\ Cardinality(S \ {First(S)}) \in Nat
         /\ Cardinality(S \ {First(S)}) < Cardinality(S)
<1>1. PICK z : z \in S
  OBVIOUS
<1>2. First(S) \in S
  BY <1>1 DEF First
<1>3. IsFiniteSet(S \ {First(S)}) /\ Cardinality(S \ {First(S)}) = Cardinality(S) - 1
  BY <1>2, FS_RemoveElement
<1>4. Cardinality(S) \in Nat /\ Cardinality(S \ {First(S)}) \in Nat
  BY <1>3, FS_CardinalityType
<1> QED
  BY <1>2, <1>3, <1>4

\* A family of parts of a finite set that has the empty part, and each part that
\* it has without its first element, has them all.
LEMMA PartInduction ==
  ASSUME NEW D, IsFiniteSet(D), NEW P,
         {} \in P,
         \A S \in SUBSET D : S # {} /\ S \ {First(S)} \in P => S \in P
  PROVE  \A S \in SUBSET D : S \in P
<1> SUFFICES ASSUME NEW U \in SUBSET D, U \notin P PROVE FALSE
  OBVIOUS
<1> DEFINE Bad == {S \in SUBSET D : S \notin P}
           sizes == {Cardinality(S) : S \in Bad}
<1>1. \A S \in SUBSET D : IsFiniteSet(S) /\ Cardinality(S) \in Nat
  BY FS_Subset, FS_CardinalityType
<1>2. sizes \in SUBSET Nat /\ sizes # {}
  BY <1>1
<1> HIDE DEF sizes
<1>3. PICK n \in sizes : \A m \in sizes : n <= m
  BY <1>2, LeastNatural
<1>4. PICK S \in Bad : n = Cardinality(S)
  BY <1>3 DEF sizes
<1>5. S # {} /\ IsFiniteSet(S) /\ S \in SUBSET D
  BY <1>1, <1>4
<1> DEFINE R == S \ {First(S)}
<1>6. Cardinality(R) \in Nat /\ Cardinality(R) < n /\ n \in Nat
  BY <1>4, <1>5, FirstOut
<1>7. R \in P
  <2> SUFFICES ASSUME R \notin P PROVE FALSE
    OBVIOUS
  <2>1. R \in Bad
    BY <1>5
  <2>2. Cardinality(R) \in sizes
    BY <2>1 DEF sizes
  <2> HIDE DEF R
  <2> QED
    BY <1>3, <1>6, <2>2
<1> QED
  BY <1>4, <1>5, <1>7

-----------------------------------------------------------------------------
(* Sums over finite sets                                                   *)

\* sum[S] is the sum of f over each part S of D, added up in the order of First.
AddsUp(sum, f, D) ==
  sum = [S \in SUBSET D |-> IF S = {} THEN 0 ELSE f[First(S)] + sum[S \ {First(S)}]]

\* ... for the parts of at most n elements.
UpTo(n, D) == {S \in SUBSET D : Cardinality(S) <= n}

AddsUpTo(n, sum, f, D) ==
  \A S \in UpTo(n, D) :
    /\ sum[S] \in Int
    /\ sum[S] = IF S = {} THEN 0 ELSE f[First(S)] + sum[S \ {First(S)}]

LEMMA SmallerParts ==
  ASSUME NEW D, IsFiniteSet(D), NEW n \in Nat, NEW S \in UpTo(n, D)
  PROVE  /\ S # {} => n > 0 /\ First(S) \in D /\ S \ {First(S)} \in UpTo(n - 1, D)
         /\ S \ {First(S)} \in UpTo(n, D)
<1>1. S \in SUBSET D /\ Cardinality(S) <= n
  BY DEF UpTo
<1>2. IsFiniteSet(S)
  BY <1>1, FS_Subset
<1>3. CASE S = {}
  BY <1>1, <1>3 DEF UpTo
<1>4. CASE S # {}
  <2>1. /\ First(S) \in S /\ Cardinality(S) \in Nat /\ Cardinality(S \ {First(S)}) \in Nat
        /\ Cardinality(S \ {First(S)}) < Cardinality(S)
    BY <1>2, <1>4, FirstOut
  <2>2. n > 0 /\ Cardinality(S \ {First(S)}) <= n - 1 /\ Cardinality(S \ {First(S)}) <= n
    BY <1>1, <2>1
  <2> QED
    BY <1>1, <2>1, <2>2 DEF UpTo
<1> QED
  BY <1>3, <1>4

LEMMA SumOfMore ==
  ASSUME NEW D, IsFiniteSet(D), NEW f, \A x \in D : f[x] \in Int,
         NEW n \in Nat \ {0}, NEW g, AddsUpTo(n - 1, g, f, D)
  PROVE  \E h : AddsUpTo(n, h, f, D)
<1> DEFINE h == [S \in UpTo(n, D) |->
                   IF S \in UpTo(n - 1, D) THEN g[S] ELSE f[First(S)] + g[S \ {First(S)}]]
<1>1. \A S \in UpTo(n, D) :
        h[S] = IF S \in UpTo(n - 1, D) THEN g[S] ELSE f[First(S)] + g[S \ {First(S)}]
  OBVIOUS
<1>2. \A S \in UpTo(n - 1, D) :
        g[S] \in Int /\ g[S] = IF S = {} THEN 0 ELSE f[First(S)] + g[S \ {First(S)}]
  BY DEF AddsUpTo
<1> HIDE DEF h
<1>3. ASSUME NEW S \in UpTo(n, D)
      PROVE  /\ h[S] \in Int
             /\ h[S] = IF S = {} THEN 0 ELSE f[First(S)] + h[S \ {First(S)}]
  <2>1. CASE S = {}
    <3>1. S \in UpTo(n - 1, D)
      BY <2>1, FS_EmptySet DEF UpTo
    <3> QED
      BY <1>1, <1>2, <2>1, <3>1
  <2>2. CASE S # {}
    <3>1. /\ First(S) \in D /\ S \ {First(S)} \in UpTo(n - 1, D) /\ S \ {First(S)} \in UpTo(n, D)
      BY <2>2, SmallerParts
    <3>2. h[S \ {First(S)}] = g[S \ {First(S)}] /\ g[S \ {First(S)}] \in Int
      BY <1>1, <1>2, <3>1
    <3>3. h[S] = f[First(S)] + g[S \ {First(S)}]
      BY <1>1, <1>2, <2>2
    <3> QED
      BY <2>2, <3>1, <3>2, <3>3
  <2> QED
    BY <2>1, <2>2
<1> QED
  BY <1>3 DEF AddsUpTo

LEMMA SumUpTo ==
  ASSUME NEW D, IsFiniteSet(D), NEW f, \A x \in D : f[x] \in Int
  PROVE  \A n \in Nat : \E g : AddsUpTo(n, g, f, D)
<1> DEFINE N == {n \in Nat : ~\E g : AddsUpTo(n, g, f, D)}
<1> SUFFICES ASSUME N # {} PROVE FALSE
  OBVIOUS
<1>1. N \in SUBSET Nat
  OBVIOUS
<1>2. \A n \in Nat : n \in N <=> ~\E g : AddsUpTo(n, g, f, D)
  OBVIOUS
<1> HIDE DEF N
<1>3. PICK n \in N : \A m \in N : n <= m
  BY <1>1, LeastNatural
<1>4. n \in Nat
  BY <1>1
<1>5. CASE n = 0
  <2> DEFINE g == [S \in {{}} |-> 0]
  <2>1. ASSUME NEW S \in UpTo(0, D) PROVE S = {}
    <3>1. 0 \in Nat /\ ~(0 > 0)
      OBVIOUS
    <3> QED
      BY <3>1, SmallerParts
  <2>2. g[{}] = 0
    OBVIOUS
  <2> HIDE DEF g
  <2>3. ASSUME NEW S \in UpTo(0, D)
        PROVE  g[S] \in Int /\ g[S] = IF S = {} THEN 0 ELSE f[First(S)] + g[S \ {First(S)}]
    <3>1. S = {}
      BY <2>1
    <3> QED
      BY <2>2, <3>1
  <2>4. AddsUpTo(0, g, f, D)
    BY <2>3 DEF AddsUpTo
  <2> QED
    BY <1>2, <1>5, <2>4
<1>6. CASE n # 0
  <2>1. n - 1 \in Nat /\ n - 1 \notin N
    BY <1>3, <1>4, <1>6
  <2>2. PICK g : AddsUpTo(n - 1, g, f, D)
    BY <1>2, <2>1
  <2>3. \E h : AddsUpTo(n, h, f, D)
    BY <1>4, <1>6, <2>2, SumOfMore
  <2> QED
    BY <1>2, <1>3, <1>4, <2>3
<1> QED
  BY <1>5, <1>6

LEMMA SumExists ==
  ASSUME NEW D, IsFiniteSet(D), NEW f, \A x \in D : f[x] \in Int
  PROVE  \E sum \in [SUBSET D -> Int] : AddsUp(sum, f, D)
<1>1. Cardinality(D) \in Nat
  BY FS_CardinalityType
<1>2. PICK g : AddsUpTo(Cardinality(D), g, f, D)
  BY <1>1, SumUpTo
<1>3. UpTo(Cardinality(D), D) = SUBSET D
  BY FS_Subset DEF UpTo
<1> DEFINE sum == [S \in SUBSET D |-> g[S]]
<1>4. ASSUME NEW S \in SUBSET D
      PROVE  sum[S] \in Int /\ sum[S] = IF S = {} THEN 0 ELSE f[First(S)] + sum[S \ {First(S)}]
  BY <1>2, <1>3 DEF AddsUpTo
<1>5. sum = [S \in SUBSET D |-> sum[S]]
  OBVIOUS
<1> HIDE DEF sum
<1>6. sum = [S \in SUBSET D |-> IF S = {} THEN 0 ELSE f[First(S)] + sum[S \ {First(S)}]]
  BY <1>4, <1>5
<1> QED
  BY <1>4, <1>5, <1>6 DEF AddsUp

\* The function that a fold's definition chooses.
Sums(f, D) == CHOOSE sum : AddsUp(sum, f, D)

LEMMA SumsAddUp ==
  ASSUME NEW D, IsFiniteSet(D), NEW f, \A x \in D : f[x] \in Int
  PROVE  AddsUp(Sums(f, D), f, D)
<1>1. \E sum : AddsUp(sum, f, D)
  BY SumExists
<1> QED
  BY <1>1 DEF Sums

\* The sum of a function over its domain.
SumOf(f) == Sums(f, DOMAIN f)[DOMAIN f]

\* A sum of integers is one, and takes an element more at each step.
LEMMA SumTyped ==
  ASSUME NEW D, IsFiniteSet(D), NEW f \in [D -> Int]
  PROVE  /\ Sums(f, D)[{}] = 0
         /\ \A S \in SUBSET D : Sums(f, D)[S] \in Int
         /\ \A S \in SUBSET D :
              S # {} => /\ First(S) \in S
                        /\ Sums(f, D)[S] = f[First(S)] + Sums(f, D)[S \ {First(S)}]
<1> PICK sum : sum = Sums(f, D)
  OBVIOUS
<1>1. AddsUp(sum, f, D)
  BY SumsAddUp
<1>2. /\ sum[{}] = 0
      /\ \A S \in SUBSET D : S # {} => sum[S] = f[First(S)] + sum[S \ {First(S)}]
  BY <1>1 DEF AddsUp
<1> DEFINE P == {S \in SUBSET D : sum[S] \in Int}
<1>3. \A S \in SUBSET D : S # {} => First(S) \in S
  BY FS_Subset, FirstOut
<1>4. {} \in P
  BY <1>2
<1>5. ASSUME NEW S \in SUBSET D, S # {}, S \ {First(S)} \in P PROVE S \in P
  <2>1. First(S) \in D /\ f[First(S)] \in Int
    BY <1>3, <1>5
  <2>2. sum[S \ {First(S)}] \in Int
    BY <1>5
  <2>3. sum[S] \in Int
    BY <1>2, <1>5, <2>1, <2>2
  <2> QED
    BY <2>3
<1> HIDE DEF P
<1>6. \A S \in SUBSET D : S \in P
  BY <1>4, <1>5, PartInduction
<1> QED
  BY <1>2, <1>3, <1>6 DEF P

LEMMA SumNat ==
  ASSUME NEW D, IsFiniteSet(D), NEW f \in [D -> Int]
  PROVE  SumOf(f) \in Int
  BY SumTyped DEF SumOf

\* The sum of two functions, argument by argument.
LEMMA SumAdds ==
  ASSUME NEW D, IsFiniteSet(D), NEW f \in [D -> Int], NEW g \in [D -> Int],
         NEW h \in [D -> Int], \A x \in D : h[x] = f[x] + g[x]
  PROVE  SumOf(h) = SumOf(f) + SumOf(g)
<1> DEFINE sf == Sums(f, D)
           sg == Sums(g, D)
           sh == Sums(h, D)
           P == {S \in SUBSET D : sh[S] = sf[S] + sg[S]}
<1>1. /\ sf[{}] = 0 /\ \A S \in SUBSET D : sf[S] \in Int
      /\ \A S \in SUBSET D : S # {} => First(S) \in S /\ sf[S] = f[First(S)] + sf[S \ {First(S)}]
  BY SumTyped, Zenon
<1>2. /\ sg[{}] = 0 /\ \A S \in SUBSET D : sg[S] \in Int
      /\ \A S \in SUBSET D : S # {} => First(S) \in S /\ sg[S] = g[First(S)] + sg[S \ {First(S)}]
  BY SumTyped, Zenon
<1>3. /\ sh[{}] = 0 /\ \A S \in SUBSET D : sh[S] \in Int
      /\ \A S \in SUBSET D : S # {} => First(S) \in S /\ sh[S] = h[First(S)] + sh[S \ {First(S)}]
  BY SumTyped, Zenon
<1> HIDE DEF sf, sg, sh
<1>4. /\ sf[{}] = 0 /\ sg[{}] = 0 /\ sh[{}] = 0
      /\ \A S \in SUBSET D : sf[S] \in Int /\ sg[S] \in Int /\ sh[S] \in Int
      /\ \A S \in SUBSET D :
           S # {} => /\ First(S) \in S
                     /\ sf[S] = f[First(S)] + sf[S \ {First(S)}]
                     /\ sg[S] = g[First(S)] + sg[S \ {First(S)}]
                     /\ sh[S] = h[First(S)] + sh[S \ {First(S)}]
  BY <1>1, <1>2, <1>3, Zenon
<1>5. {} \in P
  BY <1>4
<1>6. ASSUME NEW S \in SUBSET D, S # {}, S \ {First(S)} \in P PROVE S \in P
  <2> DEFINE c == First(S)
             T == S \ {c}
  <2>1. c \in D /\ T \in SUBSET D /\ sh[T] = sf[T] + sg[T]
    BY <1>4, <1>6
  <2>2. sf[S] = f[c] + sf[T] /\ sg[S] = g[c] + sg[T] /\ sh[S] = h[c] + sh[T]
    BY <1>4, <1>6
  <2>3. f[c] \in Int /\ g[c] \in Int /\ sf[T] \in Int /\ sg[T] \in Int /\ h[c] = f[c] + g[c]
    BY <1>4, <2>1
  <2> HIDE DEF c, T
  <2>4. sh[S] = sf[S] + sg[S]
    BY <2>1, <2>2, <2>3
  <2> QED
    BY <2>4
<1> HIDE DEF P
<1>7. D \in P
  BY <1>5, <1>6, PartInduction
<1> QED
  BY <1>7 DEF P, SumOf, sf, sg, sh

\* A function that is c on some arguments and zero on the others.
LEMMA SumConstant ==
  ASSUME NEW D, IsFiniteSet(D), NEW K \in SUBSET D, NEW c \in Int,
         NEW f \in [D -> Int], \A x \in D : f[x] = IF x \in K THEN c ELSE 0
  PROVE  SumOf(f) = c * Cardinality(K)
<1> DEFINE sf == Sums(f, D)
           size(S) == Cardinality(S \cap K)
           P == {S \in SUBSET D : sf[S] = c * size(S)}
<1>1. /\ sf[{}] = 0
      /\ \A S \in SUBSET D : sf[S] \in Int
      /\ \A S \in SUBSET D :
           S # {} => First(S) \in S /\ sf[S] = f[First(S)] + sf[S \ {First(S)}]
  BY SumTyped
<1> HIDE DEF sf
<1>2. \A S \in SUBSET D : IsFiniteSet(S \cap K) /\ size(S) \in Nat
  BY FS_Subset, FS_CardinalityType
<1>3. {} \in P
  <2>1. {} \cap K = {}
    OBVIOUS
  <2>2. size({}) = 0
    BY <2>1, FS_EmptySet
  <2>3. sf[{}] = c * size({})
    BY <1>1, <2>2
  <2> QED
    BY <2>3
<1>4. ASSUME NEW S \in SUBSET D, S # {}, S \ {First(S)} \in P PROVE S \in P
  <2> DEFINE x == First(S)
             T == S \ {x}
  <2>1. x \in S /\ x \in D /\ T \in SUBSET D /\ sf[T] = c * size(T) /\ sf[S] = f[x] + sf[T]
    BY <1>1, <1>4
  <2>2. size(S) \in Nat /\ size(T) \in Nat
    BY <1>2, <2>1
  <2>3. CASE x \in K
    <3>1. T \cap K = (S \cap K) \ {x}
      OBVIOUS
    <3>2. size(T) = size(S) - 1
      BY <1>2, <2>1, <2>3, <3>1, FS_RemoveElement
    <3>3. f[x] = c
      BY <2>1, <2>3
    <3> HIDE DEF x, T, size
    <3>4. c * size(S) = c + c * size(T)
      BY <2>2, <3>2
    <3> QED
      BY <2>1, <3>3, <3>4
  <2>4. CASE x \notin K
    <3>1. T \cap K = S \cap K
      BY <2>4
    <3>2. size(T) = size(S)
      BY <3>1
    <3>3. f[x] = 0
      BY <2>1, <2>4
    <3> HIDE DEF x, T, size
    <3> QED
      BY <1>1, <2>1, <3>2, <3>3
  <2> QED
    BY <2>3, <2>4
<1> HIDE DEF P
<1>5. D \in P
  BY <1>3, <1>4, PartInduction
<1>6. D \cap K = K
  OBVIOUS
<1> QED
  BY <1>5, <1>6 DEF P, SumOf, sf

\* A function that is zero but at one argument.
LEMMA SumPoint ==
  ASSUME NEW D, IsFiniteSet(D), NEW p \in D, NEW v \in Int,
         NEW f \in [D -> Int], \A x \in D : f[x] = IF x = p THEN v ELSE 0
  PROVE  SumOf(f) = v
<1>1. \A x \in D : f[x] = IF x \in {p} THEN v ELSE 0
  OBVIOUS
<1>2. SumOf(f) = v * Cardinality({p})
  BY <1>1, SumConstant
<1>3. Cardinality({p}) = 1
  BY FS_Singleton
<1> QED
  BY <1>2, <1>3

\* A function that is zero everywhere.
LEMMA SumZero ==
  ASSUME NEW D, IsFiniteSet(D), NEW f \in [D -> Int], \A x \in D : f[x] = 0
  PROVE  SumOf(f) = 0
<1>1. SumOf(f) = 0 * Cardinality({})
  BY SumConstant
<1> QED
  BY <1>1, FS_EmptySet

\* Two functions with a given sum: one that is zero but at one argument, and the
\* sum of two.
AtOne(D, p, v) == [x \in D |-> IF x = p THEN v ELSE 0]
Plus(D, f, g) == [x \in D |-> f[x] + g[x]]

LEMMA SumAtOne ==
  ASSUME NEW D, IsFiniteSet(D), NEW p \in D, NEW v \in Int
  PROVE  /\ AtOne(D, p, v) \in [D -> Int]
         /\ SumOf(AtOne(D, p, v)) = v
         /\ \A x \in D : AtOne(D, p, v)[x] = IF x = p THEN v ELSE 0
<1>1. PICK h : h = AtOne(D, p, v)
  OBVIOUS
<1>2. h \in [D -> Int] /\ \A x \in D : h[x] = IF x = p THEN v ELSE 0
  BY <1>1 DEF AtOne
<1>3. SumOf(h) = v
  BY <1>2, SumPoint
<1> QED
  BY <1>1, <1>2, <1>3

LEMMA SumPlus ==
  ASSUME NEW D, IsFiniteSet(D), NEW f \in [D -> Int], NEW g \in [D -> Int]
  PROVE  /\ Plus(D, f, g) \in [D -> Int]
         /\ SumOf(f) \in Int /\ SumOf(g) \in Int
         /\ SumOf(Plus(D, f, g)) = SumOf(f) + SumOf(g)
         /\ \A x \in D : Plus(D, f, g)[x] = f[x] + g[x]
<1>1. PICK h : h = Plus(D, f, g)
  OBVIOUS
<1>2. h \in [D -> Int] /\ \A x \in D : h[x] = f[x] + g[x]
  BY <1>1 DEF Plus
<1>3. SumOf(h) = SumOf(f) + SumOf(g)
  BY <1>2, SumAdds
<1>4. SumOf(f) \in Int /\ SumOf(g) \in Int
  BY SumNat
<1> QED
  BY <1>1, <1>2, <1>3, <1>4

\* f with x taken from one argument and given to another.
Moved(D, f, p, a, x) ==
  [b \in D |-> f[b] + (IF b = p THEN -x ELSE 0) + (IF b = a THEN x ELSE 0)]

\* What one argument gives and another gets leaves the sum as it was.
LEMMA MoveKeepsSum ==
  ASSUME NEW D, IsFiniteSet(D), NEW f \in [D -> Int], NEW p \in D, NEW a \in D, NEW x \in Int
  PROVE  /\ Moved(D, f, p, a, x) \in [D -> Int]
         /\ SumOf(Moved(D, f, p, a, x)) = SumOf(f)
<1>1. PICK y \in Int : y = -x
  OBVIOUS
<1>2. PICK minus \in [D -> Int] : minus = AtOne(D, p, y)
  BY SumAtOne
<1>3. SumOf(minus) = y
  BY <1>2, SumAtOne
<1>4. PICK plus \in [D -> Int] : plus = AtOne(D, a, x)
  BY SumAtOne
<1>5. SumOf(plus) = x
  BY <1>4, SumAtOne
<1>6. PICK less \in [D -> Int] : less = Plus(D, f, minus)
  BY SumPlus
<1>7. SumOf(less) = SumOf(f) + SumOf(minus) /\ SumOf(f) \in Int
  BY <1>6, SumPlus
<1>8. PICK m \in [D -> Int] : m = Plus(D, less, plus)
  BY SumPlus
<1>9. SumOf(m) = SumOf(less) + SumOf(plus)
  BY <1>8, SumPlus
<1>10. m = Moved(D, f, p, a, x)
  <2>1. ASSUME NEW b \in D
        PROVE  m[b] = f[b] + (IF b = p THEN -x ELSE 0) + (IF b = a THEN x ELSE 0)
    <3>1. minus[b] = IF b = p THEN -x ELSE 0
      BY <1>1, <1>2 DEF AtOne
    <3>2. plus[b] = IF b = a THEN x ELSE 0
      BY <1>4 DEF AtOne
    <3>3. m[b] = (f[b] + minus[b]) + plus[b]
      BY <1>6, <1>8 DEF Plus
    <3> QED
      BY <3>1, <3>2, <3>3
  <2> QED
    BY <2>1 DEF Moved
<1>11. SumOf(m) = SumOf(f)
  BY <1>1, <1>3, <1>5, <1>7, <1>9
<1> QED
  BY <1>10, <1>11

\* Eight functions added to one.
AllAdded(D, f, c) ==
  Plus(D, Plus(D, Plus(D, Plus(D, Plus(D, Plus(D, Plus(D, Plus(D, f,
    c[1]), c[2]), c[3]), c[4]), c[5]), c[6]), c[7]), c[8])

LEMMA SumAllAdded ==
  ASSUME NEW D, IsFiniteSet(D), NEW f \in [D -> Int], NEW c \in [1..8 -> [D -> Int]]
  PROVE  /\ AllAdded(D, f, c) \in [D -> Int]
         /\ SumOf(AllAdded(D, f, c))
              = SumOf(f) + SumOf(c[1]) + SumOf(c[2]) + SumOf(c[3]) + SumOf(c[4])
                + SumOf(c[5]) + SumOf(c[6]) + SumOf(c[7]) + SumOf(c[8])
         /\ \A a \in D :
              AllAdded(D, f, c)[a] = f[a] + c[1][a] + c[2][a] + c[3][a] + c[4][a]
                                     + c[5][a] + c[6][a] + c[7][a] + c[8][a]
<1>1. PICK s0 \in [D -> Int] : s0 = f
  OBVIOUS
<1>2. PICK s1 \in [D -> Int] : s1 = Plus(D, s0, c[1])
  BY SumPlus
<1>3. PICK s2 \in [D -> Int] : s2 = Plus(D, s1, c[2])
  BY SumPlus
<1>4. PICK s3 \in [D -> Int] : s3 = Plus(D, s2, c[3])
  BY SumPlus
<1>5. PICK s4 \in [D -> Int] : s4 = Plus(D, s3, c[4])
  BY SumPlus
<1>6. PICK s5 \in [D -> Int] : s5 = Plus(D, s4, c[5])
  BY SumPlus
<1>7. PICK s6 \in [D -> Int] : s6 = Plus(D, s5, c[6])
  BY SumPlus
<1>8. PICK s7 \in [D -> Int] : s7 = Plus(D, s6, c[7])
  BY SumPlus
<1>9. PICK s8 \in [D -> Int] : s8 = Plus(D, s7, c[8])
  BY SumPlus
<1>10. s8 = AllAdded(D, f, c)
  BY <1>1, <1>2, <1>3, <1>4, <1>5, <1>6, <1>7, <1>8, <1>9 DEF AllAdded
<1>11. \A k \in 1..8 : c[k] \in [D -> Int]
  OBVIOUS
<1>s1. SumOf(s1) = SumOf(s0) + SumOf(c[1])
  BY <1>2, <1>11, SumPlus
<1>s2. SumOf(s2) = SumOf(s1) + SumOf(c[2])
  BY <1>3, <1>11, SumPlus
<1>s3. SumOf(s3) = SumOf(s2) + SumOf(c[3])
  BY <1>4, <1>11, SumPlus
<1>s4. SumOf(s4) = SumOf(s3) + SumOf(c[4])
  BY <1>5, <1>11, SumPlus
<1>s5. SumOf(s5) = SumOf(s4) + SumOf(c[5])
  BY <1>6, <1>11, SumPlus
<1>s6. SumOf(s6) = SumOf(s5) + SumOf(c[6])
  BY <1>7, <1>11, SumPlus
<1>s7. SumOf(s7) = SumOf(s6) + SumOf(c[7])
  BY <1>8, <1>11, SumPlus
<1>s8. SumOf(s8) = SumOf(s7) + SumOf(c[8])
  BY <1>9, <1>11, SumPlus
<1>12. ASSUME NEW a \in D
       PROVE  s8[a] = f[a] + c[1][a] + c[2][a] + c[3][a] + c[4][a]
                      + c[5][a] + c[6][a] + c[7][a] + c[8][a]
  <2>1. /\ s0[a] = f[a] /\ s1[a] = s0[a] + c[1][a] /\ s2[a] = s1[a] + c[2][a]
        /\ s3[a] = s2[a] + c[3][a] /\ s4[a] = s3[a] + c[4][a]
    BY <1>1, <1>2, <1>3, <1>4, <1>5 DEF Plus
  <2>2. /\ s5[a] = s4[a] + c[5][a] /\ s6[a] = s5[a] + c[6][a]
        /\ s7[a] = s6[a] + c[7][a] /\ s8[a] = s7[a] + c[8][a]
    BY <1>6, <1>7, <1>8, <1>9 DEF Plus
  <2> QED
    BY <2>1, <2>2
<1>13. SumOf(s8) = SumOf(f) + SumOf(c[1]) + SumOf(c[2]) + SumOf(c[3]) + SumOf(c[4])
                   + SumOf(c[5]) + SumOf(c[6]) + SumOf(c[7]) + SumOf(c[8])
  BY <1>1, <1>s1, <1>s2, <1>s3, <1>s4, <1>s5, <1>s6, <1>s7, <1>s8
<1> QED
  BY <1>10, <1>12, <1>13

\* f at the keys, one for each slot of K, is a at the slots, which is zero at the others.
AtKeys(D, K, key, f, a) ==
  /\ K \in SUBSET (1..8)
  /\ \A k \in K : key[k] \in D
  /\ \A d \in D : \E k \in K : d = key[k]
  /\ \A j, k \in K : key[j] = key[k] => j = k
  /\ \A k \in 1..8 : a[k] = IF k \in K THEN f[key[k]] ELSE 0

\* The sum over the keys of some slots, of what is at the slots.
LEMMA SumAtKeys ==
  ASSUME NEW D, IsFiniteSet(D), NEW K, NEW key, NEW f \in [D -> Int],
         NEW a \in [1..8 -> Int], AtKeys(D, K, key, f, a)
  PROVE  SumOf(f) = Total(a)
<1>1. /\ K \in SUBSET (1..8)
      /\ \A k \in K : key[k] \in D
      /\ \A j, k \in K : key[j] = key[k] => j = k
      /\ \A k \in 1..8 : a[k] = IF k \in K THEN f[key[k]] ELSE 0
  BY DEF AtKeys
<1>2. PICK zero \in [D -> Int] : \A d \in D : zero[d] = 0
  <2>1. [d \in D |-> 0] \in [D -> Int]
    OBVIOUS
  <2> QED
    BY <2>1
<1>3. SumOf(zero) = 0
  BY <1>2, SumZero
<1>4. ASSUME NEW k \in 1..8
      PROVE  \E h \in [D -> Int] : /\ SumOf(h) = a[k]
                                  /\ \A j \in K : h[key[j]] = IF j = k THEN a[k] ELSE 0
  <2>1. PICK v \in Int : v = a[k]
    OBVIOUS
  <2>2. CASE k \in K
    <3>1. PICK d \in D : d = key[k]
      BY <1>1, <2>2
    <3>2. PICK h \in [D -> Int] : SumOf(h) = v /\ \A x \in D : h[x] = IF x = d THEN v ELSE 0
      <4>1. /\ AtOne(D, d, v) \in [D -> Int] /\ SumOf(AtOne(D, d, v)) = v
            /\ \A x \in D : AtOne(D, d, v)[x] = IF x = d THEN v ELSE 0
        BY SumAtOne
      <4> QED
        BY <4>1
    <3>3. \A j \in K : h[key[j]] = IF j = k THEN v ELSE 0
      BY <1>1, <2>2, <3>1, <3>2
    <3> QED
      BY <2>1, <3>2, <3>3
  <2>3. CASE k \notin K
    <3>1. v = 0
      BY <1>1, <2>1, <2>3
    <3>2. \A j \in K : zero[key[j]] = IF j = k THEN v ELSE 0
      BY <1>1, <1>2, <2>3, <3>1
    <3> QED
      BY <1>3, <2>1, <3>1, <3>2
  <2> QED
    BY <2>2, <2>3
<1> DEFINE Credits(k, h) == /\ h \in [D -> Int] /\ SumOf(h) = a[k]
                            /\ \A j \in K : h[key[j]] = IF j = k THEN a[k] ELSE 0
<1>c. PICK c : c = [k \in 1..8 |-> CHOOSE h : Credits(k, h)]
  OBVIOUS
<1>5. ASSUME NEW k \in 1..8
      PROVE  /\ c[k] \in [D -> Int] /\ SumOf(c[k]) = a[k]
             /\ \A j \in K : c[k][key[j]] = IF j = k THEN a[k] ELSE 0
  <2>1. \E h : Credits(k, h)
    BY <1>4
  <2>2. c[k] = CHOOSE h : Credits(k, h)
    BY <1>c
  <2> HIDE DEF Credits
  <2>3. Credits(k, c[k])
    BY <2>1, <2>2
  <2> QED
    BY <2>3 DEF Credits
<1>6. c \in [1..8 -> [D -> Int]]
  BY <1>c, <1>5
<1>7. /\ AllAdded(D, zero, c) \in [D -> Int]
      /\ SumOf(AllAdded(D, zero, c))
           = SumOf(zero) + SumOf(c[1]) + SumOf(c[2]) + SumOf(c[3]) + SumOf(c[4])
             + SumOf(c[5]) + SumOf(c[6]) + SumOf(c[7]) + SumOf(c[8])
      /\ \A d \in D :
           AllAdded(D, zero, c)[d] = zero[d] + c[1][d] + c[2][d] + c[3][d] + c[4][d]
                                     + c[5][d] + c[6][d] + c[7][d] + c[8][d]
  BY <1>6, SumAllAdded
<1>8. PICK g \in [D -> Int] :
      /\ SumOf(g) = SumOf(zero) + SumOf(c[1]) + SumOf(c[2]) + SumOf(c[3]) + SumOf(c[4])
                    + SumOf(c[5]) + SumOf(c[6]) + SumOf(c[7]) + SumOf(c[8])
      /\ \A d \in D : g[d] = zero[d] + c[1][d] + c[2][d] + c[3][d] + c[4][d]
                             + c[5][d] + c[6][d] + c[7][d] + c[8][d]
  BY <1>7
<1>9. SumOf(g) = Total(a)
  <2>1. \A k \in 1..8 : SumOf(c[k]) = a[k] /\ a[k] \in Int
    BY <1>5
  <2> QED
    BY <1>3, <1>8, <2>1 DEF Total
<1>10. ASSUME NEW j \in K PROVE g[key[j]] = f[key[j]]
  <2>1. key[j] \in D /\ j \in 1..8 /\ zero[key[j]] = 0 /\ a[j] \in Int /\ a[j] = f[key[j]]
    BY <1>1, <1>2
  <2>2. \A k \in 1..8 : c[k][key[j]] = IF j = k THEN a[k] ELSE 0
    BY <1>5
  <2>3. \A k \in 1..8 : c[k][key[j]] = IF j = k THEN a[j] ELSE 0
    BY <2>2
  <2>4. g[key[j]] = zero[key[j]] + c[1][key[j]] + c[2][key[j]] + c[3][key[j]] + c[4][key[j]]
                    + c[5][key[j]] + c[6][key[j]] + c[7][key[j]] + c[8][key[j]]
    BY <1>8, <2>1
  <2> QED
    BY <2>1, <2>3, <2>4
<1>11. g = f
  <2>1. \A d \in D : g[d] = f[d]
    BY <1>10 DEF AtKeys
  <2> QED
    BY <1>8, <2>1
<1> QED
  BY <1>9, <1>11

\* ... of the set of the keys.
LEMMA SumOfKeyed ==
  ASSUME NEW K \in SUBSET (1..8), NEW key, NEW D, D = {key[k] : k \in K},
         \A j, k \in K : key[j] = key[k] => j = k,
         NEW f \in [D -> Int], NEW a \in [1..8 -> Int],
         \A k \in 1..8 : a[k] = IF k \in K THEN f[key[k]] ELSE 0
  PROVE  IsFiniteSet(D) /\ SumOf(f) = Total(a)
<1>1. IsFiniteSet(D)
  <2>1. PICK slots : slots = 1..8
    OBVIOUS
  <2>2. IsFiniteSet(slots)
    <3>1. 1 \in Int /\ 8 \in Int
      OBVIOUS
    <3> QED
      BY <2>1, <3>1, FS_Interval, Zenon
  <2>3. IsFiniteSet(K)
    BY <2>1, <2>2, FS_Subset
  <2>4. PICK g : g = [k \in K |-> key[k]]
    OBVIOUS
  <2>5. g \in Surjection(K, D)
    BY <2>4 DEF Surjection
  <2> QED
    BY <2>3, <2>5, FS_Surjection
<1>2. PICK S : S = D
  OBVIOUS
<1>3. IsFiniteSet(S) /\ f \in [S -> Int] /\ AtKeys(S, K, key, f, a)
  BY <1>1, <1>2 DEF AtKeys
<1>4. SumOf(f) = Total(a)
  BY <1>3, SumAtKeys
<1> QED
  BY <1>1, <1>4

\* A set of slots is finite.
LEMMA SmallIsFinite ==
  ASSUME NEW S \in SUBSET (1..8)
  PROVE  IsFiniteSet(S) /\ Cardinality(S) \in 0..8
<1>1. PICK slots : slots = 1..8
  OBVIOUS
<1>2. IsFiniteSet(slots) /\ Cardinality(slots) = IF 1 > 8 THEN 0 ELSE 8 - 1 + 1
  <2>1. 1 \in Int /\ 8 \in Int
    OBVIOUS
  <2> QED
    BY <1>1, <2>1, FS_Interval, Zenon
<1>3. S \in SUBSET slots
  BY <1>1
<1>4. IsFiniteSet(S) /\ Cardinality(S) <= Cardinality(slots)
  BY <1>2, <1>3, FS_Subset
<1>5. Cardinality(S) \in Nat
  BY <1>4, FS_CardinalityType
<1> QED
  BY <1>2, <1>4, <1>5

\* The keys may be the slots themselves.
LEMMA SumOfSlots ==
  ASSUME NEW K \in SUBSET (1..8), NEW f \in [K -> Int], NEW a \in [1..8 -> Int],
         \A k \in 1..8 : a[k] = IF k \in K THEN f[k] ELSE 0
  PROVE  SumOf(f) = Total(a)
<1>1. PICK key : key = [k \in K |-> k]
  OBVIOUS
<1>2. K = {key[k] : k \in K} /\ \A k \in K : key[k] = k
  BY <1>1
<1>3. \A j, k \in K : key[j] = key[k] => j = k
  BY <1>2
<1>4. \A k \in 1..8 : a[k] = IF k \in K THEN f[key[k]] ELSE 0
  BY <1>2
<1>5. AtKeys(K, K, key, f, a)
  BY <1>2, <1>3, <1>4 DEF AtKeys
<1>6. IsFiniteSet(K)
  BY SmallIsFinite
<1> QED
  BY <1>5, <1>6, SumAtKeys

\* How many of a few numbers are not larger.
UpToPlace(S, k) == Cardinality({j \in S : j <= k})

\* Counted from the smallest one, each has a place and each place is one's.
LEMMA EachHasAPlace ==
  ASSUME NEW S \in SUBSET (1..8)
  PROVE  /\ Cardinality(S) \in 0..8
         /\ \A k \in S : UpToPlace(S, k) \in 1..Cardinality(S)
         /\ \A j, k \in S : UpToPlace(S, j) = UpToPlace(S, k) => j = k
         /\ \A n \in 1..Cardinality(S) : \E k \in S : UpToPlace(S, k) = n
<1>2. IsFiniteSet(S) /\ Cardinality(S) \in 0..8
  BY SmallIsFinite
<1>3. PICK m \in 0..8 : m = Cardinality(S)
  BY <1>2
<1>4. ASSUME NEW k \in S PROVE IsFiniteSet({j \in S : j <= k}) /\ UpToPlace(S, k) \in 1..m
  <2>1. PICK T : T = {j \in S : j <= k}
    OBVIOUS
  <2>2. T \in SUBSET S /\ k \in T
    BY <2>1
  <2>3. IsFiniteSet(T) /\ Cardinality(T) <= m
    BY <1>2, <1>3, <2>2, FS_Subset
  <2>4. Cardinality(T) \in Nat /\ Cardinality(T) # 0
    BY <2>2, <2>3, FS_CardinalityType, FS_EmptySet
  <2> QED
    BY <2>1, <2>3, <2>4 DEF UpToPlace
<1>5. ASSUME NEW j \in S, NEW k \in S, j < k PROVE UpToPlace(S, j) # UpToPlace(S, k)
  <2>1. PICK T, U : T = {i \in S : i <= j} /\ U = {i \in S : i <= k}
    OBVIOUS
  <2>2. \A i \in S : i \in 1..8 /\ (i \in T <=> i <= j) /\ (i \in U <=> i <= k)
    BY <2>1
  <2>3. T \in SUBSET U /\ k \in U /\ k \notin T
    <3>1. \A i \in T : i \in S
      BY <2>1
    <3>2. \A i \in S : i <= j => i <= k
      BY <1>5
    <3>3. k \in S /\ ~(k <= j) /\ k <= k
      BY <1>5
    <3> QED
      BY <2>2, <3>1, <3>2, <3>3
  <2>4. IsFiniteSet(U)
    BY <1>4, <2>1
  <2>5. Cardinality(U) # Cardinality(T)
    BY <2>3, <2>4, FS_Subset
  <2> QED
    BY <2>1, <2>5 DEF UpToPlace
<1>6. \A j, k \in S : UpToPlace(S, j) = UpToPlace(S, k) => j = k
  <2>1. \A j, k \in S : j < k \/ k < j \/ j = k
    OBVIOUS
  <2> QED
    BY <1>5, <2>1
<1>7. ASSUME NEW n \in 1..m PROVE \E k \in S : UpToPlace(S, k) = n
  <2>1. PICK f : f = [k \in S |-> UpToPlace(S, k)]
    OBVIOUS
  <2>2. f \in Injection(S, 1..m)
    <3>1. \A k \in S : f[k] = UpToPlace(S, k) /\ f[k] \in 1..m
      BY <1>4, <2>1
    <3>2. f \in [S -> 1..m]
      BY <2>1, <3>1
    <3>3. \A j, k \in S : f[j] = f[k] => j = k
      BY <1>6, <3>1
    <3> QED
      BY <3>2, <3>3 DEF Injection, IsInjective
  <2>3. IsFiniteSet(1..m) /\ Cardinality(1..m) = m
    <3>1. PICK places : places = 1..m
      OBVIOUS
    <3>2. 1 \in Int /\ m \in Int
      OBVIOUS
    <3>3. IsFiniteSet(places) /\ Cardinality(places) = IF 1 > m THEN 0 ELSE m - 1 + 1
      BY <3>1, <3>2, FS_Interval, Zenon
    <3> QED
      BY <3>1, <3>3
  <2>4. f \in Surjection(S, 1..m)
    BY <1>3, <2>2, <2>3, FS_Injection
  <2> QED
    BY <2>1, <2>4 DEF Surjection
<1> QED
  BY <1>2, <1>3, <1>4, <1>6, <1>7
=============================================================================
