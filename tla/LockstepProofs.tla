--------------------------- MODULE LockstepProofs ---------------------------
(***************************************************************************)
(* What the program and the SDK both compute, each with code of its own,   *)
(* is the same, for every value of the constants.                          *)
(*                                                                         *)
(* split_shares never underflows, never loses a unit and never keeps one,  *)
(* for every amount, every vector of basis points and every width that     *)
(* satisfies WidthAssumption (2^64 - 1, 2^128 - 1 and 10 000 do), and pays *)
(* what the reference of Split, which the SDK follows, pays. The argument  *)
(* is the one sentence of split.rs:67, made inductive: after k shares, the *)
(* running total is at most the exact share of the first k together, and   *)
(* short of it by less than k units.                                       *)
(*                                                                         *)
(* The codecs: every byte string the model builds is read alike by the     *)
(* program and the SDK, is written back as it was read, and the accounts   *)
(* of an instruction are found at their places by all who index them, for  *)
(* every base, key and number width. The only invariant is that the bytes  *)
(* after the tag are bytes; the rest is about the operators.               *)
(***************************************************************************)
EXTENDS SplitShares, InstructionCodec, ArithmeticProofs, SequenceTheorems, TLAPS

-----------------------------------------------------------------------------
(* The inductive invariant *)

D == BPS_DENOMINATOR

WellTyped ==
  /\ amount \in 0..MAX_U64
  /\ bps \in Seq(Nat)
  /\ pc \in {"validate", "sum", "pay", "done"}
  /\ i \in 1..(MAX_SHARES + 1)
  /\ sums \in [0..MAX_SHARES -> Nat]
  /\ allocs \in [0..MAX_SHARES -> Nat]
  /\ out \in [Slots -> Nat]
  /\ result \in Results \ {"Underflow"}

InWidth ==
  /\ amount \in Amounts
  /\ bps \in BpsVectors
  /\ allocs \in [0..MAX_SHARES -> 0..MAX_U64]
  /\ out \in [Slots -> 0..MAX_U64]

\* The first k values of `sum` are the partial sums of the basis points.
SumsTo(k) ==
  /\ sums[0] = 0
  /\ \A j \in 1..k : bps[j] <= D /\ sums[j] = sums[j - 1] + bps[j]
  /\ \A j \in 0..k : sums[j] <= sums[k]

\* The first k payouts are floors, summed up in `allocs`, no more than the
\* exact share of the first k and less than k units short of it.
AllocsTo(k) ==
  /\ allocs[0] = 0
  /\ \A j \in 1..k : /\ out[j] = (amount * bps[j]) \div D
                      /\ allocs[j] = allocs[j - 1] + out[j]
  /\ \A j \in 0..k : /\ allocs[j] * D <= amount * sums[j]
                      /\ amount * sums[j] <= allocs[j] * D + j * (D - 1)

IInv ==
  /\ WellTyped
  /\ InWidth
  /\ pc \in {"sum", "pay"} \/ result = "ok" => n \in Slots /\ amount # 0
  /\ pc \in {"validate", "sum", "pay"} => result = "none"
  /\ pc \in {"validate", "sum"} => out = Zeros /\ allocs[0] = 0
  /\ pc = "validate" => i = 1 /\ sums[0] = 0
  /\ pc = "sum" => i <= n + 1 /\ SumsTo(i - 1)
  /\ pc = "pay" => /\ i <= n /\ SumsTo(n) /\ sums[n] = D
                   /\ AllocsTo(i - 1)
                   /\ \A k \in i..MAX_SHARES : out[k] = 0
  /\ result = "ok" => /\ pc = "done" /\ SumsTo(n) /\ sums[n] = D
                      /\ AllocsTo(n - 1)
                      /\ allocs[n - 1] <= amount
                      /\ out[n] = amount - allocs[n - 1]
                      /\ \A k \in (n + 1)..MAX_SHARES : out[k] = 0

-----------------------------------------------------------------------------
\* While the payouts are written, the running total is at most the amount.
LEMMA AllocatedWithinAmount ==
  ASSUME WellTyped, n \in Slots, SumsTo(n), sums[n] = D,
         NEW k \in 0..n, AllocsTo(k)
  PROVE  allocs[k] <= amount
<1> USE DenominatorAssumption DEF D
<1>1. allocs[k] * D <= amount * sums[k]
  BY DEF AllocsTo
<1>2. k \in 0..MAX_SHARES /\ n \in 0..MAX_SHARES
  BY DEF Slots, MAX_SHARES
<1>3. sums[k] \in Nat /\ allocs[k] \in Nat /\ amount \in Nat /\ sums[k] <= D
  <2>1. amount \in Nat
    BY WidthAssumption DEF WellTyped
  <2>2. sums[k] \in Nat /\ allocs[k] \in Nat
    BY <1>2 DEF WellTyped
  <2>3. sums[k] <= sums[n]
    BY DEF SumsTo
  <2> QED
    BY <2>1, <2>2, <2>3
<1>4. amount * sums[k] <= amount * D
  BY <1>3, MulMonotone
<1>5. allocs[k] * D <= amount * D
  <2> DEFINE x == allocs[k] * D  y == amount * sums[k]  z == amount * D
  <2>1. x \in Nat /\ y \in Nat /\ z \in Nat
    BY <1>3, MulMonotone
  <2>2. x <= y /\ y <= z
    BY <1>1, <1>4
  <2> HIDE DEF x, y, z
  <2>3. x <= z
    BY <2>1, <2>2
  <2> QED
    BY <2>3 DEF x, z
<1> QED
  BY <1>3, <1>5, CancelFactor

\* A part neither saturates nor is cut by the cast: it is the exact floor.
LEMMA PartIsFloor ==
  ASSUME WellTyped, n \in Slots, SumsTo(n), NEW k \in 1..n
  PROVE  /\ Part(k) = (amount * bps[k]) \div D
         /\ Part(k) \in Nat
         /\ amount * bps[k] <= MAX_U128
         /\ (amount * bps[k]) \div D <= MAX_U64
<1> USE DenominatorAssumption, WidthAssumption DEF D
<1>1. bps[k] \in Nat /\ bps[k] <= D /\ amount \in Nat /\ amount <= MAX_U64
  BY DEF WellTyped, SumsTo, n
<1> DEFINE p == amount * bps[k]
<1>2. p \in Nat /\ p <= amount * D
  BY <1>1, MulMonotone
<1>3. amount * D <= MAX_U64 * D
  BY <1>1, MulMonotone
<1>4. amount * D \in Nat /\ MAX_U64 * D \in Nat
  BY <1>1, MulMonotone
<1>5. p <= MAX_U128
  <2> DEFINE x == amount * D  y == MAX_U64 * D
  <2>1. p <= x /\ x <= y /\ y <= MAX_U128
    BY <1>2, <1>3
  <2>2. x \in Nat /\ y \in Nat
    BY <1>4
  <2> HIDE DEF x, y, p
  <2> QED
    BY <1>2, <2>1, <2>2
<1>6. SaturatingMul(amount, bps[k]) = p
  BY <1>5, <1>2 DEF SaturatingMul
<1> DEFINE q == p \div D
<1>7. q \in Nat /\ q * D <= p
  BY <1>2, DivFacts
<1>8. q <= amount
  <2>1. q * D \in Nat /\ q * D <= amount * D
    BY <1>2, <1>4, <1>7, MulMonotone
  <2> QED
    BY <1>1, <1>7, <2>1, CancelFactor
<1>9. q <= MAX_U64
  BY <1>1, <1>7, <1>8
<1>10. q % (MAX_U64 + 1) = q
  BY <1>7, <1>9, ModFacts
<1> QED
  BY <1>5, <1>6, <1>7, <1>9, <1>10 DEF Part

\* The invariant holds of the arguments, before the first check.
LEMMA InitIInv == Init => IInv
<1> SUFFICES ASSUME Init PROVE IInv
  OBVIOUS
<1>1. amount \in 0..MAX_U64 /\ bps \in Seq(Nat)
  BY InputAssumption DEF Init
<1>2. WellTyped
  BY <1>1 DEF Init, WellTyped, Zeros, Slots, MAX_SHARES, Results
<1>3. InWidth
  BY WidthAssumption DEF Init, InWidth, Zeros, Slots
<1> QED
  BY <1>2, <1>3 DEF Init, IInv, MAX_SHARES

\* Returning an error from a state before the payouts keeps the invariant.
LEMMA ReturnIInv ==
  ASSUME IInv, pc \in {"validate", "sum"}, UNCHANGED <<amount, bps>>,
         NEW r \in Results \ {"none", "ok", "Underflow"}, Return(r)
  PROVE  IInv'
<1>1. WellTyped'
  BY DEF IInv, WellTyped, Return
<1>2. pc' = "done" /\ result' # "ok"
  BY DEF Return, Results
<1>3. InWidth'
  BY DEF IInv, InWidth, Return
<1> QED
  BY <1>1, <1>2, <1>3 DEF IInv

\* The checks on the share count and the amount keep the invariant.
LEMMA ValidateStep ==
  ASSUME IInv, Validate
  PROVE  IInv'
<1>1. CASE pc' = "done"
  <2>1. \E r \in Results \ {"none", "ok", "Underflow"} : Return(r)
    BY <1>1 DEF Validate, Results
  <2> QED
    BY <2>1, ReturnIInv DEF Validate
<1>2. CASE pc' # "done"
  <2>1. /\ pc = "validate" /\ pc' = "sum" /\ ShareCountOk(bps) /\ amount # 0
        /\ UNCHANGED <<amount, bps, i, sums, allocs, out, result>>
    BY <1>2 DEF Validate, Return
  <2>2. WellTyped'
    BY <2>1 DEF IInv, WellTyped
  <2>3. i' <= n' + 1
    BY <2>1 DEF IInv, ShareCountOk, Slots, n, WellTyped
  <2>4. SumsTo(i - 1)'
    BY <2>1 DEF IInv, SumsTo, WellTyped
  <2>5. InWidth'
    BY <2>1 DEF IInv, InWidth
  <2> QED
    BY <2>1, <2>2, <2>3, <2>4, <2>5 DEF IInv, ShareCountOk, n, Zeros
<1> QED
  BY <1>1, <1>2

\* Adding one share to the u32 sum keeps the invariant.
LEMMA SumShareStep ==
  ASSUME IInv, SumShare
  PROVE  IInv'
<1>1. CASE bps[i] > BPS_DENOMINATOR /\ Return("BpsOutOfRange")
  BY <1>1, ReturnIInv DEF SumShare, Results
<1>2. CASE /\ bps[i] <= BPS_DENOMINATOR
           /\ sums' = [sums EXCEPT ![i] = sums[i - 1] + bps[i]]
           /\ i' = i + 1
           /\ UNCHANGED <<pc, allocs, out, result>>
  <2>1. pc = "sum" /\ i <= n /\ UNCHANGED <<amount, bps>>
    BY DEF SumShare
  <2>2. n \in Slots /\ SumsTo(i - 1) /\ WellTyped
    BY <2>1 DEF IInv
  <2>3. i \in 1..n /\ n \in 1..8 /\ i \in 1..8 /\ i - 1 \in 0..8
    <3>1. i \in 1..9
      BY <2>2 DEF WellTyped, MAX_SHARES
    <3>2. n \in 1..8
      BY <2>2 DEF Slots, MAX_SHARES
    <3> QED
      BY <2>1, <3>1, <3>2
  <2>4. bps[i] \in Nat /\ sums[i - 1] \in Nat
    <3>1. bps[i] \in Nat
      BY <2>2, <2>3 DEF WellTyped, n
    <3>2. sums[i - 1] \in Nat
      BY <2>2, <2>3 DEF WellTyped, MAX_SHARES
    <3> QED
      BY <3>1, <3>2
  <2>5. WellTyped'
    <3>1. i' \in 1..9
      BY <1>2, <2>3
    <3>2. sums' \in [0..8 -> Nat]
      <4>1. sums[i - 1] + bps[i] \in Nat
        BY <2>4
      <4>2. sums \in [0..8 -> Nat]
        BY <2>2 DEF WellTyped, MAX_SHARES
      <4> QED
        BY <1>2, <4>1, <4>2
    <3>3. /\ i' \in 1..(MAX_SHARES + 1)
          /\ sums' \in [0..MAX_SHARES -> Nat]
      BY <3>1, <3>2 DEF MAX_SHARES
    <3> QED
      BY <1>2, <2>1, <2>2, <3>3 DEF WellTyped
  <2>6. SumsTo(i - 1)'
    <3>1. \A j \in 0..(i - 1) : sums'[j] = sums[j]
      BY <1>2, <2>2, <2>3 DEF WellTyped, MAX_SHARES
    <3>2. sums'[i] = sums[i - 1] + bps[i]
      BY <1>2, <2>2, <2>3 DEF WellTyped, MAX_SHARES
    <3>3. i' - 1 = i
      BY <1>2, <2>3
    <3>4. \A j \in 0..(i - 1) : sums[j] \in Nat /\ sums[j] <= sums[i - 1]
      <4>1. \A j \in 0..(i - 1) : j \in 0..8
        BY <2>3
      <4>2. \A j \in 0..8 : sums[j] \in Nat
        BY <2>2 DEF WellTyped, MAX_SHARES
      <4> QED
        BY <4>1, <4>2, <2>2 DEF SumsTo
    <3>5. \A j \in 0..i : sums'[j] <= sums'[i]
      BY <3>1, <3>2, <3>4, <2>3, <2>4
    <3>6. \A j \in 1..i : bps[j] <= D /\ sums'[j] = sums'[j - 1] + bps[j]
      <4> SUFFICES ASSUME NEW j \in 1..i
                   PROVE  bps[j] <= D /\ sums'[j] = sums'[j - 1] + bps[j]
        OBVIOUS
      <4>1. CASE j = i
        BY <4>1, <1>2, <3>1, <3>2, <2>3 DEF D
      <4>2. CASE j # i
        BY <4>2, <3>1, <2>2, <2>3 DEF SumsTo
      <4> QED
        BY <4>1, <4>2
    <3>7. sums'[0] = 0
      BY <3>1, <2>2, <2>3 DEF SumsTo
    <3> QED
      BY <3>3, <3>5, <3>6, <3>7, <2>1 DEF SumsTo, D
  <2>7. i' <= n' + 1
    BY <1>2, <2>1, <2>3 DEF n
  <2>8. n' = n
    BY <2>1 DEF n
  <2>9. InWidth'
    BY <1>2, <2>1 DEF IInv, InWidth
  <2> QED
    BY <1>2, <2>1, <2>5, <2>6, <2>7, <2>8, <2>9 DEF IInv, Zeros
<1> QED
  BY <1>1, <1>2 DEF SumShare

\* Comparing the sum with the denominator keeps the invariant.
LEMMA CheckSumStep ==
  ASSUME IInv, CheckSum
  PROVE  IInv'
<1>1. CASE sums[n] # BPS_DENOMINATOR /\ Return("BpsSumNotDenominator")
  BY <1>1, ReturnIInv DEF CheckSum, Results
<1>2. CASE /\ sums[n] = BPS_DENOMINATOR
           /\ pc' = "pay"
           /\ i' = 1
           /\ UNCHANGED <<sums, allocs, out, result>>
  <2>1. pc = "sum" /\ i > n /\ UNCHANGED <<amount, bps>> /\ n' = n
    BY DEF CheckSum, n
  <2>2. /\ n \in Slots /\ SumsTo(i - 1) /\ WellTyped /\ i <= n + 1
        /\ out = Zeros /\ allocs[0] = 0 /\ result = "none" /\ amount # 0
    BY <2>1 DEF IInv
  <2>3. i - 1 = n /\ n \in 1..8
    BY <2>1, <2>2 DEF WellTyped, Slots, MAX_SHARES
  <2>4. SumsTo(n)'
    BY <1>2, <2>1, <2>2, <2>3 DEF SumsTo, D
  <2>5. WellTyped'
    BY <1>2, <2>1, <2>2 DEF WellTyped, MAX_SHARES
  <2>6. AllocsTo(i - 1)'
    <3>1. i' - 1 = 0 /\ sums[0] = 0 /\ allocs[0] = 0
      BY <1>2, <2>2 DEF SumsTo
    <3>2. D \in Nat /\ amount \in Nat
      BY <2>2, DenominatorAssumption, WidthAssumption DEF WellTyped, D
    <3>3. allocs[0] * D = 0 /\ amount * sums[0] = 0 /\ 0 * (D - 1) = 0
      BY <3>1, <3>2
    <3> QED
      BY <1>2, <2>1, <3>1, <3>3 DEF AllocsTo, D
  <2>7. \A k \in 1..MAX_SHARES : out'[k] = 0
    BY <1>2, <2>2 DEF Zeros, Slots
  <2>8. InWidth'
    BY <1>2, <2>1 DEF IInv, InWidth
  <2> QED
    BY <1>2, <2>1, <2>2, <2>3, <2>4, <2>5, <2>6, <2>7, <2>8 DEF IInv, D
<1> QED
  BY <1>1, <1>2 DEF CheckSum

\* Bounds add up.
LEMMA AddBounds ==
  ASSUME NEW ab \in Nat, NEW td \in Nat, NEW qd \in Nat, NEW kd \in Nat,
         NEW p \in Nat, NEW d \in Nat,
         td <= ab, ab <= td + kd, qd <= p, p < qd + d
  PROVE  /\ td + qd <= ab + p
         /\ ab + p <= td + qd + (kd + (d - 1))
OBVIOUS

\* One more floored share keeps the two bounds on the running total.
LEMMA FloorBounds ==
  ASSUME NEW a \in Nat, NEW b \in Nat, NEW d \in Nat \ {0},
         NEW s \in Nat, NEW t \in Nat, NEW k \in Nat,
         t * d <= a * s,
         a * s <= t * d + k * (d - 1)
  PROVE  LET q == (a * b) \div d
         IN /\ (t + q) * d <= a * (s + b)
            /\ a * (s + b) <= (t + q) * d + (k + 1) * (d - 1)
<1> DEFINE p == a * b  q == p \div d
<1>1. p \in Nat
  BY MulMonotone
<1>2. q \in Nat /\ q * d <= p /\ p < (q + 1) * d
  BY <1>1, DivFacts
<1>3. (q + 1) * d = q * d + d
  BY <1>2
<1>4. a * (s + b) = a * s + p
  BY Distribute
<1>5. (t + q) * d = t * d + q * d
  BY <1>2, Distribute
<1>6. (k + 1) * (d - 1) = k * (d - 1) + (d - 1)
  BY Distribute
<1> DEFINE ab == a * s  td == t * d  qd == q * d  kd == k * (d - 1)
<1>7. ab \in Nat /\ td \in Nat /\ qd \in Nat /\ kd \in Nat
  BY <1>2, MulMonotone
<1>8. /\ td <= ab /\ ab <= td + kd
      /\ qd <= p /\ p < qd + d
  BY <1>2, <1>3
<1> HIDE DEF ab, td, qd, kd, p
<1>9. td + qd <= ab + p /\ ab + p <= td + qd + (kd + (d - 1))
  BY <1>1, <1>7, <1>8, AddBounds
<1> QED
  BY <1>4, <1>5, <1>6, <1>9 DEF ab, td, qd, kd, p

\* What the last share gains over its exact proportion.
LEMMA LastShareBounds ==
  ASSUME NEW a \in Nat, NEW d \in Nat \ {0}, NEW b \in Nat, NEW s \in Nat,
         NEW t \in Nat, NEW k \in Nat, t <= a, s + b = d,
         t * d <= a * s, a * s <= t * d + k * (d - 1)
  PROVE  /\ a * b <= (a - t) * d
         /\ (a - t) * d <= a * b + k * (d - 1)
<1>1. a * d = a * s + a * b
  BY Distribute
<1>2. (a - t) * d = a * d - t * d
  OBVIOUS
<1> DEFINE as1 == a * s  ab == a * b  ad == a * d  td == t * d  kd == k * (d - 1)
<1>3. /\ as1 \in Nat /\ ab \in Nat /\ ad \in Nat /\ td \in Nat /\ kd \in Nat
  BY MulMonotone
<1>4. td <= as1 /\ as1 <= td + kd /\ ad = as1 + ab
  BY <1>1
<1> HIDE DEF as1, ab, ad, td, kd
<1>5. ab <= ad - td /\ ad - td <= ab + kd
  BY <1>3, <1>4
<1> QED
  BY <1>2, <1>5 DEF as1, ab, ad, td, kd

\* The running total after one more share is still within the amount.
LEMMA RunningTotalInWidth ==
  ASSUME WellTyped, n \in Slots, SumsTo(n), sums[n] = D,
         NEW k \in 1..n, AllocsTo(k - 1)
  PROVE  /\ allocs[k - 1] + Part(k) <= amount
         /\ allocs[k - 1] + Part(k) <= MAX_U64
         /\ (allocs[k - 1] + Part(k)) * D <= amount * sums[k]
         /\ amount * sums[k] <= (allocs[k - 1] + Part(k)) * D + k * (D - 1)
<1> DEFINE part == (amount * bps[k]) \div D
<1>3. n \in 1..8 /\ k \in 1..8 /\ k - 1 \in 0..8 /\ k - 1 \in 0..n /\ k \in 0..8
  BY DEF Slots, MAX_SHARES
<1>4. Part(k) = part /\ part \in Nat
  BY PartIsFloor
<1>5. /\ amount \in Nat /\ D \in Nat \ {0} /\ MAX_U64 \in Nat /\ amount <= MAX_U64
  BY DenominatorAssumption, WidthAssumption DEF WellTyped, D
<1>6. bps[k] \in Nat /\ sums[k - 1] \in Nat /\ sums[k] \in Nat /\ allocs[k - 1] \in Nat
  <2>1. bps[k] \in Nat
    BY <1>3 DEF WellTyped, n
  <2>2. sums \in [0..8 -> Nat] /\ allocs \in [0..8 -> Nat]
    BY DEF WellTyped, MAX_SHARES
  <2> QED
    BY <1>3, <2>1, <2>2
<1> HIDE DEF part
<1>7. sums[k] = sums[k - 1] + bps[k] /\ sums[k] <= D
  BY <1>3 DEF SumsTo
<1>8. /\ allocs[k - 1] * D <= amount * sums[k - 1]
      /\ amount * sums[k - 1] <= allocs[k - 1] * D + (k - 1) * (D - 1)
  BY <1>3 DEF AllocsTo
<1>9. /\ (allocs[k - 1] + part) * D <= amount * sums[k]
      /\ amount * sums[k] <= (allocs[k - 1] + part) * D + k * (D - 1)
  <2>1. k - 1 \in Nat /\ (k - 1) + 1 = k
    BY <1>3
  <2> QED
    BY <1>5, <1>6, <1>7, <1>8, <2>1, FloorBounds DEF part
<1>10. allocs[k - 1] + part <= amount
  <2>1. amount * sums[k] <= amount * D
    BY <1>5, <1>6, <1>7, MulMonotone
  <2>2. allocs[k - 1] + part \in Nat
    BY <1>4, <1>6
  <2>3. (allocs[k - 1] + part) * D <= amount * D
    <3> DEFINE x == (allocs[k - 1] + part) * D  y == amount * sums[k]  z == amount * D
    <3>1. x \in Nat /\ y \in Nat /\ z \in Nat
      BY <1>5, <1>6, <2>2, MulMonotone
    <3>2. x <= y /\ y <= z
      BY <1>9, <2>1
    <3> HIDE DEF x, y, z
    <3>3. x <= z
      BY <3>1, <3>2
    <3> QED
      BY <3>3 DEF x, z
  <2> QED
    BY <1>5, <2>2, <2>3, CancelFactor
<1> QED
  BY <1>4, <1>5, <1>6, <1>9, <1>10

\* Writing a floored share keeps the invariant.
LEMMA FloorShareStep ==
  ASSUME IInv, FloorShare
  PROVE  IInv'
<1> DEFINE part == (amount * bps[i]) \div D
<1>1. /\ pc = "pay" /\ i < n /\ pc' = "pay" /\ i' = i + 1
      /\ UNCHANGED <<amount, bps, sums, result>> /\ n' = n
  BY DEF FloorShare, n
<1>2. /\ WellTyped /\ n \in Slots /\ SumsTo(n) /\ sums[n] = D
      /\ AllocsTo(i - 1) /\ result = "none" /\ amount # 0
      /\ \A k \in i..MAX_SHARES : out[k] = 0
  BY <1>1 DEF IInv
<1>3. i \in 1..n /\ n \in 1..8 /\ i \in 1..8 /\ i - 1 \in 0..8 /\ i - 1 \in 0..n
  <2>1. i \in 1..9
    BY <1>2 DEF WellTyped, MAX_SHARES
  <2>2. n \in 1..8
    BY <1>2 DEF Slots, MAX_SHARES
  <2> QED
    BY <1>1, <2>1, <2>2
<1>4. Part(i) = part /\ part \in Nat
  BY <1>2, <1>3, PartIsFloor
<1>5. /\ amount \in Nat /\ D \in Nat \ {0} /\ MAX_U64 \in Nat /\ amount <= MAX_U64
  BY <1>2, DenominatorAssumption, WidthAssumption DEF WellTyped, D
<1>6. bps[i] \in Nat /\ sums[i - 1] \in Nat /\ sums[i] \in Nat /\ allocs[i - 1] \in Nat
  <2>1. bps[i] \in Nat
    BY <1>2, <1>3 DEF WellTyped, n
  <2>2. sums \in [0..8 -> Nat] /\ allocs \in [0..8 -> Nat]
    BY <1>2 DEF WellTyped, MAX_SHARES
  <2>3. i - 1 \in 0..8 /\ i \in 0..8
    BY <1>3
  <2> QED
    BY <2>1, <2>2, <2>3
<1> HIDE DEF part
<1>9. /\ (allocs[i - 1] + part) * D <= amount * sums[i]
      /\ amount * sums[i] <= (allocs[i - 1] + part) * D + i * (D - 1)
      /\ allocs[i - 1] + part <= amount
  BY <1>2, <1>3, <1>4, RunningTotalInWidth
<1>11. SaturatingAdd(allocs[i - 1], part) = allocs[i - 1] + part
  BY <1>4, <1>5, <1>6, <1>9 DEF SaturatingAdd
<1>12. /\ out' = [out EXCEPT ![i] = part]
       /\ allocs' = [allocs EXCEPT ![i] = allocs[i - 1] + part]
  BY <1>4, <1>11 DEF FloorShare
<1>13. out \in [1..8 -> Nat] /\ allocs \in [0..8 -> Nat]
  BY <1>2 DEF WellTyped, Slots, MAX_SHARES
<1>14. /\ out'[i] = part /\ allocs'[i] = allocs[i - 1] + part
       /\ \A k \in 1..8 : k # i => out'[k] = out[k]
       /\ \A k \in 0..8 : k # i => allocs'[k] = allocs[k]
  BY <1>3, <1>12, <1>13
<1>15. WellTyped'
  <2>1. out' \in [1..8 -> Nat]
    BY <1>4, <1>12, <1>13
  <2>2. allocs[i - 1] + part \in Nat
    BY <1>4, <1>6
  <2>3. allocs' \in [0..8 -> Nat]
    BY <1>12, <1>13, <2>2
  <2>4. i' \in 1..9
    BY <1>1, <1>3
  <2>5. /\ out' \in [Slots -> Nat] /\ allocs' \in [0..MAX_SHARES -> Nat]
        /\ i' \in 1..(MAX_SHARES + 1)
    BY <2>1, <2>3, <2>4 DEF Slots, MAX_SHARES
  <2> QED
    BY <1>1, <1>2, <2>5 DEF WellTyped
<1>16. SumsTo(n)'
  BY <1>1, <1>2 DEF SumsTo, D
<1>17. AllocsTo(i - 1)'
  <2>1. i' - 1 = i
    BY <1>1, <1>3
  <2>2. allocs'[0] = 0
    BY <1>2, <1>3, <1>14 DEF AllocsTo
  <2>3. ASSUME NEW j \in 1..i
        PROVE  /\ out'[j] = (amount * bps[j]) \div D
               /\ allocs'[j] = allocs'[j - 1] + out'[j]
    <3>1. CASE j = i
      <4>1. allocs'[i - 1] = allocs[i - 1]
        BY <1>3, <1>14
      <4> QED
        BY <3>1, <4>1, <1>14 DEF part
    <3>2. CASE j # i
      <4>1. /\ j \in 1..(i - 1) /\ j \in 1..8 /\ j - 1 \in 0..8 /\ j \in 0..8
            /\ j - 1 # i
        BY <3>2, <1>3
      <4>2. out'[j] = out[j] /\ allocs'[j] = allocs[j] /\ allocs'[j - 1] = allocs[j - 1]
        BY <3>2, <4>1, <1>14
      <4> QED
        BY <4>1, <4>2, <1>2 DEF AllocsTo
    <3> QED
      BY <3>1, <3>2
  <2>4. ASSUME NEW j \in 0..i
        PROVE  /\ allocs'[j] * D <= amount * sums[j]
               /\ amount * sums[j] <= allocs'[j] * D + j * (D - 1)
    <3>1. CASE j = i
      BY <3>1, <1>9, <1>14
    <3>2. CASE j # i
      <4>1. j \in 0..(i - 1) /\ j \in 0..8
        BY <3>2, <1>3
      <4>2. allocs'[j] = allocs[j]
        BY <3>2, <4>1, <1>14
      <4> QED
        BY <4>1, <4>2, <1>2 DEF AllocsTo
    <3> QED
      BY <3>1, <3>2
  <2> QED
    BY <1>1, <2>1, <2>2, <2>3, <2>4 DEF AllocsTo, D
<1>18. \A k \in i'..MAX_SHARES : out'[k] = 0
  <2>1. \A k \in (i + 1)..8 : k \in 1..8 /\ k # i /\ k \in i..8
    BY <1>3
  <2> QED
    BY <1>1, <1>2, <1>14, <2>1 DEF MAX_SHARES
<1>19. i' <= n'
  BY <1>1, <1>3
<1>20. InWidth'
  <2>1. part \in 0..MAX_U64
    BY <1>2, <1>3, <1>4, <1>5, PartIsFloor DEF part
  <2>2. allocs[i - 1] + part \in 0..MAX_U64
    BY <1>4, <1>5, <1>6, <1>9
  <2> QED
    BY <1>1, <1>12, <2>1, <2>2 DEF IInv, InWidth
<1> QED
  BY <1>1, <1>2, <1>15, <1>16, <1>17, <1>18, <1>19, <1>20 DEF IInv, D

\* Writing the last share keeps the invariant.
LEMMA LastShareStep ==
  ASSUME IInv, LastShare
  PROVE  IInv'
<1>1. pc = "pay" /\ i = n /\ UNCHANGED <<amount, bps>> /\ n' = n
  BY DEF LastShare, n
<1>2. /\ WellTyped /\ n \in Slots /\ SumsTo(n) /\ sums[n] = D
      /\ AllocsTo(n - 1) /\ amount # 0
      /\ \A k \in n..MAX_SHARES : out[k] = 0
  BY <1>1 DEF IInv
<1>3. n \in 1..8 /\ n - 1 \in 0..n /\ n - 1 \in 0..8
  BY <1>2 DEF Slots, MAX_SHARES
<1>4. allocs[n - 1] <= amount
  BY <1>2, <1>3, AllocatedWithinAmount
<1>5. allocs[n - 1] \in Nat /\ amount \in Nat
  <2>1. allocs \in [0..8 -> Nat]
    BY <1>2 DEF WellTyped, MAX_SHARES
  <2>2. amount \in Nat
    BY <1>2, WidthAssumption DEF WellTyped
  <2> QED
    BY <1>3, <2>1, <2>2
<1>6. /\ out' = [out EXCEPT ![n] = amount - allocs[n - 1]]
      /\ pc' = "done" /\ result' = "ok" /\ UNCHANGED <<i, sums, allocs>>
  BY <1>4, <1>5 DEF LastShare
<1>7. amount - allocs[n - 1] \in Nat
  BY <1>4, <1>5
<1>8. out \in [1..8 -> Nat]
  BY <1>2 DEF WellTyped, Slots, MAX_SHARES
<1>9. /\ out' \in [1..8 -> Nat]
      /\ out'[n] = amount - allocs[n - 1]
      /\ \A k \in 1..8 : k # n => out'[k] = out[k]
  BY <1>3, <1>6, <1>7, <1>8
<1>10. WellTyped'
  <2>1. out' \in [Slots -> Nat]
    BY <1>9 DEF Slots, MAX_SHARES
  <2>2. result' \in Results \ {"Underflow"}
    BY <1>6 DEF Results
  <2> QED
    BY <1>1, <1>2, <1>6, <2>1, <2>2 DEF WellTyped
<1>11. SumsTo(n)'
  BY <1>1, <1>2, <1>6 DEF SumsTo, D
<1>12. AllocsTo(n - 1)'
  <2>1. \A j \in 1..(n - 1) : out'[j] = out[j]
    BY <1>3, <1>9
  <2> QED
    BY <1>1, <1>2, <1>6, <2>1 DEF AllocsTo, D
<1>13. \A k \in (n + 1)..MAX_SHARES : out'[k] = 0
  <2>1. \A k \in (n + 1)..8 : k \in 1..8 /\ k # n /\ k \in n..8
    BY <1>3
  <2> QED
    BY <1>2, <1>9, <2>1 DEF MAX_SHARES
<1>14. InWidth'
  <2>1. amount - allocs[n - 1] \in 0..MAX_U64
    BY <1>2, <1>4, <1>5, WidthAssumption DEF WellTyped
  <2> QED
    BY <1>1, <1>6, <2>1 DEF IInv, InWidth
<1> QED
  BY <1>1, <1>2, <1>4, <1>6, <1>9, <1>10, <1>11, <1>12, <1>13, <1>14 DEF IInv, D

\* A step that changes nothing keeps the invariant.
LEMMA StutterStep ==
  ASSUME IInv, UNCHANGED vars
  PROVE  IInv'
BY DEF IInv, vars, WellTyped, InWidth, SumsTo, AllocsTo, n, D, Zeros

\* IInv is inductive.
THEOREM Inductive == Spec => []IInv
<1>1. IInv /\ [Next]_vars => IInv'
  BY ValidateStep, SumShareStep, CheckSumStep, FloorShareStep, LastShareStep,
     StutterStep DEF Next
<1> QED
  BY <1>1, InitIInv, PTL DEF Spec

-----------------------------------------------------------------------------
(* What follows from it *)

\* Every index stays in its range and every number in its width.
THEOREM TypeCorrect == Spec => []TypeOK
<1>1. IInv => TypeOK
  BY DEF IInv, WellTyped, InWidth, TypeOK
<1> QED
  BY <1>1, Inductive, PTL

\* The checked subtraction of split.rs:68-70 never fails, and none of the
\* saturating or casting operations before it changes a value.
THEOREM Underflow == Spec => []NoUnderflow
<1>1. IInv => NoUnderflow
  <2> SUFFICES ASSUME IInv PROVE NoUnderflow
    OBVIOUS
  <2>1. result # "Underflow"
    BY DEF IInv, WellTyped
  <2>2. ASSUME pc = "pay"
        PROVE  /\ allocs[i - 1] <= amount
               /\ amount * bps[i] <= MAX_U128
               /\ (amount * bps[i]) \div BPS_DENOMINATOR <= MAX_U64
               /\ allocs[i - 1] + Part(i) <= MAX_U64
    <3>1. /\ WellTyped /\ n \in Slots /\ SumsTo(n) /\ sums[n] = D
          /\ AllocsTo(i - 1) /\ i <= n
      BY <2>2 DEF IInv
    <3>2. i \in 1..n /\ i - 1 \in 0..n
      <4>1. i \in 1..9 /\ n \in 1..8
        BY <3>1 DEF WellTyped, Slots, MAX_SHARES
      <4> QED
        BY <3>1, <4>1
    <3>3. allocs[i - 1] <= amount
      BY <3>1, <3>2, AllocatedWithinAmount
    <3>4. /\ amount * bps[i] <= MAX_U128
          /\ (amount * bps[i]) \div BPS_DENOMINATOR <= MAX_U64
      BY <3>1, <3>2, PartIsFloor DEF D
    <3>5. allocs[i - 1] + Part(i) <= MAX_U64
      BY <3>1, <3>2, RunningTotalInWidth
    <3> QED
      BY <3>3, <3>4, <3>5
  <2> QED
    BY <2>1, <2>2 DEF NoUnderflow
<1> QED
  BY <1>1, Inductive, PTL

\* An accepted split pays out exactly the amount.
THEOREM PaysExactly == Spec => []Conservation
<1>1. IInv => Conservation
  <2> SUFFICES ASSUME IInv, result = "ok" 
               PROVE /\ \A k \in 1..(n - 1) : allocs[k] = allocs[k - 1] + out[k]
                     /\ allocs[0] = 0
                     /\ allocs[n - 1] + out[n] = amount
                     /\ \A k \in (n + 1)..MAX_SHARES : out[k] = 0
    BY DEF Conservation
  <2>1. /\ WellTyped /\ n \in Slots /\ AllocsTo(n - 1)
        /\ out[n] = amount - allocs[n - 1]
        /\ \A k \in (n + 1)..MAX_SHARES : out[k] = 0
    BY DEF IInv
  <2>2. n \in 1..8 /\ n - 1 \in 0..8
    BY <2>1 DEF Slots, MAX_SHARES
  <2>3. allocs[n - 1] \in Nat /\ amount \in Nat
    <3>1. allocs \in [0..8 -> Nat]
      BY <2>1 DEF WellTyped, MAX_SHARES
    <3>2. amount \in Nat
      BY <2>1, WidthAssumption DEF WellTyped
    <3> QED
      BY <2>2, <3>1, <3>2
  <2>4. allocs[n - 1] + out[n] = amount
    BY <2>1, <2>3
  <2> QED
    BY <2>1, <2>4 DEF AllocsTo
<1> QED
  BY <1>1, Inductive, PTL

\* No share loses a unit, and the last gains less than one for every other.
THEOREM Rounding == Spec => []RoundingBounds
<1>1. IInv => RoundingBounds
  <2> SUFFICES ASSUME IInv, result = "ok"
               PROVE  RoundingBounds
    BY DEF RoundingBounds
  <2>1. /\ WellTyped /\ n \in Slots /\ AllocsTo(n - 1) /\ SumsTo(n)
        /\ out[n] = amount - allocs[n - 1] /\ sums[n] = D
        /\ allocs[n - 1] <= amount
    BY DEF IInv
  <2>2. n \in 1..8 /\ n - 1 \in 0..8 /\ n \in 0..8 /\ n - 1 \in 0..(n - 1)
    BY <2>1 DEF Slots, MAX_SHARES
  <2>3. /\ amount \in Nat /\ D \in Nat \ {0} /\ bps[n] \in Nat
        /\ allocs[n - 1] \in Nat /\ sums[n - 1] \in Nat /\ n - 1 \in Nat
    <3>1. allocs \in [0..8 -> Nat] /\ sums \in [0..8 -> Nat]
      BY <2>1 DEF WellTyped, MAX_SHARES
    <3>2. amount \in Nat /\ D \in Nat \ {0}
      BY <2>1, WidthAssumption, DenominatorAssumption DEF WellTyped, D
    <3>3. bps[n] \in Nat
      BY <2>1, <2>2 DEF WellTyped, n
    <3> QED
      BY <2>2, <3>1, <3>2, <3>3
  <2>4. ASSUME NEW k \in 1..(n - 1)
        PROVE  /\ out[k] * D <= amount * bps[k]
               /\ amount * bps[k] < (out[k] + 1) * D
    <3>1. out[k] = (amount * bps[k]) \div D
      BY <2>1 DEF AllocsTo
    <3>2. bps[k] \in Nat
      BY <2>1, <2>2 DEF WellTyped, n
    <3>3. amount * bps[k] \in Nat
      BY <2>3, <3>2, MulMonotone
    <3> QED
      BY <2>3, <3>1, <3>3, DivFacts
  <2>5. /\ allocs[n - 1] * D <= amount * sums[n - 1]
        /\ amount * sums[n - 1] <= allocs[n - 1] * D + (n - 1) * (D - 1)
    BY <2>1, <2>2 DEF AllocsTo
  <2>6. sums[n - 1] + bps[n] = D
    BY <2>1, <2>2 DEF SumsTo
  <2>7. /\ amount * bps[n] <= out[n] * D
        /\ out[n] * D <= amount * bps[n] + (n - 1) * (D - 1)
    BY <2>1, <2>3, <2>5, <2>6, LastShareBounds
  <2> QED
    BY <2>4, <2>7 DEF RoundingBounds, D
<1> QED
  BY <1>1, Inductive, PTL

-----------------------------------------------------------------------------
(* The loops compute the reference definition *)

\* The partial sums end at the sum over the padded slots.
LEMMA SumIsTotal ==
  ASSUME WellTyped, n \in Slots, SumsTo(n)
  PROVE  Total(Padded(bps)) = sums[n]
<1>1. n \in 1..8 /\ sums[0] = 0
  BY DEF Slots, MAX_SHARES, SumsTo
<1>2. \A k \in 1..n : bps[k] \in Nat /\ sums[k] = sums[k - 1] + bps[k]
  BY DEF WellTyped, SumsTo, n
<1>3. \A k \in 1..8 : Padded(bps)[k] = IF k <= n THEN bps[k] ELSE 0
  BY DEF Padded, Slots, MAX_SHARES, n
<1>4. CASE n = 1
  BY <1>1, <1>2, <1>3, <1>4 DEF Total
<1>5. CASE n = 2
  BY <1>1, <1>2, <1>3, <1>5 DEF Total
<1>6. CASE n = 3
  BY <1>1, <1>2, <1>3, <1>6 DEF Total
<1>7. CASE n = 4
  BY <1>1, <1>2, <1>3, <1>7 DEF Total
<1>8. CASE n = 5
  BY <1>1, <1>2, <1>3, <1>8 DEF Total
<1>9. CASE n = 6
  BY <1>1, <1>2, <1>3, <1>9 DEF Total
<1>10. CASE n = 7
  BY <1>1, <1>2, <1>3, <1>10 DEF Total
<1>11. CASE n = 8
  BY <1>1, <1>2, <1>3, <1>11 DEF Total
<1> QED
  BY <1>1, <1>4, <1>5, <1>6, <1>7, <1>8, <1>9, <1>10, <1>11

\* The running totals end at the sum of the floored shares.
LEMMA AllocatedIsTotal ==
  ASSUME WellTyped, n \in Slots, AllocsTo(n - 1)
  PROVE  Total(FlooredShares(amount, bps)) = allocs[n - 1]
<1> DEFINE f == FlooredShares(amount, bps)
<1>1. n \in 1..8 /\ allocs[0] = 0
  BY DEF Slots, MAX_SHARES, AllocsTo
<1>2. \A k \in 1..(n - 1) : out[k] \in Nat /\ allocs[k] = allocs[k - 1] + out[k]
  <2>1. \A k \in 1..(n - 1) : k \in 1..8
    BY <1>1
  <2>2. \A k \in 1..8 : out[k] \in Nat
    BY DEF WellTyped, Slots, MAX_SHARES
  <2> QED
    BY <2>1, <2>2 DEF AllocsTo
<1>3. \A k \in 1..8 : f[k] = IF k < n THEN out[k] ELSE 0
  <2> SUFFICES ASSUME NEW k \in 1..8
               PROVE  f[k] = IF k < n THEN out[k] ELSE 0
    OBVIOUS
  <2>1. f[k] = IF k < n THEN (amount * bps[k]) \div D ELSE 0
    BY DEF FlooredShares, Slots, MAX_SHARES, n, D
  <2>2. k < n => k \in 1..(n - 1)
    BY <1>1
  <2> QED
    BY <2>1, <2>2 DEF AllocsTo
<1> SUFFICES Total(f) = allocs[n - 1]
  OBVIOUS
<1> HIDE DEF f
<1>4. CASE n = 1
  BY <1>1, <1>2, <1>3, <1>4 DEF Total
<1>5. CASE n = 2
  BY <1>1, <1>2, <1>3, <1>5 DEF Total
<1>6. CASE n = 3
  BY <1>1, <1>2, <1>3, <1>6 DEF Total
<1>7. CASE n = 4
  BY <1>1, <1>2, <1>3, <1>7 DEF Total
<1>8. CASE n = 5
  BY <1>1, <1>2, <1>3, <1>8 DEF Total
<1>9. CASE n = 6
  BY <1>1, <1>2, <1>3, <1>9 DEF Total
<1>10. CASE n = 7
  BY <1>1, <1>2, <1>3, <1>10 DEF Total
<1>11. CASE n = 8
  BY <1>1, <1>2, <1>3, <1>11 DEF Total
<1> QED
  BY <1>1, <1>4, <1>5, <1>6, <1>7, <1>8, <1>9, <1>10, <1>11

\* What an accepting run has written is the reference's payouts.
LEMMA PayoutsAgree ==
  ASSUME IInv, result = "ok"
  PROVE  out = Payouts(amount, bps)
<1> DEFINE f == FlooredShares(amount, bps)
<1>1. /\ WellTyped /\ n \in Slots /\ AllocsTo(n - 1)
      /\ out[n] = amount - allocs[n - 1]
      /\ \A k \in (n + 1)..MAX_SHARES : out[k] = 0
  BY DEF IInv
<1>2. n \in 1..8
  BY <1>1 DEF Slots, MAX_SHARES
<1>3. Total(f) = allocs[n - 1]
  BY <1>1, AllocatedIsTotal
<1>4. Payouts(amount, bps) = [f EXCEPT ![n] = amount - allocs[n - 1]]
  BY <1>3 DEF Payouts, n
<1>5. \A k \in 1..8 : f[k] = IF k < n THEN (amount * bps[k]) \div D ELSE 0
  BY DEF FlooredShares, Slots, MAX_SHARES, n, D
<1>6. DOMAIN f = 1..8 /\ f = [k \in 1..8 |-> f[k]]
  BY DEF FlooredShares, Slots, MAX_SHARES
<1>7. out \in [1..8 -> Nat]
  BY <1>1 DEF WellTyped, Slots, MAX_SHARES
<1> HIDE DEF f
<1>8. ASSUME NEW k \in 1..8
      PROVE  out[k] = [f EXCEPT ![n] = amount - allocs[n - 1]][k]
  <2>1. CASE k = n
    BY <1>1, <1>2, <1>6, <2>1
  <2>2. CASE k < n
    <3>1. k \in 1..(n - 1)
      BY <1>2, <2>2
    <3> QED
      BY <1>1, <1>2, <1>5, <1>6, <2>2, <3>1 DEF AllocsTo
  <2>3. CASE k > n
    <3>1. k \in (n + 1)..8
      BY <1>2, <2>3
    <3> QED
      BY <1>1, <1>2, <1>5, <1>6, <2>3, <3>1 DEF MAX_SHARES
  <2> QED
    BY <1>2, <2>1, <2>2, <2>3
<1> QED
  BY <1>2, <1>4, <1>6, <1>7, <1>8

\* A run that returned an error returned the reference's verdict.
VerdictInv ==
  pc = "done" /\ result # "ok" => result = SplitVerdict(amount, bps)

\* Every error returned is the one the reference definition gives.
LEMMA VerdictStep ==
  ASSUME IInv, VerdictInv, [Next]_vars
  PROVE  VerdictInv'
<1>1. CASE Validate
  BY <1>1 DEF Validate, Return, VerdictInv, SplitVerdict
<1>2. CASE SumShare
  <2>1. CASE bps[i] > BPS_DENOMINATOR /\ Return("BpsOutOfRange")
    <3>1. n \in Slots /\ amount # 0 /\ WellTyped /\ i <= n
      BY <1>2 DEF IInv, SumShare
    <3>2. i \in 1..n /\ bps[i] \in Nat
      <4>1. i \in 1..9 /\ n \in 1..8
        BY <3>1 DEF WellTyped, Slots, MAX_SHARES
      <4>2. i \in 1..n
        BY <3>1, <4>1
      <4> QED
        BY <3>1, <4>2 DEF WellTyped, n
    <3>3. ~BpsInRange(bps)
      BY <2>1, <3>2, DenominatorAssumption DEF BpsInRange, n
    <3> QED
      BY <1>2, <2>1, <3>1, <3>3
      DEF SumShare, Return, VerdictInv, SplitVerdict, ShareCountOk, n
  <2>2. CASE UNCHANGED <<pc, allocs, out, result>>
    BY <1>2, <2>2 DEF SumShare, VerdictInv
  <2> QED
    BY <1>2, <2>1, <2>2 DEF SumShare
<1>3. CASE CheckSum
  <2>1. CASE sums[n] # BPS_DENOMINATOR /\ Return("BpsSumNotDenominator")
    <3>1. /\ n \in Slots /\ amount # 0 /\ WellTyped /\ i > n /\ i <= n + 1
          /\ SumsTo(i - 1)
      BY <1>3 DEF IInv, CheckSum
    <3>2. i - 1 = n
      BY <3>1 DEF WellTyped, Slots, MAX_SHARES
    <3>3. Total(Padded(bps)) # BPS_DENOMINATOR
      BY <2>1, <3>1, <3>2, SumIsTotal
    <3>4. BpsInRange(bps)
      BY <3>1, <3>2 DEF SumsTo, BpsInRange, D, n
    <3> QED
      BY <1>3, <2>1, <3>1, <3>3, <3>4
      DEF CheckSum, Return, VerdictInv, SplitVerdict, ShareCountOk, n
  <2>2. CASE pc' = "pay"
    BY <2>2 DEF VerdictInv
  <2> QED
    BY <1>3, <2>1, <2>2 DEF CheckSum
<1>4. CASE FloorShare
  BY <1>4 DEF FloorShare, VerdictInv
<1>5. CASE LastShare
  <2>1. IInv'
    BY <1>5, LastShareStep
  <2>2. result' = "ok"
    <3>1. result' # "Underflow"
      BY <2>1 DEF IInv, WellTyped
    <3> QED
      BY <1>5, <3>1 DEF LastShare, Return
  <2> QED
    BY <2>2 DEF VerdictInv
<1>6. CASE UNCHANGED vars
  BY <1>6 DEF vars, VerdictInv
<1> QED
  BY <1>1, <1>2, <1>3, <1>4, <1>5, <1>6 DEF Next

\* The loops agree with the reference in verdict and in payouts.
THEOREM LoopsMatchReference == Spec => []MatchesReference
<1>1. Init => VerdictInv
  BY DEF Init, VerdictInv
<1>2. IInv /\ VerdictInv /\ [Next]_vars => VerdictInv'
  BY VerdictStep
<1>3. IInv /\ VerdictInv => MatchesReference
  <2> SUFFICES ASSUME IInv, VerdictInv, pc = "done"
               PROVE  /\ result = SplitVerdict(amount, bps)
                      /\ result = "ok" => out = Payouts(amount, bps)
    BY DEF MatchesReference
  <2>1. CASE result # "ok"
    BY <2>1 DEF VerdictInv
  <2>2. CASE result = "ok"
    <3>1. /\ WellTyped /\ n \in Slots /\ amount # 0 /\ SumsTo(n) /\ sums[n] = D
      BY <2>2 DEF IInv
    <3>2. Total(Padded(bps)) = BPS_DENOMINATOR
      BY <3>1, SumIsTotal DEF D
    <3>3. BpsInRange(bps)
      BY <3>1 DEF SumsTo, BpsInRange, D, n
    <3>4. SplitVerdict(amount, bps) = "ok"
      BY <3>1, <3>2, <3>3 DEF SplitVerdict, ShareCountOk, n
    <3> QED
      BY <2>2, <3>4, PayoutsAgree
  <2> QED
    BY <2>1, <2>2
<1> QED
  BY <1>1, <1>2, <1>3, Inductive, PTL DEF Spec

-----------------------------------------------------------------------------
(* Numbers and their bytes                                                 *)

\* A function that goes from x on by m steps.
Goes(f, m, x, step) ==
  f \in [0..m -> Nat] /\ f[0] = x /\ \A k \in 1..m : f[k] = step[k][f[k - 1]]

LEMMA OneStepMore ==
  ASSUME NEW m \in Nat, NEW x \in Nat, NEW step \in [1..m -> [Nat -> Nat]],
         NEW j \in 1..m, NEW g, Goes(g, j - 1, x, step)
  PROVE  \E f : Goes(f, j, x, step)
<1>1. /\ g \in [0..(j - 1) -> Nat] /\ g[0] = x
      /\ \A k \in 1..(j - 1) : g[k] = step[k][g[k - 1]]
  BY DEF Goes
<1>2. j \in Nat /\ j - 1 \in 0..(j - 1)
  OBVIOUS
<1>3. PICK last : last = step[j][g[j - 1]]
  OBVIOUS
<1>4. last \in Nat
  <2>1. step[j] \in [Nat -> Nat] /\ g[j - 1] \in Nat
    BY <1>1, <1>2
  <2> QED
    BY <1>3, <2>1
<1>5. PICK f : f = [k \in 0..j |-> IF k = j THEN last ELSE g[k]]
  OBVIOUS
<1>6. \A k \in 0..(j - 1) : f[k] = g[k] /\ k # j /\ k \in 0..j
  BY <1>2, <1>5
<1>7. f[j] = last
  BY <1>2, <1>5
<1>8. f \in [0..j -> Nat]
  <2>1. \A k \in 0..j : k = j \/ k \in 0..(j - 1)
    BY <1>2
  <2>2. \A k \in 0..(j - 1) : g[k] \in Nat
    BY <1>1
  <2>3. \A k \in 0..j : f[k] \in Nat
    BY <1>4, <1>6, <1>7, <2>1, <2>2
  <2> QED
    BY <1>5, <2>3
<1>9. f[0] = x
  <2>1. 0 \in 0..(j - 1)
    BY <1>2
  <2> QED
    BY <1>1, <1>6, <2>1
<1>10. ASSUME NEW k \in 1..j PROVE f[k] = step[k][f[k - 1]]
  <2>1. k - 1 \in 0..(j - 1) /\ f[k - 1] = g[k - 1]
    BY <1>2, <1>6
  <2>2. CASE k = j
    BY <1>3, <1>7, <2>1, <2>2
  <2>3. CASE k # j
    <3>1. k \in 1..(j - 1) /\ k \in 0..(j - 1)
      BY <1>2, <2>3
    <3> QED
      BY <1>1, <1>6, <2>1, <3>1
  <2> QED
    BY <2>2, <2>3
<1> QED
  BY <1>8, <1>9, <1>10 DEF Goes

\* There is one. (The functions of the model that refer to themselves are such.)
LEMMA StepsExist ==
  ASSUME NEW m \in Nat, NEW x \in Nat, NEW step \in [1..m -> [Nat -> Nat]]
  PROVE  \E f : Goes(f, m, x, step)
<1> DEFINE P == {j \in 0..m : \E f : Goes(f, j, x, step)}
<1>1. 0 \in P
  <2>1. PICK f : f = [k \in 0..0 |-> x]
    OBVIOUS
  <2>2. f \in [0..0 -> Nat] /\ f[0] = x
    BY <2>1
  <2>3. Goes(f, 0, x, step)
    BY <2>2 DEF Goes
  <2> QED
    BY <2>3
<1>2. ASSUME NEW j \in 1..m, j - 1 \in P PROVE j \in P
  <2>1. PICK g : Goes(g, j - 1, x, step)
    BY <1>2
  <2>2. \E f : Goes(f, j, x, step)
    BY <2>1, OneStepMore
  <2> QED
    BY <2>2
<1> HIDE DEF P
<1>3. \A j \in 0..m : j \in P
  BY <1>1, <1>2, CountInduction
<1>4. m \in P
  BY <1>3
<1> QED
  BY <1>4 DEF P

LEMMA BaseFacts == Base \in Nat /\ Base > 0 /\ \A b \in Byte : b \in 0..(Base - 1)
BY CodecAssumption DEF Byte

LEMMA WidthFacts ==
  /\ Key \in Nat /\ Key > 0 /\ AmountBytes \in Nat /\ AmountBytes > 0
  /\ BpsBytes \in Nat /\ BpsBytes > 0 /\ MaxShares \in Nat /\ MaxShares > 0 /\ MaxShares <= 8
BY CodecAssumption DEF MAX_SHARES

\* Division of numbers that are made of a multiple and a rest.
LEMMA Parts ==
  ASSUME NEW v \in Nat, NEW d \in Nat \ {0}, NEW b \in 0..(d - 1)
  PROVE  v * d + b \in Nat /\ (v * d + b) \div d = v /\ (v * d + b) % d = b
<1>1. PICK a : a = v * d + b
  OBVIOUS
<1>2. v * d \in Nat
  BY MulNat
<1>3. a \in Nat
  BY <1>1, <1>2
<1>4. PICK q : q = a \div d
  OBVIOUS
<1>5. q \in Nat /\ q * d <= a /\ a < (q + 1) * d
  BY <1>3, <1>4, DivFacts
<1>6. q = v
  <2>1. (q + 1) * d = q * d + d /\ (v + 1) * d = v * d + d
    BY <1>5, Distribute
  <2>2. q * d \in Nat /\ (q + 1) * d \in Nat /\ (v + 1) * d \in Nat
    BY <1>5, MulNat
  <2>3. q * d < (v + 1) * d /\ v * d < (q + 1) * d
    BY <1>1, <1>2, <1>5, <2>1, <2>2
  <2>4. ~(v + 1 <= q)
    <3>1. v + 1 <= q => (v + 1) * d <= q * d
      BY <1>5, MulMonotone
    <3> QED
      BY <2>2, <2>3, <3>1
  <2>5. ~(q + 1 <= v)
    <3>1. q + 1 <= v => (q + 1) * d <= v * d
      BY <1>5, MulMonotone
    <3> QED
      BY <1>2, <2>2, <2>3, <3>1
  <2> QED
    BY <1>5, <2>4, <2>5
<1>7. a % d = a - d * (a \div d)
  BY <1>3
<1>8. d * q = q * d
  BY <1>5
<1> QED
  BY <1>1, <1>2, <1>3, <1>4, <1>6, <1>7, <1>8

\* The function that LittleEndian is the last value of.
Values(f, bytes) ==
  f = [k \in 0..Len(bytes) |->
         IF k = 0 THEN 0 ELSE f[k - 1] * Base + bytes[Len(bytes) - k + 1]]

ValuesTo(f, m, bytes) ==
  /\ f \in [0..m -> Nat] /\ f[0] = 0
  /\ \A k \in 1..m : f[k] = f[k - 1] * Base + bytes[m - k + 1]

LEMMA LittleEndianIs ==
  ASSUME NEW m \in Nat, NEW bytes \in [1..m -> Byte]
  PROVE  \E f : ValuesTo(f, m, bytes) /\ LittleEndian(bytes) = f[m]
<1>1. Len(bytes) = m
  OBVIOUS
<1>2. PICK step : step = [k \in 1..m |-> [v \in Nat |-> v * Base + bytes[m - k + 1]]]
  OBVIOUS
<1>3. \A k \in 1..m : m - k + 1 \in 1..m /\ bytes[m - k + 1] \in Nat
  <2>1. \A k \in 1..m : m - k + 1 \in 1..m
    OBVIOUS
  <2>2. \A k \in 1..m : bytes[k] \in Byte
    OBVIOUS
  <2> QED
    BY <2>1, <2>2, BaseFacts
<1>4. step \in [1..m -> [Nat -> Nat]]
  <2>1. ASSUME NEW k \in 1..m, NEW v \in Nat PROVE v * Base + bytes[m - k + 1] \in Nat
    <3>1. v * Base \in Nat
      BY BaseFacts, MulNat
    <3> QED
      BY <1>3, <3>1
  <2> QED
    BY <1>2, <2>1
<1>5. PICK g : Goes(g, m, 0, step)
  BY <1>4, StepsExist
<1>6. Values(g, bytes)
  <2>1. g = [k \in 0..m |-> g[k]]
    BY <1>5 DEF Goes
  <2>2. ASSUME NEW k \in 0..m
        PROVE  g[k] = IF k = 0 THEN 0 ELSE g[k - 1] * Base + bytes[m - k + 1]
    <3>1. k # 0 => k \in 1..m /\ k - 1 \in 0..m
      OBVIOUS
    <3>2. k # 0 => g[k] = step[k][g[k - 1]] /\ g[k - 1] \in Nat
      BY <1>5, <3>1 DEF Goes
    <3>3. k # 0 => step[k][g[k - 1]] = g[k - 1] * Base + bytes[m - k + 1]
      BY <1>2, <3>1, <3>2
    <3>4. g[0] = 0
      BY <1>5 DEF Goes
    <3> QED
      BY <3>2, <3>3, <3>4
  <2> QED
    BY <1>1, <2>1, <2>2 DEF Values
<1>7. PICK f : f = CHOOSE h : Values(h, bytes)
  OBVIOUS
<1>8. Values(f, bytes)
  BY <1>6, <1>7
<1>9. LittleEndian(bytes) = f[m]
  BY <1>1, <1>7, Zenon DEF LittleEndian, Values
<1>10. /\ f = [k \in 0..m |-> f[k]] /\ f[0] = 0
       /\ \A k \in 1..m : f[k] = f[k - 1] * Base + bytes[m - k + 1]
  <2>1. f = [k \in 0..m |-> IF k = 0 THEN 0 ELSE f[k - 1] * Base + bytes[m - k + 1]]
    BY <1>1, <1>8 DEF Values
  <2>2. 0 \in 0..m /\ \A k \in 1..m : k \in 0..m /\ k # 0
    OBVIOUS
  <2>3. \A k \in 0..m : f[k] = IF k = 0 THEN 0 ELSE f[k - 1] * Base + bytes[m - k + 1]
    BY <2>1
  <2>4. DOMAIN f = 0..m /\ f = [k \in DOMAIN f |-> f[k]]
    BY <2>1
  <2> QED
    BY <2>2, <2>3, <2>4
<1>11. \A k \in 0..m : f[k] \in Nat
  <2> DEFINE P == {k \in 0..m : f[k] \in Nat}
  <2>1. 0 \in P
    BY <1>10
  <2>2. ASSUME NEW k \in 1..m, k - 1 \in P PROVE k \in P
    <3>1. f[k - 1] \in Nat
      BY <2>2
    <3>2. f[k - 1] * Base \in Nat
      BY <3>1, BaseFacts, MulNat
    <3>3. f[k] \in Nat
      <4>1. PICK v, b : v = f[k - 1] * Base /\ b = bytes[m - k + 1]
        OBVIOUS
      <4>2. v \in Nat /\ b \in Nat /\ f[k] = v + b
        BY <1>3, <1>10, <3>2, <4>1
      <4> QED
        BY <4>2
    <3> QED
      BY <3>3
  <2> HIDE DEF P
  <2>3. \A k \in 0..m : k \in P
    BY <2>1, <2>2, CountInduction
  <2> QED
    BY <2>3 DEF P
<1>12. f \in [0..m -> Nat]
  BY <1>10, <1>11
<1> QED
  BY <1>9, <1>10, <1>12 DEF ValuesTo

\* The function that ToBytes takes its bytes from.
Lefts(f, number, length) ==
  f = [k \in 0..length |-> IF k = 0 THEN number ELSE f[k - 1] \div Base]

TheLefts(number, length) == CHOOSE f : Lefts(f, number, length)

LeftsTo(f, number, m) ==
  f \in [0..m -> Nat] /\ f[0] = number /\ \A k \in 1..m : f[k] = f[k - 1] \div Base

LEMMA ToBytesIs ==
  ASSUME NEW number \in Nat, NEW m \in Nat
  PROVE  \E f : LeftsTo(f, number, m) /\ ToBytes(number, m) = [k \in 1..m |-> f[k - 1] % Base]
<1>1. PICK step : step = [k \in 1..m |-> [v \in Nat |-> v \div Base]]
  OBVIOUS
<1>2. \A v \in Nat : v \div Base \in Nat
  BY BaseFacts, DivFacts
<1>3. step \in [1..m -> [Nat -> Nat]]
  BY <1>1, <1>2
<1>4. PICK g : Goes(g, m, number, step)
  BY <1>3, StepsExist
<1>5. Lefts(g, number, m)
  <2>1. g = [k \in 0..m |-> g[k]]
    BY <1>4 DEF Goes
  <2>2. ASSUME NEW k \in 0..m
        PROVE  g[k] = IF k = 0 THEN number ELSE g[k - 1] \div Base
    <3>1. k # 0 => k \in 1..m /\ k - 1 \in 0..m
      OBVIOUS
    <3>2. k # 0 => g[k] = step[k][g[k - 1]] /\ g[k - 1] \in Nat
      BY <1>4, <3>1 DEF Goes
    <3>3. k # 0 => step[k][g[k - 1]] = g[k - 1] \div Base
      BY <1>1, <3>1, <3>2
    <3>4. g[0] = number
      BY <1>4 DEF Goes
    <3> QED
      BY <3>2, <3>3, <3>4
  <2> QED
    BY <2>1, <2>2 DEF Lefts
<1>6. PICK f : f = TheLefts(number, m)
  OBVIOUS
<1>7. Lefts(f, number, m)
  BY <1>5, <1>6 DEF TheLefts
<1>8. ToBytes(number, m) = [k \in 1..m |-> f[k - 1] % Base]
  <2>1. ToBytes(number, m) = [k \in 1..m |-> TheLefts(number, m)[k - 1] % Base]
    BY Zenon DEF ToBytes, Lefts, TheLefts
  <2> QED
    BY <1>6, <2>1
<1>9. /\ f = [k \in 0..m |-> f[k]] /\ f[0] = number
      /\ \A k \in 1..m : f[k] = f[k - 1] \div Base
  <2>1. f = [k \in 0..m |-> IF k = 0 THEN number ELSE f[k - 1] \div Base]
    BY <1>7 DEF Lefts
  <2>2. 0 \in 0..m /\ \A k \in 1..m : k \in 0..m /\ k # 0
    OBVIOUS
  <2>3. \A k \in 0..m : f[k] = IF k = 0 THEN number ELSE f[k - 1] \div Base
    BY <2>1
  <2>4. DOMAIN f = 0..m /\ f = [k \in DOMAIN f |-> f[k]]
    BY <2>1
  <2> QED
    BY <2>2, <2>3, <2>4
<1>10. \A k \in 0..m : f[k] \in Nat
  <2> DEFINE P == {k \in 0..m : f[k] \in Nat}
  <2>1. 0 \in P
    BY <1>9
  <2>2. ASSUME NEW k \in 1..m, k - 1 \in P PROVE k \in P
    <3>1. f[k - 1] \in Nat
      BY <2>2
    <3>2. f[k] \in Nat
      BY <1>2, <1>9, <3>1
    <3> QED
      BY <3>2
  <2> HIDE DEF P
  <2>3. \A k \in 0..m : k \in P
    BY <2>1, <2>2, CountInduction
  <2> QED
    BY <2>3 DEF P
<1>11. f \in [0..m -> Nat]
  BY <1>9, <1>10
<1> QED
  BY <1>8, <1>9, <1>11 DEF LeftsTo

\* A number that was read from bytes is written as the same bytes.
LEMMA BytesBack ==
  ASSUME NEW m \in Nat, NEW bytes \in [1..m -> Byte]
  PROVE  LittleEndian(bytes) \in Nat /\ ToBytes(LittleEndian(bytes), m) = bytes
<1>1. PICK f : ValuesTo(f, m, bytes) /\ LittleEndian(bytes) = f[m]
  BY LittleEndianIs
<1>2. /\ f \in [0..m -> Nat] /\ f[0] = 0
      /\ \A k \in 1..m : f[k] = f[k - 1] * Base + bytes[m - k + 1]
  BY <1>1 DEF ValuesTo
<1>3. PICK number : number = f[m]
  OBVIOUS
<1>4. number \in Nat
  BY <1>2, <1>3
<1>5. PICK g : LeftsTo(g, number, m) /\ ToBytes(number, m) = [k \in 1..m |-> g[k - 1] % Base]
  BY <1>4, ToBytesIs
<1>6. /\ g \in [0..m -> Nat] /\ g[0] = number
      /\ \A k \in 1..m : g[k] = g[k - 1] \div Base
  BY <1>5 DEF LeftsTo
<1>7. ASSUME NEW k \in 1..m
      PROVE  f[k] \div Base = f[k - 1] /\ f[k] % Base = bytes[m - k + 1]
  <2>1. PICK v, b : v = f[k - 1] /\ b = bytes[m - k + 1]
    OBVIOUS
  <2>2. k - 1 \in 0..m /\ m - k + 1 \in 1..m
    OBVIOUS
  <2>3. v \in Nat /\ b \in 0..(Base - 1) /\ f[k] = v * Base + b
    BY <1>2, <2>1, <2>2, BaseFacts
  <2>4. Base \in Nat \ {0}
    BY BaseFacts
  <2>5. (v * Base + b) \div Base = v /\ (v * Base + b) % Base = b
    BY <2>3, <2>4, Parts
  <2> QED
    BY <2>1, <2>3, <2>5, Zenon
<1>8. \A j \in 0..m : g[j] = f[m - j]
  <2> DEFINE P == {j \in 0..m : g[j] = f[m - j]}
  <2>1. 0 \in P
    BY <1>3, <1>6
  <2>2. ASSUME NEW j \in 1..m, j - 1 \in P PROVE j \in P
    <3>1. PICK k : k = m - j + 1
      OBVIOUS
    <3>2. k \in 1..m /\ m - (j - 1) = k /\ k - 1 = m - j
      BY <3>1
    <3>3. g[j - 1] = f[k]
      BY <2>2, <3>2
    <3>4. g[j] = f[k] \div Base
      BY <1>6, <3>3
    <3> QED
      BY <1>7, <3>2, <3>4
  <2> HIDE DEF P
  <2>3. \A j \in 0..m : j \in P
    BY <2>1, <2>2, CountInduction
  <2> QED
    BY <2>3 DEF P
<1>9. ASSUME NEW k \in 1..m PROVE g[k - 1] % Base = bytes[k]
  <2>1. PICK j : j = m - k + 1
    OBVIOUS
  <2>2. j \in 1..m /\ m - (k - 1) = j /\ m - j + 1 = k /\ k - 1 \in 0..m
    BY <2>1
  <2>3. g[k - 1] = f[j]
    BY <1>8, <2>2
  <2>4. f[j] % Base = bytes[k]
    BY <1>7, <2>2
  <2> QED
    BY <2>3, <2>4
<1>10. ToBytes(number, m) = bytes
  <2>1. bytes = [k \in 1..m |-> bytes[k]]
    OBVIOUS
  <2> QED
    BY <1>5, <1>9, <2>1
<1> QED
  BY <1>1, <1>3, <1>4, <1>10

\* No bytes are more than all the largest ones.
LEMMA LargestIsMost ==
  ASSUME NEW m \in Nat, NEW bytes \in [1..m -> Byte]
  PROVE  LittleEndian(bytes) <= Largest(m) /\ Largest(m) \in Nat
<1>1. PICK full : full = [k \in 1..m |-> Base - 1]
  OBVIOUS
<1>2. full \in [1..m -> Byte] /\ \A k \in 1..m : full[k] = Base - 1
  BY <1>1, BaseFacts DEF Byte
<1>3. PICK f : ValuesTo(f, m, bytes) /\ LittleEndian(bytes) = f[m]
  BY LittleEndianIs
<1>4. PICK h : ValuesTo(h, m, full) /\ LittleEndian(full) = h[m]
  BY <1>2, LittleEndianIs
<1>5. /\ f \in [0..m -> Nat] /\ f[0] = 0
      /\ \A k \in 1..m : f[k] = f[k - 1] * Base + bytes[m - k + 1]
  BY <1>3 DEF ValuesTo
<1>6. /\ h \in [0..m -> Nat] /\ h[0] = 0
      /\ \A k \in 1..m : h[k] = h[k - 1] * Base + full[m - k + 1]
  BY <1>4 DEF ValuesTo
<1>7. \A j \in 0..m : f[j] <= h[j]
  <2> DEFINE P == {j \in 0..m : f[j] <= h[j]}
  <2>1. 0 \in P
    BY <1>5, <1>6
  <2>2. ASSUME NEW j \in 1..m, j - 1 \in P PROVE j \in P
    <3>1. m - j + 1 \in 1..m /\ j - 1 \in 0..m
      OBVIOUS
    <3>2. PICK v, w, b : v = f[j - 1] /\ w = h[j - 1] /\ b = bytes[m - j + 1]
      OBVIOUS
    <3>3. v \in Nat /\ w \in Nat /\ v <= w /\ b \in 0..(Base - 1)
      BY <1>5, <1>6, <2>2, <3>1, <3>2, BaseFacts
    <3>4. f[j] = v * Base + b /\ h[j] = w * Base + (Base - 1)
      BY <1>2, <1>5, <1>6, <3>1, <3>2
    <3>5. v * Base <= w * Base /\ v * Base \in Nat /\ w * Base \in Nat
      BY <3>3, BaseFacts, MulMonotone, MulNat
    <3>6. f[j] <= h[j]
      BY <3>3, <3>4, <3>5, BaseFacts
    <3> QED
      BY <3>6
  <2> HIDE DEF P
  <2>3. \A j \in 0..m : j \in P
    BY <2>1, <2>2, CountInduction
  <2> QED
    BY <2>3 DEF P
<1>8. Largest(m) = h[m]
  BY <1>1, <1>4 DEF Largest
<1> QED
  BY <1>3, <1>6, <1>7, <1>8

-----------------------------------------------------------------------------
(* Parts of byte strings                                                   *)

\* What every string of the specification is: a tag, and bytes after it.
WellFormed(d) == d \in Seq(Nat) /\ \A k \in 2..Len(d) : d[k] \in Byte

\* A slice of m from some byte on lies within a string.
Within(S, d, from, m) ==
  d \in Seq(S) /\ from \in Nat \ {0} /\ m \in Nat /\ from + m - 1 <= Len(d)

IsSlice(x, S, d, from, m) ==
  x \in Seq(S) /\ Len(x) = m /\ \A k \in 1..m : x[k] = d[from + k - 1]

LEMMA SliceIs ==
  ASSUME NEW S, NEW d, NEW from, NEW m, Within(S, d, from, m)
  PROVE  IsSlice(Slice(d, from, m), S, d, from, m)
<1>0. d \in Seq(S) /\ from \in Nat \ {0} /\ m \in Nat /\ from + m - 1 <= Len(d)
  BY DEF Within
<1>1. PICK last : last = from + m - 1
  OBVIOUS
<1>2. last \in Int /\ from \in Int /\ last - from + 1 = m /\ (from <= last <=> m > 0)
  BY <1>0, <1>1
<1>3. \A k \in from..last : d[k] \in S
  <2>1. \A k \in from..last : k \in 1..Len(d)
    BY <1>0, <1>1, <1>2
  <2> QED
    BY <1>0, <2>1, ElementOfSeq
<1>4. /\ SubSeq(d, from, last) \in Seq(S)
      /\ Len(SubSeq(d, from, last)) = IF from <= last THEN last - from + 1 ELSE 0
      /\ \A k \in 1..(last - from + 1) : SubSeq(d, from, last)[k] = d[from + k - 1]
  BY <1>0, <1>2, <1>3, SubSeqProperties
<1>5. Slice(d, from, m) = SubSeq(d, from, last)
  BY <1>1 DEF Slice
<1> QED
  BY <1>0, <1>2, <1>4, <1>5 DEF IsSlice

\* After the tag there are bytes only.
LEMMA SliceOfBytes ==
  ASSUME NEW d, WellFormed(d), NEW from, from # 1, NEW m, Within(Nat, d, from, m)
  PROVE  /\ Slice(d, from, m) \in [1..m -> Byte] /\ Len(Slice(d, from, m)) = m
         /\ \A k \in 1..m : Slice(d, from, m)[k] = d[from + k - 1]
<1>1. d \in Seq(Nat) /\ \A k \in 2..Len(d) : d[k] \in Byte
  BY DEF WellFormed
<1>2. PICK part : part = Slice(d, from, m)
  OBVIOUS
<1>3. part \in Seq(Nat) /\ Len(part) = m /\ \A k \in 1..m : part[k] = d[from + k - 1]
  <2>1. IsSlice(Slice(d, from, m), Nat, d, from, m)
    BY SliceIs, Zenon
  <2> QED
    BY <1>2, <2>1 DEF IsSlice
<1>4. \A k \in 1..m : from + k - 1 \in 2..Len(d)
  <2>1. from \in Nat \ {0} /\ from # 1 /\ m \in Nat /\ from + m - 1 <= Len(d)
    BY DEF Within
  <2> QED
    BY <1>1, <2>1
<1>5. \A k \in 1..m : part[k] \in Byte
  BY <1>1, <1>3, <1>4
<1>6. part \in [1..m -> Nat]
  BY <1>3, LenProperties
<1>7. part \in [1..m -> Byte]
  BY <1>5, <1>6
<1> QED
  BY <1>2, <1>3, <1>7

\* Two slices side by side are one.
LEMMA Joined ==
  ASSUME NEW S, NEW d \in Seq(S), NEW from \in Nat \ {0}, NEW m \in Nat, NEW k \in Nat,
         from + m + k - 1 <= Len(d)
  PROVE  Slice(d, from, m) \o Slice(d, from + m, k) = Slice(d, from, m + k)
<1>1. PICK s, t, both : s = Slice(d, from, m) /\ t = Slice(d, from + m, k)
                        /\ both = Slice(d, from, m + k)
  OBVIOUS
<1>2. s \in Seq(S) /\ Len(s) = m /\ \A j \in 1..m : s[j] = d[from + j - 1]
  <2>1. Within(S, d, from, m)
    BY <1>1 DEF Within
  <2>2. IsSlice(Slice(d, from, m), S, d, from, m)
    BY <2>1, SliceIs, Zenon
  <2> QED
    BY <1>1, <2>2 DEF IsSlice
<1>3. t \in Seq(S) /\ Len(t) = k /\ \A j \in 1..k : t[j] = d[from + m + j - 1]
  <2>1. PICK next : next = from + m
    OBVIOUS
  <2>2. next \in Nat \ {0} /\ next + k - 1 <= Len(d)
    BY <2>1
  <2>3. t \in Seq(S) /\ Len(t) = k /\ \A j \in 1..k : t[j] = d[next + j - 1]
    <3>1. Within(S, d, next, k)
      BY <1>1, <2>1, <2>2 DEF Within
    <3>2. IsSlice(Slice(d, next, k), S, d, next, k)
      BY <3>1, SliceIs, Zenon
    <3> QED
      BY <1>1, <2>1, <2>2, <3>2 DEF IsSlice
  <2> QED
    BY <2>1, <2>3
<1>4. both \in Seq(S) /\ Len(both) = m + k /\ \A j \in 1..(m + k) : both[j] = d[from + j - 1]
  <2>1. PICK length : length = m + k
    OBVIOUS
  <2>2. length \in Nat /\ from + length - 1 <= Len(d)
    BY <2>1
  <2>3. both \in Seq(S) /\ Len(both) = length /\ \A j \in 1..length : both[j] = d[from + j - 1]
    <3>1. Within(S, d, from, length)
      BY <1>1, <2>1, <2>2 DEF Within
    <3>2. IsSlice(Slice(d, from, length), S, d, from, length)
      BY <3>1, SliceIs, Zenon
    <3> QED
      BY <1>1, <2>1, <2>2, <3>2 DEF IsSlice
  <2> QED
    BY <2>1, <2>3
<1>5. PICK st : st = s \o t
  OBVIOUS
<1>6. /\ st \in Seq(S) /\ Len(st) = m + k
      /\ \A j \in 1..(m + k) : st[j] = IF j <= m THEN s[j] ELSE t[j - m]
  <2>1. PICK x, y, z : x = Len(s) /\ y = Len(t) /\ z = x + y
    OBVIOUS
  <2>2. /\ s \o t \in Seq(S) /\ Len(s \o t) = Len(s) + Len(t)
        /\ \A j \in 1..(Len(s) + Len(t)) :
             (s \o t)[j] = IF j <= Len(s) THEN s[j] ELSE t[j - Len(s)]
    BY <1>2, <1>3, ConcatProperties, Zenon
  <2>3. x = m /\ z = m + k
    BY <1>2, <1>3, <2>1, Zenon
  <2> QED
    BY <1>5, <2>1, <2>2, <2>3, Zenon
<1>7. ASSUME NEW j \in 1..(m + k) PROVE st[j] = both[j]
  <2>1. CASE j <= m
    <3>1. j \in 1..m
      BY <2>1
    <3> QED
      BY <1>2, <1>4, <1>6, <2>1, <3>1
  <2>2. CASE ~(j <= m)
    <3>1. PICK h : h = j - m
      OBVIOUS
    <3>2. h \in 1..k /\ from + m + h - 1 = from + j - 1
      BY <2>2, <3>1
    <3>3. t[h] = d[from + j - 1]
      BY <1>3, <3>2
    <3> QED
      BY <1>4, <1>6, <2>2, <3>1, <3>3
  <2> QED
    BY <2>1, <2>2
<1>8. st = both
  BY <1>4, <1>6, <1>7, SeqEqual
<1> QED
  BY <1>1, <1>5, <1>8

LEMMA WholeSlice ==
  ASSUME NEW S, NEW d \in Seq(S)
  PROVE  Slice(d, 1, Len(d)) = d
<1>1. PICK m : m = Len(d)
  OBVIOUS
<1>2. m \in Nat /\ 1 + m - 1 <= Len(d)
  BY <1>1
<1>3. PICK part : part = Slice(d, 1, m)
  OBVIOUS
<1>4. part \in Seq(S) /\ Len(part) = m /\ \A k \in 1..m : part[k] = d[1 + k - 1]
  <2>1. Within(S, d, 1, m)
    BY <1>2, <1>3 DEF Within
  <2>2. IsSlice(Slice(d, 1, m), S, d, 1, m)
    BY <2>1, SliceIs, Zenon
  <2> QED
    BY <1>2, <1>3, <2>2 DEF IsSlice
<1>5. \A k \in 1..m : 1 + k - 1 = k
  BY <1>2
<1>6. part = d
  BY <1>1, <1>4, <1>5, SeqEqual
<1> QED
  BY <1>1, <1>3, <1>6

LEMMA SliceOfOne ==
  ASSUME NEW S, NEW d \in Seq(S), NEW k \in 1..Len(d)
  PROVE  Slice(d, k, 1) = <<d[k]>>
<1>1. PICK part : part = Slice(d, k, 1)
  OBVIOUS
<1>2. PICK one : one = <<d[k]>>
  OBVIOUS
<1>3. part \in Seq(S) /\ Len(part) = 1 /\ part[1] = d[k]
  <2>1. PICK m : m = 1
    OBVIOUS
  <2>2. k \in Nat \ {0} /\ m \in Nat /\ k + m - 1 <= Len(d)
    BY <2>1, LenProperties
  <2>3. part = Slice(d, k, m)
    BY <1>1, <2>1
  <2>4. /\ part \in Seq(S) /\ Len(part) = m
        /\ \A j \in 1..m : part[j] = d[k + j - 1]
    <3>1. Within(S, d, k, m)
      BY <2>2, <2>3 DEF Within
    <3>2. IsSlice(Slice(d, k, m), S, d, k, m)
      BY <3>1, SliceIs, Zenon
    <3> QED
      BY <2>2, <2>3, <3>2 DEF IsSlice
  <2>5. 1 \in 1..m /\ k + 1 - 1 = k
    BY <2>1
  <2>6. part[1] = d[k + 1 - 1]
    BY <2>4, <2>5
  <2> QED
    BY <2>1, <2>4, <2>5, <2>6
<1>5. one \in Seq(S) /\ Len(one) = 1 /\ one[1] = d[k]
  BY <1>2, ElementOfSeq
<1>6. part = one
  BY <1>3, <1>5, SeqEqual
<1> QED
  BY <1>1, <1>2, <1>6

\* The program reads what follows the tag, the SDK the whole.
LEMMA SliceOfTail ==
  ASSUME NEW S, NEW d \in Seq(S), d # <<>>, NEW from \in Nat \ {0}, NEW m \in Nat,
         from + m <= Len(d)
  PROVE  Slice(Tail(d), from, m) = Slice(d, from + 1, m)
<1>1. PICK rest : rest = Tail(d)
  OBVIOUS
<1>2. rest \in Seq(S) /\ Len(rest) = Len(d) - 1 /\ \A k \in 1..Len(rest) : rest[k] = d[k + 1]
  BY <1>1, HeadTailProperties
<1>3. PICK s, t, next : s = Slice(rest, from, m) /\ t = Slice(d, next, m) /\ next = from + 1
  OBVIOUS
<1>4. s \in Seq(S) /\ Len(s) = m /\ \A k \in 1..m : s[k] = rest[from + k - 1]
  <2>1. from + m - 1 <= Len(rest)
    BY <1>2
  <2> QED
    <3>1. Within(S, rest, from, m)
      BY <1>2, <1>3, <2>1 DEF Within
    <3>2. IsSlice(Slice(rest, from, m), S, rest, from, m)
      BY <3>1, SliceIs, Zenon
    <3> QED
      BY <1>2, <1>3, <2>1, <3>2 DEF IsSlice
<1>5. t \in Seq(S) /\ Len(t) = m /\ \A k \in 1..m : t[k] = d[next + k - 1]
  <2>1. next \in Nat \ {0} /\ next + m - 1 <= Len(d)
    BY <1>3
  <2> QED
    <3>1. Within(S, d, next, m)
      BY <1>3, <2>1 DEF Within
    <3>2. IsSlice(Slice(d, next, m), S, d, next, m)
      BY <3>1, SliceIs, Zenon
    <3> QED
      BY <1>3, <2>1, <3>2 DEF IsSlice
<1>6. ASSUME NEW k \in 1..m PROVE s[k] = t[k]
  <2>1. PICK h : h = from + k - 1
    OBVIOUS
  <2>2. h \in 1..Len(rest) /\ h + 1 = next + k - 1
    BY <1>2, <1>3, <2>1
  <2>3. rest[h] = d[h + 1]
    BY <1>2, <2>2
  <2> QED
    BY <1>4, <1>5, <2>1, <2>2, <2>3
<1>7. s = t
  BY <1>4, <1>5, <1>6, SeqEqual
<1> QED
  BY <1>1, <1>3, <1>7

-----------------------------------------------------------------------------
(* What the program reads and what the SDK does                            *)

LEMMA Headers ==
  ASSUME NEW tag \in SettleTags
  PROVE  /\ tag \in {5, 6} /\ tag \in Nat /\ DecimalsBytes(tag) \in {0, 1}
         /\ HeaderLength(tag) \in Nat
         /\ HeaderLength(tag) = Key + AmountBytes + DecimalsBytes(tag) + 1
<1>1. tag \in {5, 6}
  BY DEF SettleTags, SETTLE_N_TAG, SETTLE_TOKEN_N_TAG
<1>2. DecimalsBytes(tag) \in {0, 1}
  BY DEF DecimalsBytes
<1> QED
  BY <1>1, <1>2, WidthFacts DEF HeaderLength

\* Of c parts of w bytes, part k is inside.
LEMMA PartRoom ==
  ASSUME NEW w \in Nat, NEW c \in Nat, NEW k \in 1..c
  PROVE  /\ w * c \in Nat /\ w * (k - 1) \in Nat
         /\ w * (k - 1) + w <= w * c
<1>1. PICK j : j = k - 1
  OBVIOUS
<1>2. j \in Nat /\ j + 1 <= c /\ j + 1 \in Nat /\ 1 \in Nat
  BY <1>1
<1>3. w * (j + 1) <= w * c /\ w * j \in Nat /\ w * c \in Nat
  BY <1>2, MulMonotone, MulNat
<1>4. w * (j + 1) = w * j + w * 1
  BY <1>2, Distribute
<1>5. w * 1 = w
  OBVIOUS
<1> QED
  BY <1>1, <1>3, <1>4, <1>5

\* When the bytes d are those of a settlement, by the program and by the SDK ...
Settles(tag, d) ==
  /\ Len(d) >= 1 + HeaderLength(tag)
  /\ d[1 + HeaderLength(tag)] \in 1..MaxShares
  /\ Len(d) = 1 + HeaderLength(tag) + BpsBytes * d[1 + HeaderLength(tag)]

\* ... and of which.
SettlementIn(tag, d) ==
  Settlement(tag, Slice(d, 2, Key), LittleEndian(Slice(d, Key + 2, AmountBytes)),
             Slice(d, Key + AmountBytes + 2, DecimalsBytes(tag)),
             BpsAt(d, 2 + HeaderLength(tag), d[1 + HeaderLength(tag)]))

LEMMA BpsOfTail ==
  ASSUME NEW d \in Seq(Nat), d # <<>>, NEW from \in Nat \ {0}, NEW c \in Nat,
         from + BpsBytes * c <= Len(d)
  PROVE  BpsAt(Tail(d), from, c) = BpsAt(d, from + 1, c)
<1>1. ASSUME NEW k \in 1..c
      PROVE  LittleEndian(Slice(Tail(d), from + BpsBytes * (k - 1), BpsBytes))
               = LittleEndian(Slice(d, from + 1 + BpsBytes * (k - 1), BpsBytes))
  <2>1. PICK b, off, all : b = BpsBytes /\ off = BpsBytes * (k - 1) /\ all = BpsBytes * c
    OBVIOUS
  <2>2. b \in Nat /\ off \in Nat /\ all \in Nat /\ off + b <= all
    BY <2>1, PartRoom, WidthFacts
  <2>3. PICK at : at = from + off
    OBVIOUS
  <2>4. at \in Nat \ {0} /\ at + b <= Len(d) /\ at + 1 = from + 1 + off
    BY <2>1, <2>2, <2>3, LenProperties
  <2>5. Slice(Tail(d), at, b) = Slice(d, at + 1, b)
    BY <2>2, <2>4, SliceOfTail
  <2> QED
    BY <2>1, <2>3, <2>4, <2>5
<1> QED
  BY <1>1 DEF BpsAt

LEMMA UnpackSettlementIs ==
  ASSUME NEW d \in Seq(Nat), d # <<>>, NEW tag \in SettleTags
  PROVE  UnpackSettlement(tag, Tail(d)) = IF Settles(tag, d) THEN SettlementIn(tag, d) ELSE Refused
<1>1. PICK rest, h : rest = Tail(d) /\ h = HeaderLength(tag)
  OBVIOUS
<1>2. rest \in Seq(Nat) /\ Len(rest) = Len(d) - 1 /\ \A k \in 1..Len(rest) : rest[k] = d[k + 1]
  BY <1>1, HeadTailProperties
<1>3. h \in Nat /\ h = Key + AmountBytes + DecimalsBytes(tag) + 1 /\ Len(d) \in Nat
  BY <1>1, Headers, LenProperties
<1>4. DecimalsBytes(tag) \in {0, 1} /\ h >= 1
  BY <1>3, Headers, WidthFacts
<1>5. CASE Len(rest) < h
  <2>1. UnpackSettlement(tag, rest) = Refused
    BY <1>1, <1>5 DEF UnpackSettlement
  <2>2. ~Settles(tag, d)
    BY <1>1, <1>2, <1>3, <1>5 DEF Settles
  <2> QED
    BY <1>1, <2>1, <2>2
<1>6. CASE ~(Len(rest) < h)
  <2>1. PICK c : c = rest[h]
    OBVIOUS
  <2>2. h \in 1..Len(rest) /\ 1 + h = h + 1
    BY <1>2, <1>3, <1>4, <1>6
  <2>3. c = d[1 + h]
    BY <1>2, <2>1, <2>2
  <2>4. PICK all : all = BpsBytes * c
    OBVIOUS
  <2>5. CASE c \notin 1..MaxShares
    <3>1. UnpackSettlement(tag, rest) = Refused
      BY <1>1, <2>1, <2>5 DEF UnpackSettlement
    <3>2. ~Settles(tag, d)
      BY <1>1, <2>3, <2>5 DEF Settles
    <3> QED
      BY <1>1, <3>1, <3>2
  <2>6. CASE c \in 1..MaxShares
    <3>1. c \in Nat /\ all \in Nat /\ MaxShares \in Nat
      <4>1. c \in Nat /\ BpsBytes \in Nat
        BY <2>6, WidthFacts
      <4> QED
        BY <2>4, <4>1, MulNat, WidthFacts
    <3>2. LengthOk(rest, tag, c) <=> Len(rest) = h + all
      BY <1>1, <2>4 DEF LengthOk
    <3>3. Settles(tag, d) <=> Len(d) = 1 + h + all
      <4>1. Len(d) >= 1 + h
        BY <1>2, <1>3, <1>6
      <4> QED
        BY <1>1, <2>3, <2>4, <2>6, <4>1 DEF Settles
    <3>4. Settles(tag, d) <=> LengthOk(rest, tag, c)
      <4>1. PICK l, r : l = Len(d) /\ r = Len(rest)
        OBVIOUS
      <4>2. l \in Nat /\ r = l - 1
        BY <1>2, <1>3, <4>1
      <4>3. l = 1 + h + all <=> r = h + all
        BY <1>3, <3>1, <4>2
      <4> QED
        BY <3>2, <3>3, <4>1, <4>3, Zenon
    <3>5. CASE ~Settles(tag, d)
      <4>1. UnpackSettlement(tag, rest) = Refused
        BY <1>1, <2>1, <3>4, <3>5 DEF UnpackSettlement
      <4> QED
        BY <1>1, <3>5, <4>1
    <3>6. CASE Settles(tag, d)
      <4>1. Len(d) = 1 + h + all
        BY <3>3, <3>6
      <4>2. UnpackSettlement(tag, rest)
              = Settlement(tag, Slice(rest, 1, Key), LittleEndian(Slice(rest, Key + 1, AmountBytes)),
                           Slice(rest, Key + AmountBytes + 1, DecimalsBytes(tag)),
                           BpsAt(rest, h + 1, c))
        BY <1>1, <1>6, <2>1, <2>6, <3>4, <3>6 DEF UnpackSettlement
      <4>3. PICK dec, w, a : dec = DecimalsBytes(tag) /\ w = Key /\ a = AmountBytes
        OBVIOUS
      <4>4. /\ dec \in Nat /\ w \in Nat /\ a \in Nat /\ h = w + a + dec + 1
            /\ 1 + w <= Len(d) /\ w + 1 + a <= Len(d) /\ w + a + 1 + dec <= Len(d)
            /\ w + 1 \in Nat \ {0} /\ w + a + 1 \in Nat \ {0} /\ 1 \in Nat \ {0}
        <5>1. PICK l : l = Len(d)
          OBVIOUS
        <5>2. dec \in Nat /\ w \in Nat /\ a \in Nat /\ h = w + a + dec + 1
          BY <1>3, <1>4, <4>3, WidthFacts
        <5>3. 1 + w <= l /\ w + 1 + a <= l /\ w + a + 1 + dec <= l
          BY <1>3, <3>1, <4>1, <5>1, <5>2
        <5> QED
          BY <5>1, <5>2, <5>3
      <4>5. Slice(rest, 1, w) = Slice(d, 1 + 1, w)
        BY <1>1, <4>4, SliceOfTail
      <4>6. Slice(rest, w + 1, a) = Slice(d, w + 1 + 1, a)
        BY <1>1, <4>4, SliceOfTail
      <4>7. Slice(rest, w + a + 1, dec) = Slice(d, w + a + 1 + 1, dec)
        BY <1>1, <4>4, SliceOfTail
      <4>8. BpsAt(rest, h + 1, c) = BpsAt(d, h + 1 + 1, c)
        <5>1. PICK next : next = h + 1
          OBVIOUS
        <5>2. next \in Nat \ {0} /\ next + all <= Len(d)
          BY <1>3, <3>1, <4>1, <5>1
        <5>3. BpsAt(Tail(d), next, c) = BpsAt(d, next + 1, c)
          BY <2>4, <3>1, <5>2, BpsOfTail
        <5> QED
          BY <1>1, <5>1, <5>3
      <4>9. 1 + 1 = 2 /\ w + 1 + 1 = w + 2 /\ w + a + 1 + 1 = w + a + 2 /\ h + 1 + 1 = 2 + h
        BY <1>3, <4>4
      <4>10. UnpackSettlement(tag, rest) = SettlementIn(tag, d)
        <5>1. UnpackSettlement(tag, rest)
                = Settlement(tag, Slice(d, 2, w), LittleEndian(Slice(d, w + 2, a)),
                             Slice(d, w + a + 2, dec), BpsAt(d, 2 + h, c))
          BY <4>2, <4>3, <4>5, <4>6, <4>7, <4>8, <4>9
        <5>2. SettlementIn(tag, d)
                = Settlement(tag, Slice(d, 2, w), LittleEndian(Slice(d, w + 2, a)),
                             Slice(d, w + a + 2, dec), BpsAt(d, 2 + h, c))
          BY <1>1, <2>3, <4>3 DEF SettlementIn
        <5> QED
          BY <5>1, <5>2
      <4> QED
        BY <1>1, <3>6, <4>10
    <3> QED
      BY <3>5, <3>6
  <2> QED
    BY <2>5, <2>6
<1> QED
  BY <1>5, <1>6

LEMMA DecodeSettlementIs ==
  ASSUME NEW d \in Seq(Nat), NEW tag \in SettleTags
  PROVE  DecodeSettlement(tag, d)
           = IF d # <<>> /\ d[1] = tag /\ Settles(tag, d) THEN SettlementIn(tag, d) ELSE Refused
<1>1. PICK h : h = HeaderLength(tag)
  OBVIOUS
<1>2. h \in Nat /\ Len(d) \in Nat
  BY <1>1, Headers, LenProperties
<1>3. CASE d = <<>>
  <2>1. Len(d) < 1 + h
    BY <1>2, <1>3
  <2>2. DecodeSettlement(tag, d) = Refused
    BY <1>1, <2>1 DEF DecodeSettlement
  <2> QED
    BY <1>3, <2>2
<1>4. CASE d # <<>> /\ ~(d[1] = tag)
  BY <1>4 DEF DecodeSettlement
<1>5. CASE d # <<>> /\ d[1] = tag /\ ~Settles(tag, d)
  <2>1. PICK c : c = d[1 + h]
    OBVIOUS
  <2>2. Len(d) < 1 + h \/ c \notin 1..MaxShares \/ Len(d) # 1 + h + BpsBytes * c
    BY <1>1, <1>2, <1>5, <2>1 DEF Settles
  <2>3. DecodeSettlement(tag, d) = Refused
    BY <1>1, <2>1, <2>2 DEF DecodeSettlement, CountAt
  <2> QED
    BY <1>5, <2>3
<1>6. CASE d # <<>> /\ d[1] = tag /\ Settles(tag, d)
  <2>1. PICK c : c = d[1 + h]
    OBVIOUS
  <2>2. ~(Len(d) < 1 + h) /\ c \in 1..MaxShares /\ Len(d) = 1 + h + BpsBytes * c
    BY <1>1, <1>2, <1>6, <2>1 DEF Settles
  <2>3. DecodeSettlement(tag, d)
          = Settlement(tag, Slice(d, 2, Key), LittleEndian(Slice(d, Key + 2, AmountBytes)),
                       Slice(d, Key + AmountBytes + 2, DecimalsBytes(tag)), BpsAt(d, 1 + h + 1, c))
    BY <1>1, <1>6, <2>1, <2>2 DEF DecodeSettlement, CountAt
  <2>4. 1 + h + 1 = 2 + h
    BY <1>2
  <2>5. DecodeSettlement(tag, d) = SettlementIn(tag, d)
    BY <1>1, <2>1, <2>3, <2>4 DEF SettlementIn
  <2> QED
    BY <1>6, <2>5
<1> QED
  BY <1>3, <1>4, <1>5, <1>6

\* What the program makes of a string: nothing, or one of its four instructions.
LEMMA UnpackIs ==
  ASSUME NEW d \in Seq(Nat)
  PROVE  /\ d = <<>> => Unpack(d) = Refused
         /\ d # <<>> /\ d[1] \in SettleTags =>
              Unpack(d) = IF Settles(d[1], d) THEN SettlementIn(d[1], d) ELSE Refused
         /\ d # <<>> /\ d[1] \notin SettleTags =>
              \/ Unpack(d) = Refused
              \/ /\ d[1] = 3 /\ Len(Tail(d)) = 2 * Key
                 /\ Unpack(d) = [tag |-> d[1], id |-> Slice(Tail(d), 1, Key),
                                 authority |-> Slice(Tail(d), Key + 1, Key)]
              \/ /\ d[1] = 4 /\ Len(Tail(d)) = Key
                 /\ Unpack(d) = [tag |-> d[1], authority |-> Tail(d)]
<1>1. ASSUME d = <<>> PROVE Unpack(d) = Refused
  BY <1>1 DEF Unpack
<1>2. PICK t, rest : t = d[1] /\ rest = Tail(d)
  OBVIOUS
<1>3. CASE d # <<>>
  <2>1. Unpack(d) =
          CASE t = 3 /\ Len(rest) = 2 * Key ->
                 [tag |-> t, id |-> Slice(rest, 1, Key), authority |-> Slice(rest, Key + 1, Key)]
            [] t = 4 /\ Len(rest) = Key -> [tag |-> t, authority |-> rest]
            [] t \in SettleTags -> UnpackSettlement(t, rest)
            [] OTHER -> Refused
    BY <1>2, <1>3 DEF Unpack, CREATE_NAMESPACE_TAG, SET_NAMESPACE_AUTHORITY_TAG
  <2>2. t \in SettleTags => t \in {5, 6}
    BY Headers
  <2>3. t \in SettleTags => Unpack(d) = UnpackSettlement(t, rest)
    BY <2>1, <2>2
  <2>4. t \in SettleTags =>
          UnpackSettlement(t, rest) = IF Settles(t, d) THEN SettlementIn(t, d) ELSE Refused
    BY <1>2, <1>3, UnpackSettlementIs
  <2>5. t \notin SettleTags =>
          \/ Unpack(d) = Refused
          \/ /\ t = 3 /\ Len(rest) = 2 * Key
             /\ Unpack(d) = [tag |-> t, id |-> Slice(rest, 1, Key),
                             authority |-> Slice(rest, Key + 1, Key)]
          \/ t = 4 /\ Len(rest) = Key /\ Unpack(d) = [tag |-> t, authority |-> rest]
    BY <2>1
  <2> QED
    BY <1>2, <1>3, <2>3, <2>4, <2>5
<1> QED
  BY <1>1, <1>3

LEMMA ReadAlike ==
  ASSUME NEW d \in Seq(Nat), NEW tag \in SettleTags
  PROVE  DecodeSettlement(tag, d) = IF Unpack(d).tag = tag THEN Unpack(d) ELSE Refused
<1>1. PICK u, s : u = Unpack(d) /\ s = DecodeSettlement(tag, d)
  OBVIOUS
<1>2. PICK none : none = Refused
  OBVIOUS
<1>3. none.tag = -1 /\ tag # -1
  BY <1>2, Headers DEF Refused
<1>4. CASE d = <<>>
  <2>1. u = none /\ s = none
    BY <1>1, <1>2, <1>4, UnpackIs, DecodeSettlementIs
  <2> QED
    BY <1>1, <1>2, <2>1
<1>5. CASE d # <<>> /\ d[1] = tag
  <2>1. u = IF Settles(tag, d) THEN SettlementIn(tag, d) ELSE none
    BY <1>1, <1>2, <1>5, UnpackIs
  <2>2. s = IF Settles(tag, d) THEN SettlementIn(tag, d) ELSE none
    BY <1>1, <1>2, <1>5, DecodeSettlementIs
  <2>3. SettlementIn(tag, d).tag = tag
    BY DEF SettlementIn, Settlement
  <2> QED
    BY <1>1, <1>2, <1>3, <2>1, <2>2, <2>3
<1>6. CASE d # <<>> /\ d[1] # tag
  <2>1. s = none
    BY <1>1, <1>2, <1>6, DecodeSettlementIs
  <2>2. u = none \/ u.tag = d[1]
    <3>1. CASE d[1] \in SettleTags
      <4>1. u = IF Settles(d[1], d) THEN SettlementIn(d[1], d) ELSE none
        BY <1>1, <1>2, <1>6, <3>1, UnpackIs
      <4>2. SettlementIn(d[1], d).tag = d[1]
        BY DEF SettlementIn, Settlement
      <4> QED
        BY <4>1, <4>2
    <3>2. CASE d[1] \notin SettleTags
      BY <1>1, <1>2, <1>6, <3>2, UnpackIs
    <3> QED
      BY <3>1, <3>2
  <2> QED
    BY <1>1, <1>2, <1>3, <1>6, <2>1, <2>2
<1> QED
  BY <1>4, <1>5, <1>6

-----------------------------------------------------------------------------
(* What is read is written as it was                                       *)

\* A string up to some byte, and its next bytes.
LEMMA PrefixJoined ==
  ASSUME NEW S, NEW d \in Seq(S), NEW m \in Nat, NEW from, from = m + 1, NEW k \in Nat,
         m + k <= Len(d)
  PROVE  Slice(d, 1, m) \o Slice(d, from, k) = Slice(d, 1, m + k)
<1>1. PICK first : first = 1
  OBVIOUS
<1>2. first \in Nat \ {0} /\ first + m + k - 1 <= Len(d) /\ first + m = from
  BY <1>1, LenProperties
<1>3. Slice(d, first, m) \o Slice(d, first + m, k) = Slice(d, first, m + k)
  BY <1>2, Joined
<1> QED
  BY <1>1, <1>2, <1>3

LEMMA TailIsSlice ==
  ASSUME NEW S, NEW d \in Seq(S), d # <<>>
  PROVE  Tail(d) = Slice(d, 2, Len(d) - 1)
<1>1. PICK m : m = Len(d)
  OBVIOUS
<1>2. m \in Nat /\ 2 + (m - 1) - 1 = m
  BY <1>1, LenProperties
<1>3. Tail(d) = SubSeq(d, 2, m)
  BY <1>1, TailIsSubSeq
<1> QED
  BY <1>1, <1>2, <1>3 DEF Slice

LEMMA RestIs ==
  ASSUME NEW a \in Nat, NEW w \in Nat \ {0}
  PROVE  a % w = a - w * (a \div w)
OBVIOUS

\* Strings of one length, cut out of a string side by side ...
CutFrom(parts, d, from, w, c, all) ==
  /\ all = w * c
  /\ parts = [k \in 1..c |-> Slice(d, from + w * (k - 1), w)]

CutWithin(parts, d, from, w, c, all) ==
  /\ d \in Seq(Nat) /\ from \in Nat \ {0} /\ w \in Nat \ {0} /\ c \in Nat \ {0}
  /\ all \in Nat /\ from + all - 1 <= Len(d) /\ CutFrom(parts, d, from, w, c, all)

Parted(parts, d, from, w, c) ==
  /\ parts \in [1..c -> Seq(Nat)]
  /\ \A k \in 1..c :
       /\ Len(parts[k]) = w
       /\ \A j \in 1..w : parts[k][j] = d[from + w * (k - 1) + j - 1]

LEMMA CutParts ==
  ASSUME NEW parts, NEW d, NEW from, NEW w, NEW c, NEW all, CutWithin(parts, d, from, w, c, all)
  PROVE  Parted(parts, d, from, w, c)
<1>0. /\ d \in Seq(Nat) /\ from \in Nat \ {0} /\ w \in Nat \ {0} /\ c \in Nat \ {0}
      /\ all \in Nat /\ from + all - 1 <= Len(d)
  BY DEF CutWithin
<1>1. parts = [k \in 1..c |-> Slice(d, from + w * (k - 1), w)] /\ all = w * c
  BY DEF CutWithin, CutFrom
<1>2. ASSUME NEW k \in 1..c
      PROVE  /\ parts[k] \in Seq(Nat) /\ Len(parts[k]) = w
             /\ \A j \in 1..w : parts[k][j] = d[from + w * (k - 1) + j - 1]
  <2>1. PICK off : off = w * (k - 1)
    OBVIOUS
  <2>2. off \in Nat /\ off + w <= all
    BY <1>0, <1>1, <2>1, PartRoom
  <2>3. PICK at, l : at = from + off /\ l = Len(d)
    OBVIOUS
  <2>4. at \in Nat \ {0} /\ at + w - 1 <= Len(d)
    <3>1. l \in Nat /\ from + all - 1 <= l
      BY <1>0, <2>3, LenProperties
    <3> QED
      BY <1>0, <2>2, <2>3, <3>1
  <2>5. parts[k] = Slice(d, at, w)
    BY <1>1, <2>1, <2>3
  <2>6. /\ Slice(d, at, w) \in Seq(Nat) /\ Len(Slice(d, at, w)) = w
        /\ \A j \in 1..w : Slice(d, at, w)[j] = d[at + j - 1]
    <3>1. Within(Nat, d, at, w)
      BY <1>0, <2>4 DEF Within
    <3>2. IsSlice(Slice(d, at, w), Nat, d, at, w)
      BY <3>1, SliceIs, Zenon
    <3> QED
      BY <2>4, <3>2 DEF IsSlice
  <2> QED
    BY <2>1, <2>3, <2>5, <2>6
<1>3. parts \in [1..c -> Seq(Nat)]
  <2>1. DOMAIN parts = 1..c /\ parts = [k \in 1..c |-> parts[k]]
    BY <1>1
  <2> QED
    BY <1>2, <2>1
<1> QED
  BY <1>2, <1>3 DEF Parted

\* Where byte a of c parts of w bytes is.
LEMMA PlaceOf ==
  ASSUME NEW w \in Nat \ {0}, NEW c \in Nat, NEW a \in Nat, a < w * c
  PROVE  /\ a \div w \in 0..(c - 1) /\ a % w \in 0..(w - 1)
         /\ a = w * (a \div w) + (a % w)
<1>0. PICK q, r : q = a \div w /\ r = a % w
  OBVIOUS
<1>1. q \in Nat /\ q * w <= a /\ a < (q + 1) * w
  BY <1>0, DivFacts
<1>2. PICK x, all : x = w * q /\ all = w * c
  OBVIOUS
<1>3. all \in Nat /\ a < all
  BY <1>2, MulNat
<1>4. a % w = a - w * (a \div w)
  BY RestIs
<1>5. r = a - x
  BY <1>0, <1>2, <1>4, Zenon
<1>6. (q + 1) * w = q * w + w
  BY <1>1, Distribute
<1>7. q * w = x /\ x \in Nat
  BY <1>1, <1>2, MulNat
<1>8. x <= a /\ a < x + w
  BY <1>1, <1>6, <1>7
<1>9. r \in 0..(w - 1) /\ a = x + r
  BY <1>5, <1>7, <1>8
<1>10. ~(c <= q)
  <2>1. c <= q => w * c <= w * q
    BY <1>1, MulMonotone
  <2>2. c <= q => all <= x
    BY <1>2, <2>1
  <2> QED
    BY <1>3, <1>7, <1>8, <2>2
<1>11. q \in 0..(c - 1) /\ r \in 0..(w - 1) /\ a = w * q + r
  BY <1>1, <1>2, <1>9, <1>10
<1> QED
  BY <1>0, <1>11, Zenon

\* ... and put together again.
LEMMA FlattenedIs ==
  ASSUME NEW d \in Seq(Nat), NEW from \in Nat \ {0}, NEW w \in Nat \ {0}, NEW c \in Nat \ {0},
         NEW all \in Nat, from + all - 1 <= Len(d),
         NEW parts, CutFrom(parts, d, from, w, c, all)
  PROVE  Flattened(parts) = Slice(d, from, all)
<1>1. /\ parts \in [1..c -> Seq(Nat)]
      /\ \A k \in 1..c :
           /\ Len(parts[k]) = w
           /\ \A j \in 1..w : parts[k][j] = d[from + w * (k - 1) + j - 1]
  <2>1. CutWithin(parts, d, from, w, c, all)
    BY DEF CutWithin
  <2>2. Parted(parts, d, from, w, c)
    BY <2>1, CutParts, Zenon
  <2> QED
    BY <2>2 DEF Parted
<1>2. parts # <<>> /\ Len(parts) = c /\ Len(parts[1]) = w
  <2>1. 1 \in 1..c
    OBVIOUS
  <2>2. Len(parts) = c
    BY <1>1
  <2> QED
    BY <1>1, <2>1, <2>2
<1>3. PICK flat, whole : flat = Flattened(parts) /\ whole = Slice(d, from, all)
  OBVIOUS
<1>4. flat = [k \in 1..all |-> parts[((k - 1) \div w) + 1][((k - 1) % w) + 1]]
  <2>1. all = w * c
    BY DEF CutFrom
  <2>2. flat = [k \in 1..(w * c) |-> parts[((k - 1) \div w) + 1][((k - 1) % w) + 1]]
    BY <1>2, <1>3, Zenon DEF Flattened
  <2> QED
    BY <2>1, <2>2, Zenon
<1>5. whole \in Seq(Nat) /\ Len(whole) = all /\ \A k \in 1..all : whole[k] = d[from + k - 1]
  <2>1. d \in Seq(Nat) /\ from \in Nat \ {0} /\ all \in Nat /\ from + all - 1 <= Len(d)
    OBVIOUS
  <2>2. /\ Slice(d, from, all) \in Seq(Nat) /\ Len(Slice(d, from, all)) = all
        /\ \A k \in 1..all : Slice(d, from, all)[k] = d[from + k - 1]
    <3>1. Within(Nat, d, from, all)
      BY <2>1 DEF Within
    <3>2. IsSlice(Slice(d, from, all), Nat, d, from, all)
      BY <3>1, SliceIs, Zenon
    <3> QED
      BY <2>1, <3>2 DEF IsSlice
  <2> QED
    BY <1>3, <2>2
<1>6. whole = [k \in 1..all |-> whole[k]]
  BY <1>5, LenProperties
<1>7. ASSUME NEW k \in 1..all
      PROVE  parts[((k - 1) \div w) + 1][((k - 1) % w) + 1] = whole[k]
  <2>1. PICK a : a = k - 1
    OBVIOUS
  <2>2. PICK q, r : q = a \div w /\ r = a % w
    OBVIOUS
  <2>3. a \in Nat /\ a < all
    BY <2>1
  <2>4. all = w * c
    BY DEF CutFrom
  <2>5. q \in 0..(c - 1) /\ r \in 0..(w - 1) /\ a = w * q + r
    <3>1. a < w * c
      BY <2>3, <2>4, Zenon
    <3>2. /\ a \div w \in 0..(c - 1) /\ a % w \in 0..(w - 1)
          /\ a = w * (a \div w) + (a % w)
      BY <2>3, <3>1, PlaceOf
    <3> QED
      BY <2>2, <3>2, Zenon
  <2>6. q \in Nat
    BY <2>5
  <2>7. PICK h, j : h = q + 1 /\ j = r + 1
    OBVIOUS
  <2>8. h \in 1..c /\ j \in 1..w /\ h - 1 = q
    BY <2>5, <2>7
  <2>9. parts[h][j] = d[from + w * (h - 1) + j - 1]
    BY <1>1, <2>8
  <2>10. from + w * (h - 1) + j - 1 = from + k - 1
    <3>1. PICK x : x = w * q
      OBVIOUS
    <3>2. x \in Nat
      BY <2>6, <3>1, MulNat
    <3>3. w * (h - 1) = x /\ a = x + r /\ r \in Nat
      BY <2>5, <2>8, <3>1
    <3>4. from + x + j - 1 = from + k - 1
      BY <2>1, <2>7, <3>2, <3>3
    <3> QED
      BY <3>3, <3>4, Zenon
  <2>11. whole[k] = d[from + k - 1]
    BY <1>5
  <2> QED
    BY <2>1, <2>2, <2>7, <2>9, <2>10, <2>11
<1>8. flat = whole
  BY <1>4, <1>6, <1>7
<1> QED
  BY <1>3, <1>8

\* Where the fields of a settlement lie.
SettlementAt(d, tag, h, c, dec, all) ==
  /\ WellFormed(d) /\ d # <<>> /\ tag \in SettleTags /\ d[1] = tag /\ Settles(tag, d)
  /\ h = HeaderLength(tag) /\ c = d[1 + h] /\ dec = DecimalsBytes(tag) /\ all = BpsBytes * c

LEMMA Layout ==
  ASSUME NEW d, NEW tag, NEW h, NEW c, NEW dec, NEW all, SettlementAt(d, tag, h, c, dec, all)
  PROVE  /\ d \in Seq(Nat) /\ c \in 1..MaxShares /\ c \in Nat \ {0} /\ all \in Nat
         /\ dec \in {0, 1} /\ h \in Nat /\ h = Key + AmountBytes + dec + 1
         /\ Len(d) = 1 + h + all /\ tag \in Nat
<1>1. d \in Seq(Nat)
  BY DEF SettlementAt, WellFormed
<1>2. c \in 1..MaxShares
  BY DEF SettlementAt, Settles
<1>3. c \in Nat \ {0} /\ BpsBytes \in Nat
  BY <1>2, WidthFacts
<1>4. all \in Nat
  BY <1>3, MulNat DEF SettlementAt
<1>5. dec \in {0, 1} /\ h \in Nat /\ h = Key + AmountBytes + dec + 1 /\ tag \in Nat
  BY Headers DEF SettlementAt
<1>6. Len(d) = 1 + h + all
  BY DEF SettlementAt, Settles
<1> QED
  BY <1>1, <1>2, <1>3, <1>4, <1>5, <1>6

\* The settlement that is read, field by field.
LEMMA Fields ==
  ASSUME NEW d, NEW tag, NEW h, NEW c, NEW dec, NEW all, SettlementAt(d, tag, h, c, dec, all),
         NEW s, s = SettlementIn(tag, d)
  PROVE  /\ s.tag = tag /\ s.event = Slice(d, 2, Key)
         /\ s.decimals = Slice(d, Key + AmountBytes + 2, dec)
         /\ s.amount \in Nat /\ s.amount <= Largest(AmountBytes)
         /\ ToBytes(s.amount, AmountBytes) = Slice(d, Key + 2, AmountBytes)
         /\ Len(s.bps) = c /\ DOMAIN s.bps = 1..c
         /\ \A k \in 1..c : /\ s.bps[k] \in Nat
                            /\ ToBytes(s.bps[k], BpsBytes)
                                 = Slice(d, 2 + h + BpsBytes * (k - 1), BpsBytes)
<1>1. PICK a, b, w : a = AmountBytes /\ b = BpsBytes /\ w = Key
  OBVIOUS
<1>2. /\ d \in Seq(Nat) /\ c \in 1..MaxShares /\ c \in Nat \ {0} /\ all \in Nat
      /\ dec \in {0, 1} /\ h \in Nat /\ h = w + a + dec + 1 /\ Len(d) = 1 + h + all
  BY <1>1, Layout
<1>3. a \in Nat \ {0} /\ b \in Nat \ {0} /\ w \in Nat \ {0}
  BY <1>1, WidthFacts
<1>4. /\ s.tag = tag /\ s.event = Slice(d, 2, Key)
      /\ s.amount = LittleEndian(Slice(d, Key + 2, AmountBytes))
      /\ s.decimals = Slice(d, Key + AmountBytes + 2, dec)
      /\ s.bps = BpsAt(d, 2 + h, c)
  BY DEF SettlementIn, Settlement, SettlementAt
<1>5. /\ s.amount \in Nat /\ s.amount <= Largest(AmountBytes)
      /\ ToBytes(s.amount, AmountBytes) = Slice(d, Key + 2, AmountBytes)
  <2>1. PICK at, part : at = w + 2 /\ part = Slice(d, at, a)
    OBVIOUS
  <2>2. at \in Nat /\ at > 1 /\ a \in Nat /\ at + a - 1 <= Len(d)
    <3>1. PICK l : l = Len(d)
      OBVIOUS
    <3>2. at + a - 1 <= l
      BY <1>2, <1>3, <2>1, <3>1
    <3> QED
      BY <1>3, <2>1, <3>1, <3>2
  <2>3. part \in [1..a -> Byte]
    <3>1. WellFormed(d) /\ d \in Seq(Nat)
      BY DEF SettlementAt, WellFormed
    <3>2. Within(Nat, d, at, a)
      BY <2>2, <3>1 DEF Within
    <3>3. at # 1
      BY <2>2
    <3>4. Slice(d, at, a) \in [1..a -> Byte]
      BY <3>1, <3>2, <3>3, SliceOfBytes, Zenon
    <3> QED
      BY <2>1, <3>4, Zenon
  <2>4. LittleEndian(part) \in Nat /\ ToBytes(LittleEndian(part), a) = part
    BY <1>3, <2>3, BytesBack
  <2>5. LittleEndian(part) <= Largest(a)
    BY <1>3, <2>3, LargestIsMost
  <2>6. part = Slice(d, Key + 2, AmountBytes) /\ s.amount = LittleEndian(part)
    BY <1>1, <1>4, <2>1
  <2> QED
    BY <1>1, <2>4, <2>5, <2>6
<1>6. Len(s.bps) = c /\ DOMAIN s.bps = 1..c
  <2>1. s.bps = [k \in 1..c |-> LittleEndian(Slice(d, 2 + h + BpsBytes * (k - 1), BpsBytes))]
    BY <1>4, Zenon DEF BpsAt
  <2>2. c \in Nat
    BY <1>2
  <2>3. Len([k \in 1..c |-> LittleEndian(Slice(d, 2 + h + BpsBytes * (k - 1), BpsBytes))]) = c
    BY <2>2
  <2>4. DOMAIN [k \in 1..c |-> LittleEndian(Slice(d, 2 + h + BpsBytes * (k - 1), BpsBytes))] = 1..c
    OBVIOUS
  <2> QED
    BY <2>1, <2>3, <2>4, Zenon
<1>7. ASSUME NEW k \in 1..c
      PROVE  /\ s.bps[k] \in Nat
             /\ ToBytes(s.bps[k], BpsBytes) = Slice(d, 2 + h + BpsBytes * (k - 1), BpsBytes)
  <2>1. PICK off : off = BpsBytes * (k - 1)
    OBVIOUS
  <2>2. off \in Nat /\ off + b <= all
    <3>1. c \in Nat /\ b \in Nat /\ all = b * c
      BY <1>1, <1>2, <1>3 DEF SettlementAt
    <3>2. b * (k - 1) \in Nat /\ b * (k - 1) + b <= b * c
      BY <3>1, PartRoom
    <3> QED
      BY <1>1, <2>1, <3>1, <3>2
  <2>3. PICK at, part : at = 2 + h + off /\ part = Slice(d, at, b)
    OBVIOUS
  <2>4. at \in Nat /\ at > 1 /\ b \in Nat /\ at + b - 1 <= Len(d)
    <3>1. PICK l : l = Len(d)
      OBVIOUS
    <3>2. at + b - 1 <= l
      BY <1>2, <1>3, <2>2, <2>3, <3>1
    <3> QED
      BY <1>2, <1>3, <2>2, <2>3, <3>1, <3>2
  <2>5. part \in [1..b -> Byte]
    <3>1. WellFormed(d) /\ d \in Seq(Nat)
      BY DEF SettlementAt, WellFormed
    <3>2. Within(Nat, d, at, b)
      BY <2>4, <3>1 DEF Within
    <3>3. at # 1
      BY <2>4
    <3>4. Slice(d, at, b) \in [1..b -> Byte]
      BY <3>1, <3>2, <3>3, SliceOfBytes, Zenon
    <3> QED
      BY <2>3, <3>4, Zenon
  <2>6. LittleEndian(part) \in Nat /\ ToBytes(LittleEndian(part), b) = part
    BY <1>3, <2>5, BytesBack
  <2>7. s.bps[k] = LittleEndian(Slice(d, 2 + h + BpsBytes * (k - 1), BpsBytes))
    BY <1>4 DEF BpsAt
  <2>8. part = Slice(d, 2 + h + BpsBytes * (k - 1), BpsBytes)
    BY <1>1, <2>1, <2>3
  <2> QED
    BY <1>1, <2>6, <2>7, <2>8
<1> QED
  BY <1>4, <1>5, <1>6, <1>7

LEMMA PackSettlement ==
  ASSUME NEW d, WellFormed(d), d # <<>>, NEW tag \in SettleTags, d[1] = tag, Settles(tag, d)
  PROVE  Pack(SettlementIn(tag, d)) = d
<1>1. PICK s, h : s = SettlementIn(tag, d) /\ h = HeaderLength(tag)
  OBVIOUS
<1>2. PICK c, dec, all : SettlementAt(d, tag, h, c, dec, all)
  BY <1>1 DEF SettlementAt
<1>3. PICK a, b, w : a = AmountBytes /\ b = BpsBytes /\ w = Key
  OBVIOUS
<1>4. /\ d \in Seq(Nat) /\ c \in 1..MaxShares /\ c \in Nat \ {0} /\ all \in Nat
      /\ dec \in {0, 1} /\ h \in Nat /\ h = w + a + dec + 1 /\ Len(d) = 1 + h + all
  BY <1>2, <1>3, Layout
<1>5. a \in Nat \ {0} /\ b \in Nat \ {0} /\ w \in Nat \ {0}
  BY <1>3, WidthFacts
<1>6. /\ s.tag = tag /\ s.event = Slice(d, 2, w)
      /\ s.decimals = Slice(d, w + a + 2, dec)
      /\ ToBytes(s.amount, AmountBytes) = Slice(d, w + 2, a)
      /\ Len(s.bps) = c /\ DOMAIN s.bps = 1..c
      /\ \A k \in 1..c : ToBytes(s.bps[k], BpsBytes) = Slice(d, 2 + h + b * (k - 1), b)
  <2>1. /\ s.tag = tag /\ s.event = Slice(d, 2, Key)
        /\ s.decimals = Slice(d, Key + AmountBytes + 2, dec)
        /\ ToBytes(s.amount, AmountBytes) = Slice(d, Key + 2, AmountBytes)
        /\ Len(s.bps) = c /\ DOMAIN s.bps = 1..c
        /\ \A k \in 1..c : ToBytes(s.bps[k], BpsBytes)
                             = Slice(d, 2 + h + BpsBytes * (k - 1), BpsBytes)
    BY <1>1, <1>2, Fields, SMTT(60)
  <2> QED
    BY <1>3, <2>1
<1>7. PICK shares : shares = Flattened([k \in 1..Len(s.bps) |-> ToBytes(s.bps[k], BpsBytes)])
  OBVIOUS
<1>8. Pack(s) = <<s.tag>> \o s.event \o ToBytes(s.amount, AmountBytes) \o s.decimals
                  \o <<Len(s.bps)>> \o shares
  <2>1. s.tag \in SettleTags /\ s.tag # CREATE_NAMESPACE_TAG /\ s.tag # SET_NAMESPACE_AUTHORITY_TAG
    BY <1>6, Headers DEF CREATE_NAMESPACE_TAG, SET_NAMESPACE_AUTHORITY_TAG
  <2> QED
    BY <1>7, <2>1 DEF Pack
<1>9. shares = Slice(d, 2 + h, all)
  <2>1. PICK parts, from : parts = [k \in 1..c |-> ToBytes(s.bps[k], BpsBytes)] /\ from = 2 + h
    OBVIOUS
  <2>2. parts = [k \in 1..c |-> Slice(d, from + b * (k - 1), b)]
    BY <1>6, <2>1
  <2>3. CutFrom(parts, d, from, b, c, all)
    BY <1>2, <1>3, <2>2 DEF CutFrom, SettlementAt
  <2>4. from \in Nat \ {0} /\ from + all - 1 <= Len(d)
    <3>1. PICK l : l = Len(d)
      OBVIOUS
    <3>2. l = 1 + h + all
      BY <1>4, <3>1, Zenon
    <3>3. h \in Nat /\ all \in Nat /\ from = 2 + h
      BY <1>4, <2>1, Zenon
    <3>4. from \in Nat \ {0} /\ from + all - 1 <= l
      BY <3>2, <3>3
    <3> QED
      BY <3>1, <3>4, Zenon
  <2>5. Flattened(parts) = Slice(d, from, all)
    <3>1. d \in Seq(Nat) /\ c \in Nat \ {0} /\ all \in Nat
      BY <1>4
    <3> QED
      BY <1>5, <2>3, <2>4, <3>1, FlattenedIs, SMTT(60)
  <2> QED
    BY <1>6, <1>7, <2>1, <2>5
<1>10. PICK t1, t2, t3, t4, t5 : /\ t1 = 1 + w /\ t2 = t1 + a /\ t3 = t2 + dec /\ t4 = t3 + 1
                                 /\ t5 = t4 + all
  OBVIOUS
<1>11. /\ t1 \in Nat /\ t2 \in Nat /\ t3 \in Nat /\ t4 \in Nat /\ t5 \in Nat /\ dec \in Nat
       /\ t5 = Len(d) /\ t1 <= t5 /\ t2 <= t5 /\ t3 <= t5 /\ t4 <= t5
       /\ w + 2 = t1 + 1 /\ w + a + 2 = t2 + 1 /\ 1 + h = t3 + 1 /\ 2 + h = t4 + 1 /\ 1 + h <= t5
  <2>1. PICK l : l = Len(d)
    OBVIOUS
  <2>2. /\ t1 \in Nat /\ t2 \in Nat /\ t3 \in Nat /\ t4 \in Nat /\ t5 \in Nat /\ dec \in Nat
    BY <1>4, <1>5, <1>10
  <2>3. t5 = l /\ t1 <= t5 /\ t2 <= t5 /\ t3 <= t5 /\ t4 <= t5
    BY <1>4, <1>5, <1>10, <2>1, <2>2
  <2>4. w + 2 = t1 + 1 /\ w + a + 2 = t2 + 1 /\ 1 + h = t3 + 1 /\ 2 + h = t4 + 1 /\ 1 + h <= t5
    BY <1>4, <1>5, <1>10
  <2> QED
    BY <2>1, <2>2, <2>3, <2>4
<1>12. <<s.tag>> = Slice(d, 1, 1)
  <2>1. 1 \in 1..Len(d)
    <3>1. 1 \in 1..t5
      BY <1>11
    <3> QED
      BY <1>11, <3>1, Zenon
  <2> QED
    BY <1>4, <1>6, <2>1, SliceOfOne
<1>13. Slice(d, 1, 1) \o s.event = Slice(d, 1, t1)
  <2>1. PICK one, two : one = 1 /\ two = one + 1
    OBVIOUS
  <2>2. one \in Nat /\ one + w <= Len(d) /\ w \in Nat /\ t1 = one + w
    BY <1>5, <1>10, <1>11, <2>1
  <2>3. Slice(d, 1, one) \o Slice(d, two, w) = Slice(d, 1, one + w)
    BY <1>4, <2>1, <2>2, PrefixJoined, SMTT(60)
  <2>4. one = 1 /\ two = 2
    BY <2>1
  <2> QED
    BY <1>6, <2>2, <2>3, <2>4
<1>14. Slice(d, 1, t1) \o ToBytes(s.amount, AmountBytes) = Slice(d, 1, t2)
  <2>1. PICK from : from = t1 + 1
    OBVIOUS
  <2>2. Slice(d, 1, t1) \o Slice(d, from, a) = Slice(d, 1, t1 + a)
    <3>1. d \in Seq(Nat) /\ t1 \in Nat /\ a \in Nat /\ t1 + a <= Len(d)
      BY <1>4, <1>5, <1>10, <1>11, <2>1
    <3> QED
      BY <2>1, <3>1, PrefixJoined, SMTT(60)
  <2> QED
    BY <1>6, <1>10, <1>11, <2>1, <2>2
<1>15. Slice(d, 1, t2) \o s.decimals = Slice(d, 1, t3)
  <2>1. PICK from : from = t2 + 1
    OBVIOUS
  <2>2. Slice(d, 1, t2) \o Slice(d, from, dec) = Slice(d, 1, t2 + dec)
    <3>1. d \in Seq(Nat) /\ t2 \in Nat /\ dec \in Nat /\ t2 + dec <= Len(d)
      BY <1>4, <1>5, <1>10, <1>11, <2>1
    <3> QED
      BY <2>1, <3>1, PrefixJoined, SMTT(60)
  <2> QED
    BY <1>6, <1>10, <1>11, <2>1, <2>2
<1>16. Slice(d, 1, t3) \o <<Len(s.bps)>> = Slice(d, 1, t4)
  <2>1. PICK from, one : from = t3 + 1 /\ one = 1
    OBVIOUS
  <2>2. Slice(d, 1, t3) \o Slice(d, from, one) = Slice(d, 1, t3 + one)
    <3>1. d \in Seq(Nat) /\ t3 \in Nat /\ one \in Nat /\ t3 + one <= Len(d)
      BY <1>4, <1>5, <1>10, <1>11, <2>1
    <3> QED
      BY <2>1, <3>1, PrefixJoined, SMTT(60)
  <2>3. from \in 1..Len(d) /\ from = 1 + h
    BY <1>11, <2>1
  <2>4. Slice(d, from, 1) = <<d[from]>>
    BY <1>4, <2>3, SliceOfOne
  <2>5. d[from] = c /\ t3 + one = t4
    BY <1>2, <1>10, <2>1, <2>3 DEF SettlementAt
  <2> QED
    BY <1>6, <2>1, <2>2, <2>4, <2>5, Zenon
<1>17. Slice(d, 1, t4) \o shares = Slice(d, 1, t5)
  <2>1. PICK from : from = t4 + 1
    OBVIOUS
  <2>2. Slice(d, 1, t4) \o Slice(d, from, all) = Slice(d, 1, t4 + all)
    <3>1. d \in Seq(Nat) /\ t4 \in Nat /\ all \in Nat /\ t4 + all <= Len(d)
      BY <1>4, <1>5, <1>10, <1>11, <2>1
    <3> QED
      BY <2>1, <3>1, PrefixJoined, SMTT(60)
  <2> QED
    BY <1>9, <1>10, <1>11, <2>1, <2>2
<1>18. Slice(d, 1, t5) = d
  BY <1>4, <1>11, WholeSlice
<1>19. Pack(s) = d
  BY <1>8, <1>12, <1>13, <1>14, <1>15, <1>16, <1>17, <1>18, Zenon
<1> QED
  BY <1>1, <1>19

LEMMA EncodedAsRead ==
  ASSUME NEW d, WellFormed(d), d # <<>>, NEW tag \in SettleTags, d[1] = tag, Settles(tag, d)
  PROVE  Encode(SettlementIn(tag, d)) = d
<1>1. PICK s, h : s = SettlementIn(tag, d) /\ h = HeaderLength(tag)
  OBVIOUS
<1>2. PICK c, dec, all : SettlementAt(d, tag, h, c, dec, all)
  BY <1>1 DEF SettlementAt
<1>3. PICK a, b, w : a = AmountBytes /\ b = BpsBytes /\ w = Key
  OBVIOUS
<1>4. /\ d \in Seq(Nat) /\ c \in 1..MaxShares /\ c \in Nat \ {0} /\ all \in Nat
      /\ dec \in {0, 1} /\ h \in Nat /\ h = w + a + dec + 1 /\ Len(d) = 1 + h + all
  BY <1>2, <1>3, Layout
<1>5. a \in Nat \ {0} /\ b \in Nat \ {0} /\ w \in Nat \ {0}
  BY <1>3, WidthFacts
<1>6. /\ s.tag = tag /\ s.event = Slice(d, 2, Key)
      /\ s.decimals = Slice(d, Key + AmountBytes + 2, dec)
      /\ ToBytes(s.amount, AmountBytes) = Slice(d, Key + 2, AmountBytes)
      /\ Len(s.bps) = c /\ DOMAIN s.bps = 1..c
      /\ \A k \in 1..c : ToBytes(s.bps[k], BpsBytes)
                           = Slice(d, 2 + h + BpsBytes * (k - 1), BpsBytes)
  BY <1>1, <1>2, Fields, SMTT(60)
<1>7. PICK l, head : l = Len(d) /\ head = 1 + h
  OBVIOUS
<1>8. /\ l = 1 + h + all /\ l \in Nat /\ h \in Nat /\ all \in Nat /\ dec \in {0, 1}
      /\ h = w + a + dec + 1 /\ head = 1 + h /\ head \in Nat
  BY <1>4, <1>7
<1>9. /\ HeaderLength(s.tag) = h
      /\ Encode(s) = [k \in 1..l |-> SettlementByte(s, 1 + HeaderLength(s.tag), k)]
  <2>1. s.tag \in SettleTags /\ s.tag # CREATE_NAMESPACE_TAG /\ s.tag # SET_NAMESPACE_AUTHORITY_TAG
    BY <1>2, <1>6, Headers DEF CREATE_NAMESPACE_TAG, SET_NAMESPACE_AUTHORITY_TAG, SettlementAt
  <2>2. Encode(s) = [k \in 1..(1 + HeaderLength(s.tag) + BpsBytes * Len(s.bps)) |->
                       SettlementByte(s, 1 + HeaderLength(s.tag), k)]
    <3>1. Encode(s) = EncodeSettlement(s)
      BY <2>1 DEF Encode
    <3> QED
      BY <3>1, Zenon DEF EncodeSettlement
  <2>3. HeaderLength(s.tag) = h
    BY <1>1, <1>6
  <2>4. 1 + HeaderLength(s.tag) + BpsBytes * Len(s.bps) = l
    BY <1>2, <1>6, <1>8, <2>3 DEF SettlementAt
  <2> QED
    BY <2>2, <2>3, <2>4, Zenon
<1>10. ASSUME NEW k \in 1..l PROVE SettlementByte(s, head, k) = d[k]
  <2>1. CASE k = 1
    <3>1. SettlementByte(s, head, k) = s.tag
      <4>1. /\ (k = 1) /\ ~(k \in 2..(Key + 1)) /\ ~(k \in (Key + 2)..(Key + 1 + AmountBytes))
            /\ ~(k \in (Key + 2 + AmountBytes)..(head - 1)) /\ ~(k = head) /\ ~(k > head)
        BY <1>3, <1>5, <1>8, <2>1
      <4> QED
        BY <1>3, <4>1 DEF SettlementByte
    <3>2. d[1] = tag
      BY <1>2 DEF SettlementAt
    <3> QED
      BY <1>6, <2>1, <3>1, <3>2
  <2>2. CASE k \in 2..(w + 1)
    <3>1. SettlementByte(s, head, k) = s.event[k - 1]
      <4>1. /\ ~(k = 1) /\ (k \in 2..(Key + 1)) /\ ~(k \in (Key + 2)..(Key + 1 + AmountBytes))
            /\ ~(k \in (Key + 2 + AmountBytes)..(head - 1)) /\ ~(k = head) /\ ~(k > head)
        BY <1>3, <1>5, <1>8, <2>2
      <4> QED
        BY <1>3, <4>1 DEF SettlementByte
    <3>2. PICK j, from : j = k - 1 /\ from = 2
      OBVIOUS
    <3>3. /\ from \in Nat \ {0} /\ w \in Nat /\ from + w - 1 <= Len(d) /\ d \in Seq(Nat)
          /\ j \in 1..w /\ from + j - 1 = k
      BY <1>4, <1>5, <1>7, <1>8, <2>2, <3>2
    <3>4. Slice(d, from, w)[j] = d[from + j - 1]
      <4>1. Within(Nat, d, from, w)
        BY <3>3 DEF Within
      <4>2. IsSlice(Slice(d, from, w), Nat, d, from, w)
        BY <4>1, SliceIs, Zenon
      <4> QED
        BY <3>3, <4>2 DEF IsSlice
    <3> QED
      BY <1>3, <1>6, <3>1, <3>2, <3>3, <3>4
  <2>3. CASE k \in (w + 2)..(w + 1 + a)
    <3>1. SettlementByte(s, head, k) = ToBytes(s.amount, AmountBytes)[k - 1 - w]
      <4>1. /\ ~(k = 1) /\ ~(k \in 2..(Key + 1)) /\ (k \in (Key + 2)..(Key + 1 + AmountBytes))
            /\ ~(k \in (Key + 2 + AmountBytes)..(head - 1)) /\ ~(k = head) /\ ~(k > head)
        BY <1>3, <1>5, <1>8, <2>3
      <4> QED
        BY <1>3, <4>1 DEF SettlementByte
    <3>2. PICK j, from : j = k - 1 - w /\ from = w + 2
      OBVIOUS
    <3>3. /\ from \in Nat \ {0} /\ a \in Nat /\ from + a - 1 <= Len(d) /\ d \in Seq(Nat)
          /\ j \in 1..a /\ from + j - 1 = k
      BY <1>4, <1>5, <1>7, <1>8, <2>3, <3>2
    <3>4. Slice(d, from, a)[j] = d[from + j - 1]
      <4>1. Within(Nat, d, from, a)
        BY <3>3 DEF Within
      <4>2. IsSlice(Slice(d, from, a), Nat, d, from, a)
        BY <4>1, SliceIs, Zenon
      <4> QED
        BY <3>3, <4>2 DEF IsSlice
    <3> QED
      BY <1>3, <1>6, <3>1, <3>2, <3>3, <3>4
  <2>4. CASE k \in (w + 2 + a)..h
    <3>1. SettlementByte(s, head, k) = s.decimals[1]
      <4>1. /\ ~(k = 1) /\ ~(k \in 2..(Key + 1)) /\ ~(k \in (Key + 2)..(Key + 1 + AmountBytes))
            /\ (k \in (Key + 2 + AmountBytes)..(head - 1)) /\ ~(k = head) /\ ~(k > head)
        BY <1>3, <1>5, <1>8, <2>4
      <4> QED
        BY <1>3, <4>1 DEF SettlementByte
    <3>2. PICK from : from = w + a + 2
      OBVIOUS
    <3>3. /\ from \in Nat \ {0} /\ dec \in Nat /\ from + dec - 1 <= Len(d) /\ d \in Seq(Nat)
          /\ 1 \in 1..dec /\ from + 1 - 1 = k
      BY <1>4, <1>5, <1>7, <1>8, <2>4, <3>2
    <3>4. Slice(d, from, dec)[1] = d[from + 1 - 1]
      <4>1. Within(Nat, d, from, dec)
        BY <3>3 DEF Within
      <4>2. IsSlice(Slice(d, from, dec), Nat, d, from, dec)
        BY <4>1, SliceIs, Zenon
      <4> QED
        BY <3>3, <4>2 DEF IsSlice
    <3> QED
      BY <1>3, <1>6, <3>1, <3>2, <3>3, <3>4
  <2>5. CASE k = 1 + h
    <3>1. SettlementByte(s, head, k) = Len(s.bps)
      <4>1. /\ ~(k = 1) /\ ~(k \in 2..(Key + 1)) /\ ~(k \in (Key + 2)..(Key + 1 + AmountBytes))
            /\ ~(k \in (Key + 2 + AmountBytes)..(head - 1)) /\ (k = head) /\ ~(k > head)
        BY <1>3, <1>5, <1>8, <2>5
      <4> QED
        BY <1>3, <4>1 DEF SettlementByte
    <3>2. d[1 + h] = c
      BY <1>2 DEF SettlementAt
    <3> QED
      BY <1>6, <2>5, <3>1, <3>2
  <2>6. CASE k > 1 + h
    <3>1. PICK x : x = k - (1 + h) - 1
      OBVIOUS
    <3>2. PICK q, r : q = x \div b /\ r = x % b
      OBVIOUS
    <3>3. SettlementByte(s, head, k) = ToBytes(s.bps[q + 1], BpsBytes)[r + 1]
      <4>1. /\ ~(k = 1) /\ ~(k \in 2..(Key + 1)) /\ ~(k \in (Key + 2)..(Key + 1 + AmountBytes))
            /\ ~(k \in (Key + 2 + AmountBytes)..(head - 1)) /\ ~(k = head)
        BY <1>3, <1>5, <1>8, <2>6
      <4>2. k > head
        BY <1>8, <2>6
      <4>3. SettlementByte(s, head, k) = ToBytes(s.bps[((k - head - 1) \div BpsBytes) + 1], BpsBytes)
                                           [((k - head - 1) % BpsBytes) + 1]
        BY <4>1, <4>2 DEF SettlementByte
      <4>4. x = k - head - 1
        BY <1>8, <3>1
      <4> QED
        BY <1>3, <3>2, <4>3, <4>4, Zenon
    <3>4. all = b * c
      BY <1>2, <1>3 DEF SettlementAt
    <3>5. x \in Nat /\ x < all
      <4>1. h \in Nat /\ all \in Nat /\ k \in Nat /\ k <= 1 + h + all /\ k > 1 + h
        BY <1>8, <2>6
      <4> QED
        BY <3>1, <4>1
    <3>6. q \in 0..(c - 1) /\ r \in 0..(b - 1) /\ x = b * q + r
      <4>1. x < b * c /\ c \in Nat
        BY <1>4, <3>4, <3>5
      <4>2. x \div b \in 0..(c - 1) /\ x % b \in 0..(b - 1) /\ x = b * (x \div b) + (x % b)
        BY <1>5, <3>5, <4>1, PlaceOf
      <4> QED
        BY <3>2, <4>2, Zenon
    <3>7. PICK g, j : g = q + 1 /\ j = r + 1
      OBVIOUS
    <3>8. g \in 1..c /\ j \in 1..b /\ g - 1 = q
      BY <1>4, <1>5, <3>6, <3>7
    <3>9. PICK off, from : off = b * q /\ from = 2 + h + off
      OBVIOUS
    <3>10. off \in Nat /\ off + b <= all /\ x = off + r
      <4>1. b * (g - 1) \in Nat /\ b * (g - 1) + b <= b * c
        <5>1. b \in Nat /\ c \in Nat /\ g \in 1..c
          BY <1>4, <1>5, <3>8
        <5> QED
          BY <5>1, PartRoom
      <4> QED
        BY <3>4, <3>6, <3>8, <3>9, <4>1
    <3>11. ToBytes(s.bps[g], BpsBytes) = Slice(d, from, b)
      BY <1>3, <1>6, <3>8, <3>9
    <3>12. /\ from \in Nat \ {0} /\ b \in Nat /\ from + b - 1 <= Len(d) /\ d \in Seq(Nat)
           /\ j \in 1..b /\ from + j - 1 = k
      <4>1. from \in Nat \ {0} /\ from + b - 1 <= l
        BY <1>5, <1>8, <3>9, <3>10
      <4>2. from + j - 1 = k
        <5>1. r \in Nat /\ x = off + r /\ off \in Nat
          BY <3>6, <3>10
        <5>2. from = 2 + h + off /\ j = r + 1 /\ x = k - (1 + h) - 1 /\ h \in Nat /\ k \in Int
          BY <1>8, <3>1, <3>7, <3>9
        <5> QED
          BY <5>1, <5>2
      <4> QED
        BY <1>4, <1>5, <1>7, <3>8, <4>1, <4>2
    <3>13. Slice(d, from, b)[j] = d[from + j - 1]
      <4>1. Within(Nat, d, from, b)
        BY <3>12 DEF Within
      <4>2. IsSlice(Slice(d, from, b), Nat, d, from, b)
        BY <4>1, SliceIs, Zenon
      <4> QED
        BY <3>12, <4>2 DEF IsSlice
    <3> QED
      BY <3>3, <3>7, <3>11, <3>12, <3>13
  <2>7. \/ k = 1 \/ k \in 2..(w + 1) \/ k \in (w + 2)..(w + 1 + a) \/ k \in (w + 2 + a)..h
        \/ k = 1 + h \/ k > 1 + h
    BY <1>5, <1>8
  <2> QED
    BY <2>1, <2>2, <2>3, <2>4, <2>5, <2>6, <2>7
<1>11. d = [k \in 1..l |-> d[k]]
  BY <1>4, <1>7, LenProperties
<1>12. Encode(s) = d
  <2>1. 1 + HeaderLength(s.tag) = head
    BY <1>7, <1>9
  <2> QED
    BY <1>9, <1>10, <1>11, <2>1
<1> QED
  BY <1>1, <1>12

\* The other two instructions.
LEMMA CreateAsRead ==
  ASSUME NEW d, WellFormed(d), d # <<>>, d[1] = 3, Len(Tail(d)) = 2 * Key,
         NEW s, s = [tag |-> d[1], id |-> Slice(Tail(d), 1, Key),
                     authority |-> Slice(Tail(d), Key + 1, Key)]
  PROVE  Pack(s) = d /\ Encode(s) = d /\ s.authority = Slice(d, Key + 2, Key)
<1>1. PICK w, l : w = Key /\ l = Len(d)
  OBVIOUS
<1>2. d \in Seq(Nat) /\ w \in Nat \ {0}
  BY <1>1, WidthFacts DEF WellFormed
<1>3. l \in Nat /\ l = 1 + w + w
  <2>1. Len(Tail(d)) = l - 1 /\ l \in Nat
    BY <1>1, <1>2, HeadTailProperties, LenProperties
  <2>2. 2 * Key = w + w
    BY <1>1, <1>2
  <2> QED
    BY <1>2, <2>1, <2>2
<1>4. PICK one, two, t1 : one = 1 /\ two = one + 1 /\ t1 = w + 1
  OBVIOUS
<1>5. /\ one \in Nat \ {0} /\ t1 \in Nat \ {0} /\ one + w <= Len(d) /\ t1 + w <= Len(d)
      /\ one + w = t1 /\ t1 + w = Len(d) /\ t1 + 1 = w + 2 /\ one = 1 /\ two = 2
  BY <1>1, <1>2, <1>3, <1>4
<1>6. s.tag = 3 /\ s.id = Slice(d, 2, w) /\ s.authority = Slice(d, w + 2, w)
  <2>1. Slice(Tail(d), one, w) = Slice(d, one + 1, w)
    BY <1>2, <1>5, SliceOfTail, SMTT(60)
  <2>2. Slice(Tail(d), t1, w) = Slice(d, t1 + 1, w)
    BY <1>2, <1>5, SliceOfTail, SMTT(60)
  <2> QED
    BY <1>1, <1>4, <1>5, <2>1, <2>2
<1>7. Pack(s) = d
  <2>1. Pack(s) = <<s.tag>> \o s.id \o s.authority
    <3>1. s.tag = CREATE_NAMESPACE_TAG /\ s.tag # SET_NAMESPACE_AUTHORITY_TAG /\ s.tag \notin SettleTags
      BY <1>6 DEF CREATE_NAMESPACE_TAG, SET_NAMESPACE_AUTHORITY_TAG,
                  SettleTags, SETTLE_N_TAG, SETTLE_TOKEN_N_TAG
    <3> QED
      BY <3>1 DEF Pack
  <2>2. <<s.tag>> = Slice(d, 1, 1)
    <3>1. 1 \in 1..Len(d)
      BY <1>1, <1>2, <1>3
    <3> QED
      BY <1>2, <1>6, <3>1, SliceOfOne
  <2>3. Slice(d, 1, one) \o Slice(d, two, w) = Slice(d, 1, one + w)
    <3>1. d \in Seq(Nat) /\ one \in Nat /\ w \in Nat /\ one + w <= Len(d)
      BY <1>2, <1>5
    <3> QED
      BY <1>4, <3>1, PrefixJoined, SMTT(60)
  <2>4. PICK from : from = t1 + 1
    OBVIOUS
  <2>5. Slice(d, 1, t1) \o Slice(d, from, w) = Slice(d, 1, t1 + w)
    <3>1. d \in Seq(Nat) /\ t1 \in Nat /\ w \in Nat /\ t1 + w <= Len(d)
      BY <1>2, <1>5
    <3> QED
      BY <2>4, <3>1, PrefixJoined, SMTT(60)
  <2>6. Slice(d, 1, Len(d)) = d
    BY <1>2, WholeSlice
  <2>7. Slice(d, 1, 1) \o s.id = Slice(d, 1, t1)
    BY <1>5, <1>6, <2>3, Zenon
  <2>8. Slice(d, 1, t1) \o s.authority = d
    BY <1>5, <1>6, <2>4, <2>5, <2>6, Zenon
  <2> QED
    BY <2>1, <2>2, <2>7, <2>8, Zenon
<1>8. Encode(s) = d
  <2>1. Encode(s) = EncodeCreateNamespace(s)
    <3>1. s.tag = CREATE_NAMESPACE_TAG /\ s.tag # SET_NAMESPACE_AUTHORITY_TAG /\ s.tag \notin SettleTags
      BY <1>6 DEF CREATE_NAMESPACE_TAG, SET_NAMESPACE_AUTHORITY_TAG,
                  SettleTags, SETTLE_N_TAG, SETTLE_TOKEN_N_TAG
    <3> QED
      BY <3>1 DEF Encode
  <2>2. 1 + 2 * Key = l
    BY <1>1, <1>2, <1>3
  <2>3. EncodeCreateNamespace(s) =
          [k \in 1..l |-> CASE k = 1 -> s.tag
                            [] k \in 2..(Key + 1) -> s.id[k - 1]
                            [] OTHER -> s.authority[k - 1 - Key]]
    BY <2>2, Zenon DEF EncodeCreateNamespace
  <2>4. ASSUME NEW k \in 1..l
        PROVE  (CASE k = 1 -> s.tag
                  [] k \in 2..(Key + 1) -> s.id[k - 1]
                  [] OTHER -> s.authority[k - 1 - Key]) = d[k]
    <3>1. CASE k = 1
      <4>1. ~(k \in 2..(Key + 1))
        BY <3>1
      <4> QED
        BY <1>6, <3>1, <4>1
    <3>2. CASE k \in 2..(Key + 1)
      <4>1. PICK j : j = k - 1
        OBVIOUS
      <4>2. /\ two \in Nat \ {0} /\ w \in Nat /\ two + w - 1 <= Len(d) /\ d \in Seq(Nat)
            /\ j \in 1..w /\ two + j - 1 = k /\ ~(k = 1)
        BY <1>1, <1>2, <1>3, <1>5, <3>2, <4>1
      <4>3. Slice(d, two, w)[j] = d[two + j - 1]
        <5>1. Within(Nat, d, two, w)
          BY <4>2 DEF Within
        <5>2. IsSlice(Slice(d, two, w), Nat, d, two, w)
          BY <5>1, SliceIs, Zenon
        <5> QED
          BY <4>2, <5>2 DEF IsSlice
      <4> QED
        BY <1>5, <1>6, <3>2, <4>1, <4>2, <4>3
    <3>3. CASE ~(k = 1) /\ ~(k \in 2..(Key + 1))
      <4>1. PICK j, from : j = k - 1 - Key /\ from = w + 2
        OBVIOUS
      <4>2. /\ from \in Nat \ {0} /\ w \in Nat /\ from + w - 1 <= Len(d) /\ d \in Seq(Nat)
            /\ j \in 1..w /\ from + j - 1 = k
        BY <1>1, <1>2, <1>3, <3>3, <4>1
      <4>3. Slice(d, from, w)[j] = d[from + j - 1]
        <5>1. Within(Nat, d, from, w)
          BY <4>2 DEF Within
        <5>2. IsSlice(Slice(d, from, w), Nat, d, from, w)
          BY <5>1, SliceIs, Zenon
        <5> QED
          BY <4>2, <5>2 DEF IsSlice
      <4> QED
        BY <1>6, <3>3, <4>1, <4>2, <4>3
    <3> QED
      BY <3>1, <3>2, <3>3
  <2>5. d = [k \in 1..l |-> d[k]]
    BY <1>1, <1>2, LenProperties
  <2> QED
    BY <2>1, <2>3, <2>4, <2>5
<1> QED
  BY <1>1, <1>6, <1>7, <1>8

LEMMA RotationAsRead ==
  ASSUME NEW d, WellFormed(d), d # <<>>, d[1] = 4, Len(Tail(d)) = Key,
         NEW s, s = [tag |-> d[1], authority |-> Tail(d)]
  PROVE  Pack(s) = d /\ Encode(s) = d
<1>1. PICK w, l : w = Key /\ l = Len(d)
  OBVIOUS
<1>2. d \in Seq(Nat) /\ w \in Nat \ {0}
  BY <1>1, WidthFacts DEF WellFormed
<1>3. l \in Nat /\ l = 1 + w /\ \A k \in 1..w : Tail(d)[k] = d[k + 1]
  BY <1>1, <1>2, HeadTailProperties, LenProperties
<1>4. s.tag = 4 /\ s.authority = Tail(d)
  OBVIOUS
<1>5. Pack(s) = d
  <2>1. Pack(s) = <<s.tag>> \o s.authority
    <3>1. s.tag # CREATE_NAMESPACE_TAG /\ s.tag = SET_NAMESPACE_AUTHORITY_TAG /\ s.tag \notin SettleTags
      BY <1>4 DEF CREATE_NAMESPACE_TAG, SET_NAMESPACE_AUTHORITY_TAG,
                  SettleTags, SETTLE_N_TAG, SETTLE_TOKEN_N_TAG
    <3> QED
      BY <3>1 DEF Pack
  <2>2. PICK one, two : one = 1 /\ two = one + 1
    OBVIOUS
  <2>3. <<s.tag>> = Slice(d, 1, one)
    <3>1. 1 \in 1..Len(d)
      BY <1>1, <1>2, <1>3
    <3> QED
      BY <1>2, <1>4, <2>2, <3>1, SliceOfOne
  <2>4. s.authority = Slice(d, two, w)
    <3>1. Tail(d) = Slice(d, 2, Len(d) - 1)
      BY <1>2, TailIsSlice
    <3>2. Len(d) - 1 = w /\ two = 2
      BY <1>1, <1>2, <1>3, <2>2
    <3> QED
      BY <1>4, <3>1, <3>2, Zenon
  <2>5. Slice(d, 1, one) \o Slice(d, two, w) = Slice(d, 1, one + w)
    <3>1. d \in Seq(Nat) /\ one \in Nat /\ w \in Nat /\ one + w <= Len(d)
      BY <1>1, <1>2, <1>3, <2>2
    <3> QED
      BY <2>2, <3>1, PrefixJoined, SMTT(60)
  <2>6. one + w = Len(d)
    BY <1>1, <1>3, <2>2
  <2>7. Slice(d, 1, Len(d)) = d
    BY <1>2, WholeSlice
  <2> QED
    BY <2>1, <2>3, <2>4, <2>5, <2>6, <2>7, Zenon
<1>6. Encode(s) = d
  <2>1. Encode(s) = EncodeSetNamespaceAuthority(s)
    <3>1. s.tag # CREATE_NAMESPACE_TAG /\ s.tag = SET_NAMESPACE_AUTHORITY_TAG /\ s.tag \notin SettleTags
      BY <1>4 DEF CREATE_NAMESPACE_TAG, SET_NAMESPACE_AUTHORITY_TAG,
                  SettleTags, SETTLE_N_TAG, SETTLE_TOKEN_N_TAG
    <3> QED
      BY <3>1 DEF Encode
  <2>2. EncodeSetNamespaceAuthority(s)
          = [k \in 1..l |-> IF k = 1 THEN s.tag ELSE s.authority[k - 1]]
    <3>1. 1 + Key = l
      BY <1>1, <1>3
    <3> QED
      BY <3>1, Zenon DEF EncodeSetNamespaceAuthority
  <2>3. ASSUME NEW k \in 1..l PROVE (IF k = 1 THEN s.tag ELSE s.authority[k - 1]) = d[k]
    <3>1. CASE k = 1
      BY <1>4, <3>1
    <3>2. CASE k # 1
      <4>1. PICK j : j = k - 1
        OBVIOUS
      <4>2. j \in 1..w /\ j + 1 = k
        BY <1>2, <1>3, <3>2, <4>1
      <4>3. Tail(d)[j] = d[j + 1]
        BY <1>3, <4>2
      <4> QED
        BY <1>4, <3>2, <4>1, <4>2, <4>3
    <3> QED
      BY <3>1, <3>2
  <2>4. d = [k \in 1..l |-> d[k]]
    BY <1>1, <1>2, LenProperties
  <2> QED
    BY <2>1, <2>2, <2>3, <2>4
<1> QED
  BY <1>5, <1>6

\* What the SDK would write is what the program would execute.
LEMMA SettlementWritten ==
  ASSUME NEW d, WellFormed(d), d # <<>>, NEW tag \in SettleTags, d[1] = tag, Settles(tag, d),
         NEW s, s = SettlementIn(tag, d)
  PROVE  Encodable(s) <=> Executable(s)
<1>1. PICK h, c, dec, all : SettlementAt(d, tag, h, c, dec, all)
  BY DEF SettlementAt
<1>2. c \in 1..MaxShares
  BY <1>1, Layout
<1>3. s.tag = tag /\ s.amount \in Nat /\ s.amount <= Largest(AmountBytes) /\ Len(s.bps) = c
  BY <1>1, Fields, SMTT(60)
<1>4. SplitVerdict(s.amount, s.bps) = "ok" => s.amount # 0
  BY DEF SplitVerdict
<1>5. Executable(s) <=> SplitVerdict(s.amount, s.bps) = "ok"
  BY <1>3 DEF Executable
<1>6. Encodable(s) <=> /\ s.amount \in 1..Largest(AmountBytes)
                       /\ SplitVerdict(s.amount, s.bps) = "ok" /\ Len(s.bps) <= MaxShares
  BY <1>3 DEF Encodable
<1>7. Len(s.bps) <= MaxShares
  BY <1>2, <1>3, WidthFacts
<1>8. Largest(AmountBytes) \in Nat
  <2>1. PICK m, zeros : m = AmountBytes /\ zeros = [k \in 1..m |-> 0]
    OBVIOUS
  <2>2. m \in Nat /\ zeros \in [1..m -> Byte]
    BY <2>1, WidthFacts, BaseFacts DEF Byte
  <2>3. Largest(m) \in Nat
    BY <2>2, LargestIsMost
  <2> QED
    BY <2>1, <2>3
<1>9. s.amount # 0 => s.amount \in 1..Largest(AmountBytes)
  BY <1>3, <1>8
<1> QED
  BY <1>4, <1>5, <1>6, <1>7, <1>9

LEMMA WrittenAsRead ==
  ASSUME NEW d, WellFormed(d), Unpack(d) # Refused, NEW s, s = Unpack(d)
  PROVE  Pack(s) = d /\ Encode(s) = d /\ (Encodable(s) <=> Executable(s))
<1>1. d \in Seq(Nat)
  BY DEF WellFormed
<1>2. d # <<>>
  BY <1>1, UnpackIs
<1>3. CASE d[1] \in SettleTags
  <2>1. PICK tag : tag = d[1]
    OBVIOUS
  <2>2. tag \in SettleTags /\ Settles(tag, d) /\ s = SettlementIn(tag, d)
    BY <1>1, <1>2, <1>3, <2>1, UnpackIs
  <2>3. Pack(s) = d
    BY <1>2, <2>1, <2>2, PackSettlement
  <2>4. Encode(s) = d
    BY <1>2, <2>1, <2>2, EncodedAsRead
  <2>5. Encodable(s) <=> Executable(s)
    BY <1>2, <2>1, <2>2, SettlementWritten
  <2> QED
    BY <2>3, <2>4, <2>5
<1>4. CASE d[1] \notin SettleTags
  <2>1. \/ /\ d[1] = 3 /\ Len(Tail(d)) = 2 * Key
           /\ s = [tag |-> d[1], id |-> Slice(Tail(d), 1, Key),
                   authority |-> Slice(Tail(d), Key + 1, Key)]
        \/ d[1] = 4 /\ Len(Tail(d)) = Key /\ s = [tag |-> d[1], authority |-> Tail(d)]
    BY <1>1, <1>2, <1>4, UnpackIs
  <2>2. s.tag = d[1]
    BY <2>1
  <2>3. Encodable(s) <=> Executable(s)
    BY <1>4, <2>2 DEF Encodable, Executable
  <2>4. Pack(s) = d /\ Encode(s) = d
    BY <1>2, <2>1, CreateAsRead, RotationAsRead
  <2> QED
    BY <2>3, <2>4
<1> QED
  BY <1>3, <1>4

-----------------------------------------------------------------------------
(* Every string that is tried                                              *)

LEMMA StringsAreWellFormed == CodecSpec => []WellFormed(data)
<1>1. CodecInit => WellFormed(data)
  <2> SUFFICES ASSUME CodecInit PROVE WellFormed(data)
    OBVIOUS
  <2>1. CASE data = <<>>
    <3>1. data \in Seq(Nat) /\ Len(data) = 0
      BY <2>1
    <3> QED
      BY <3>1 DEF WellFormed
  <2>2. ASSUME NEW tag \in Tags, data = <<tag>> PROVE WellFormed(data)
    <3>1. tag \in Nat
      BY CodecAssumption
    <3>2. data \in Seq(Nat) /\ Len(data) = 1
      BY <2>2, <3>1
    <3> QED
      BY <3>2 DEF WellFormed
  <2> QED
    BY <2>1, <2>2 DEF CodecInit
<1>2. WellFormed(data) /\ [CodecNext]_data => WellFormed(data)'
  <2> SUFFICES ASSUME WellFormed(data), [CodecNext]_data PROVE WellFormed(data)'
    OBVIOUS
  <2>1. CASE UNCHANGED data
    BY <2>1 DEF WellFormed
  <2>2. ASSUME NEW byte \in Byte, Extend(byte) PROVE WellFormed(data)'
    <3>1. PICK d, e : d = data /\ e = data'
      OBVIOUS
    <3>2. /\ d \in Seq(Nat) /\ d # <<>> /\ byte \in Nat /\ e = Append(d, byte)
          /\ \A k \in 2..Len(d) : d[k] \in Byte
      BY <2>2, <3>1, BaseFacts DEF WellFormed, Extend
    <3>3. /\ e \in Seq(Nat) /\ Len(e) = Len(d) + 1 /\ Len(d) \in Nat
          /\ e[Len(d) + 1] = byte /\ \A k \in 1..Len(d) : e[k] = d[k]
      BY <3>2, AppendProperties
    <3>4. \A k \in 2..Len(e) : k \in 2..Len(d) \/ k = Len(d) + 1
      BY <3>3
    <3>5. \A k \in 2..Len(d) : k \in 1..Len(d)
      BY <3>3
    <3>6. \A k \in 2..Len(e) : e[k] \in Byte
      BY <3>2, <3>3, <3>4, <3>5
    <3>7. WellFormed(e)
      BY <3>3, <3>6 DEF WellFormed
    <3> QED
      BY <3>1, <3>7 DEF WellFormed
  <2> QED
    BY <2>1, <2>2 DEF CodecNext
<1> QED
  BY <1>1, <1>2, PTL DEF CodecSpec

\* Whatever settlement the program executes, the SDK's evidence readers take for
\* the same one, of any length and with any tag (SettlementInstruction::unpack
\* and decodeSettleNData, decodeSettleTokenNData).
THEOREM ProgramAndSdkReadAlike == CodecSpec => []SameReading
<1>1. WellFormed(data) => SameReading
  <2> SUFFICES ASSUME WellFormed(data), NEW tag \in SettleTags
               PROVE  DecodeSettlement(tag, data)
                        = IF Unpack(data).tag = tag THEN Unpack(data) ELSE Refused
    BY DEF SameReading
  <2>1. data \in Seq(Nat)
    BY DEF WellFormed
  <2> QED
    BY <2>1, ReadAlike
<1> QED
  BY <1>1, StringsAreWellFormed, PTL

\* Every instruction the program reads it would write as the same bytes, so that
\* it has one byte string; the SDK writes those bytes if the program would
\* execute them and refuses to write any others (SettlementInstruction::pack and
\* the SDK's encoders).
THEOREM ProgramAndSdkWriteAlike == CodecSpec => []SdkSpeaksProgram
<1>1. WellFormed(data) => SdkSpeaksProgram
  <2> SUFFICES ASSUME WellFormed(data), Unpack(data) # Refused
               PROVE  /\ Pack(Unpack(data)) = data
                      /\ Encodable(Unpack(data)) <=> Executable(Unpack(data))
                      /\ Encode(Unpack(data)) = data
    BY DEF SdkSpeaksProgram
  <2> QED
    BY WrittenAsRead
<1> QED
  BY <1>1, StringsAreWellFormed, PTL

-----------------------------------------------------------------------------
(* The accounts of the program                                             *)

\* What a namespace account is made of.
LEMMA NamespaceParts ==
  ASSUME NEW d, WellFormed(d), IsNamespace(d), NEW w, w = Key
  PROVE  /\ d \in Seq(Nat) /\ w \in Nat \ {0} /\ Len(d) = 2 + w + w + w /\ d[1] = 2
         /\ DecodedNamespace(d) = [bump |-> d[2], creator |-> Slice(d, 3, w),
                                   id |-> Slice(d, 3 + w, w), authority |-> Slice(d, 3 + w + w, w)]
         /\ NamespaceAuthority(d) = Slice(d, 3 + w + w, w)
         /\ NAMESPACE_AUTHORITY_OFFSET = 2 + w + w
<1>1. d \in Seq(Nat)
  BY DEF WellFormed
<1>2. w \in Nat \ {0}
  BY WidthFacts
<1>3. 3 * Key = w + w + w /\ 2 * Key = w + w
  BY <1>2
<1>4. Len(d) = 2 + w + w + w /\ d[1] = 2
  <2>1. 2 + 3 * Key = 2 + w + w + w
    BY <1>2, <1>3
  <2> QED
    BY <2>1 DEF IsNamespace, NAMESPACE_SIZE, NAMESPACE_DISCRIMINATOR
<1>5. 3 + 2 * Key = 3 + w + w /\ 2 + 2 * Key = 2 + w + w /\ 2 + w + w + 1 = 3 + w + w
  BY <1>2, <1>3
<1>6. NAMESPACE_AUTHORITY_OFFSET = 2 + w + w
  BY <1>5 DEF NAMESPACE_AUTHORITY_OFFSET
<1>7. NamespaceAuthority(d) = Slice(d, 3 + w + w, w)
  BY <1>5, <1>6, Zenon DEF NamespaceAuthority
<1>8. DecodedNamespace(d) = [bump |-> d[2], creator |-> Slice(d, 3, w),
                             id |-> Slice(d, 3 + w, w), authority |-> Slice(d, 3 + w + w, w)]
  <2>1. DecodedNamespace(d) = [bump |-> d[2], creator |-> Slice(d, 3, Key),
                               id |-> Slice(d, 3 + Key, Key),
                               authority |-> Slice(d, 3 + 2 * Key, Key)]
    BY DEF DecodedNamespace
  <2> QED
    BY <1>5, <2>1, Zenon
<1> QED
  BY <1>1, <1>2, <1>4, <1>6, <1>7, <1>8

LEMMA NamespaceWritten ==
  ASSUME NEW d, WellFormed(d), IsNamespace(d)
  PROVE  NamespaceBytes(DecodedNamespace(d)) = d
<1>1. PICK w, ns : w = Key /\ ns = DecodedNamespace(d)
  OBVIOUS
<1>2. /\ d \in Seq(Nat) /\ w \in Nat \ {0} /\ Len(d) = 2 + w + w + w /\ d[1] = 2
      /\ ns = [bump |-> d[2], creator |-> Slice(d, 3, w),
               id |-> Slice(d, 3 + w, w), authority |-> Slice(d, 3 + w + w, w)]
  BY <1>1, NamespaceParts, SMTT(60)
<1>3. /\ ns.bump = d[2] /\ ns.creator = Slice(d, 3, w)
      /\ ns.id = Slice(d, 3 + w, w) /\ ns.authority = Slice(d, 3 + w + w, w)
  BY <1>2
<1>4. PICK l, t1, t2, t3, t4 : l = Len(d) /\ t1 = 2 /\ t2 = t1 + w /\ t3 = t2 + w /\ t4 = t3 + w
  OBVIOUS
<1>5. /\ t1 \in Nat /\ t2 \in Nat /\ t3 \in Nat /\ t4 \in Nat
      /\ t4 = l /\ t1 <= l /\ t2 <= l /\ t3 <= l
      /\ t1 + 1 = 3 /\ t2 + 1 = 3 + w /\ t3 + 1 = 3 + w + w
  BY <1>2, <1>4
<1>6. NamespaceBytes(ns) = <<2, d[2]>> \o ns.creator \o ns.id \o ns.authority
  BY <1>3 DEF NamespaceBytes, NAMESPACE_DISCRIMINATOR
<1>7. <<2, d[2]>> = Slice(d, 1, t1)
  <2>1. PICK part, two, one : part = Slice(d, one, t1) /\ two = <<2, d[2]>> /\ one = 1
    OBVIOUS
  <2>2. d \in Seq(Nat) /\ one \in Nat \ {0} /\ t1 \in Nat /\ one + t1 - 1 <= Len(d)
    BY <1>2, <1>4, <1>5, <2>1
  <2>3. part \in Seq(Nat) /\ Len(part) = t1 /\ \A k \in 1..t1 : part[k] = d[one + k - 1]
    <3>1. Within(Nat, d, one, t1)
      BY <2>2 DEF Within
    <3>2. IsSlice(Slice(d, one, t1), Nat, d, one, t1)
      BY <3>1, SliceIs, Zenon
    <3> QED
      BY <2>1, <2>2, <3>2 DEF IsSlice
  <2>4. 1 \in 1..t1 /\ 2 \in 1..t1 /\ one + 1 - 1 = 1 /\ one + 2 - 1 = 2
    BY <1>4, <2>1
  <2>5. part[1] = d[1] /\ part[2] = d[2]
    BY <2>3, <2>4
  <2>6. 2 \in 1..Len(d)
    BY <1>4, <1>5
  <2>7. two \in Seq(Nat) /\ Len(two) = 2 /\ two[1] = 2 /\ two[2] = d[2]
    BY <1>2, <2>1, <2>6, ElementOfSeq
  <2>8. \A k \in 1..2 : k = 1 \/ k = 2
    OBVIOUS
  <2>9. part = two
    BY <1>2, <1>4, <2>3, <2>5, <2>7, <2>8, SeqEqual
  <2> QED
    BY <2>1, <2>9
<1>8. Slice(d, 1, t1) \o ns.creator = Slice(d, 1, t2)
  <2>1. PICK from : from = t1 + 1
    OBVIOUS
  <2>2. Slice(d, 1, t1) \o Slice(d, from, w) = Slice(d, 1, t1 + w)
    <3>1. d \in Seq(Nat) /\ t1 \in Nat /\ w \in Nat /\ t1 + w <= Len(d)
      BY <1>2, <1>4, <1>5
    <3> QED
      BY <2>1, <3>1, PrefixJoined, SMTT(60)
  <2> QED
    BY <1>3, <1>4, <1>5, <2>1, <2>2, Zenon
<1>9. Slice(d, 1, t2) \o ns.id = Slice(d, 1, t3)
  <2>1. PICK from : from = t2 + 1
    OBVIOUS
  <2>2. Slice(d, 1, t2) \o Slice(d, from, w) = Slice(d, 1, t2 + w)
    <3>1. d \in Seq(Nat) /\ t2 \in Nat /\ w \in Nat /\ t2 + w <= Len(d)
      BY <1>2, <1>4, <1>5
    <3> QED
      BY <2>1, <3>1, PrefixJoined, SMTT(60)
  <2> QED
    BY <1>3, <1>4, <1>5, <2>1, <2>2, Zenon
<1>10. Slice(d, 1, t3) \o ns.authority = Slice(d, 1, t4)
  <2>1. PICK from : from = t3 + 1
    OBVIOUS
  <2>2. Slice(d, 1, t3) \o Slice(d, from, w) = Slice(d, 1, t3 + w)
    <3>1. d \in Seq(Nat) /\ t3 \in Nat /\ w \in Nat /\ t3 + w <= Len(d)
      BY <1>2, <1>4, <1>5
    <3> QED
      BY <2>1, <3>1, PrefixJoined, SMTT(60)
  <2> QED
    BY <1>3, <1>4, <1>5, <2>1, <2>2, Zenon
<1>11. Slice(d, 1, t4) = d
  BY <1>2, <1>4, <1>5, WholeSlice
<1>12. NamespaceBytes(ns) = d
  BY <1>6, <1>7, <1>8, <1>9, <1>10, <1>11, Zenon
<1> QED
  BY <1>1, <1>12

\* A rotation changes the authority and nothing else.
LEMMA NamespaceRotated ==
  ASSUME NEW d, WellFormed(d), IsNamespace(d), NEW ns, ns = DecodedNamespace(d)
  PROVE  DecodedNamespace(Rotated(d, ns.creator)) = [ns EXCEPT !.authority = ns.creator]
<1>1. PICK w, e : w = Key /\ e = Rotated(d, ns.creator)
  OBVIOUS
<1>2. /\ d \in Seq(Nat) /\ w \in Nat \ {0} /\ Len(d) = 2 + w + w + w /\ d[1] = 2
      /\ ns = [bump |-> d[2], creator |-> Slice(d, 3, w),
               id |-> Slice(d, 3 + w, w), authority |-> Slice(d, 3 + w + w, w)]
      /\ NAMESPACE_AUTHORITY_OFFSET = 2 + w + w
  BY <1>1, NamespaceParts, SMTT(60)
<1>3. PICK creator, l, off : creator = ns.creator /\ l = Len(d) /\ off = 2 + w + w
  OBVIOUS
<1>4. l = off + w /\ l \in Nat /\ off \in Nat /\ w \in Nat \ {0}
  BY <1>2, <1>3
<1>5. creator \in Seq(Nat) /\ Len(creator) = w /\ \A k \in 1..w : creator[k] = d[3 + k - 1]
  <2>1. PICK from : from = 3
    OBVIOUS
  <2>2. d \in Seq(Nat) /\ from \in Nat \ {0} /\ w \in Nat /\ from + w - 1 <= Len(d)
    BY <1>2, <2>1
  <2>3. creator = Slice(d, from, w)
    BY <1>2, <1>3, <2>1
  <2>4. creator \in Seq(Nat) /\ Len(creator) = w /\ \A k \in 1..w : creator[k] = d[from + k - 1]
    <3>1. Within(Nat, d, from, w)
      BY <2>2, <2>3 DEF Within
    <3>2. IsSlice(Slice(d, from, w), Nat, d, from, w)
      BY <3>1, SliceIs, Zenon
    <3> QED
      BY <2>2, <2>3, <3>2 DEF IsSlice
  <2> QED
    BY <2>1, <2>4
<1>6. DOMAIN d = 1..l
  BY <1>2, <1>3, LenProperties
<1>7. e = [k \in 1..l |-> IF k > off THEN creator[k - off] ELSE d[k]]
  BY <1>1, <1>2, <1>3, <1>6, Zenon DEF Rotated
<1>8. ASSUME NEW k \in 1..l PROVE e[k] \in Nat
  <2>1. CASE k > off
    <3>1. PICK j : j = k - off
      OBVIOUS
    <3>2. j \in 1..Len(creator)
      BY <1>4, <1>5, <2>1, <3>1
    <3>3. e[k] = creator[j]
      BY <1>7, <2>1, <3>1
    <3> QED
      BY <1>5, <3>2, <3>3, ElementOfSeq
  <2>2. CASE ~(k > off)
    <3>1. k \in 1..Len(d) /\ e[k] = d[k]
      BY <1>3, <1>7, <2>2
    <3> QED
      BY <1>2, <3>1, ElementOfSeq
  <2> QED
    BY <2>1, <2>2
<1>9. e \in Seq(Nat) /\ Len(e) = l
  <2>1. e \in [1..l -> Nat]
    <3>1. DOMAIN e = 1..l /\ e = [k \in 1..l |-> e[k]]
      BY <1>7
    <3> QED
      BY <1>8, <3>1
  <2> QED
    BY <1>4, <2>1
<1>10. \A k \in 1..l : /\ k <= off => e[k] = d[k]
                       /\ k > off => e[k] = creator[k - off]
  BY <1>4, <1>7
<1>11. ASSUME NEW from \in Nat \ {0}, from + w - 1 <= off
       PROVE  Slice(e, from, w) = Slice(d, from, w)
  <2>1. PICK s, t : s = Slice(e, from, w) /\ t = Slice(d, from, w)
    OBVIOUS
  <2>2. /\ d \in Seq(Nat) /\ e \in Seq(Nat) /\ w \in Nat
        /\ from + w - 1 <= Len(e) /\ from + w - 1 <= Len(d)
    BY <1>2, <1>3, <1>4, <1>9, <1>11
  <2>3. s \in Seq(Nat) /\ Len(s) = w /\ \A k \in 1..w : s[k] = e[from + k - 1]
    <3>1. /\ Slice(e, from, w) \in Seq(Nat) /\ Len(Slice(e, from, w)) = w
          /\ \A k \in 1..w : Slice(e, from, w)[k] = e[from + k - 1]
      <4>1. Within(Nat, e, from, w)
        BY <2>2 DEF Within
      <4>2. IsSlice(Slice(e, from, w), Nat, e, from, w)
        BY <4>1, SliceIs, Zenon
      <4> QED
        BY <2>2, <4>2 DEF IsSlice
    <3> QED
      BY <2>1, <3>1, Zenon
  <2>4. t \in Seq(Nat) /\ Len(t) = w /\ \A k \in 1..w : t[k] = d[from + k - 1]
    <3>1. /\ Slice(d, from, w) \in Seq(Nat) /\ Len(Slice(d, from, w)) = w
          /\ \A k \in 1..w : Slice(d, from, w)[k] = d[from + k - 1]
      <4>1. Within(Nat, d, from, w)
        BY <2>2 DEF Within
      <4>2. IsSlice(Slice(d, from, w), Nat, d, from, w)
        BY <4>1, SliceIs, Zenon
      <4> QED
        BY <2>2, <4>2 DEF IsSlice
    <3> QED
      BY <2>1, <3>1, Zenon
  <2>5. ASSUME NEW k \in 1..w PROVE s[k] = t[k]
    <3>1. PICK j : j = from + k - 1
      OBVIOUS
    <3>2. j \in 1..l /\ j <= off
      BY <1>4, <1>11, <3>1
    <3> QED
      BY <1>10, <2>3, <2>4, <3>1, <3>2
  <2>6. s = t
    BY <2>3, <2>4, <2>5, SeqEqual
  <2> QED
    BY <2>1, <2>6
<1>12. Slice(e, 3, w) = Slice(d, 3, w) /\ Slice(e, 3 + w, w) = Slice(d, 3 + w, w)
  <2>1. PICK from, next : from = 3 /\ next = 3 + w
    OBVIOUS
  <2>2. /\ from \in Nat \ {0} /\ from + w - 1 <= off
        /\ next \in Nat \ {0} /\ next + w - 1 <= off
    BY <1>3, <1>4, <2>1
  <2>3. Slice(e, from, w) = Slice(d, from, w)
    BY <1>11, <2>2
  <2>4. Slice(e, next, w) = Slice(d, next, w)
    BY <1>11, <2>2
  <2> QED
    BY <2>1, <2>3, <2>4
<1>13. Slice(e, 3 + w + w, w) = creator
  <2>1. PICK from, s : from = 3 + w + w /\ s = Slice(e, from, w)
    OBVIOUS
  <2>2. e \in Seq(Nat) /\ from \in Nat \ {0} /\ w \in Nat /\ from + w - 1 <= Len(e)
    BY <1>3, <1>4, <1>9, <2>1
  <2>3. s \in Seq(Nat) /\ Len(s) = w /\ \A k \in 1..w : s[k] = e[from + k - 1]
    <3>1. /\ Slice(e, from, w) \in Seq(Nat) /\ Len(Slice(e, from, w)) = w
          /\ \A k \in 1..w : Slice(e, from, w)[k] = e[from + k - 1]
      <4>1. Within(Nat, e, from, w)
        BY <2>2 DEF Within
      <4>2. IsSlice(Slice(e, from, w), Nat, e, from, w)
        BY <4>1, SliceIs, Zenon
      <4> QED
        BY <2>2, <4>2 DEF IsSlice
    <3> QED
      BY <2>1, <3>1, Zenon
  <2>4. ASSUME NEW k \in 1..w PROVE s[k] = creator[k]
    <3>1. PICK j : j = from + k - 1
      OBVIOUS
    <3>2. j \in 1..l /\ j > off /\ j - off = k
      BY <1>3, <1>4, <2>1, <3>1
    <3> QED
      BY <1>10, <2>3, <3>1, <3>2
  <2>5. s = creator
    BY <1>5, <2>3, <2>4, SeqEqual
  <2> QED
    BY <2>1, <2>5
<1>14. e[2] = d[2] /\ e[1] = d[1]
  <2>1. 2 \in 1..l /\ 1 \in 1..l /\ 2 <= off /\ 1 <= off
    BY <1>3, <1>4
  <2> QED
    BY <1>10, <2>1
<1>15. DecodedNamespace(e) = [bump |-> e[2], creator |-> Slice(e, 3, w),
                              id |-> Slice(e, 3 + w, w), authority |-> Slice(e, 3 + w + w, w)]
  <2>1. DecodedNamespace(e) = [bump |-> e[2], creator |-> Slice(e, 3, Key),
                               id |-> Slice(e, 3 + Key, Key),
                               authority |-> Slice(e, 3 + 2 * Key, Key)]
    BY DEF DecodedNamespace
  <2>2. 3 + 2 * Key = 3 + w + w
    BY <1>1, <1>2
  <2> QED
    BY <1>1, <2>1, <2>2, Zenon
<1>16. DecodedNamespace(e) = [bump |-> d[2], creator |-> Slice(d, 3, w),
                              id |-> Slice(d, 3 + w, w), authority |-> creator]
  BY <1>12, <1>13, <1>14, <1>15
<1>17. [ns EXCEPT !.authority = creator]
         = [bump |-> d[2], creator |-> Slice(d, 3, w), id |-> Slice(d, 3 + w, w),
            authority |-> creator]
  <2>1. PICK x, y, z, v : /\ x = d[2] /\ y = Slice(d, 3, w) /\ z = Slice(d, 3 + w, w)
                          /\ v = Slice(d, 3 + w + w, w)
    OBVIOUS
  <2>2. ns = [bump |-> x, creator |-> y, id |-> z, authority |-> v]
    BY <1>2, <2>1, Zenon
  <2>3. [ns EXCEPT !.authority = creator] = [bump |-> x, creator |-> y, id |-> z, authority |-> creator]
    BY <2>2
  <2> QED
    BY <2>1, <2>3, Zenon
<1> QED
  BY <1>1, <1>3, <1>16, <1>17

LEMMA RecordWritten ==
  ASSUME NEW d, WellFormed(d), IsRecordOf(d, Slice(d, 2, Key))
  PROVE  ~IsNamespace(d) /\ RecordBytes(Slice(d, 2, Key), DecodedAmount(d)) = d
<1>1. PICK w, a, l : w = Key /\ a = AmountBytes /\ l = Len(d)
  OBVIOUS
<1>2. d \in Seq(Nat) /\ w \in Nat \ {0} /\ a \in Nat \ {0} /\ l = 1 + w + a /\ d[1] = 1
  BY <1>1, WidthFacts
     DEF WellFormed, IsRecordOf, SETTLEMENT_RECORD_SIZE, SETTLEMENT_RECORD_DISCRIMINATOR
<1>3. ~IsNamespace(d)
  BY <1>2 DEF IsNamespace, NAMESPACE_DISCRIMINATOR
<1>4. PICK one, t1, t2 : one = 1 /\ t1 = one + w /\ t2 = t1 + a
  OBVIOUS
<1>5. /\ one \in Nat /\ t1 \in Nat /\ t2 \in Nat /\ t2 = l /\ t1 <= l /\ one <= l
      /\ one + 1 = 2 /\ t1 + 1 = w + 2
  BY <1>2, <1>4
<1>6. ToBytes(DecodedAmount(d), AmountBytes) = Slice(d, w + 2, a)
  <2>1. PICK at, part : at = w + 2 /\ part = Slice(d, at, a)
    OBVIOUS
  <2>2. at \in Nat /\ at > 1 /\ a \in Nat /\ at + a - 1 <= Len(d)
    BY <1>1, <1>2, <2>1
  <2>3. part \in [1..a -> Byte]
    <3>1. d \in Seq(Nat) /\ WellFormed(d)
      BY DEF WellFormed
    <3>2. Within(Nat, d, at, a)
      BY <2>2, <3>1 DEF Within
    <3>3. at # 1
      BY <2>2
    <3>4. Slice(d, at, a) \in [1..a -> Byte]
      BY <3>1, <3>2, <3>3, SliceOfBytes, Zenon
    <3> QED
      BY <2>1, <3>4, Zenon
  <2>4. ToBytes(LittleEndian(part), a) = part
    BY <1>2, <2>3, BytesBack
  <2>5. DecodedAmount(d) = LittleEndian(part)
    BY <1>1, <2>1 DEF DecodedAmount
  <2> QED
    BY <1>1, <2>1, <2>4, <2>5
<1>7. PICK event : event = Slice(d, 2, Key)
  OBVIOUS
<1>8. RecordBytes(event, DecodedAmount(d)) = <<1>> \o event \o ToBytes(DecodedAmount(d), AmountBytes)
  BY DEF RecordBytes, SETTLEMENT_RECORD_DISCRIMINATOR
<1>9. <<1>> = Slice(d, 1, one)
  <2>1. 1 \in 1..Len(d)
    BY <1>1, <1>2
  <2> QED
    BY <1>2, <1>4, <2>1, SliceOfOne
<1>10. Slice(d, 1, one) \o event = Slice(d, 1, t1)
  <2>1. PICK from : from = one + 1
    OBVIOUS
  <2>2. Slice(d, 1, one) \o Slice(d, from, w) = Slice(d, 1, one + w)
    <3>1. d \in Seq(Nat) /\ one \in Nat /\ w \in Nat /\ one + w <= Len(d)
      BY <1>1, <1>2, <1>4, <1>5
    <3> QED
      BY <2>1, <3>1, PrefixJoined, SMTT(60)
  <2> QED
    BY <1>1, <1>4, <1>5, <1>7, <2>1, <2>2, Zenon
<1>11. Slice(d, 1, t1) \o ToBytes(DecodedAmount(d), AmountBytes) = Slice(d, 1, t2)
  <2>1. PICK from : from = t1 + 1
    OBVIOUS
  <2>2. Slice(d, 1, t1) \o Slice(d, from, a) = Slice(d, 1, t1 + a)
    <3>1. d \in Seq(Nat) /\ t1 \in Nat /\ a \in Nat /\ t1 + a <= Len(d)
      BY <1>1, <1>2, <1>4, <1>5
    <3> QED
      BY <2>1, <3>1, PrefixJoined, SMTT(60)
  <2> QED
    BY <1>4, <1>5, <1>6, <2>1, <2>2, Zenon
<1>12. Slice(d, 1, t2) = d
  BY <1>1, <1>2, <1>5, WholeSlice
<1>13. RecordBytes(event, DecodedAmount(d)) = d
  BY <1>8, <1>9, <1>10, <1>11, <1>12, Zenon
<1> QED
  BY <1>3, <1>7, <1>13

LEMMA ReadBack == ASSUME WellFormed(data) PROVE AccountsReadBack
<1>1. ASSUME IsNamespace(data)
      PROVE  /\ DecodedNamespace(data).authority = NamespaceAuthority(data)
             /\ NamespaceBytes(DecodedNamespace(data)) = data
             /\ DecodedNamespace(Rotated(data, DecodedNamespace(data).creator))
                  = [DecodedNamespace(data) EXCEPT !.authority = DecodedNamespace(data).creator]
  <2>1. PICK d, ns, w : d = data /\ ns = DecodedNamespace(data) /\ w = Key
    OBVIOUS
  <2>2. WellFormed(d) /\ IsNamespace(d) /\ ns = DecodedNamespace(d)
    BY <1>1, <2>1
  <2>3. ns.authority = NamespaceAuthority(d)
    BY <2>1, <2>2, NamespaceParts, SMTT(60)
  <2>4. NamespaceBytes(ns) = d
    BY <2>2, NamespaceWritten
  <2>5. DecodedNamespace(Rotated(d, ns.creator)) = [ns EXCEPT !.authority = ns.creator]
    BY <2>2, NamespaceRotated
  <2> QED
    BY <2>1, <2>3, <2>4, <2>5, Zenon
<1>2. ASSUME IsRecordOf(data, Slice(data, 2, Key))
      PROVE  /\ ~IsNamespace(data)
             /\ RecordBytes(Slice(data, 2, Key), DecodedAmount(data)) = data
  BY <1>2, RecordWritten
<1> QED
  BY <1>1, <1>2 DEF AccountsReadBack

-----------------------------------------------------------------------------
(* The list of accounts                                                    *)

LEMMA ThreeJoined ==
  ASSUME NEW S, NEW s \in Seq(S), NEW r \in Seq(S), NEW t \in Seq(S)
  PROVE  /\ Len(s \o r \o t) = Len(s) + Len(r) + Len(t)
         /\ Len(s) \in Nat /\ Len(r) \in Nat /\ Len(t) \in Nat
         /\ \A k \in 1..Len(s) : (s \o r \o t)[k] = s[k]
         /\ \A k \in 1..Len(r) : (s \o r \o t)[Len(s) + k] = r[k]
         /\ \A k \in 1..Len(t) : (s \o r \o t)[Len(s) + Len(r) + k] = t[k]
<1>1. PICK a, b, c : a = Len(s) /\ b = Len(r) /\ c = Len(t)
  OBVIOUS
<1>2. a \in Nat /\ b \in Nat /\ c \in Nat
  BY <1>1, LenProperties
<1>3. PICK sr, list : sr = s \o r /\ list = sr \o t
  OBVIOUS
<1>4. /\ sr \in Seq(S) /\ Len(sr) = a + b
      /\ \A k \in 1..(a + b) : sr[k] = IF k <= a THEN s[k] ELSE r[k - a]
  BY <1>1, <1>3, ConcatProperties
<1>5. PICK ab : ab = a + b
  OBVIOUS
<1>6. /\ Len(list) = ab + c
      /\ \A k \in 1..(ab + c) : list[k] = IF k <= ab THEN sr[k] ELSE t[k - ab]
  <2>1. Len(sr) = ab /\ Len(t) = c /\ sr \in Seq(S) /\ t \in Seq(S)
    BY <1>1, <1>4, <1>5
  <2>2. /\ Len(sr \o t) = Len(sr) + Len(t)
        /\ \A k \in 1..(Len(sr) + Len(t)) :
             (sr \o t)[k] = IF k <= Len(sr) THEN sr[k] ELSE t[k - Len(sr)]
    BY <2>1, ConcatProperties
  <2> QED
    BY <1>3, <2>1, <2>2
<1>7. ASSUME NEW k \in 1..a PROVE list[k] = s[k]
  <2>1. k \in 1..(a + b) /\ k \in 1..(ab + c) /\ k <= a /\ k <= ab
    BY <1>2, <1>5
  <2> QED
    BY <1>4, <1>6, <2>1
<1>8. ASSUME NEW k \in 1..b PROVE list[a + k] = r[k]
  <2>1. PICK j : j = a + k
    OBVIOUS
  <2>2. j \in 1..(a + b) /\ j \in 1..(ab + c) /\ ~(j <= a) /\ j <= ab /\ j - a = k
    BY <1>2, <1>5, <2>1
  <2> QED
    BY <1>4, <1>6, <2>1, <2>2
<1>9. ASSUME NEW k \in 1..c PROVE list[a + b + k] = t[k]
  <2>1. PICK j : j = a + b + k
    OBVIOUS
  <2>2. j \in 1..(ab + c) /\ ~(j <= ab) /\ j - ab = k
    BY <1>2, <1>5, <2>1
  <2> QED
    BY <1>6, <2>1, <2>2
<1>10. list = s \o r \o t /\ ab + c = a + b + c
  BY <1>3, <1>5
<1> QED
  BY <1>1, <1>2, <1>6, <1>7, <1>8, <1>9, <1>10

RecipientMeta(k) == Meta(<<"recipient", k>>, FALSE, TRUE)

SourceMeta == Meta(<<"source">>, FALSE, TRUE)
MintMeta == Meta(<<"mint">>, FALSE, FALSE)
TokenProgramMeta == Meta(<<"token program">>, FALSE, FALSE)

LEMMA SettleNList ==
  ASSUME NEW m \in 1..8
  PROVE  /\ Len(SettleNKeys(m)) = m + 5
         /\ SettleNKeys(m)[1] = Signers[1] /\ SettleNKeys(m)[2] = Signers[2]
         /\ SettleNKeys(m)[3] = Signers[3]
         /\ \A k \in 1..m : SettleNKeys(m)[3 + k] = RecipientMeta(k)
         /\ SettleNKeys(m)[m + 4] = Record /\ SettleNKeys(m)[m + 5] = SystemProgram
<1>0. PICK keys : keys = SettleNKeys(m)
  OBVIOUS
<1>1. PICK p, a, ns : Signers = <<p, a, ns>>
  BY DEF Signers
<1>2. PICK rec, sys : rec = Record /\ sys = SystemProgram
  OBVIOUS
<1>3. PICK S : S = {p, a, ns, rec, sys} \cup {RecipientMeta(k) : k \in 1..m}
  OBVIOUS
<1>4. PICK s, r, t : s = <<p, a, ns>> /\ r = Recipients(m) /\ t = <<rec, sys>>
  OBVIOUS
<1>5. s \in Seq(S) /\ Len(s) = 3 /\ s[1] = p /\ s[2] = a /\ s[3] = ns
  BY <1>3, <1>4
<1>6. t \in Seq(S) /\ Len(t) = 2 /\ t[1] = rec /\ t[2] = sys
  BY <1>3, <1>4
<1>7. r \in Seq(S) /\ Len(r) = m /\ \A k \in 1..m : r[k] = RecipientMeta(k)
  <2>1. r = [k \in 1..m |-> RecipientMeta(k)]
    BY <1>4 DEF Recipients, RecipientMeta
  <2>2. \A k \in 1..m : RecipientMeta(k) \in S
    BY <1>3
  <2>3. r \in [1..m -> S]
    BY <2>1, <2>2
  <2> QED
    BY <2>1, <2>3
<1>8. keys = s \o r \o t
  BY <1>0, <1>1, <1>2, <1>4 DEF SettleNKeys
<1>9. /\ Len(keys) = Len(s) + Len(r) + Len(t)
      /\ \A k \in 1..Len(s) : keys[k] = s[k]
      /\ \A k \in 1..Len(r) : keys[Len(s) + k] = r[k]
      /\ \A k \in 1..Len(t) : keys[Len(s) + Len(r) + k] = t[k]
  <2>1. /\ Len(s \o r \o t) = Len(s) + Len(r) + Len(t)
        /\ \A k \in 1..Len(s) : (s \o r \o t)[k] = s[k]
        /\ \A k \in 1..Len(r) : (s \o r \o t)[Len(s) + k] = r[k]
        /\ \A k \in 1..Len(t) : (s \o r \o t)[Len(s) + Len(r) + k] = t[k]
    <3>1. s \in Seq(S) /\ r \in Seq(S) /\ t \in Seq(S)
      BY <1>5, <1>6, <1>7
    <3> QED
      BY <3>1, ThreeJoined, SMTT(60)
  <2> QED
    BY <1>8, <2>1
<1>10. /\ Len(keys) = m + 5
       /\ \A k \in 1..3 : keys[k] = s[k]
       /\ \A k \in 1..m : keys[3 + k] = r[k]
       /\ \A k \in 1..2 : keys[3 + m + k] = t[k]
  BY <1>5, <1>6, <1>7, <1>9
<1>11. keys[1] = p /\ keys[2] = a /\ keys[3] = ns
  BY <1>5, <1>10
<1>12. keys[m + 4] = rec /\ keys[m + 5] = sys
  <2>1. 3 + m + 1 = m + 4 /\ 3 + m + 2 = m + 5
    OBVIOUS
  <2>2. keys[3 + m + 1] = t[1] /\ keys[3 + m + 2] = t[2]
    BY <1>10
  <2> QED
    BY <1>6, <2>1, <2>2
<1>13. Signers[1] = p /\ Signers[2] = a /\ Signers[3] = ns
  BY <1>1
<1> QED
  BY <1>0, <1>2, <1>7, <1>10, <1>11, <1>12, <1>13

LEMMA SettleTokenNList ==
  ASSUME NEW m \in 1..8
  PROVE  /\ Len(SettleTokenNKeys(m)) = m + 8
         /\ SettleTokenNKeys(m)[1] = Signers[1] /\ SettleTokenNKeys(m)[2] = Signers[2]
         /\ SettleTokenNKeys(m)[3] = Signers[3]
         /\ SettleTokenNKeys(m)[4] = SourceMeta
         /\ \A k \in 1..m : SettleTokenNKeys(m)[4 + k] = RecipientMeta(k)
         /\ SettleTokenNKeys(m)[m + 5] = MintMeta /\ SettleTokenNKeys(m)[m + 6] = Record
         /\ SettleTokenNKeys(m)[m + 7] = SystemProgram
         /\ SettleTokenNKeys(m)[m + 8] = TokenProgramMeta
<1>0. PICK keys : keys = SettleTokenNKeys(m)
  OBVIOUS
<1>1. PICK p, a, ns : Signers = <<p, a, ns>>
  BY DEF Signers
<1>2. PICK rec, sys, src, mint, tp :
        /\ rec = Record /\ sys = SystemProgram /\ src = SourceMeta
        /\ mint = MintMeta /\ tp = TokenProgramMeta
  OBVIOUS
<1>3. PICK S : S = {p, a, ns, rec, sys, src, mint, tp} \cup {RecipientMeta(k) : k \in 1..m}
  OBVIOUS
<1>4. PICK s3, s1, r, t : /\ s3 = <<p, a, ns>> /\ s1 = <<src>> /\ r = Recipients(m)
                          /\ t = <<mint, rec, sys, tp>>
  OBVIOUS
<1>5. s3 \in Seq(S) /\ Len(s3) = 3 /\ s3[1] = p /\ s3[2] = a /\ s3[3] = ns
  BY <1>3, <1>4
<1>6. s1 \in Seq(S) /\ Len(s1) = 1 /\ s1[1] = src
  BY <1>3, <1>4
<1>7. t \in Seq(S) /\ Len(t) = 4 /\ t[1] = mint /\ t[2] = rec /\ t[3] = sys /\ t[4] = tp
  BY <1>3, <1>4
<1>8. r \in Seq(S) /\ Len(r) = m /\ \A k \in 1..m : r[k] = RecipientMeta(k)
  <2>1. r = [k \in 1..m |-> RecipientMeta(k)]
    BY <1>4 DEF Recipients, RecipientMeta
  <2>2. \A k \in 1..m : RecipientMeta(k) \in S
    BY <1>3
  <2>3. r \in [1..m -> S]
    BY <2>1, <2>2
  <2> QED
    BY <2>1, <2>3
<1>9. PICK s : s = s3 \o s1
  OBVIOUS
<1>10. s \in Seq(S) /\ Len(s) = 4 /\ s[1] = p /\ s[2] = a /\ s[3] = ns /\ s[4] = src
  <2>1. /\ s \in Seq(S) /\ Len(s) = Len(s3) + Len(s1)
        /\ \A k \in 1..(Len(s3) + Len(s1)) : s[k] = IF k <= Len(s3) THEN s3[k] ELSE s1[k - Len(s3)]
    BY <1>5, <1>6, <1>9, ConcatProperties
  <2>2. \A k \in 1..4 : s[k] = IF k <= 3 THEN s3[k] ELSE s1[k - 3]
    BY <1>5, <1>6, <2>1
  <2> QED
    BY <1>5, <1>6, <2>1, <2>2
<1>11. keys = s \o r \o t
  BY <1>0, <1>1, <1>2, <1>4, <1>9 DEF SettleTokenNKeys, SourceMeta, MintMeta, TokenProgramMeta
<1>12. /\ Len(keys) = Len(s) + Len(r) + Len(t)
       /\ \A k \in 1..Len(s) : keys[k] = s[k]
       /\ \A k \in 1..Len(r) : keys[Len(s) + k] = r[k]
       /\ \A k \in 1..Len(t) : keys[Len(s) + Len(r) + k] = t[k]
  <2>1. /\ Len(s \o r \o t) = Len(s) + Len(r) + Len(t)
        /\ \A k \in 1..Len(s) : (s \o r \o t)[k] = s[k]
        /\ \A k \in 1..Len(r) : (s \o r \o t)[Len(s) + k] = r[k]
        /\ \A k \in 1..Len(t) : (s \o r \o t)[Len(s) + Len(r) + k] = t[k]
    <3>1. s \in Seq(S) /\ r \in Seq(S) /\ t \in Seq(S)
      BY <1>7, <1>8, <1>10
    <3> QED
      BY <3>1, ThreeJoined, SMTT(60)
  <2> QED
    BY <1>11, <2>1
<1>13. /\ Len(keys) = m + 8
       /\ \A k \in 1..4 : keys[k] = s[k]
       /\ \A k \in 1..m : keys[4 + k] = r[k]
       /\ \A k \in 1..4 : keys[4 + m + k] = t[k]
  BY <1>7, <1>8, <1>10, <1>12
<1>14. keys[1] = p /\ keys[2] = a /\ keys[3] = ns /\ keys[4] = src
  BY <1>10, <1>13
<1>15. keys[m + 5] = mint /\ keys[m + 6] = rec /\ keys[m + 7] = sys /\ keys[m + 8] = tp
  <2>1. 4 + m + 1 = m + 5 /\ 4 + m + 2 = m + 6 /\ 4 + m + 3 = m + 7 /\ 4 + m + 4 = m + 8
    OBVIOUS
  <2>2. /\ keys[4 + m + 1] = t[1] /\ keys[4 + m + 2] = t[2] /\ keys[4 + m + 3] = t[3]
        /\ keys[4 + m + 4] = t[4]
    BY <1>13
  <2> QED
    BY <1>7, <2>1, <2>2
<1>16. Signers[1] = p /\ Signers[2] = a /\ Signers[3] = ns
  BY <1>1
<1> QED
  BY <1>0, <1>2, <1>8, <1>13, <1>14, <1>15, <1>16

\* What an instruction is, as far as its accounts depend on it.
LEMMA InstructionShape ==
  ASSUME NEW d, WellFormed(d), Unpack(d) # Refused
  PROVE  \/ Unpack(d).tag = 3 \/ Unpack(d).tag = 4
         \/ Unpack(d).tag \in {5, 6} /\ Len(Unpack(d).bps) \in 1..8
<1>0. PICK s : s = Unpack(d)
  OBVIOUS
<1>1. d \in Seq(Nat)
  BY DEF WellFormed
<1>2. d # <<>>
  BY <1>1, UnpackIs
<1>3. ASSUME d[1] \in SettleTags PROVE s.tag \in {5, 6} /\ Len(s.bps) \in 1..8
  <2>1. PICK tag : tag = d[1]
    OBVIOUS
  <2>2. tag \in SettleTags /\ Settles(tag, d) /\ s = SettlementIn(tag, d)
    BY <1>0, <1>1, <1>2, <1>3, <2>1, UnpackIs
  <2>3. PICK h, c, dec, all : SettlementAt(d, tag, h, c, dec, all)
    BY <1>2, <2>1, <2>2 DEF SettlementAt
  <2>4. c \in 1..MaxShares
    BY <2>3, Layout
  <2>5. s.tag = tag /\ Len(s.bps) = c
    BY <2>2, <2>3, Fields, SMTT(60)
  <2>6. c \in 1..8
    BY <2>4, WidthFacts
  <2> QED
    BY <2>2, <2>5, <2>6, Headers
<1>4. ASSUME d[1] \notin SettleTags PROVE s.tag = 3 \/ s.tag = 4
  <2>1. \/ /\ d[1] = 3 /\ Len(Tail(d)) = 2 * Key
           /\ s = [tag |-> d[1], id |-> Slice(Tail(d), 1, Key),
                   authority |-> Slice(Tail(d), Key + 1, Key)]
        \/ d[1] = 4 /\ Len(Tail(d)) = Key /\ s = [tag |-> d[1], authority |-> Tail(d)]
    BY <1>0, <1>1, <1>2, <1>4, UnpackIs
  <2> QED
    BY <2>1
<1>5. s.tag = 3 \/ s.tag = 4 \/ (s.tag \in {5, 6} /\ Len(s.bps) \in 1..8)
  BY <1>3, <1>4
<1> QED
  BY <1>0, <1>5, Zenon

\* The cases of Keys, ProgramReads and ProgramExpects.
LEMMA TagCases ==
  ASSUME NEW t
  PROVE  /\ t = 3 => /\ t = CREATE_NAMESPACE_TAG /\ t # SET_NAMESPACE_AUTHORITY_TAG
                     /\ t # SETTLE_N_TAG /\ t # SETTLE_TOKEN_N_TAG /\ t \notin SettleTags
         /\ t = 4 => /\ t # CREATE_NAMESPACE_TAG /\ t = SET_NAMESPACE_AUTHORITY_TAG
                     /\ t # SETTLE_N_TAG /\ t # SETTLE_TOKEN_N_TAG /\ t \notin SettleTags
         /\ t = 5 => /\ t # CREATE_NAMESPACE_TAG /\ t # SET_NAMESPACE_AUTHORITY_TAG
                     /\ t = SETTLE_N_TAG /\ t # SETTLE_TOKEN_N_TAG /\ t \in SettleTags
         /\ t = 6 => /\ t # CREATE_NAMESPACE_TAG /\ t # SET_NAMESPACE_AUTHORITY_TAG
                     /\ t # SETTLE_N_TAG /\ t = SETTLE_TOKEN_N_TAG /\ t \in SettleTags
BY DEF CREATE_NAMESPACE_TAG, SET_NAMESPACE_AUTHORITY_TAG, SETTLE_N_TAG, SETTLE_TOKEN_N_TAG, SettleTags

RecipientNeed(first, k) == Needs(first + k - 1, <<"recipient", k>>, FALSE, TRUE)

\* Every account that is looked for is there, and every account is looked for.
Found(reads, keys, m) ==
  /\ Len(keys) = m
  /\ {r.at : r \in reads} = 0..(m - 1)
  /\ \A r \in reads : keys[r.at + 1] = r.needs

LEMMA FoundIf ==
  ASSUME NEW reads, NEW keys, NEW m, Len(keys) = m,
         \A r \in reads : r.at \in 0..(m - 1) /\ keys[r.at + 1] = r.needs,
         \A x \in 0..(m - 1) : \E r \in reads : r.at = x
  PROVE  Found(reads, keys, m)
<1>1. {r.at : r \in reads} = 0..(m - 1)
  OBVIOUS
<1> QED
  BY <1>1 DEF Found

LEMMA CreateFound ==
  ASSUME NEW s, s.tag = 3
  PROVE  Found(ProgramReads(s), Keys(s), ProgramExpects(s)) /\ Keys(s)[3].role = <<"namespace">>
<1>1. ProgramExpects(s) = 4 /\ Keys(s) = CreateNamespaceKeys
  BY TagCases DEF ProgramExpects, Keys
<1>2. PICK p, a, ns, sys : /\ p = Meta(<<"payer">>, TRUE, TRUE) /\ a = Meta(<<"creator">>, TRUE, FALSE)
                           /\ ns = Meta(<<"namespace">>, FALSE, TRUE)
                           /\ sys = Meta(<<"system program">>, FALSE, FALSE)
  OBVIOUS
<1>3. PICK keys : keys = <<p, a, ns, sys>>
  OBVIOUS
<1>4. Keys(s) = keys
  BY <1>1, <1>2, <1>3 DEF CreateNamespaceKeys, SystemProgram
<1>5. Len(keys) = 4 /\ keys[1] = p /\ keys[2] = a /\ keys[3] = ns /\ keys[4] = sys
  BY <1>3
<1>6. PICK e0, e1, e2, e3 :
        /\ e0 = Needs(0, <<"payer">>, TRUE, TRUE) /\ e1 = Needs(1, <<"creator">>, TRUE, FALSE)
        /\ e2 = Needs(2, <<"namespace">>, FALSE, TRUE)
        /\ e3 = Needs(3, <<"system program">>, FALSE, FALSE)
  OBVIOUS
<1>7. /\ e0.at = 0 /\ e0.needs = p /\ e1.at = 1 /\ e1.needs = a
      /\ e2.at = 2 /\ e2.needs = ns /\ e3.at = 3 /\ e3.needs = sys
  BY <1>2, <1>6 DEF Needs
<1>8. ProgramReads(s) = {e0, e1, e2, e3}
  BY <1>6, TagCases DEF ProgramReads
<1>9. \A r \in {e0, e1, e2, e3} : r.at \in 0..(4 - 1) /\ keys[r.at + 1] = r.needs
  BY <1>5, <1>7
<1>10. \A x \in 0..(4 - 1) : \E r \in {e0, e1, e2, e3} : r.at = x
  <2>1. \A x \in 0..(4 - 1) : x = 0 \/ x = 1 \/ x = 2 \/ x = 3
    OBVIOUS
  <2> QED
    BY <1>7, <2>1
<1>11. Found({e0, e1, e2, e3}, keys, 4)
  BY <1>5, <1>9, <1>10, FoundIf, Zenon
<1>12. ns.role = <<"namespace">>
  BY <1>2 DEF Meta
<1> QED
  BY <1>1, <1>4, <1>5, <1>8, <1>11, <1>12

LEMMA RotationFound ==
  ASSUME NEW s, s.tag = 4
  PROVE  Found(ProgramReads(s), Keys(s), ProgramExpects(s))
<1>1. ProgramExpects(s) = 3 /\ Keys(s) = SetNamespaceAuthorityKeys
  BY TagCases DEF ProgramExpects, Keys
<1>2. PICK a, ns, new : /\ a = Meta(<<"authority">>, TRUE, FALSE)
                        /\ ns = Meta(<<"namespace">>, FALSE, TRUE)
                        /\ new = Meta(<<"new authority">>, TRUE, FALSE)
  OBVIOUS
<1>3. PICK keys : keys = <<a, ns, new>>
  OBVIOUS
<1>4. Keys(s) = keys
  BY <1>1, <1>2, <1>3 DEF SetNamespaceAuthorityKeys
<1>5. Len(keys) = 3 /\ keys[1] = a /\ keys[2] = ns /\ keys[3] = new
  BY <1>3
<1>6. PICK e0, e1, e2 :
        /\ e0 = Needs(0, <<"authority">>, TRUE, FALSE) /\ e1 = Needs(1, <<"namespace">>, FALSE, TRUE)
        /\ e2 = Needs(2, <<"new authority">>, TRUE, FALSE)
  OBVIOUS
<1>7. e0.at = 0 /\ e0.needs = a /\ e1.at = 1 /\ e1.needs = ns /\ e2.at = 2 /\ e2.needs = new
  BY <1>2, <1>6 DEF Needs
<1>8. ProgramReads(s) = {e0, e1, e2}
  BY <1>6, TagCases DEF ProgramReads
<1>9. \A r \in {e0, e1, e2} : r.at \in 0..(3 - 1) /\ keys[r.at + 1] = r.needs
  BY <1>5, <1>7
<1>10. \A x \in 0..(3 - 1) : \E r \in {e0, e1, e2} : r.at = x
  <2>1. \A x \in 0..(3 - 1) : x = 0 \/ x = 1 \/ x = 2
    OBVIOUS
  <2> QED
    BY <1>7, <2>1
<1>11. Found({e0, e1, e2}, keys, 3)
  BY <1>5, <1>9, <1>10, FoundIf, Zenon
<1> QED
  BY <1>1, <1>4, <1>8, <1>11, Zenon

LEMMA SettlingFound ==
  ASSUME NEW s, s.tag = 5, NEW m \in 1..8, m = Len(s.bps)
  PROVE  /\ Found(ProgramReads(s), Keys(s), ProgramExpects(s))
         /\ Keys(s)[3].role = <<"namespace">> /\ Keys(s)[m + 4] = Record
         /\ \A k \in 1..m : Keys(s)[3 + k].role = <<"recipient", k>>
<1>1. ProgramExpects(s) = m + 5 /\ Keys(s) = SettleNKeys(m)
  BY TagCases DEF ProgramExpects, Keys
<1>2. PICK keys, all : keys = SettleNKeys(m) /\ all = m + 5
  OBVIOUS
<1>3. PICK p, a, ns, rec, sys : /\ p = Meta(<<"payer">>, TRUE, TRUE)
                                /\ a = Meta(<<"authority">>, TRUE, FALSE)
                                /\ ns = Meta(<<"namespace">>, FALSE, FALSE)
                                /\ rec = Record /\ sys = SystemProgram
  OBVIOUS
<1>4. Signers[1] = p /\ Signers[2] = a /\ Signers[3] = ns
  BY <1>3 DEF Signers
<1>5. /\ Len(keys) = m + 5 /\ keys[1] = p /\ keys[2] = a /\ keys[3] = ns
      /\ \A k \in 1..m : keys[3 + k] = RecipientMeta(k)
      /\ keys[m + 4] = rec /\ keys[m + 5] = sys
  <2>1. /\ Len(SettleNKeys(m)) = m + 5
        /\ SettleNKeys(m)[1] = Signers[1] /\ SettleNKeys(m)[2] = Signers[2]
        /\ SettleNKeys(m)[3] = Signers[3]
        /\ \A k \in 1..m : SettleNKeys(m)[3 + k] = RecipientMeta(k)
        /\ SettleNKeys(m)[m + 4] = Record /\ SettleNKeys(m)[m + 5] = SystemProgram
    BY SettleNList
  <2> QED
    BY <1>2, <1>3, <1>4, <2>1, Zenon
<1>6. PICK e0, e1, e2, e3, e4 :
        /\ e0 = Needs(0, <<"payer">>, TRUE, TRUE) /\ e1 = Needs(1, <<"authority">>, TRUE, FALSE)
        /\ e2 = Needs(2, <<"namespace">>, FALSE, FALSE)
        /\ e3 = Needs(3 + m, <<"record">>, FALSE, TRUE)
        /\ e4 = Needs(4 + m, <<"system program">>, FALSE, FALSE)
  OBVIOUS
<1>7. /\ e0.at = 0 /\ e0.needs = p /\ e1.at = 1 /\ e1.needs = a /\ e2.at = 2 /\ e2.needs = ns
      /\ e3.at = 3 + m /\ e3.needs = rec /\ e4.at = 4 + m /\ e4.needs = sys
  BY <1>3, <1>6 DEF Needs, Record, SystemProgram
<1>8. PICK paid : paid = {RecipientNeed(3, k) : k \in 1..m}
  OBVIOUS
<1>9. \A k \in 1..m : RecipientNeed(3, k).at = 3 + k - 1 /\ RecipientNeed(3, k).needs = RecipientMeta(k)
  BY DEF Needs, RecipientNeed, RecipientMeta
<1>10. PICK reads : reads = {e0, e1, e2} \cup paid \cup {e3, e4}
  OBVIOUS
<1>11. ProgramReads(s) = reads
  <2>1. ProgramReads(s) = {Needs(0, <<"payer">>, TRUE, TRUE), Needs(1, <<"authority">>, TRUE, FALSE),
                           Needs(2, <<"namespace">>, FALSE, FALSE)}
                            \cup {Needs(3 + k - 1, <<"recipient", k>>, FALSE, TRUE) : k \in 1..m}
                            \cup {Needs(3 + m, <<"record">>, FALSE, TRUE),
                                  Needs(4 + m, <<"system program">>, FALSE, FALSE)}
    BY TagCases DEF ProgramReads
  <2> QED
    BY <1>6, <1>8, <1>10, <2>1, Zenon DEF RecipientNeed
<1>12. \A r \in reads : r.at \in 0..(all - 1) /\ keys[r.at + 1] = r.needs
  <2>1. ASSUME NEW r \in {e0, e1, e2} PROVE r.at \in 0..(all - 1) /\ keys[r.at + 1] = r.needs
    BY <1>2, <1>5, <1>7
  <2>2. ASSUME NEW r \in paid PROVE r.at \in 0..(all - 1) /\ keys[r.at + 1] = r.needs
    <3>1. PICK k \in 1..m : r = RecipientNeed(3, k)
      BY <1>8
    <3>2. r.at = 3 + k - 1 /\ r.needs = RecipientMeta(k)
      BY <1>9, <3>1
    <3>3. 3 + k - 1 \in 0..(all - 1) /\ 3 + k - 1 + 1 = 3 + k
      BY <1>2
    <3>4. keys[3 + k] = RecipientMeta(k)
      BY <1>5
    <3> QED
      BY <3>2, <3>3, <3>4
  <2>3. ASSUME NEW r \in {e3, e4} PROVE r.at \in 0..(all - 1) /\ keys[r.at + 1] = r.needs
    <3>1. /\ 3 + m \in 0..(all - 1) /\ 4 + m \in 0..(all - 1)
          /\ 3 + m + 1 = m + 4 /\ 4 + m + 1 = m + 5
      BY <1>2
    <3> QED
      BY <1>5, <1>7, <3>1
  <2> QED
    BY <1>10, <2>1, <2>2, <2>3
<1>13. ASSUME NEW x \in 0..(all - 1) PROVE \E r \in reads : r.at = x
  <2>1. x = 0 \/ x = 1 \/ x = 2 \/ x \in 3..(m + 2) \/ x = 3 + m \/ x = 4 + m
    BY <1>2
  <2>2. CASE x \in 3..(m + 2)
    <3>1. PICK k : k = x - 2
      OBVIOUS
    <3>2. k \in 1..m /\ 3 + k - 1 = x
      BY <2>2, <3>1
    <3>3. RecipientNeed(3, k) \in reads /\ RecipientNeed(3, k).at = x
      BY <1>8, <1>9, <1>10, <3>2
    <3> QED
      BY <3>3
  <2>3. CASE ~(x \in 3..(m + 2))
    <3>1. e0 \in reads /\ e1 \in reads /\ e2 \in reads /\ e3 \in reads /\ e4 \in reads
      BY <1>10
    <3> QED
      BY <1>7, <2>1, <2>3, <3>1
  <2> QED
    BY <2>2, <2>3
<1>14. Found(reads, keys, all)
  <2>1. Len(keys) = all
    BY <1>2, <1>5
  <2> QED
    BY <1>12, <1>13, <2>1, FoundIf, Zenon
<1>15. ns.role = <<"namespace">> /\ \A k \in 1..m : RecipientMeta(k).role = <<"recipient", k>>
  BY <1>3 DEF Meta, RecipientMeta
<1>16. Keys(s) = keys /\ ProgramExpects(s) = all
  BY <1>1, <1>2
<1>17. \A k \in 1..m : keys[3 + k].role = <<"recipient", k>>
  BY <1>5, <1>15
<1> QED
  BY <1>3, <1>5, <1>11, <1>14, <1>15, <1>16, <1>17, Zenon

LEMMA TokenSettlingFound ==
  ASSUME NEW s, s.tag = 6, NEW m \in 1..8, m = Len(s.bps)
  PROVE  /\ Found(ProgramReads(s), Keys(s), ProgramExpects(s))
         /\ Keys(s)[3].role = <<"namespace">> /\ Keys(s)[m + 6] = Record
         /\ \A k \in 1..m : Keys(s)[4 + k].role = <<"recipient", k>>
<1>1. ProgramExpects(s) = m + 8 /\ Keys(s) = SettleTokenNKeys(m)
  BY TagCases DEF ProgramExpects, Keys
<1>2. PICK keys, all : keys = SettleTokenNKeys(m) /\ all = m + 8
  OBVIOUS
<1>3. PICK p, a, ns, rec, sys, src, mint, tp : /\ p = Meta(<<"payer">>, TRUE, TRUE)
                                /\ a = Meta(<<"authority">>, TRUE, FALSE)
                                /\ ns = Meta(<<"namespace">>, FALSE, FALSE)
                                /\ rec = Record /\ sys = SystemProgram /\ src = SourceMeta
                                /\ mint = MintMeta /\ tp = TokenProgramMeta
  OBVIOUS
<1>4. Signers[1] = p /\ Signers[2] = a /\ Signers[3] = ns
  BY <1>3 DEF Signers
<1>5. /\ Len(keys) = m + 8 /\ keys[1] = p /\ keys[2] = a /\ keys[3] = ns /\ keys[4] = src
      /\ \A k \in 1..m : keys[4 + k] = RecipientMeta(k)
      /\ keys[m + 5] = mint /\ keys[m + 6] = rec /\ keys[m + 7] = sys /\ keys[m + 8] = tp
  <2>1. /\ Len(SettleTokenNKeys(m)) = m + 8
        /\ SettleTokenNKeys(m)[1] = Signers[1] /\ SettleTokenNKeys(m)[2] = Signers[2]
        /\ SettleTokenNKeys(m)[3] = Signers[3] /\ SettleTokenNKeys(m)[4] = SourceMeta
        /\ \A k \in 1..m : SettleTokenNKeys(m)[4 + k] = RecipientMeta(k)
        /\ SettleTokenNKeys(m)[m + 5] = MintMeta /\ SettleTokenNKeys(m)[m + 6] = Record
        /\ SettleTokenNKeys(m)[m + 7] = SystemProgram /\ SettleTokenNKeys(m)[m + 8] = TokenProgramMeta
    BY SettleTokenNList
  <2> QED
    BY <1>2, <1>3, <1>4, <2>1, Zenon
<1>6. PICK e0, e1, e2, e3, e4, e5, e6, e7 :
        /\ e0 = Needs(0, <<"payer">>, TRUE, TRUE) /\ e1 = Needs(1, <<"authority">>, TRUE, FALSE)
        /\ e2 = Needs(2, <<"namespace">>, FALSE, FALSE)
        /\ e3 = Needs(3, <<"source">>, FALSE, TRUE) /\ e4 = Needs(4 + m, <<"mint">>, FALSE, FALSE)
        /\ e5 = Needs(5 + m, <<"record">>, FALSE, TRUE)
        /\ e6 = Needs(6 + m, <<"system program">>, FALSE, FALSE)
        /\ e7 = Needs(7 + m, <<"token program">>, FALSE, FALSE)
  OBVIOUS
<1>7. /\ e0.at = 0 /\ e0.needs = p /\ e1.at = 1 /\ e1.needs = a /\ e2.at = 2 /\ e2.needs = ns
      /\ e3.at = 3 /\ e3.needs = src /\ e4.at = 4 + m /\ e4.needs = mint
      /\ e5.at = 5 + m /\ e5.needs = rec /\ e6.at = 6 + m /\ e6.needs = sys
      /\ e7.at = 7 + m /\ e7.needs = tp
  BY <1>3, <1>6 DEF Needs, Record, SystemProgram, SourceMeta, MintMeta, TokenProgramMeta
<1>8. PICK paid : paid = {RecipientNeed(4, k) : k \in 1..m}
  OBVIOUS
<1>9. \A k \in 1..m : RecipientNeed(4, k).at = 4 + k - 1 /\ RecipientNeed(4, k).needs = RecipientMeta(k)
  BY DEF Needs, RecipientNeed, RecipientMeta
<1>10. PICK reads : reads = {e0, e1, e2} \cup paid \cup {e3, e4, e5, e6, e7}
  OBVIOUS
<1>11. ProgramReads(s) = reads
  <2>1. ProgramReads(s) = {Needs(0, <<"payer">>, TRUE, TRUE), Needs(1, <<"authority">>, TRUE, FALSE),
                           Needs(2, <<"namespace">>, FALSE, FALSE)}
                            \cup {Needs(4 + k - 1, <<"recipient", k>>, FALSE, TRUE) : k \in 1..m}
                            \cup {Needs(3, <<"source">>, FALSE, TRUE),
                                  Needs(4 + m, <<"mint">>, FALSE, FALSE),
                                  Needs(5 + m, <<"record">>, FALSE, TRUE),
                                  Needs(6 + m, <<"system program">>, FALSE, FALSE),
                                  Needs(7 + m, <<"token program">>, FALSE, FALSE)}
    BY TagCases DEF ProgramReads
  <2> QED
    BY <1>6, <1>8, <1>10, <2>1, Zenon DEF RecipientNeed
<1>12. \A r \in reads : r.at \in 0..(all - 1) /\ keys[r.at + 1] = r.needs
  <2>1. ASSUME NEW r \in {e0, e1, e2} PROVE r.at \in 0..(all - 1) /\ keys[r.at + 1] = r.needs
    <3>1. /\ 0 \in 0..(all - 1) /\ 1 \in 0..(all - 1) /\ 2 \in 0..(all - 1)
          /\ 0 + 1 = 1 /\ 1 + 1 = 2 /\ 2 + 1 = 3
      BY <1>2
    <3> QED
      BY <1>5, <1>7, <3>1, SMTT(60)
  <2>2. ASSUME NEW r \in paid PROVE r.at \in 0..(all - 1) /\ keys[r.at + 1] = r.needs
    <3>1. PICK k \in 1..m : r = RecipientNeed(4, k)
      BY <1>8
    <3>2. r.at = 4 + k - 1 /\ r.needs = RecipientMeta(k)
      BY <1>9, <3>1
    <3>3. 4 + k - 1 \in 0..(all - 1) /\ 4 + k - 1 + 1 = 4 + k
      BY <1>2
    <3>4. keys[4 + k] = RecipientMeta(k)
      BY <1>5
    <3> QED
      BY <3>2, <3>3, <3>4
  <2>3. ASSUME NEW r \in {e3, e4, e5, e6, e7}
        PROVE  r.at \in 0..(all - 1) /\ keys[r.at + 1] = r.needs
    <3>1. /\ 3 \in 0..(all - 1) /\ 4 + m \in 0..(all - 1) /\ 5 + m \in 0..(all - 1)
          /\ 6 + m \in 0..(all - 1) /\ 7 + m \in 0..(all - 1)
          /\ 3 + 1 = 4 /\ 4 + m + 1 = m + 5 /\ 5 + m + 1 = m + 6 /\ 6 + m + 1 = m + 7
          /\ 7 + m + 1 = m + 8
      BY <1>2
    <3>2. r \in {e3, e4} => r.at \in 0..(all - 1) /\ keys[r.at + 1] = r.needs
      BY <1>5, <1>7, <3>1, SMTT(60)
    <3>3. r = e5 => r.at \in 0..(all - 1) /\ keys[r.at + 1] = r.needs
      BY <1>5, <1>7, <3>1, SMTT(60)
    <3>4. r = e6 => r.at \in 0..(all - 1) /\ keys[r.at + 1] = r.needs
      BY <1>5, <1>7, <3>1, SMTT(60)
    <3>5. r = e7 => r.at \in 0..(all - 1) /\ keys[r.at + 1] = r.needs
      BY <1>5, <1>7, <3>1, SMTT(60)
    <3> QED
      BY <3>2, <3>3, <3>4, <3>5
  <2> QED
    BY <1>10, <2>1, <2>2, <2>3
<1>13. ASSUME NEW x \in 0..(all - 1) PROVE \E r \in reads : r.at = x
  <2>1. \/ x = 0 \/ x = 1 \/ x = 2 \/ x = 3 \/ x \in 4..(m + 3)
        \/ x = 4 + m \/ x = 5 + m \/ x = 6 + m \/ x = 7 + m
    BY <1>2
  <2>2. CASE x \in 4..(m + 3)
    <3>1. PICK k : k = x - 3
      OBVIOUS
    <3>2. k \in 1..m /\ 4 + k - 1 = x
      BY <2>2, <3>1
    <3>3. RecipientNeed(4, k) \in reads /\ RecipientNeed(4, k).at = x
      BY <1>8, <1>9, <1>10, <3>2
    <3> QED
      BY <3>3
  <2>3. CASE ~(x \in 4..(m + 3))
    <3>1. /\ e0 \in reads /\ e1 \in reads /\ e2 \in reads /\ e3 \in reads /\ e4 \in reads
          /\ e5 \in reads /\ e6 \in reads /\ e7 \in reads
      BY <1>10
    <3> QED
      BY <1>7, <2>1, <2>3, <3>1
  <2> QED
    BY <2>2, <2>3
<1>14. Found(reads, keys, all)
  <2>1. Len(keys) = all
    BY <1>2, <1>5
  <2> QED
    BY <1>12, <1>13, <2>1, FoundIf, Zenon
<1>15. ns.role = <<"namespace">> /\ \A k \in 1..m : RecipientMeta(k).role = <<"recipient", k>>
  BY <1>3 DEF Meta, RecipientMeta
<1>16. Keys(s) = keys /\ ProgramExpects(s) = all
  BY <1>1, <1>2
<1>17. \A k \in 1..m : keys[4 + k].role = <<"recipient", k>>
  BY <1>5, <1>15
<1> QED
  BY <1>3, <1>5, <1>11, <1>14, <1>15, <1>16, <1>17, Zenon

LEMMA ListInPlace ==
  ASSUME NEW s, NEW keys, keys = Keys(s), Found(ProgramReads(s), keys, ProgramExpects(s))
  PROVE  /\ Len(keys) = ProgramExpects(s)
         /\ {r.at : r \in ProgramReads(s)} = 0..(ProgramExpects(s) - 1)
         /\ \A r \in ProgramReads(s) :
              /\ keys[r.at + 1].role = r.needs.role
              /\ r.needs.signer => keys[r.at + 1].signer
              /\ r.needs.writable => keys[r.at + 1].writable
BY DEF Found

LEMMA InPlaceIs == ASSUME WellFormed(data) PROVE AccountsInPlace
<1>1. PICK s, keys : s = Unpack(data) /\ keys = Keys(s)
  OBVIOUS
<1>2. CASE s = Refused
  <2>1. s.tag = -1
    BY <1>2 DEF Refused
  <2>2. s.tag \notin SettleTags /\ s.tag \notin SettleTags \cup {CREATE_NAMESPACE_TAG}
    BY <2>1 DEF SettleTags, SETTLE_N_TAG, SETTLE_TOKEN_N_TAG, CREATE_NAMESPACE_TAG
  <2> QED
    BY <1>1, <1>2, <2>2 DEF AccountsInPlace
<1>3. CASE s # Refused
  <2>1. \/ s.tag = 3 \/ s.tag = 4 \/ (s.tag \in {5, 6} /\ Len(s.bps) \in 1..8)
    <3>1. Unpack(data) # Refused
      BY <1>1, <1>3
    <3> QED
      <4>1. \/ Unpack(data).tag = 3 \/ Unpack(data).tag = 4
            \/ Unpack(data).tag \in {5, 6} /\ Len(Unpack(data).bps) \in 1..8
        BY <3>1, InstructionShape
      <4> QED
        BY <1>1, <4>1, Zenon
  <2>2. Found(ProgramReads(s), Keys(s), ProgramExpects(s))
    <3>1. CASE s.tag = 3
      BY <3>1, CreateFound
    <3>2. CASE s.tag = 4
      BY <3>2, RotationFound
    <3>3. CASE s.tag = 5 /\ Len(s.bps) \in 1..8
      BY <3>3, SettlingFound
    <3>4. CASE s.tag = 6 /\ Len(s.bps) \in 1..8
      BY <3>4, TokenSettlingFound
    <3> QED
      BY <2>1, <3>1, <3>2, <3>3, <3>4
  <2>3. /\ Len(keys) = ProgramExpects(s)
        /\ {r.at : r \in ProgramReads(s)} = 0..(ProgramExpects(s) - 1)
        /\ \A r \in ProgramReads(s) :
             /\ keys[r.at + 1].role = r.needs.role
             /\ r.needs.signer => keys[r.at + 1].signer
             /\ r.needs.writable => keys[r.at + 1].writable
    BY <1>1, <2>2, ListInPlace
  <2>4. ASSUME s.tag \in SettleTags \cup {CREATE_NAMESPACE_TAG}
        PROVE  keys[ObservedNamespace + 1].role = <<"namespace">>
    <3>1. ObservedNamespace + 1 = 3
      BY DEF ObservedNamespace
    <3>2. s.tag # 4
      BY <2>4, TagCases
    <3>3. keys[3].role = <<"namespace">>
      BY <1>1, <2>1, <3>2, CreateFound, SettlingFound, TokenSettlingFound
    <3> QED
      BY <3>1, <3>3
  <2>5. ASSUME s.tag \in SettleTags
        PROVE  /\ \A k \in 1..Len(s.bps) :
                    keys[ObservedRecipient(s, k) + 1].role = <<"recipient", k>>
               /\ keys[ObservedRecord(s) + 1] = Record
    <3>1. PICK m : m = Len(s.bps)
      OBVIOUS
    <3>2. s.tag \in {5, 6} /\ m \in 1..8
      BY <2>1, <2>5, <3>1, TagCases
    <3>3. CASE s.tag = 5
      <4>1. keys[m + 4] = Record /\ \A k \in 1..m : keys[3 + k].role = <<"recipient", k>>
        BY <1>1, <3>1, <3>2, <3>3, SettlingFound
      <4>2. s.tag = SETTLE_N_TAG
        BY <3>3, TagCases
      <4>3. ObservedRecord(s) + 1 = m + 4
        BY <3>1, <3>2, <4>2 DEF ObservedRecord
      <4>4. \A k \in 1..m : ObservedRecipient(s, k) + 1 = 3 + k
        BY <4>2 DEF ObservedRecipient
      <4> QED
        BY <3>1, <4>1, <4>3, <4>4
    <3>4. CASE s.tag = 6
      <4>1. keys[m + 6] = Record /\ \A k \in 1..m : keys[4 + k].role = <<"recipient", k>>
        BY <1>1, <3>1, <3>2, <3>4, TokenSettlingFound
      <4>2. s.tag # SETTLE_N_TAG
        BY <3>4, TagCases
      <4>3. ObservedRecord(s) + 1 = m + 6
        BY <3>1, <3>2, <4>2 DEF ObservedRecord
      <4>4. \A k \in 1..m : ObservedRecipient(s, k) + 1 = 4 + k
        BY <4>2 DEF ObservedRecipient
      <4> QED
        BY <3>1, <4>1, <4>3, <4>4
    <3> QED
      BY <3>2, <3>3, <3>4
  <2> QED
    BY <1>1, <2>3, <2>4, <2>5 DEF AccountsInPlace
<1> QED
  BY <1>2, <1>3

\* Every account of an instruction stands where the program and the readers of
\* evidence look for it; a namespace and a record read the same to the program
\* and the SDK and are written as they were read; a rotation keeps what it does
\* not name (the builders of instruction.ts, processor.rs, state.rs, ledger.ts).
THEOREM AccountsAlwaysAgree == CodecSpec => []AccountsAgree
<1>1. WellFormed(data) => AccountsAgree
  BY InPlaceIs, ReadBack DEF AccountsAgree
<1> QED
  BY <1>1, StringsAreWellFormed, PTL
=============================================================================
