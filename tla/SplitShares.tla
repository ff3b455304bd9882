---------------------------- MODULE SplitShares ----------------------------
(***************************************************************************)
(* The loops of split_shares, one iteration a step, in the integer widths  *)
(* of the program: a u32 sum, a u128 product, a saturating u64 running     *)
(* total and a checked subtraction for the last share.                     *)
(*                                                                         *)
(* `sums` and `allocs` keep the successive values of the code's `sum` and  *)
(* `allocated`, so that the invariants can speak of the partial sums.      *)
(***************************************************************************)
EXTENDS Split

CONSTANTS Amounts,     \* the gross amounts an instruction may carry (u64)
          BpsVectors,  \* the sequences of basis points it may carry (u16)
          MAX_U64,     \* 2^64 - 1 in the code
          MAX_U128     \* 2^128 - 1 in the code

ASSUME WidthAssumption ==
  /\ MAX_U64 \in Nat
  /\ MAX_U128 \in Nat
  /\ MAX_U64 * BPS_DENOMINATOR <= MAX_U128

ASSUME InputAssumption ==
  /\ Amounts \subseteq 0..MAX_U64
  /\ BpsVectors \subseteq Seq(Nat)

VARIABLES amount, bps,   \* the arguments
          pc, i,         \* the loop that runs and the share it is at
          sums, allocs,  \* successive values of `sum` and of `allocated`
          out,           \* the payouts written so far
          result         \* the Ok or the SplitError returned

vars == <<amount, bps, pc, i, sums, allocs, out, result>>

n == Len(bps)

Zeros == [k \in Slots |-> 0]

Init ==
  /\ amount \in Amounts
  /\ bps \in BpsVectors
  /\ pc = "validate"
  /\ i = 1
  /\ sums = [k \in 0..MAX_SHARES |-> 0]
  /\ allocs = [k \in 0..MAX_SHARES |-> 0]
  /\ out = Zeros
  /\ result = "none"

Return(r) ==
  /\ pc' = "done"
  /\ result' = r
  /\ UNCHANGED <<i, sums, allocs, out>>

\* Faulty variant of Validate: the amount is looked at first.
ValidateAmountFirst ==
  /\ pc = "validate"
  /\ \/ amount = 0 /\ Return("ZeroAmount")
     \/ amount # 0 /\ ~ShareCountOk(bps) /\ Return("ShareCount")
     \/ /\ ShareCountOk(bps) /\ amount # 0
        /\ pc' = "sum"
        /\ UNCHANGED <<i, sums, allocs, out, result>>
  /\ UNCHANGED <<amount, bps>>

\* The length of the caller's out slice is that of bps in both call sites.
Validate ==
  /\ pc = "validate"
  /\ \/ ~ShareCountOk(bps) /\ Return("ShareCount")
     \/ ShareCountOk(bps) /\ amount = 0 /\ Return("ZeroAmount")
     \/ /\ ShareCountOk(bps) /\ amount # 0
        /\ pc' = "sum"
        /\ UNCHANGED <<i, sums, allocs, out, result>>
  /\ UNCHANGED <<amount, bps>>

SumShare ==
  /\ pc = "sum" /\ i <= n
  /\ \/ bps[i] > BPS_DENOMINATOR /\ Return("BpsOutOfRange")
     \/ /\ bps[i] <= BPS_DENOMINATOR
        /\ sums' = [sums EXCEPT ![i] = sums[i - 1] + bps[i]]
        /\ i' = i + 1
        /\ UNCHANGED <<pc, allocs, out, result>>
  /\ UNCHANGED <<amount, bps>>

CheckSum ==
  /\ pc = "sum" /\ i > n
  /\ \/ sums[n] # BPS_DENOMINATOR /\ Return("BpsSumNotDenominator")
     \/ /\ sums[n] = BPS_DENOMINATOR
        /\ pc' = "pay"
        /\ i' = 1
        /\ UNCHANGED <<sums, allocs, out, result>>
  /\ UNCHANGED <<amount, bps>>

SaturatingMul(a, b) == IF a * b > MAX_U128 THEN MAX_U128 ELSE a * b
SaturatingAdd(a, b) == IF a + b > MAX_U64 THEN MAX_U64 ELSE a + b

\* Faulty variants of Part: rounded up; a part of what is left, not of the whole.
PartRoundedUp(k) ==
  ((SaturatingMul(amount, bps[k]) + BPS_DENOMINATOR - 1) \div BPS_DENOMINATOR)
    % (MAX_U64 + 1)
PartOfTheRest(k) ==
  (SaturatingMul(amount - allocs[k - 1], bps[k]) \div BPS_DENOMINATOR) % (MAX_U64 + 1)

\* The floored part, cast to u64.
Part(k) ==
  (SaturatingMul(amount, bps[k]) \div BPS_DENOMINATOR) % (MAX_U64 + 1)

FloorShare ==
  /\ pc = "pay" /\ i < n
  /\ out' = [out EXCEPT ![i] = Part(i)]
  /\ allocs' = [allocs EXCEPT ![i] = SaturatingAdd(allocs[i - 1], Part(i))]
  /\ i' = i + 1
  /\ UNCHANGED <<amount, bps, pc, sums, result>>

\* Faulty variant of LastShare: the last share is floored like the others.
LastShareFloored ==
  /\ pc = "pay" /\ i = n
  /\ out' = [out EXCEPT ![n] = Part(n)]
  /\ pc' = "done"
  /\ result' = "ok"
  /\ UNCHANGED <<amount, bps, i, sums, allocs>>

\* A failed subtraction would be returned as an error; it gets a name of its
\* own here, since NoUnderflow is about it.
LastShare ==
  /\ pc = "pay" /\ i = n
  /\ IF allocs[n - 1] > amount
     THEN Return("Underflow")
     ELSE /\ out' = [out EXCEPT ![n] = amount - allocs[n - 1]]
          /\ pc' = "done"
          /\ result' = "ok"
          /\ UNCHANGED <<i, sums, allocs>>
  /\ UNCHANGED <<amount, bps>>

Next == Validate \/ SumShare \/ CheckSum \/ FloorShare \/ LastShare

Spec == Init /\ [][Next]_vars

-----------------------------------------------------------------------------
(* Properties *)

Results == {"none", "ok", "ShareCount", "ZeroAmount", "BpsOutOfRange",
            "BpsSumNotDenominator", "Underflow"}

\* The loop indices stay within the slots and every number within its width.
TypeOK ==
  /\ amount \in Amounts
  /\ bps \in BpsVectors
  /\ pc \in {"validate", "sum", "pay", "done"}
  /\ i \in 1..(MAX_SHARES + 1)
  /\ sums \in [0..MAX_SHARES -> Nat]
  /\ allocs \in [0..MAX_SHARES -> 0..MAX_U64]
  /\ out \in [Slots -> 0..MAX_U64]
  /\ result \in Results

\* The comment of split.rs:67, "Cannot underflow: the floored shares sum to at
\* most `amount`": the checked_sub never fails, and before it neither the u128
\* product nor the u64 running total has saturated or been cut by the cast.
NoUnderflow ==
  /\ result # "Underflow"
  /\ pc = "pay" =>
       /\ allocs[i - 1] <= amount
       /\ amount * bps[i] <= MAX_U128
       /\ (amount * bps[i]) \div BPS_DENOMINATOR <= MAX_U64
       /\ allocs[i - 1] + Part(i) <= MAX_U64

\* An accepted split pays out exactly the amount: the running totals of the
\* payouts written end at `amount` (split.rs:3-5, "conservation").
Conservation ==
  result = "ok" =>
    /\ \A k \in 1..(n - 1) : allocs[k] = allocs[k - 1] + out[k]
    /\ allocs[0] = 0
    /\ allocs[n - 1] + out[n] = amount
    /\ \A k \in (n + 1)..MAX_SHARES : out[k] = 0

\* No share loses a whole unit to rounding, and the last one gains less than
\* one unit for every other share: n - 1 units of dust at most.
RoundingBounds ==
  result = "ok" =>
    /\ \A k \in 1..(n - 1) :
         /\ out[k] * BPS_DENOMINATOR <= amount * bps[k]
         /\ amount * bps[k] < (out[k] + 1) * BPS_DENOMINATOR
    /\ amount * bps[n] <= out[n] * BPS_DENOMINATOR
    /\ out[n] * BPS_DENOMINATOR
         <= amount * bps[n] + (n - 1) * (BPS_DENOMINATOR - 1)

\* The loops compute the reference definition: same verdict (so the program and
\* the SDK refuse the same requests for the same reason), same payouts.
MatchesReference ==
  pc = "done" =>
    /\ result = SplitVerdict(amount, bps)
    /\ result = "ok" => out = Payouts(amount, bps)
=============================================================================
