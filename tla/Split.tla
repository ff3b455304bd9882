------------------------------- MODULE Split -------------------------------
(***************************************************************************)
(* What a split of an amount by basis points is: the reference definition  *)
(* of split_shares (programs/synxed-settlement/src/split.rs) and of its    *)
(* mirror splitAmountAtomicShares (sdk/typescript/src/split.ts).           *)
(*                                                                         *)
(* Payouts are padded with zeros to MAX_SHARES slots, the way the          *)
(* processor holds them in `[0u64; MAX_SHARES]`.                           *)
(***************************************************************************)
EXTENDS Integers, Sequences

CONSTANT BPS_DENOMINATOR   \* 10 000 in the code; smaller in some runs

ASSUME DenominatorAssumption == BPS_DENOMINATOR \in Nat \ {0}

MAX_SHARES == 8

Slots == 1..MAX_SHARES

\* The sum over the slots, written out: MAX_SHARES is fixed in the program.
Total(f) == f[1] + f[2] + f[3] + f[4] + f[5] + f[6] + f[7] + f[8]

\* A sequence of at most MAX_SHARES values, padded with zeros.
Padded(s) == [k \in Slots |-> IF k <= Len(s) THEN s[k] ELSE 0]

ShareCountOk(bps) == Len(bps) \in Slots

BpsInRange(bps) == \A k \in 1..Len(bps) : bps[k] <= BPS_DENOMINATOR

\* The first check that fails, in the order of the code, or "ok".
SplitVerdict(amount, bps) ==
  CASE ~ShareCountOk(bps)                            -> "ShareCount"
    [] ShareCountOk(bps) /\ amount = 0               -> "ZeroAmount"
    [] ShareCountOk(bps) /\ amount # 0
         /\ ~BpsInRange(bps)                         -> "BpsOutOfRange"
    [] ShareCountOk(bps) /\ amount # 0
         /\ BpsInRange(bps)
         /\ Total(Padded(bps)) # BPS_DENOMINATOR     -> "BpsSumNotDenominator"
    [] OTHER                                         -> "ok"

\* Every share but the last is floored ...
FlooredShares(amount, bps) ==
  [k \in Slots |-> IF k < Len(bps)
                   THEN (amount * bps[k]) \div BPS_DENOMINATOR
                   ELSE 0]

\* ... and the last takes what is left.
Payouts(amount, bps) ==
  [FlooredShares(amount, bps) EXCEPT
     ![Len(bps)] = amount - Total(FlooredShares(amount, bps))]
=============================================================================
