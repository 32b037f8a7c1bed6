----------------------------- MODULE DepositFee -----------------------------
(***************************************************************************)
(* The fee of a deposit and its inversion (sdk-core depositAmount.ts), in  *)
(* unbounded integers.                                                     *)
(***************************************************************************)
EXTENDS Integers

CONSTANT FEE_DENOMINATOR   \* 1e6 in the code

ASSUME DepositFeeAssumption == FEE_DENOMINATOR \in Nat \ {0}

FeeRates == 0 .. FEE_DENOMINATOR - 1

FeeFromPpm(amount, rate) == (amount * rate) \div FEE_DENOMINATOR

DepositNetFromGross(amount, rate) == amount - FeeFromPpm(amount, rate)

(* Mutant of InverseFee: rounds the exact quotient up. *)
InverseCeil(value, rate) ==
  (FEE_DENOMINATOR * value + (FEE_DENOMINATOR - rate) - 1)
    \div (FEE_DENOMINATOR - rate)

InverseFee(value, rate) ==
  (FEE_DENOMINATOR * (value - 1)) \div (FEE_DENOMINATOR - rate) + 1

DepositGrossFromNet(value, rate) == IF value = 0 THEN 0 ELSE InverseFee(value, rate)
=============================================================================
