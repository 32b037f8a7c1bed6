---------------------------- MODULE DepositAmount ----------------------------
(***************************************************************************)
(* Depositing a note (sdk-core depositAmount.ts, then the fee arithmetic   *)
(* of ShieldedPool.deposit()).  A note has a fixed net value; the client   *)
(* inverts the pool's rounded fee to find the gross amount to send, and    *)
(* the pool takes the deposit only if its own rounding gives the net value *)
(* that the deposit proof names.  The client computes in unbounded         *)
(* integers, the pool in uint256.                                          *)
(***************************************************************************)
EXTENDS DepositFee

CONSTANTS UINT256_MAX,
          AmountLimit       \* 2^128: the circuits take smaller values only

ASSUME DepositAmountAssumption ==
  /\ UINT256_MAX \in Nat
  /\ AmountLimit \in Nat
  /\ AmountLimit * FEE_DENOMINATOR * FEE_DENOMINATOR <= UINT256_MAX

VARIABLES ppm,     \* the fee rate of the pool and of the client
          net,     \* the value of the note being deposited
          gross,   \* the amount the client sends for it
          status   \* where the deposit is

vars == <<ppm, net, gross, status>>

Uint256 == 0 .. UINT256_MAX

Thrown == {"tooLarge", "unrepresentable"}
Statuses == {"idle", "quoted", "accepted", "reverted"} \union Thrown

-----------------------------------------------------------------------------
(* What depositGrossFromNet makes of that amount before it returns it. *)
Outcome(value, rate) ==
  LET amount == DepositGrossFromNet(value, rate)
  IN  IF amount > UINT256_MAX THEN "tooLarge"
      ELSE IF DepositNetFromGross(amount, rate) # value THEN "unrepresentable"
      ELSE "quoted"

-----------------------------------------------------------------------------
(* ShieldedPool.deposit() *)

(* The multiplication is checked: beyond uint256 the call panics. *)
Panics(amount) == amount * ppm > UINT256_MAX

PoolNet(amount) == amount - (amount * ppm) \div FEE_DENOMINATOR

-----------------------------------------------------------------------------
Init ==
  /\ ppm \in FeeRates
  /\ net = 0
  /\ gross = 0
  /\ status = "idle"

(* The client prepares the deposit of a note of this value. *)
Quote(value) ==
  /\ status # "quoted"
  /\ net' = value
  /\ gross' = DepositGrossFromNet(value, ppm)
  /\ status' = Outcome(value, ppm)
  /\ UNCHANGED ppm

(* The pool executes it: zero amount, overflow, or a proof for another net. *)
Submit ==
  /\ status = "quoted"
  /\ status' = IF gross # 0 /\ ~Panics(gross) /\ PoolNet(gross) = net
                 THEN "accepted" ELSE "reverted"
  /\ UNCHANGED <<ppm, net, gross>>

Next == (\E value \in Uint256 : Quote(value)) \/ Submit

Spec == Init /\ [][Next]_vars

-----------------------------------------------------------------------------
TypeOK ==
  /\ ppm \in FeeRates
  /\ net \in Uint256
  /\ gross \in Nat
  /\ status \in Statuses

(***************************************************************************)
(* The amount the client asks for is the smallest that leaves the note's   *)
(* value after the fee: never one unit more at a rounding boundary.        *)
(***************************************************************************)
SmallestGross ==
  status = "quoted" =>
    /\ DepositNetFromGross(gross, ppm) = net
    /\ \A amount \in 0 .. gross - 1 : DepositNetFromGross(amount, ppm) # net

(***************************************************************************)
(* The client throws only when no uint256 amount leaves the note's value:  *)
(* every net value is representable at every rate below 100%.              *)
(***************************************************************************)
ThrowsOnlyWhenImpossible ==
  status \in Thrown =>
    \A amount \in Uint256 : DepositNetFromGross(amount, ppm) # net

(***************************************************************************)
(* A note the circuits can take is always accepted at the amount quoted:   *)
(* the pool's uint256 arithmetic agrees with the client's.                 *)
(***************************************************************************)
NoteIsAccepted ==
  net \in 1 .. AmountLimit - 1 => status \notin Thrown \union {"reverted"}

(***************************************************************************)
(* A note the circuits can take can be deposited, for the least amount.    *)
(***************************************************************************)
QuoteIsExact == SmallestGross /\ NoteIsAccepted
=============================================================================
