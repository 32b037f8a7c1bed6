---------------------------- MODULE ShieldedPool ----------------------------
(***************************************************************************)
(* One ShieldedPool contract: deposits, the three withdrawals, the gas     *)
(* reserve and the relayer rebate.                                         *)
(*                                                                         *)
(* The pool has no reentrancy guard.  When it pays native ETH (the fee,    *)
(* the payout, the rebate) the callee gets control and may call the pool   *)
(* again, return, or revert, in which case everything the call did is      *)
(* undone.  `stack` holds the calls in progress, innermost last; each      *)
(* keeps in `undo` the storage it reverts to.  The code between two        *)
(* external calls of a handler is one action.                              *)
(*                                                                         *)
(* Abstractions.  A commitment is a note identity with its value (Poseidon *)
(* binds both).  The tree is the sequence of its leaves, and a root is the *)
(* number of leaves it commits to: the tree only grows, and two prefixes   *)
(* have different roots unless Poseidon collides.  A nullifier is the leaf *)
(* it spends, as a 256-bit word that may be the field element or its       *)
(* alias, the same element plus the field's modulus.  A proof is the       *)
(* relation its circuit enforces.                                          *)
(***************************************************************************)
EXTENDS Integers, Sequences, FiniteSetsExt

CONSTANTS
  Native,             \* TRUE for the ETH pool, FALSE for an ERC-20 pool
  ROOT_HISTORY_SIZE,
  TreeCapacity,       \* 2^treeDepth
  FEE_DENOMINATOR, depositFeePpm, withdrawFeePpm,
  gasRebateWei,
  AmountLimit,        \* 2^128: the withdrawal circuits take smaller amounts only
  Notes,              \* identities of notes: keys and blinding
  Amounts,            \* amounts deposited, withdrawn, sent
  Recipients,         \* who withdrawals name: the "pool" itself, an "other" account
  NoNote,             \* stands where a call inserts no deposit
  MaxNesting,         \* bound of the model: calls in progress
  MaxGasReserve,      \* bound of the model: how far the reserve is funded
  MaxSurplus          \* bound of the model: assets sent outside deposit()

ASSUME PoolAssumption ==
  /\ Native \in BOOLEAN
  /\ ROOT_HISTORY_SIZE \in Nat \ {0}
  /\ TreeCapacity \in Nat
  /\ FEE_DENOMINATOR \in Nat \ {0}
  /\ depositFeePpm \in 0 .. FEE_DENOMINATOR - 1
  /\ withdrawFeePpm \in 0 .. FEE_DENOMINATOR - 1
  /\ gasRebateWei \in Nat
  /\ AmountLimit \in Nat
  /\ Amounts \subseteq Nat
  /\ Recipients \subseteq {"pool", "other"}
  /\ MaxNesting \in Nat /\ MaxGasReserve \in Nat /\ MaxSurplus \in Nat

VARIABLES
  pool,   \* the contract's storage and balances, and three history fields
  stack   \* the calls in progress, innermost last

vars == <<pool, stack>>

LeafIndices == 0 .. TreeCapacity - 1
TreeRoots == 0 .. TreeCapacity

Ring == INSTANCE RootRing WITH Roots <- TreeRoots, NoRoot <- -1

-----------------------------------------------------------------------------
(* Storage.                                                                *)

Commitments == [note : Notes, value : Nat]
Nullifiers  == [index : LeafIndices, commitment : Commitments, alias : BOOLEAN]

PoolStates ==
  [leaves             : Seq(Commitments),
   ring               : Ring!Rings,
   nullifierSpent     : SUBSET Nullifiers,
   ether              : Nat,  \* address(this).balance
   tokens             : Nat,  \* asset.balanceOf(address(this)), ERC-20 pools
   gasReserveEth      : Nat,
   totalDeposited     : Nat,
   totalWithdrawn     : Nat,
   totalFeesCollected : Nat,
   noteValue          : Int,  \* history: value of the notes not yet spent
   surplus            : Nat,  \* history: assets received outside deposit()
   timesSpent         : [LeafIndices -> Nat]]  \* history: spends of a leaf

EmptyPool ==
  [leaves |-> <<>>, ring |-> Ring!RecordRoot(Ring!EmptyRing, 0),
   nullifierSpent |-> {}, ether |-> 0, tokens |-> 0, gasReserveEth |-> 0,
   totalDeposited |-> 0, totalWithdrawn |-> 0, totalFeesCollected |-> 0,
   noteValue |-> 0, surplus |-> 0, timesSpent |-> [i \in LeafIndices |-> 0]]

AssetBalance(s) == IF Native THEN s.ether ELSE s.tokens

Credit(s, amount) ==
  IF Native THEN [s EXCEPT !.ether = @ + amount]
            ELSE [s EXCEPT !.tokens = @ + amount]

Debit(s, amount) == Credit(s, 0 - amount)

SpendableAssetBalance(s) ==
  CASE ~Native                         -> s.tokens
    [] Native /\ s.ether > s.gasReserveEth  -> s.ether - s.gasReserveEth
    [] Native /\ s.ether <= s.gasReserveEth -> 0

TreeFull(s) == Len(s.leaves) >= TreeCapacity

(* Mutant of Insert: the root of the tree before the insert is recorded. *)
InsertOldRoot(s, c) ==
  [s EXCEPT !.leaves    = Append(@, c),
            !.ring      = Ring!RecordRoot(@, Len(s.leaves)),
            !.noteValue = @ + c.value]

(* _tree.insert, then _recordRoot, as the two inserting handlers do. *)
Insert(s, c) ==
  [s EXCEPT !.leaves    = Append(@, c),
            !.ring      = Ring!RecordRoot(@, Len(s.leaves) + 1),
            !.noteValue = @ + c.value]

(* Mutant of MarkSpent: the nullifier is not marked before the payments. *)
MarkSpentNever(s, word) ==
  [s EXCEPT !.noteValue              = @ - word.commitment.value,
            !.timesSpent[word.index] = @ + 1]

MarkSpent(s, word) ==
  [s EXCEPT !.nullifierSpent         = @ \union {word},
            !.noteValue              = @ - word.commitment.value,
            !.timesSpent[word.index] = @ + 1]

Fee(amount, ppm) == (amount * ppm) \div FEE_DENOMINATOR

-----------------------------------------------------------------------------
(* What a verified proof says: the circuit's relation, and the range check *)
(* (checkField) the generated verifiers make of each public input.         *)

(* Mutant of InField: a verifier without the range check. *)
AnyWord(word) == TRUE

InField(word) == ~word.alias

(* The note at word.index is committed to by root and word is its nullifier. *)
Opens(s, root, word) ==
  /\ InField(word)
  /\ root <= Len(s.leaves)
  /\ word.index < root
  /\ word.commitment = s.leaves[word.index + 1]

DepositProof(c, netValue) == c.value = netValue

InRange(value) == value < AmountLimit

Withdraw1Proof(s, root, word, amount, fee) ==
  /\ Opens(s, root, word)
  /\ word.commitment.value = amount
  /\ InRange(amount)
  /\ fee <= amount

Withdraw2Proof(s, root, word1, word2, amount, fee) ==
  /\ Opens(s, root, word1)
  /\ Opens(s, root, word2)
  /\ word1.commitment # word2.commitment
  /\ word1 # word2
  /\ word1.commitment.value + word2.commitment.value = amount
  /\ InRange(amount)
  /\ fee <= amount

WithdrawPartialProof(s, root, word, amount, fee, out) ==
  /\ Opens(s, root, word)
  /\ word.commitment.value = amount + out.value
  /\ InRange(word.commitment.value)
  /\ out.value > 0
  /\ fee <= amount

-----------------------------------------------------------------------------
(* The call stack.                                                         *)

Top == stack[Len(stack)]

(* Phases in which code of another account runs: _payFee's call, the       *)
(* payout's call and the rebate's call.                                    *)
CalleePhases == {"inFee", "inPayout", "inRebate"}
Phases == CalleePhases \union {"fee", "insert", "payout", "rebate"}

Frames ==
  [op        : {"deposit", "withdraw"},
   phase     : Phases,
   amount    : Nat,
   fee       : Nat,
   note      : Commitments \union {NoNote},
   recipient : {"pool", "other"},
   undo      : PoolStates]

(* Any account may call the pool in a transaction of its own, and an       *)
(* account that has been paid may call it from inside the payment.         *)
MayCall ==
  stack # <<>> => Top.phase \in CalleePhases /\ Len(stack) < MaxNesting

Running(phase) == stack # <<>> /\ Top.phase = phase

Enter(frame) == stack' = Append(stack, frame)
Continue(phase) == stack' = [stack EXCEPT ![Len(stack)].phase = phase]
Leave == stack' = SubSeq(stack, 1, Len(stack) - 1)

Init ==
  /\ pool = EmptyPool
  /\ stack = <<>>

-----------------------------------------------------------------------------
(* Handlers.  A handler that reverts before any external call leaves no    *)
(* trace, so its revert conditions are guards.                             *)

(* Mutant of Deposit: only the net value is pulled. *)
DepositNet(amount, c) ==
  LET fee == Fee(amount, depositFeePpm)
  IN  /\ amount # 0
      /\ DepositProof(c, amount - fee)
      /\ pool' = Credit(pool, amount - fee)
      /\ Enter([op |-> "deposit", phase |-> "fee", amount |-> amount,
                fee |-> fee, note |-> c, recipient |-> "other",
                undo |-> pool])

(* deposit(), up to _payFee: checks, proof, _pullDeposit. *)
Deposit(amount, c) ==
  LET fee == Fee(amount, depositFeePpm)
  IN  /\ amount # 0
      /\ DepositProof(c, amount - fee)
      /\ pool' = Credit(pool, amount)
      /\ Enter([op |-> "deposit", phase |-> "fee", amount |-> amount,
                fee |-> fee, note |-> c, recipient |-> "other",
                undo |-> pool])

(* deposit(), after _payFee: the insert, or TreeFull. *)
InsertDeposit ==
  /\ Running("insert")
  /\ ~TreeFull(pool)
  /\ pool' = [Insert(pool, Top.note) EXCEPT !.totalDeposited = @ + Top.amount]
  /\ Leave

(* The public checks the three withdrawals share. *)
Admissible(s, root, words, amount, fee) ==
  /\ amount # 0
  /\ Ring!IsKnownRoot(s.ring, root)
  /\ fee <= amount
  /\ fee >= Fee(amount, withdrawFeePpm)
  /\ words \intersect s.nullifierSpent = {}

(* The liquidity check, on the storage the handler has updated so far; what *)
(* remains is _payFee, the payout and the rebate.                           *)
StartPaying(updated, amount, fee, recipient) ==
  /\ SpendableAssetBalance(updated) >= amount
  /\ pool' = updated
  /\ Enter([op |-> "withdraw", phase |-> "fee", amount |-> amount,
            fee |-> fee, note |-> NoNote, recipient |-> recipient,
            undo |-> pool])

Withdraw1(root, word, amount, fee, recipient) ==
  /\ Admissible(pool, root, {word}, amount, fee)
  /\ Withdraw1Proof(pool, root, word, amount, fee)
  /\ StartPaying(MarkSpent(pool, word), amount, fee, recipient)

(* withdraw(): two notes, none of them twice. *)
Withdraw(root, word1, word2, amount, fee, recipient) ==
  /\ Admissible(pool, root, {word1, word2}, amount, fee)
  /\ word1 # word2
  /\ Withdraw2Proof(pool, root, word1, word2, amount, fee)
  /\ StartPaying(MarkSpent(MarkSpent(pool, word1), word2),
                 amount, fee, recipient)

(* withdrawPartial1(): the change is in the tree before anything is paid. *)
WithdrawPartial1(root, word, amount, fee, out, recipient) ==
  /\ Admissible(pool, root, {word}, amount, fee)
  /\ WithdrawPartialProof(pool, root, word, amount, fee, out)
  /\ ~TreeFull(pool)
  /\ StartPaying(Insert(MarkSpent(pool, word), out), amount, fee, recipient)

(* _payFee, then the rest of the handler that called it. *)
AfterFee == IF Top.op = "deposit" THEN "insert" ELSE "payout"

PayNoFee ==
  /\ Running("fee")
  /\ Top.fee = 0
  /\ Continue(AfterFee)
  /\ UNCHANGED pool

(* Mutant of PayFee: the fee leaves the pool uncounted. *)
PayFeeUncounted ==
  /\ Running("fee")
  /\ Top.fee # 0
  /\ AssetBalance(pool) >= Top.fee
  /\ pool' = Debit(pool, Top.fee)
  /\ Continue(IF Native THEN "inFee" ELSE AfterFee)

PayFee ==
  /\ Running("fee")
  /\ Top.fee # 0
  /\ AssetBalance(pool) >= Top.fee
  /\ pool' = [Debit(pool, Top.fee) EXCEPT !.totalFeesCollected = @ + Top.fee]
  /\ Continue(IF Native THEN "inFee" ELSE AfterFee)

(* _payAsset(recipient, amount - fee).  A payout of zero makes no call.    *)
Payout == Top.amount - Top.fee

Withdrawn == [pool EXCEPT !.totalWithdrawn = @ + Top.amount]

PayNothing ==
  /\ Running("payout")
  /\ Payout = 0
  /\ pool' = Withdrawn
  /\ Continue("rebate")

PayRecipient ==
  /\ Running("payout")
  /\ Payout # 0
  /\ Top.recipient = "other"
  /\ AssetBalance(pool) >= Payout
  /\ pool' = Debit(Withdrawn, Payout)
  /\ Continue(IF Native THEN "inPayout" ELSE "rebate")

(* The pool itself is a legal recipient: native ETH comes back through     *)
(* receive(), which files it under the gas reserve; tokens just stay.      *)
PayPool ==
  /\ Running("payout")
  /\ Payout # 0
  /\ Top.recipient = "pool"
  /\ AssetBalance(pool) >= Payout
  /\ pool' = IF Native THEN [Withdrawn EXCEPT !.gasReserveEth = @ + Payout]
                       ELSE [Withdrawn EXCEPT !.surplus = @ + Payout]
  /\ Continue("rebate")

CanRebate == gasRebateWei > 0 /\ pool.gasReserveEth >= gasRebateWei

(* _maybeRebateRelayer.  From here on the withdrawal cannot revert, so what *)
(* a failed call undoes is the call alone; a call the balance does not      *)
(* cover fails at once and the reserve stays as it was.                     *)
SkipRebate ==
  /\ Running("rebate")
  /\ ~CanRebate \/ pool.ether < gasRebateWei
  /\ Leave
  /\ UNCHANGED pool

PayRebate ==
  /\ Running("rebate")
  /\ CanRebate
  /\ pool.ether >= gasRebateWei
  /\ LET reserved == [pool EXCEPT !.gasReserveEth = @ - gasRebateWei]
     IN  /\ pool' = [reserved EXCEPT !.ether = @ - gasRebateWei]
         /\ stack' = [stack EXCEPT ![Len(stack)].phase = "inRebate",
                                   ![Len(stack)].undo = reserved]

-----------------------------------------------------------------------------
(* The account that is being paid returns or reverts. *)

FeeReturns ==
  /\ Running("inFee")
  /\ Continue(AfterFee)
  /\ UNCHANGED pool

PayoutReturns ==
  /\ Running("inPayout")
  /\ Continue("rebate")
  /\ UNCHANGED pool

RebateReturns ==
  /\ Running("inRebate")
  /\ Leave
  /\ UNCHANGED pool

(* Mutant of OnFailure: a refused rebate is not put back. *)
OnFailureForgets(frame) == frame.undo

(* The storage a call leaves if its external call fails.  The handler      *)
(* reverts as a whole, with every call made from inside it, except that a  *)
(* refused rebate only goes back to the reserve.                           *)
OnFailure(frame) ==
  IF frame.phase = "inRebate"
    THEN [frame.undo EXCEPT !.gasReserveEth = @ + gasRebateWei]
    ELSE frame.undo

(* TransferFailed, whether the callee refuses or the balance does not cover *)
(* the payment, or TreeFull.                                                *)
CanFail ==
  \/ Top.phase \in {"inFee", "inPayout"}
  \/ Top.phase = "fee"    /\ AssetBalance(pool) < Top.fee
  \/ Top.phase = "payout" /\ AssetBalance(pool) < Payout
  \/ Top.phase = "insert" /\ TreeFull(pool)

(* Mutant of Revert: the failure is swallowed, the transaction commits. *)
RevertSwallowed ==
  /\ stack # <<>>
  /\ CanFail
  /\ pool' = pool
  /\ Leave

Revert ==
  /\ stack # <<>>
  /\ CanFail
  /\ pool' = OnFailure(Top)
  /\ Leave

RebateFails ==
  /\ Running("inRebate")
  /\ pool' = OnFailure(Top)
  /\ Leave

-----------------------------------------------------------------------------

(* receive() and fundGasReserve(). *)
FundGasReserve(value) ==
  /\ value # 0
  /\ pool.gasReserveEth + value <= MaxGasReserve
  /\ pool' = [pool EXCEPT !.ether = @ + value, !.gasReserveEth = @ + value]
  /\ UNCHANGED stack

(* Assets that no handler sees arrive: ETH forced into the contract, or    *)
(* tokens sent to it by a plain transfer.                                  *)
ReceiveUnsolicited(value) ==
  /\ value # 0
  /\ pool.surplus + value <= MaxSurplus
  /\ pool' = [Credit(pool, value) EXCEPT !.surplus = @ + value]
  /\ UNCHANGED stack

(* The words worth offering: any other fails Opens whatever the root. *)
Offered ==
  {[index |-> i - 1, commitment |-> pool.leaves[i], alias |-> a] :
     i \in DOMAIN pool.leaves, a \in BOOLEAN}

Outputs == [note : Notes, value : Amounts]

Withdrawals ==
  \E word \in Offered, root \in TreeRoots, amount \in Amounts :
    \E fee \in 0 .. amount, recipient \in Recipients :
      \/ Withdraw1(root, word, amount, fee, recipient)
      \/ \E word2 \in Offered : Withdraw(root, word, word2, amount, fee, recipient)
      \/ \E out \in Outputs : WithdrawPartial1(root, word, amount, fee, out, recipient)

(* Every entry point needs an account that is free to call. *)
Calls ==
  /\ MayCall
  /\ \/ \E amount \in Amounts, c \in Outputs : Deposit(amount, c)
     \/ Withdrawals
     \/ \E value \in Amounts : FundGasReserve(value) \/ ReceiveUnsolicited(value)

Handlers ==
  PayNoFee \/ PayFee \/ InsertDeposit \/ PayNothing \/ PayRecipient \/ PayPool
    \/ SkipRebate \/ PayRebate \/ Revert

Callees == FeeReturns \/ PayoutReturns \/ RebateReturns \/ RebateFails

Next == Calls \/ Handlers \/ Callees

Spec == Init /\ [][Next]_vars

-----------------------------------------------------------------------------
(* Properties.                                                             *)

(* Storage and call stack keep their shape: no balance, reserve or counter *)
(* goes below zero, also inside a callback and after an undone call.       *)
TypeOK ==
  /\ pool \in PoolStates
  /\ stack \in Seq(Frames)

WordOf(s, i) == [index |-> i - 1, commitment |-> s.leaves[i], alias |-> FALSE]

Unspent(s) == {i \in DOMAIN s.leaves : WordOf(s, i) \notin s.nullifierSpent}

UnspentValue(s) == MapThenSumSet(LAMBDA i : s.leaves[i].value, Unspent(s))

(* The asset balance without the ETH set aside for rebates and without     *)
(* what arrived outside deposit().                                         *)
Held(s) ==
  AssetBalance(s) - (IF Native THEN s.gasReserveEth ELSE 0) - s.surplus

(* What a call in progress still has to pay out or to turn into a note. *)
InFlight(frame) ==
  CASE frame.phase = "fee"                    -> frame.amount
    [] frame.phase \in {"inFee", "insert", "payout"} -> frame.amount - frame.fee
    [] frame.phase \in {"inPayout", "rebate", "inRebate"} -> 0

(***************************************************************************)
(* No leaf is spent twice: not by two words for one nullifier, not by two  *)
(* proofs against different roots, not as both inputs of withdraw(), not   *)
(* from inside the payment of its first spend.                             *)
(***************************************************************************)
NoLeafSpentTwice == \A i \in LeafIndices : pool.timesSpent[i] <= 1

(***************************************************************************)
(* The pool holds exactly the value of the unspent notes plus what the     *)
(* calls in progress still owe, whatever callbacks, reverts, rebates and   *)
(* payouts to the pool itself happened.  So user principal never pays a    *)
(* rebate, and the gas reserve never covers a withdrawal.                  *)
(***************************************************************************)
HoldsWhatItOwes ==
  /\ pool.noteValue = UnspentValue(pool)
  /\ Held(pool) = UnspentValue(pool)
                    + MapThenSumSet(LAMBDA i : InFlight(stack[i]), DOMAIN stack)

(* What a storage holds beyond the value of its unspent notes. *)
Excess(s) == Held(s) - s.noteValue

(***************************************************************************)
(* The books, call by call and without sums: whatever runs inside a call,  *)
(* the storage it started from holds, beyond the value of the notes, what  *)
(* the call still owes plus what would be there if the call failed.  With  *)
(* no call in progress nothing is left over, and nothing is missing.       *)
(***************************************************************************)
Balanced(s, calls) ==
  \A k \in 0 .. Len(calls) :
    Excess(IF k = Len(calls) THEN s ELSE OnFailure(calls[k + 1]))
      = IF k = 0 THEN 0 ELSE Excess(OnFailure(calls[k])) + InFlight(calls[k])

BooksBalance == Balanced(pool, stack)

(***************************************************************************)
(* Once a handler has started to pay, the balance covers what is left to   *)
(* pay, the rebate included, whatever nested calls withdrew meanwhile: the *)
(* liquidity check is made once, before the first external call.           *)
(***************************************************************************)
NeverShort ==
  /\ Running("fee") => AssetBalance(pool) >= Top.amount
  /\ Running("payout") => AssetBalance(pool) >= Payout
  /\ Running("rebate") /\ CanRebate => pool.ether >= gasRebateWei

(***************************************************************************)
(* Whenever the pool can be called, the holder of any unspent note within  *)
(* the circuits' range can redeem it in full for the minimum fee: some     *)
(* known root commits to it, its nullifier is free and the pool is liquid. *)
(* A full tree, evicted roots and calls in progress do not change that.    *)
(***************************************************************************)
EveryNoteRedeemable ==
  MayCall =>
    \A i \in Unspent(pool) :
      LET word   == WordOf(pool, i)
          amount == word.commitment.value
          fee    == Fee(amount, withdrawFeePpm)
      IN  InRange(amount) =>
            \E root \in TreeRoots :
              /\ Admissible(pool, root, {word}, amount, fee)
              /\ Withdraw1Proof(pool, root, word, amount, fee)
              /\ SpendableAssetBalance(MarkSpent(pool, word)) >= amount

(***************************************************************************)
(* The known roots are those of the last ROOT_HISTORY_SIZE tree sizes: a   *)
(* root recorded inside a call that was undone is not known afterwards.    *)
(***************************************************************************)
KnownRootsAreTheLatest ==
  \A root \in TreeRoots :
    Ring!IsKnownRoot(pool.ring, root) <=>
      /\ root <= Len(pool.leaves)
      /\ root > Len(pool.leaves) - ROOT_HISTORY_SIZE

(***************************************************************************)
(* Between transactions the public counters explain the unspent notes:     *)
(* what was deposited and neither withdrawn nor left in a note was taken   *)
(* as deposit fees, a part of the fees counted.                            *)
(***************************************************************************)
CountersReconcile ==
  stack = <<>> =>
    pool.totalDeposited - pool.totalWithdrawn - UnspentValue(pool)
      \in 0 .. pool.totalFeesCollected

(***************************************************************************)
(* With callbacks and reverts the pool still is an atomic ledger: seen     *)
(* when transactions commit, it implements NoteLedger.  A transaction      *)
(* counts as committed once only its rebate, which cannot fail it, is left. *)
(***************************************************************************)
Committed == IF stack = <<>> THEN pool ELSE OnFailure(stack[1])

Ledger == INSTANCE NoteLedger
            WITH Capacity <- TreeCapacity,
                 notes    <- Committed.leaves,
                 redeemed <- DOMAIN Committed.leaves \ Unspent(Committed),
                 vault    <- Held(Committed)

ImplementsNoteLedger == Ledger!Spec
=============================================================================
