------------------------ MODULE DeployMainnet_proofs ------------------------
(***************************************************************************)
(* For every list of circuits and assets, any number of endpoints, runs    *)
(* and transactions: what is recorded for a step is that step's contract   *)
(* as long as no transaction outlives its sender, and what clients take as *)
(* live is wired to the addresses listed with it, whatever outlives it.    *)
(***************************************************************************)
EXTENDS DeployMainnet, NumberTheorems, TLAPS

(* Where the steps of the plan are: Poseidon is first, an adapter comes right   *)
(* after its raw verifier, and the pools come after both.                       *)
LEMMA CircuitStep ==
  ASSUME NEW c \in DOMAIN Circuits
  PROVE  /\ 2 * c - 1 \in DOMAIN CircuitSteps /\ CircuitSteps[2 * c - 1] = Raw(Circuits[c])
         /\ 2 * c \in DOMAIN CircuitSteps /\ CircuitSteps[2 * c] = Adapter(Circuits[c])
<1>1. c \in 1..Len(Circuits) /\ Len(Circuits) \in Nat /\ c \in Nat
  BY DeployAssumption
<1>2. (2 * c) % 2 = 0 /\ (2 * c) \div 2 = c
  BY <1>1
<1>3. (2 * c - 1) % 2 = 1 /\ ((2 * c - 1) + 1) \div 2 = c
  BY <1>1
<1>. QED
  BY <1>1, <1>2, <1>3 DEF CircuitSteps

(* There is nothing else between Poseidon and the pools.                        *)
LEMMA CircuitStepIs ==
  ASSUME NEW i \in DOMAIN CircuitSteps
  PROVE  \E c \in DOMAIN Circuits :
            \/ i = 2 * c - 1 /\ CircuitSteps[i] = Raw(Circuits[c])
            \/ i = 2 * c /\ CircuitSteps[i] = Adapter(Circuits[c])
<1>1. i \in 1..2 * Len(Circuits) /\ Len(Circuits) \in Nat /\ i \in Nat
  BY DeployAssumption DEF CircuitSteps
<1>2. CASE i % 2 = 1
  <2> DEFINE c == (i + 1) \div 2
  <2>1. c \in Int /\ i = 2 * c - 1
    BY <1>1, <1>2
  <2> HIDE DEF c
  <2>2. c \in 1 .. Len(Circuits)
    BY <1>1, <2>1
  <2>3. c \in DOMAIN Circuits
    BY <2>2, DeployAssumption
  <2>. QED
    BY <2>1, <2>3, CircuitStep
<1>3. CASE i % 2 # 1
  <2> DEFINE c == i \div 2
  <2>1. c \in Int /\ i = 2 * c
    BY <1>1, <1>3
  <2> HIDE DEF c
  <2>2. c \in 1 .. Len(Circuits)
    BY <1>1, <2>1
  <2>3. c \in DOMAIN Circuits
    BY <2>2, DeployAssumption
  <2>. QED
    BY <2>1, <2>3, CircuitStep
<1>. QED
  BY <1>2, <1>3

AnyStep == {"poseidon", "raw", "adapter", "pool"} \X (STRING \cup {""})

(* The plan, entry by entry.                                                    *)
LEMMA PlanIsASequence ==
  /\ Plan \in Seq(AnyStep) /\ Len(Plan) = 1 + 2 * Len(Circuits) + Len(Assets)
  /\ Len(Circuits) \in Nat /\ Len(Assets) \in Nat
  /\ Plan[1] = Poseidon
  /\ \A i \in 1 .. 2 * Len(Circuits) : Plan[1 + i] = CircuitSteps[i]
  /\ \A i \in 1 .. Len(Assets) : Plan[1 + 2 * Len(Circuits) + i] = Pool(Assets[i])
<1>1. /\ Len(Circuits) \in Nat /\ Len(Assets) \in Nat
      /\ \A i \in DOMAIN Circuits : Circuits[i] \in STRING
      /\ \A i \in DOMAIN Assets : Assets[i] \in STRING
  BY DeployAssumption
<1>2. DOMAIN CircuitSteps = 1 .. 2 * Len(Circuits)
  BY DEF CircuitSteps
<1>3. \A i \in 1 .. 2 * Len(Circuits) : CircuitSteps[i] \in AnyStep
  <2> SUFFICES ASSUME NEW i \in DOMAIN CircuitSteps PROVE CircuitSteps[i] \in AnyStep
    BY <1>2
  <2>1. PICK c \in DOMAIN Circuits :
            CircuitSteps[i] = Raw(Circuits[c]) \/ CircuitSteps[i] = Adapter(Circuits[c])
    BY CircuitStepIs
  <2>2. Circuits[c] \in STRING
    BY <1>1
  <2>3. Raw(Circuits[c]) \in AnyStep /\ Adapter(Circuits[c]) \in AnyStep
    BY <2>2 DEF Raw, Adapter, AnyStep
  <2>. QED
    BY <2>1, <2>3
<1>4. CircuitSteps \in Seq(AnyStep) /\ Len(CircuitSteps) = 2 * Len(Circuits)
  <2>1. CircuitSteps = [i \in 1 .. 2 * Len(Circuits) |-> CircuitSteps[i]]
    BY DEF CircuitSteps
  <2> HIDE DEF AnyStep
  <2>. QED
    BY <1>1, <1>3, <2>1
<1>5. PoolPlan \in Seq(AnyStep) /\ Len(PoolPlan) = Len(Assets)
      /\ \A i \in 1 .. Len(Assets) : PoolPlan[i] = Pool(Assets[i])
  <2>1. ASSUME NEW i \in DOMAIN Assets PROVE Pool(Assets[i]) \in AnyStep
    <3>1. Assets[i] \in STRING
      BY DeployAssumption
    <3>. QED
      BY <3>1 DEF Pool, AnyStep
  <2>2. DOMAIN Assets = 1 .. Len(Assets)
    BY DeployAssumption
  <2> HIDE DEF AnyStep
  <2>. QED
    BY <1>1, <2>1, <2>2 DEF PoolPlan
<1>6. Poseidon \in AnyStep
  BY DEF Poseidon, AnyStep
<1> HIDE DEF AnyStep
<1>7. <<Poseidon>> \in Seq(AnyStep) /\ Len(<<Poseidon>>) = 1 /\ <<Poseidon>>[1] = Poseidon
  BY <1>6
<1> DEFINE front == <<Poseidon>> \o CircuitSteps
<1>8. /\ front \in Seq(AnyStep) /\ Len(front) = 1 + 2 * Len(Circuits) /\ front[1] = Poseidon
      /\ \A i \in 1 .. 2 * Len(Circuits) : front[1 + i] = CircuitSteps[i]
  BY <1>1, <1>4, <1>7
<1>9. Plan = front \o PoolPlan
  BY DEF Plan
<1> HIDE DEF front
<1>10. /\ Plan \in Seq(AnyStep) /\ Len(Plan) = Len(front) + Len(PoolPlan)
       /\ \A i \in 1 .. Len(front) : Plan[i] = front[i]
       /\ \A i \in 1 .. Len(PoolPlan) : Plan[Len(front) + i] = PoolPlan[i]
  <2>1. front \in Seq(AnyStep) /\ PoolPlan \in Seq(AnyStep)
    BY <1>5, <1>8
  <2>2. /\ front \o PoolPlan \in Seq(AnyStep) /\ Len(front \o PoolPlan) = Len(front) + Len(PoolPlan)
        /\ \A i \in 1 .. Len(front) : (front \o PoolPlan)[i] = front[i]
        /\ \A i \in 1 .. Len(PoolPlan) : (front \o PoolPlan)[Len(front) + i] = PoolPlan[i]
    BY ONLY <2>1, ConcatIs
  <2>. QED
    BY ONLY <2>2, <1>9
<1> HIDE DEF Plan
<1>11. Plan[1] = Poseidon /\ \A i \in 1 .. 2 * Len(Circuits) : Plan[1 + i] = CircuitSteps[i]
  BY <1>1, <1>8, <1>10
<1>. QED
  BY <1>1, <1>5, <1>8, <1>10, <1>11

(* Steps are the entries of the plan, and Poseidon is the first.                *)
LEMMA StepsOfPlan ==
  /\ \A i \in DOMAIN Plan : Plan[i] \in Steps
  /\ \A s \in Steps : \E i \in DOMAIN Plan : s = Plan[i]
  /\ DOMAIN Plan = 1 .. Len(Plan) /\ Len(Plan) \in Nat \ {0} /\ Plan[1] = Poseidon
<1>1. Plan \in Seq(AnyStep) /\ Len(Plan) \in Nat \ {0} /\ Plan[1] = Poseidon
  BY PlanIsASequence
<1>. QED
  BY <1>1 DEF Steps, Range

(* A constructor takes only addresses of steps that come earlier in the plan.  *)
LEMMA NeedsAreEarlier ==
  ASSUME NEW i \in DOMAIN Plan, NEW n \in Needs(Plan[i])
  PROVE  n \in Steps /\ \E j \in 1 .. i - 1 : n = Plan[j]
<1>1. /\ i \in 1 .. 1 + 2 * Len(Circuits) + Len(Assets) /\ DOMAIN Plan = 1 .. Len(Plan)
      /\ Len(Plan) = 1 + 2 * Len(Circuits) + Len(Assets)
      /\ Len(Circuits) \in Nat /\ Len(Assets) \in Nat
  BY PlanIsASequence, StepsOfPlan
<1>2. SUFFICES \E j \in 1 .. i - 1 : n = Plan[j]
  BY <1>1, StepsOfPlan
<1>3. CASE i = 1
  <2>1. Plan[i] = Poseidon /\ Poseidon[1] = "poseidon"
    BY <1>3, StepsOfPlan DEF Poseidon
  <2>. QED
    BY <2>1 DEF Needs
<1>4. ASSUME NEW k \in 1 .. 2 * Len(Circuits), i = 1 + k PROVE \E j \in 1 .. i - 1 : n = Plan[j]
  <2>1. Plan[i] = CircuitSteps[k] /\ k \in DOMAIN CircuitSteps
    BY <1>4, PlanIsASequence DEF CircuitSteps
  <2>2. PICK c \in DOMAIN Circuits :
          \/ k = 2 * c - 1 /\ CircuitSteps[k] = Raw(Circuits[c])
          \/ k = 2 * c /\ CircuitSteps[k] = Adapter(Circuits[c])
    BY <2>1, CircuitStepIs
  <2>3. CASE CircuitSteps[k] = Raw(Circuits[c])
    BY <2>1, <2>3 DEF Needs, Raw
  <2>4. CASE k = 2 * c /\ CircuitSteps[k] = Adapter(Circuits[c])
    <3>1. n = Raw(Circuits[c])
      BY <2>1, <2>4 DEF Needs, Adapter
    <3>2. c \in Nat /\ 2 * c - 1 \in 1 .. 2 * Len(Circuits)
      BY <1>1, DeployAssumption
    <3>5. CircuitSteps[2 * c - 1] = Raw(Circuits[c])
      BY CircuitStep
    <3>3. Plan[1 + (2 * c - 1)] = n
      BY <3>1, <3>2, <3>5, PlanIsASequence
    <3>4. 1 + (2 * c - 1) \in 1 .. i - 1
      BY <3>2, <2>4, <1>4
    <3>. QED
      BY <3>3, <3>4
  <2>. QED
    BY <2>2, <2>3, <2>4
<1>5. ASSUME NEW k \in 1 .. Len(Assets), i = 1 + 2 * Len(Circuits) + k
      PROVE  \E j \in 1 .. i - 1 : n = Plan[j]
  <2>1. Plan[i] = Pool(Assets[k])
    BY <1>5, PlanIsASequence
  <2>2. n = Poseidon \/ \E c \in DOMAIN Circuits : n = Adapter(Circuits[c])
    BY <2>1 DEF Needs, Pool, Range
  <2>3. CASE n = Poseidon
    BY <2>3, <1>1, <1>5, StepsOfPlan
  <2>4. ASSUME NEW c \in DOMAIN Circuits, n = Adapter(Circuits[c])
        PROVE  \E j \in 1 .. i - 1 : n = Plan[j]
    <3>1. c \in Nat /\ 2 * c \in 1 .. 2 * Len(Circuits) /\ CircuitSteps[2 * c] = n
      BY <2>4, <1>1, CircuitStep, DeployAssumption DEF CircuitSteps
    <3>2. Plan[1 + 2 * c] = n
      BY <3>1, PlanIsASequence
    <3>3. 1 + 2 * c \in 1 .. i - 1
      BY <3>1, <1>1, <1>5
    <3>. QED
      BY <3>2, <3>3
  <2>. QED
    BY <2>2, <2>3, <2>4
<1>6. \/ i = 1
      \/ i - 1 \in 1 .. 2 * Len(Circuits) /\ i = 1 + (i - 1)
      \/ /\ i - 1 - 2 * Len(Circuits) \in 1 .. Len(Assets)
         /\ i = 1 + 2 * Len(Circuits) + (i - 1 - 2 * Len(Circuits))
  BY <1>1
<1>. QED
  BY <1>3, <1>4, <1>5, <1>6

-----------------------------------------------------------------------------

Creations ==
    UNION {{[step |-> s, args |-> a, fee |-> f] :
              a \in [Needs(s) -> Nat], f \in Fees \cup {"none"}} : s \in Steps}
Sendings == [nonce : Nat, create : Creations]
Writing == {"nonce", "code", "send", "wait", "flake", "fatal"}
Scripts == [pc : Writing \cup {"idle", "reuse", "write"}, i : Nat, before : Nat,
            nonce : Nat, tries : Nat, fee : Fees \cup {"none"}]

DeployTypeOK ==
    /\ chain \in Seq(Creations) /\ pending \subseteq Sendings
    /\ recorded \in [Steps -> Nat] /\ published \in [Range(Files) -> [Steps -> Nat]]
    /\ open \subseteq Range(Files)
    /\ script \in Scripts
    /\ outlive \in BOOLEAN

(* Where the script is in the plan: it tries no nonce of its own for Poseidon.  *)
Placed ==
    /\ script.pc \in Writing \cup {"reuse"} => script.i \in DOMAIN Plan
    /\ script.pc \in {"nonce", "code", "flake", "fatal"} => script.i # 1
    /\ script.pc = "write" => script.i \in DOMAIN Files

(* Steps are recorded in the order of the plan, each once.                     *)
RecordedInOrder ==
    /\ \A s \in Steps : recorded[s] # 0 => HasCode(recorded[s])
    /\ script.pc \in Writing \cup {"reuse"} =>
          \A j \in 1 .. script.i - 1 : recorded[Plan[j]] # 0
    /\ script.pc \in Writing => recorded[Step] = 0
    /\ script.pc = "write" => \A s \in Steps : recorded[s] # 0

(* Whatever was sent takes the addresses recorded for the steps it needs.      *)
TakesRecorded(c) == \A n \in Needs(c.step) : c.args[n] = recorded[n] /\ recorded[n] # 0
AllTakeRecorded ==
    /\ \A k \in DOMAIN chain : TakesRecorded(chain[k])
    /\ \A t \in pending : TakesRecorded(t.create)

(* A registry lists what is recorded, and it is written when everything is.    *)
PublishedIsRecorded ==
    \A f \in Range(Files) :
       \/ published[f] = Nothing
       \/ published[f] = recorded /\ \A s \in Steps : recorded[s] # 0

(* A client is opened for pools that answer with their asset.                  *)
OpenIsChecked ==
    \A f \in open : /\ published[f] = recorded /\ published[f] # Nothing
                    /\ \A s \in PoolSteps : chain[recorded[s]].step = s

(* What the script's own transaction can have become, while none outlives it.  *)
Landed == Nonce = script.before + 1 /\ chain[Nonce].step = Step
OneAtATime ==
    /\ script.pc # "wait" => pending = {}
    /\ script.pc \in {"code", "send"} /\ script.i # 1 => script.before = Nonce
    /\ script.pc = "wait" =>
          /\ script.i # 1 => script.nonce = script.before
          /\ \A t \in pending : t.nonce = script.nonce /\ t.create.step = Step
          /\ \/ Nonce = script.nonce
             \/ Nonce = script.nonce + 1 /\ pending = {} /\ chain[Nonce].step = Step
    /\ script.pc \in {"flake", "fatal"} => Nonce = script.before \/ Landed

DeployInv ==
    /\ DeployTypeOK /\ Placed /\ RecordedInOrder /\ AllTakeRecorded
    /\ PublishedIsRecorded /\ OpenIsChecked
    /\ ~outlive => OneAtATime /\ OwnContract

(* The two registry files.                                                      *)
LEMMA FilesAre ==
  /\ Range(Files) = {"registry", "webRegistry"} /\ DOMAIN Files = {1, 2}
  /\ Len(Files) = 2 /\ \A i \in DOMAIN Files : Files[i] \in Range(Files)
BY DEF Files, Range

(* A script at rest is of the type of scripts.                                  *)
LEMMA IdleIsAScript == Idle \in Scripts /\ Idle.pc = "idle"
BY DEF Idle, Scripts, Writing

(* What leaves the chain and the files alone keeps the invariant if the place   *)
(* it moves the script to fits.                                                 *)
LEMMA ScriptMoves ==
  ASSUME DeployInv, UNCHANGED <<outlive, chain, pending, recorded, published, open>>,
         script' \in Scripts, Placed', ~outlive => OneAtATime',
         script'.pc \in Writing \cup {"reuse"} =>
            \A j \in 1 .. script'.i - 1 : recorded[Plan[j]] # 0,
         script'.pc \in Writing => recorded[Step'] = 0,
         script'.pc = "write" => \A s \in Steps : recorded[s] # 0
  PROVE  DeployInv'
<1>1. DeployTypeOK'
  BY DEF DeployInv, DeployTypeOK
<1>2. RecordedInOrder'
  BY DEF DeployInv, RecordedInOrder, HasCode, Nonce
<1>3. AllTakeRecorded' /\ PublishedIsRecorded' /\ OpenIsChecked'
  BY DEF DeployInv, AllTakeRecorded, TakesRecorded, PublishedIsRecorded, OpenIsChecked
<1>4. ~outlive' => OwnContract'
  BY DEF DeployInv, OwnContract, HasCode
<1>. QED
  BY <1>1, <1>2, <1>3, <1>4 DEF DeployInv

(* The run that stops keeps it, if nothing it sent is left.                     *)
LEMMA StopKeeps ==
  ASSUME DeployInv, UNCHANGED <<outlive, chain, pending, recorded, published, open>>,
         Throw, ~outlive => pending = {}
  PROVE  DeployInv'
<1>1. script' \in Scripts /\ script'.pc = "idle"
  BY IdleIsAScript DEF Throw
<1>2. Placed' /\ (~outlive => OneAtATime')
  BY <1>1 DEF Placed, OneAtATime, Writing
<1>. QED
  BY <1>1, <1>2, ScriptMoves DEF Writing

(* After a step the script is at the next one, at the registries, or has stopped. *)
LEMMA AdvanceTo ==
  ASSUME DeployTypeOK, script.i \in DOMAIN Plan, Advance
  PROVE  /\ script' \in Scripts
         /\ \/ script'.pc = "idle"
            \/ script'.pc = "reuse" /\ script'.i = script.i + 1 /\ script'.i \in DOMAIN Plan
            \/ script'.pc = "write" /\ script'.i = 1 /\ script.i = Len(Plan)
<1>1. script \in Scripts /\ script.i \in 1 .. Len(Plan) /\ Len(Plan) \in Nat
      /\ DOMAIN Plan = 1 .. Len(Plan)
  BY StepsOfPlan DEF DeployTypeOK
<1>2. CASE /\ script.i + 1 > Len(Plan)
           /\ script' = [script EXCEPT !.pc = "write", !.i = 1]
  <2>1. script.i = Len(Plan)
    BY <1>1, <1>2
  <2>2. script' \in Scripts /\ script'.pc = "write" /\ script'.i = 1
    BY <1>1, <1>2 DEF Scripts
  <2>. QED
    BY <2>1, <2>2
<1>3. CASE ~(script.i + 1 > Len(Plan)) /\ script' = Idle
  BY <1>3, IdleIsAScript
<1>4. CASE /\ ~(script.i + 1 > Len(Plan))
           /\ script' = [script EXCEPT !.pc = "reuse", !.i = script.i + 1, !.tries = 0]
  <2>1. script.i + 1 \in Nat /\ script.i + 1 \in DOMAIN Plan
    BY <1>1, <1>4
  <2>2. script' \in Scripts /\ script'.pc = "reuse" /\ script'.i = script.i + 1
    BY <1>1, <2>1, <1>4 DEF Scripts
  <2>. QED
    BY <2>1, <2>2
<1>. QED
  BY <1>2, <1>3, <1>4 DEF Advance

(* The address of a contract is recorded for a step that had none: every        *)
(* transaction and registry that names addresses names those of other steps.    *)
LEMMA RememberKeeps ==
  ASSUME DeployInv, script.pc \in Writing, NEW a \in Nat, HasCode(a), Remember(a),
         UNCHANGED <<outlive, chain, pending, published, open>>,
         ~outlive => pending = {} /\ chain[a].step = Step
  PROVE  DeployInv'
<1>1. /\ DeployTypeOK /\ script.i \in DOMAIN Plan /\ Step \in Steps /\ recorded[Step] = 0
      /\ recorded \in [Steps -> Nat]
  BY StepsOfPlan DEF DeployInv, Placed, RecordedInOrder, Step, DeployTypeOK
<1>2. /\ recorded' \in [Steps -> Nat] /\ recorded'[Step] = a /\ a # 0
      /\ \A s \in Steps : s # Step => recorded'[s] = recorded[s]
  BY <1>1 DEF Remember, HasCode
<1>3. \A s \in Steps : recorded[s] # 0 => recorded'[s] = recorded[s]
  BY <1>1, <1>2
<1>4. /\ script' \in Scripts
      /\ \/ script'.pc = "idle"
         \/ script'.pc = "reuse" /\ script'.i = script.i + 1 /\ script'.i \in DOMAIN Plan
         \/ script'.pc = "write" /\ script'.i = 1 /\ script.i = Len(Plan)
  BY <1>1, AdvanceTo DEF Remember
<1>5. DeployTypeOK'
  BY <1>2, <1>4 DEF DeployInv, DeployTypeOK
<1>6. Placed'
  BY <1>4, FilesAre, StepsOfPlan DEF Placed, Writing
<1>7. \A j \in 1 .. script.i : recorded'[Plan[j]] # 0
  <2> SUFFICES ASSUME NEW j \in 1 .. script.i PROVE recorded'[Plan[j]] # 0
    OBVIOUS
  <2>1. script.i \in Nat /\ j \in DOMAIN Plan /\ Plan[j] \in Steps
    BY <1>1, StepsOfPlan DEF DeployTypeOK, Scripts
  <2>2. CASE j = script.i
    BY <2>2, <1>2 DEF Step
  <2>3. CASE j # script.i
    <3>1. recorded[Plan[j]] # 0
      BY <2>1, <2>3 DEF DeployInv, RecordedInOrder
    <3>. QED
      BY <3>1, <2>1, <1>3
  <2>. QED
    BY <2>2, <2>3
<1>8. RecordedInOrder'
  <2>1. \A s \in Steps : recorded'[s] # 0 => HasCode(recorded[s])' 
    BY <1>1, <1>2 DEF DeployInv, RecordedInOrder, HasCode
  <2>2. script'.pc = "reuse" => \A j \in 1 .. script'.i - 1 : recorded'[Plan[j]] # 0
    <3>1. script.i \in Nat
      BY <1>1 DEF DeployTypeOK, Scripts
    <3>. QED
      BY <3>1, <1>4, <1>7
  <2>3. script'.pc = "write" => \A s \in Steps : recorded'[s] # 0
    BY <1>4, <1>7, StepsOfPlan
  <2>. QED
    BY <2>1, <2>2, <2>3, <1>4 DEF RecordedInOrder, Writing
<1>9. AllTakeRecorded'
  <2>1. ASSUME NEW c \in Creations, TakesRecorded(c) PROVE TakesRecorded(c)'
    <3>1. Needs(c.step) \subseteq Steps
      <4>1. c.step \in Steps
        BY DEF Creations
      <4>. QED
        BY <4>1, NeedsAreEarlier, StepsOfPlan
    <3>. QED
      BY <2>1, <3>1, <1>3 DEF TakesRecorded
  <2>2. \A k \in DOMAIN chain : chain[k] \in Creations
    BY DEF DeployInv, DeployTypeOK
  <2>3. \A t \in pending : t.create \in Creations
    BY DEF DeployInv, DeployTypeOK, Sendings
  <2>. QED
    BY <2>1, <2>2, <2>3 DEF DeployInv, AllTakeRecorded
<1>10. \A f \in Range(Files) : published[f] = Nothing
  BY <1>1 DEF DeployInv, PublishedIsRecorded
<1>11. PublishedIsRecorded' /\ OpenIsChecked'
  BY <1>10 DEF DeployInv, PublishedIsRecorded, OpenIsChecked, Nothing, DeployTypeOK
<1>12. ~outlive' => OneAtATime'
  BY <1>4 DEF OneAtATime, Writing
<1>13. ~outlive' => OwnContract'
  BY <1>1, <1>2 DEF DeployInv, OwnContract, HasCode
<1>. QED
  BY <1>5, <1>6, <1>8, <1>9, <1>11, <1>12, <1>13 DEF DeployInv

(* Another endpoint is tried, or the last error ends the run.                   *)
LEMMA NextEndpointKeeps ==
  ASSUME DeployInv, script.pc \in {"nonce", "flake", "fatal"}, NextEndpoint,
         UNCHANGED <<outlive, chain, pending, recorded, published, open>>
  PROVE  DeployInv'
<1>1. script \in Scripts
  BY DEF DeployInv, DeployTypeOK
<1>2. ~outlive => pending = {}
  BY DEF DeployInv, OneAtATime
<1>3. CASE script' = Idle
  BY <1>2, <1>3, StopKeeps DEF Throw
<1>4. CASE script' = [script EXCEPT !.pc = "nonce", !.tries = script.tries + 1]
  <2>0. script.tries + 1 \in Nat
    BY <1>1 DEF Scripts
  <2>1. script' \in Scripts /\ script'.pc = "nonce" /\ script'.i = script.i
    BY <1>1, <1>4, <2>0 DEF Scripts, Writing
  <2>2. Step' = Step /\ recorded[Step] = 0
    BY <2>1 DEF Step, DeployInv, RecordedInOrder, Writing
  <2>3. Placed'
    BY <2>1 DEF DeployInv, Placed, Writing
  <2>4. ~outlive => OneAtATime'
    BY <2>1, <1>2 DEF OneAtATime
  <2>5. \A j \in 1 .. script'.i - 1 : recorded[Plan[j]] # 0
    BY <2>1 DEF DeployInv, RecordedInOrder, Writing
  <2>. QED
    BY <2>1, <2>2, <2>3, <2>4, <2>5, ScriptMoves
<1>. QED
  BY <1>3, <1>4 DEF NextEndpoint

(* The script's step goes on at another place with the same step.               *)
LEMMA GotoKeeps ==
  ASSUME DeployInv, NEW pc \in Writing, script.pc \in Writing,
         script' \in Scripts, script'.pc = pc, script'.i = script.i,
         pc \in {"nonce", "code", "flake", "fatal"} => script.i # 1,
         UNCHANGED <<outlive, chain, pending, recorded, published, open>>,
         ~outlive => OneAtATime'
  PROVE  DeployInv'
<1>1. Step' = Step /\ recorded[Step] = 0
  BY DEF Step, DeployInv, RecordedInOrder
<1>2. Placed'
  BY DEF DeployInv, Placed, Writing
<1>3. \A j \in 1 .. script'.i - 1 : recorded[Plan[j]] # 0
  BY DEF DeployInv, RecordedInOrder
<1>4. script'.pc # "write"
  BY DEF Writing
<1>. QED
  BY <1>1, <1>2, <1>3, <1>4, ScriptMoves

(* A run begins before the first step, with nothing of its own under way.       *)
LEMMA StartKeeps ==
  ASSUME DeployInv, Start
  PROVE  DeployInv'
<1>1. script.pc = "idle" /\ UNCHANGED <<outlive, chain, pending, recorded, published, open>>
  BY DEF Start, net, listed
<1>2. ~outlive => pending = {}
  BY <1>1 DEF DeployInv, OneAtATime
<1>3. CASE script' = script
  BY <1>1, <1>3 DEF DeployInv, DeployTypeOK, Placed, RecordedInOrder, AllTakeRecorded,
     TakesRecorded, PublishedIsRecorded, OpenIsChecked, OneAtATime, OwnContract, HasCode,
     Nonce, Landed, Step, Writing
<1>4. ASSUME NEW c \in Configs, script' = [Idle EXCEPT !.pc = "reuse", !.fee = c.fee]
      PROVE  DeployInv'
  <2>1. script' \in Scripts /\ script'.pc = "reuse" /\ script'.i = 1
    BY <1>4 DEF Configs, Idle, Scripts, Writing
  <2>2. Placed'
    BY <2>1, StepsOfPlan DEF Placed
  <2>3. ~outlive => OneAtATime'
    BY <2>1, <1>1, <1>2 DEF OneAtATime
  <2>. QED
    BY <2>1, <2>2, <2>3, <1>1, ScriptMoves DEF Writing
<1>. QED
  BY <1>3, <1>4 DEF Start

(* A recorded address with code is taken; one without was never recorded.       *)
LEMMA ReuseKeeps ==
  ASSUME DeployInv, Reuse
  PROVE  DeployInv'
<1>1. script.pc = "reuse" /\ UNCHANGED <<outlive, chain, pending, recorded, published, open>>
  BY DEF Reuse, net, listed
<1>2. /\ ~outlive => pending = {}
      /\ script \in Scripts /\ script.i \in DOMAIN Plan /\ Step \in Steps /\ DeployTypeOK
      /\ \A j \in 1 .. script.i - 1 : recorded[Plan[j]] # 0
  BY <1>1, StepsOfPlan DEF DeployInv, OneAtATime, DeployTypeOK, Placed, RecordedInOrder, Step
<1>3. CASE HasCode(recorded[Step]) /\ Advance
  <2>1. /\ script' \in Scripts
        /\ \/ script'.pc = "idle"
           \/ script'.pc = "reuse" /\ script'.i = script.i + 1 /\ script'.i \in DOMAIN Plan
           \/ script'.pc = "write" /\ script'.i = 1 /\ script.i = Len(Plan)
    BY <1>2, <1>3, AdvanceTo
  <2>2. \A j \in 1 .. script.i : recorded[Plan[j]] # 0
    <3>1. script.i \in Nat /\ recorded[Plan[script.i]] # 0
      BY <1>2, <1>3 DEF Scripts, HasCode, Step
    <3>. QED
      BY <3>1, <1>2
  <2>3. script'.pc = "write" => \A s \in Steps : recorded[s] # 0
    BY <2>1, <2>2, StepsOfPlan
  <2>4. script'.pc = "reuse" => \A j \in 1 .. script'.i - 1 : recorded[Plan[j]] # 0
    <3>1. script.i \in Nat
      BY <1>2 DEF Scripts
    <3>. QED
      BY <3>1, <2>1, <2>2
  <2>5. Placed'
    BY <2>1, FilesAre DEF Placed, Writing
  <2>6. ~outlive => OneAtATime'
    BY <2>1, <1>1, <1>2 DEF OneAtATime
  <2>. QED
    BY <2>1, <2>3, <2>4, <2>5, <2>6, <1>1, ScriptMoves DEF Writing
<1>4. ASSUME ~HasCode(recorded[Step]), NEW pc \in {"send", "nonce"}, Goto(pc),
             pc = "nonce" => script.i # 1, pc = "send" => script.i = 1
      PROVE  DeployInv'
  <2>1. script' \in Scripts /\ script'.pc = pc /\ script'.i = script.i
    BY <1>2, <1>4 DEF Goto, Scripts, Writing
  <2>2. Step' = Step /\ recorded[Step] = 0
    BY <2>1, <1>2, <1>4 DEF Step, DeployInv, RecordedInOrder
  <2>3. Placed'
    BY <2>1, <1>2, <1>4 DEF Placed, Writing
  <2>4. ~outlive => OneAtATime'
    BY <2>1, <1>1, <1>2, <1>4 DEF OneAtATime
  <2>. QED
    BY <2>1, <2>2, <2>3, <2>4, <1>1, <1>2, ScriptMoves
<1>. QED
  BY <1>3, <1>4 DEF Reuse

(* The nonce is read from an endpoint.                                          *)
LEMMA ReadNonceKeeps ==
  ASSUME DeployInv, ReadNonce
  PROVE  DeployInv'
<1>1. script.pc = "nonce" /\ UNCHANGED <<outlive, chain, pending, recorded, published, open>>
  BY DEF ReadNonce, net, saved, listed
<1>2. script \in Scripts /\ script.i # 1 /\ Nonce \in Nat
  BY <1>1 DEF DeployInv, DeployTypeOK, Placed, Nonce
<1>3. ~outlive => pending = {}
  BY <1>1 DEF DeployInv, OneAtATime
<1>4. CASE script' = [script EXCEPT !.pc = "code", !.before = Nonce]
  <2>1. /\ script' \in Scripts /\ script'.pc = "code" /\ script'.i = script.i
        /\ script'.before = Nonce
    BY <1>2, <1>4 DEF Scripts, Writing
  <2>2. ~outlive => OneAtATime'
    BY <2>1, <1>1, <1>3 DEF OneAtATime, Nonce
  <2>. QED
    BY <2>1, <2>2, <1>1, <1>2, GotoKeeps DEF Writing
<1>5. CASE NextEndpoint
  BY <1>1, <1>5, NextEndpointKeeps
<1>. QED
  BY <1>4, <1>5 DEF ReadNonce

(* Code at the predicted address: of another transaction, which outlived its    *)
(* sender, or there is none.                                                    *)
LEMMA RecoverKeeps ==
  ASSUME DeployInv, Recover
  PROVE  DeployInv'
<1>1. script.pc = "code" /\ UNCHANGED <<outlive, chain, pending, published, open>>
  BY DEF Recover, net, listed
<1>2. script \in Scripts /\ script.i # 1 /\ script.before + 1 \in Nat /\ Nonce \in Nat
  BY <1>1 DEF DeployInv, DeployTypeOK, Placed, Nonce, Scripts
<1>3. ~outlive => pending = {} /\ script.before = Nonce
  BY <1>1, <1>2 DEF DeployInv, OneAtATime
<1>4. CASE HasCode(script.before + 1)
  <2>1. outlive
    BY <1>2, <1>3, <1>4 DEF HasCode, Nonce
  <2>. QED
    BY <2>1, <1>1, <1>2, <1>4, RememberKeeps DEF Recover, Writing
<1>5. CASE ~HasCode(script.before + 1)
  <2>1. /\ script' \in Scripts /\ script'.pc = "send" /\ script'.i = script.i
        /\ script'.before = script.before /\ recorded' = recorded
    BY <1>2, <1>5 DEF Recover, Goto, Scripts, Writing
  <2>2. ~outlive => OneAtATime'
    BY <2>1, <1>1, <1>3 DEF OneAtATime, Nonce
  <2>. QED
    BY <2>1, <2>2, <1>1, <1>2, GotoKeeps DEF Writing
<1>. QED
  BY <1>4, <1>5

(* A creation takes the addresses recorded for the steps before its own.        *)
LEMMA CreationTakesRecorded ==
  ASSUME DeployInv, script.pc \in Writing
  PROVE  /\ Creation(Step) \in Creations /\ Creation(Step).step = Step
         /\ TakesRecorded(Creation(Step))
<1>1. /\ script.i \in DOMAIN Plan /\ Step \in Steps /\ script.fee \in Fees \cup {"none"}
      /\ recorded \in [Steps -> Nat]
  BY StepsOfPlan DEF DeployInv, DeployTypeOK, Placed, Step, Scripts
<1>2. \A n \in Needs(Step) : n \in Steps /\ recorded[n] # 0
  BY <1>1, NeedsAreEarlier DEF Step, DeployInv, RecordedInOrder
<1> DEFINE a == [n \in Needs(Step) |-> recorded[n]]
           f == IF Step \in PoolSteps THEN script.fee ELSE "none"
<1>3. a \in [Needs(Step) -> Nat] /\ f \in Fees \cup {"none"}
  BY <1>1, <1>2
<1>4. Creation(Step) = [step |-> Step, args |-> a, fee |-> f]
  BY DEF Creation
<1>5. \A n \in Needs(Step) : a[n] = recorded[n]
  OBVIOUS
<1> HIDE DEF a, f
<1>6. Creation(Step) \in Creations
  BY <1>1, <1>3, <1>4 DEF Creations
<1>7. Creation(Step).step = Step /\ Creation(Step).args = a
  BY <1>4
<1>. QED
  BY <1>2, <1>5, <1>6, <1>7 DEF TakesRecorded

(* The creation that is sent names recorded addresses only.                     *)
LEMMA SendKeeps ==
  ASSUME DeployInv, Send
  PROVE  DeployInv'
<1>1. /\ script.pc = "send" /\ UNCHANGED <<outlive, chain, recorded, published, open>>
      /\ pending' = pending \cup {[nonce |-> Nonce, create |-> Creation(Step)]}
      /\ script' = [script EXCEPT !.pc = "wait", !.nonce = Nonce]
  BY DEF Send, saved, listed
<1>2. script \in Scripts /\ script.i \in DOMAIN Plan /\ recorded[Step] = 0 /\ Nonce \in Nat
  BY <1>1 DEF DeployInv, DeployTypeOK, Placed, RecordedInOrder, Writing, Nonce
<1>3. /\ Creation(Step) \in Creations /\ Creation(Step).step = Step
      /\ TakesRecorded(Creation(Step))
  BY <1>1, CreationTakesRecorded DEF Writing
<1>4. /\ script' \in Scripts /\ script'.pc = "wait" /\ script'.i = script.i
      /\ script'.before = script.before /\ script'.nonce = Nonce
  BY <1>1, <1>2 DEF Scripts, Writing
<1> DEFINE tx == [nonce |-> Nonce, create |-> Creation(Step)]
<1>5. tx \in Sendings /\ tx.nonce = Nonce /\ tx.create = Creation(Step) /\ pending' = pending \cup {tx}
  BY <1>1, <1>2, <1>3 DEF Sendings
<1> HIDE DEF tx
<1>6. DeployTypeOK'
  BY <1>1, <1>4, <1>5 DEF DeployInv, DeployTypeOK
<1>7. Placed'
  BY <1>2, <1>4 DEF Placed, Writing
<1>8. RecordedInOrder'
  <2>1. Step' = Step
    BY <1>4 DEF Step
  <2>. QED
    BY <2>1, <1>1, <1>2, <1>4 DEF DeployInv, RecordedInOrder, Writing, HasCode
<1>9. AllTakeRecorded'
  BY <1>1, <1>3, <1>5 DEF DeployInv, AllTakeRecorded, TakesRecorded
<1>10. PublishedIsRecorded' /\ OpenIsChecked'
  BY <1>1 DEF DeployInv, PublishedIsRecorded, OpenIsChecked
<1>11. ~outlive' => OneAtATime' /\ OwnContract'
  <2> SUFFICES ASSUME ~outlive PROVE OneAtATime' /\ OwnContract'
    BY <1>1
  <2>1. OneAtATime /\ OwnContract
    BY DEF DeployInv
  <2>2. pending' = {tx} /\ (script.i # 1 => script.before = Nonce)
    BY <2>1, <1>1, <1>5 DEF OneAtATime
  <2>3. Nonce' = Nonce /\ Step' = Step
    BY <1>1, <1>4 DEF Nonce, Step
  <2>4. OneAtATime'
    BY <2>2, <2>3, <1>3, <1>4, <1>5 DEF OneAtATime
  <2>5. OwnContract'
    BY <2>1, <1>1 DEF OwnContract, HasCode
  <2>. QED
    BY <2>4, <2>5
<1>. QED
  BY <1>6, <1>7, <1>8, <1>9, <1>10, <1>11 DEF DeployInv

(* The attempt at this step has failed, and its transaction has landed or not.  *)
LEMMA FailureKeeps ==
  ASSUME DeployInv, script.pc \in {"send", "wait"},
         UNCHANGED <<outlive, chain, pending, recorded, published, open>>,
         IF script.i = 1 THEN Throw ELSE \E pc \in {"flake", "fatal"} : Goto(pc),
         ~outlive => pending = {}
  PROVE  DeployInv'
<1>1. CASE script.i = 1
  BY <1>1, StopKeeps
<1>2. ASSUME script.i # 1, NEW pc \in {"flake", "fatal"}, Goto(pc) PROVE DeployInv'
  <2>1. /\ script' \in Scripts /\ script'.pc = pc /\ script'.i = script.i
        /\ script'.before = script.before
    BY <1>2 DEF DeployInv, DeployTypeOK, Goto, Scripts, Writing
  <2>2. Step' = Step
    BY <2>1 DEF Step
  <2>3. ~outlive => OneAtATime'
    BY <2>1, <2>2, <1>2 DEF DeployInv, OneAtATime, Landed, Nonce
  <2>. QED
    BY <2>1, <2>3, <1>2, GotoKeeps DEF Writing
<1>. QED
  BY <1>1, <1>2

(* The endpoint refuses.                                                        *)
LEMMA SendFailsKeeps ==
  ASSUME DeployInv, SendFails
  PROVE  DeployInv'
<1>1. script.pc = "send" /\ UNCHANGED <<outlive, chain, pending, recorded, published, open>>
  BY DEF SendFails, saved, net, listed
<1>2. ~outlive => pending = {}
  BY <1>1 DEF DeployInv, OneAtATime
<1>. QED
  BY <1>1, <1>2, FailureKeeps DEF SendFails

(* The wait for the receipt ends without one.                                   *)
LEMMA WaitFailsKeeps ==
  ASSUME DeployInv, WaitFails
  PROVE  DeployInv'
<1>1. script.pc = "wait" /\ UNCHANGED <<outlive, chain, pending, recorded, published, open>>
  BY DEF WaitFails, saved, net, listed
<1>2. ~outlive => pending = {}
  BY DEF WaitFails, Settled
<1>. QED
  BY <1>1, <1>2, FailureKeeps DEF WaitFails

(* forge reports the address it deployed to.                                    *)
LEMMA DeployedKeeps ==
  ASSUME DeployInv, Deployed
  PROVE  DeployInv'
<1>1. /\ script.pc = "wait" /\ UNCHANGED <<outlive, chain, pending, published, open>>
      /\ Nonce > script.nonce /\ chain[script.nonce + 1] = Creation(Step)
      /\ Remember(script.nonce + 1)
  BY DEF Deployed, net, listed
<1>2. script.nonce + 1 \in Nat /\ HasCode(script.nonce + 1)
  BY <1>1 DEF DeployInv, DeployTypeOK, Scripts, HasCode, Nonce
<1>3. ~outlive => pending = {}
  <2>1. script.nonce \in Nat /\ Nonce # script.nonce
    BY <1>1 DEF DeployInv, DeployTypeOK, Scripts, Nonce
  <2>. QED
    BY <2>1, <1>1 DEF DeployInv, OneAtATime
<1>4. chain[script.nonce + 1].step = Step
  BY <1>1 DEF Creation
<1>. QED
  BY <1>1, <1>2, <1>3, <1>4, RememberKeeps DEF Writing

(* A nonce that moved means the attempt landed, unless others outlive their sender. *)
LEMMA AfterFailureKeeps ==
  ASSUME DeployInv, AfterFailure
  PROVE  DeployInv'
<1>1. script.pc \in {"flake", "fatal"} /\ UNCHANGED <<outlive, chain, pending, published, open>>
  BY DEF AfterFailure, net, listed
<1>2. script.before \in Nat /\ Nonce \in Nat
  BY DEF DeployInv, DeployTypeOK, Scripts, Nonce
<1>3. ~outlive => pending = {} /\ (Nonce = script.before \/ Landed)
  BY <1>1 DEF DeployInv, OneAtATime
<1>4. CASE /\ Nonce > script.before /\ HasCode(script.before + 1)
           /\ Remember(script.before + 1)
  <2>1. ~outlive => chain[script.before + 1].step = Step
    BY <1>2, <1>3, <1>4 DEF Landed
  <2>. QED
    BY <2>1, <1>1, <1>2, <1>3, <1>4, RememberKeeps DEF Writing
<1>5. CASE recorded' = recorded /\ NextEndpoint
  BY <1>1, <1>5, NextEndpointKeeps
<1>6. CASE recorded' = recorded /\ Throw
  BY <1>1, <1>3, <1>6, StopKeeps
<1>. QED
  BY <1>4, <1>5, <1>6 DEF AfterFailure

(* The process is stopped.                                                      *)
LEMMA CrashKeeps ==
  ASSUME DeployInv, Crash
  PROVE  DeployInv'
BY StopKeeps DEF Crash, Settled, saved, net, listed

(* Registries are written when everything is recorded, and what they listed     *)
(* before was the same.                                                         *)
LEMMA WriteKeeps ==
  ASSUME DeployInv, Write
  PROVE  DeployInv'
<1>1. /\ script.pc = "write" /\ UNCHANGED <<outlive, chain, pending, recorded>>
      /\ ApplyRegistry(Files[script.i])
  BY DEF Write, net
<1>2. /\ script \in Scripts /\ script.i \in DOMAIN Files /\ Files[script.i] \in Range(Files)
      /\ DeployTypeOK /\ \A s \in Steps : recorded[s] # 0
  BY <1>1, FilesAre DEF DeployInv, DeployTypeOK, Placed, RecordedInOrder
<1> DEFINE file == Files[script.i]
<1>3. /\ published' \in [Range(Files) -> [Steps -> Nat]] /\ published'[file] = recorded
      /\ \A f \in Range(Files) : f # file => published'[f] = published[f]
      /\ open' = open \ {file}
  BY <1>1, <1>2 DEF ApplyRegistry, DeployTypeOK
<1>4. /\ script' \in Scripts
      /\ \/ script'.pc = "idle"
         \/ script'.pc = "write" /\ script'.i \in DOMAIN Files
  <2>1. CASE script' = Idle
    BY <2>1, IdleIsAScript
  <2>2. CASE script.i # Len(Files) /\ script' = [script EXCEPT !.i = script.i + 1]
    <3>1. script.i + 1 \in DOMAIN Files /\ script.i + 1 \in Nat
      BY <2>2, <1>2, FilesAre
    <3>2. script' \in Scripts /\ script'.pc = "write" /\ script'.i = script.i + 1
      BY <3>1, <2>2, <1>1, <1>2 DEF Scripts
    <3>. QED
      BY <3>1, <3>2
  <2>. QED
    BY <2>1, <2>2 DEF Write
<1>5. DeployTypeOK'
  BY <1>1, <1>2, <1>3, <1>4 DEF DeployTypeOK
<1>6. Placed'
  BY <1>4 DEF Placed, Writing
<1>7. RecordedInOrder'
  BY <1>1, <1>2, <1>4 DEF DeployInv, RecordedInOrder, HasCode, Writing
<1>8. AllTakeRecorded'
  BY <1>1 DEF DeployInv, AllTakeRecorded, TakesRecorded
<1>9. PublishedIsRecorded'
  BY <1>1, <1>2, <1>3 DEF DeployInv, PublishedIsRecorded
<1>10. OpenIsChecked'
  BY <1>1, <1>2, <1>3 DEF DeployInv, OpenIsChecked, DeployTypeOK
<1>11. ~outlive' => OneAtATime' /\ OwnContract'
  <2>1. ~outlive => pending = {}
    BY <1>1 DEF DeployInv, OneAtATime
  <2>. QED
    BY <2>1, <1>1, <1>4 DEF DeployInv, OneAtATime, OwnContract, HasCode
<1>. QED
  BY <1>5, <1>6, <1>7, <1>8, <1>9, <1>10, <1>11 DEF DeployInv

(* A client is opened when the pools of the registry answer: that registry was  *)
(* written, so that both list what is recorded.                                 *)
LEMMA UnlockKeeps ==
  ASSUME DeployInv, NEW f \in Range(Files), Unlock(f)
  PROVE  DeployInv'
<1>1. /\ published[f] # Nothing /\ AssertPools /\ open' = open \cup {f}
      /\ UNCHANGED <<outlive, chain, pending, recorded, published, script>>
  BY DEF Unlock, net
<1>2. published["registry"] = recorded
  <2>1. Poseidon \in Steps /\ "registry" \in Range(Files)
    BY FilesAre, StepsOfPlan
  <2>2. published["registry"][Poseidon] # 0
    BY <1>1 DEF AssertPools, IsDeployed
  <2>3. published["registry"] # Nothing
    BY <2>1, <2>2 DEF Nothing
  <2>. QED
    BY <2>1, <2>3 DEF DeployInv, PublishedIsRecorded
<1>3. \A s \in PoolSteps : chain[recorded[s]].step = s
  BY <1>1, <1>2 DEF AssertPools
<1>4. published[f] = recorded
  BY <1>1 DEF DeployInv, PublishedIsRecorded
<1>5. OpenIsChecked'
  BY <1>1, <1>3, <1>4 DEF DeployInv, OpenIsChecked, Nothing
<1>6. DeployTypeOK'
  BY <1>1 DEF DeployInv, DeployTypeOK
<1>. QED
  BY <1>1, <1>5, <1>6 DEF DeployInv, Placed, RecordedInOrder, AllTakeRecorded,
     TakesRecorded, PublishedIsRecorded, OneAtATime, OwnContract, HasCode, Nonce, Landed,
     Step, Nothing

(* A creation mined: the addresses before keep their contracts, and while none  *)
(* outlives its sender it is the one the script waits for.                      *)
LEMMA MineKeeps ==
  ASSUME DeployInv, Mine
  PROVE  DeployInv'
<1>1. /\ UNCHANGED <<outlive, recorded, published, open, script>>
      /\ \E t \in pending : /\ t.nonce = Nonce /\ chain' = Append(chain, t.create)
                            /\ pending' = {u \in pending : u.nonce > t.nonce}
  BY DEF Mine, saved, listed
<1>2. PICK t \in pending : /\ t.nonce = Nonce /\ chain' = Append(chain, t.create)
                           /\ pending' = {u \in pending : u.nonce > t.nonce}
  BY <1>1
<1>3. /\ chain \in Seq(Creations) /\ t.create \in Creations /\ pending' \subseteq pending
      /\ Nonce \in Nat /\ t.nonce \in Nat
  BY <1>2 DEF DeployInv, DeployTypeOK, Sendings, Nonce
<1>4. /\ chain' \in Seq(Creations) /\ Nonce' = Nonce + 1 /\ chain'[Nonce + 1] = t.create
      /\ \A k \in 1 .. Nonce : chain'[k] = chain[k]
      /\ DOMAIN chain = 1 .. Nonce /\ DOMAIN chain' = 1 .. Nonce + 1
  BY <1>2, <1>3 DEF Nonce
<1>5. \A a \in Nat : HasCode(a) => HasCode(a)' /\ chain'[a] = chain[a]
  BY <1>3, <1>4 DEF HasCode, Nonce
<1>6. DeployTypeOK'
  BY <1>1, <1>3, <1>4 DEF DeployInv, DeployTypeOK
<1>7. Placed'
  BY <1>1 DEF DeployInv, Placed
<1>8. recorded \in [Steps -> Nat] /\ \A s \in Steps : recorded[s] # 0 => HasCode(recorded[s])
  BY DEF DeployInv, DeployTypeOK, RecordedInOrder
<1>9. RecordedInOrder'
  BY <1>1, <1>5, <1>8 DEF DeployInv, RecordedInOrder, Step
<1>10. AllTakeRecorded'
  <2>1. TakesRecorded(t.create) /\ \A k \in 1 .. Nonce : TakesRecorded(chain[k])
    BY <1>4 DEF DeployInv, AllTakeRecorded
  <2>2. \A k \in 1 .. Nonce + 1 : TakesRecorded(chain'[k])
    BY <2>1, <1>3, <1>4
  <2>3. \A u \in pending' : TakesRecorded(u.create)
    BY <1>3 DEF DeployInv, AllTakeRecorded
  <2>. QED
    BY <2>2, <2>3, <1>1, <1>4 DEF AllTakeRecorded, TakesRecorded
<1>11. PublishedIsRecorded'
  BY <1>1 DEF DeployInv, PublishedIsRecorded
<1>12. OpenIsChecked'
  <2> SUFFICES ASSUME NEW f \in open, NEW s \in PoolSteps PROVE chain'[recorded[s]].step = s
    BY <1>1 DEF DeployInv, OpenIsChecked, Nothing
  <2>1. chain[recorded[s]].step = s /\ f \in Range(Files) /\ published[f] # Nothing /\ s \in Steps
    BY DEF DeployInv, OpenIsChecked, DeployTypeOK, PoolSteps
  <2>2. recorded[s] # 0
    BY <2>1 DEF DeployInv, PublishedIsRecorded
  <2>. QED
    BY <2>1, <2>2, <1>5, <1>8
<1>13. ~outlive' => OneAtATime' /\ OwnContract'
  <2> SUFFICES ASSUME ~outlive PROVE OneAtATime' /\ OwnContract'
    BY <1>1
  <2>1. OneAtATime /\ OwnContract
    BY DEF DeployInv
  <2>2. script.pc = "wait"
    BY <2>1 DEF OneAtATime
  <2>3. /\ Nonce = script.nonce /\ t.create.step = Step
        /\ script.i # 1 => script.nonce = script.before
        /\ \A u \in pending : u.nonce = script.nonce
    BY <2>1, <2>2, <1>2 DEF OneAtATime
  <2>4. pending' = {}
    BY <2>3, <1>2, <1>3
  <2>5. Step' = Step /\ Nonce' = script.nonce + 1 /\ chain'[script.nonce + 1].step = Step
    BY <2>3, <1>1, <1>4 DEF Step
  <2>6. OneAtATime'
    BY <2>2, <2>3, <2>4, <2>5, <1>1 DEF OneAtATime
  <2>7. OwnContract'
    <3> SUFFICES ASSUME NEW s \in Steps, HasCode(recorded[s])' PROVE chain'[recorded[s]].step = s
      BY <1>1 DEF OwnContract
    <3>1. HasCode(recorded[s])
      BY <1>1, <1>8 DEF HasCode
    <3>. QED
      BY <3>1, <2>1, <1>5, <1>8 DEF OwnContract
  <2>. QED
    BY <2>6, <2>7
<1>. QED
  BY <1>6, <1>7, <1>9, <1>10, <1>11, <1>12, <1>13 DEF DeployInv

(* A mempool forgets a creation.                                                *)
LEMMA DropKeeps ==
  ASSUME DeployInv, Drop
  PROVE  DeployInv'
<1>1. /\ UNCHANGED <<outlive, chain, recorded, published, open, script>>
      /\ pending' \subseteq pending
  BY DEF Drop, saved, listed
<1>2. DeployTypeOK'
  BY <1>1 DEF DeployInv, DeployTypeOK
<1>3. AllTakeRecorded'
  BY <1>1 DEF DeployInv, AllTakeRecorded, TakesRecorded
<1>4. ~outlive' => OneAtATime' /\ OwnContract'
  <2> SUFFICES ASSUME ~outlive, OneAtATime, OwnContract PROVE OneAtATime' /\ OwnContract'
    BY <1>1 DEF DeployInv
  <2>1. pending = {} => pending' = {}
    BY <1>1
  <2>2. Step' = Step /\ Nonce' = Nonce
    BY <1>1 DEF Step, Nonce
  <2>. QED
    BY <2>1, <2>2, <1>1 DEF OneAtATime, OwnContract, HasCode, Landed
<1>. QED
  BY <1>1, <1>2, <1>3, <1>4 DEF DeployInv, Placed, RecordedInOrder, HasCode, Step,
     PublishedIsRecorded, OpenIsChecked, Nothing

(* The inductive invariant, of every plan of circuits and assets, any number of *)
(* endpoints, runs and transactions.                                            *)
THEOREM DeployInvariant == Spec => []DeployInv
<1>1. Init => DeployInv
  <2> SUFFICES ASSUME Init PROVE DeployInv
    OBVIOUS
  <2>1. Nothing \in [Steps -> Nat] /\ \A s \in Steps : Nothing[s] = 0
    BY DEF Nothing
  <2>2. DeployTypeOK
    BY <2>1, IdleIsAScript DEF Init, DeployTypeOK
  <2>3. Placed /\ RecordedInOrder
    BY <2>1, IdleIsAScript DEF Init, Placed, RecordedInOrder, Writing
  <2>4. AllTakeRecorded /\ PublishedIsRecorded /\ OpenIsChecked
    BY DEF Init, AllTakeRecorded, PublishedIsRecorded, OpenIsChecked
  <2>5. OneAtATime /\ OwnContract
    BY <2>1, IdleIsAScript DEF Init, OneAtATime, OwnContract, HasCode
  <2>. QED
    BY <2>2, <2>3, <2>4, <2>5 DEF DeployInv
<1>2. DeployInv /\ [Next]_vars => DeployInv'
  <2> SUFFICES ASSUME DeployInv, [Next]_vars PROVE DeployInv'
    OBVIOUS
  <2>1. CASE UNCHANGED vars
    BY <2>1 DEF vars, DeployInv, DeployTypeOK, Placed, RecordedInOrder, AllTakeRecorded,
       TakesRecorded, PublishedIsRecorded, OpenIsChecked, OneAtATime, OwnContract, HasCode,
       Nonce, Landed, Step, Nothing
  <2>2. ASSUME NEW f \in Range(Files), Unlock(f) PROVE DeployInv'
    BY <2>2, UnlockKeeps
  <2>. QED
    BY <2>1, <2>2, StartKeeps, ReuseKeeps, ReadNonceKeeps, RecoverKeeps, SendKeeps,
       SendFailsKeeps, DeployedKeeps, WaitFailsKeeps, AfterFailureKeeps, WriteKeeps,
       CrashKeeps, MineKeeps, DropKeeps DEF Next
<1>. QED
  BY <1>1, <1>2, PTL DEF Spec

(* While no creation is mined after its sender gave up, every recorded address  *)
(* is that of the step's own contract (OwnContractOnceSettled).                 *)
THEOREM RecordedIsOwn == Spec => []OwnContractOnceSettled
<1>1. DeployInv => OwnContractOnceSettled
  BY DEF DeployInv, OwnContractOnceSettled
<1>. QED
  BY <1>1, DeployInvariant, PTL

(* Whatever was mined late: each pool a live registry lists is the pool of its  *)
(* asset and calls the contracts listed with it (LiveIsWired).                  *)
THEOREM LiveClientsAreWired == Spec => []LiveIsWired
<1>1. DeployInv => LiveIsWired
  <2> SUFFICES ASSUME DeployInv, NEW f \in Range(Files), NEW s \in PoolSteps, IsLive(f)
      PROVE /\ chain[published[f][s]].step = s
            /\ \A n \in Needs(s) : chain[published[f][s]].args[n] = published[f][n]
    BY DEF LiveIsWired
  <2>1. published[f] = recorded /\ published[f] # Nothing /\ chain[recorded[s]].step = s
        /\ s \in Steps
    BY DEF IsLive, DeployInv, OpenIsChecked, PoolSteps
  <2>2. HasCode(recorded[s]) /\ recorded[s] \in Nat
    BY <2>1 DEF DeployInv, DeployTypeOK, PublishedIsRecorded, RecordedInOrder
  <2>3. TakesRecorded(chain[recorded[s]])
    BY <2>2 DEF DeployInv, DeployTypeOK, AllTakeRecorded, HasCode
  <2>. QED
    BY <2>1, <2>3 DEF TakesRecorded
<1>. QED
  BY <1>1, DeployInvariant, PTL
=============================================================================
