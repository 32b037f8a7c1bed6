----------------------------- MODULE MCRelayer -----------------------------
(***************************************************************************)
(* Instances of Relayer and RelayerBoot for TLC.  A behaviour is either a  *)
(* relayer at work or relayers being started, which `part` says.           *)
(*                                                                         *)
(* Chain 1 has a pool "eth", whose registry entry also names its asset,    *)
(* the address "zero", and an obsolete pool "old" with a higher fee.       *)
(***************************************************************************)
EXTENDS Relayer, RelayerBoot

VARIABLE part

allVars == <<vars, bootVars, part>>

BootAtRest ==
    /\ shell = [n \in EnvNames |-> ""] /\ envFiles = <<>>
    /\ proc = [c \in Processes |-> Down] /\ launcher = "idle"

BothInit ==
    /\ Init
    /\ \/ part = "relay" /\ BootAtRest
       \/ part = "boot" /\ BootInit

RelayPart == part = "relay" /\ Next /\ UNCHANGED <<bootVars, part>>
BootPart  == part = "boot" /\ BootNext /\ UNCHANGED <<vars, part>>

BothNext == RelayPart \/ BootPart

\* fairness as in FairSpec and BootSpec
BothSpec ==
    /\ BothInit /\ [][BothNext]_allVars
    /\ \A r \in Requests : WF_vars(Handler(r))
    /\ BootFairness

----------------------------------------------------------------------------
(* The relayer at work. *)

MCSelectors == {"withdraw", "withdraw1", "withdrawPartial1"}
PpmOfPools  == [p \in {"eth", "old"} |-> IF p = "eth" THEN 2 ELSE 3]

Base == [chain |-> 1, to |-> "eth", sel |-> "withdraw1", amount |-> 7, fee |-> 3,
         nf |-> "a", root |-> 1, proof |-> TRUE, payee |-> "contract", extra |-> "none"]

\* two withdrawals of one note, a partial one of another, at, above and far
\* above the floor, to the obsolete pool below its floor, one without a valid
\* proof, and what validation refuses
MCBodies ==
    { Base,
      [Base EXCEPT !.sel = "withdraw", !.fee = 7],
      [Base EXCEPT !.sel = "withdrawPartial1", !.nf = "b", !.root = 2],
      [Base EXCEPT !.to = "old"],
      [Base EXCEPT !.fee = 2],
      [Base EXCEPT !.fee = 8],
      [Base EXCEPT !.proof = FALSE],
      [Base EXCEPT !.chain = 2],
      [Base EXCEPT !.sel = "transfer"],
      [Base EXCEPT !.to = "elsewhere"],
      [Base EXCEPT !.extra = "secret"] }

\* addresses of the registry that are no pools
MCZeroBodies == {Base, [Base EXCEPT !.to = "zero"], [Base EXCEPT !.to = "elsewhere"]}

----------------------------------------------------------------------------
(* Relayers being started. *)

Sets(pairs) == [n \in {p[1] : p \in pairs} |-> (CHOOSE p \in pairs : p[1] = n)[2]]

\* the two templates, one with its key left out, a bare key, and a port of one's own
MCContents ==
    { Sets({<<"RELAYER_PRIVATE_KEY", "key">>, <<"RELAYER_NETWORK", "mainnet">>,
            <<"RELAYER_RPC", "mainnet">>, <<"RELAYER_PORT", "8788">>}),
      Sets({<<"RELAYER_PRIVATE_KEY", "key">>, <<"RELAYER_NETWORK", "sepolia">>,
            <<"SEPOLIA_RPC", "sepolia">>, <<"RELAYER_PORT", "8787">>}),
      Sets({<<"RELAYER_PRIVATE_KEY", "">>, <<"RELAYER_NETWORK", "sepolia">>}),
      Sets({<<"RELAYER_PRIVATE_KEY", "key">>}),
      Sets({<<"RELAYER_PORT", "9000">>}) }

Shell(pairs) == [n \in EnvNames |->
                    IF \E p \in pairs : p[1] = n THEN Sets(pairs)[n] ELSE ""]

\* an empty shell, and shells that name a network, a port, a key, an endpoint or a file
MCShells ==
    { Shell({}),
      Shell({<<"RELAYER_NETWORK", "sepolia">>, <<"RELAYER_PRIVATE_KEY", "key">>}),
      Shell({<<"RELAYER_NETWORK", "goerli">>}),
      Shell({<<"RELAYER_PORT", "8787">>, <<"MAINNET_RPC", "mainnet">>}),
      Shell({<<"RELAYER_PORT", "9000">>, <<"RELAYER_PRIVATE_KEY", "key">>}),
      Shell({<<"RELAYER_ENV_FILE", "env.sepolia">>}) }
=============================================================================
