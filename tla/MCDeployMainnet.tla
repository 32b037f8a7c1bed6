-------------------------- MODULE MCDeployMainnet --------------------------
(* The twelve steps of the mainnet deployment. *)
EXTENDS DeployMainnet

AllCircuits == <<"deposit", "withdraw", "withdraw1", "withdrawPartial">>
AllAssets   == <<"eth", "dai", "lusd">>
=============================================================================
