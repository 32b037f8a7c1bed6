---------------------------- MODULE RelayerBoot ----------------------------
(***************************************************************************)
(* How a relayer process comes up (packages/relayer/src/server.mjs, lines  *)
(* 26-142) and how start-both.mjs keeps two of them: which env file it     *)
(* reads, which network, port and RPC it then serves, or that it refuses.  *)
(* A variable the file sets, be it to nothing, hides the shell's.  Two     *)
(* processes cannot listen on one port; all of them run on one host.       *)
(*                                                                         *)
(* An environment is a function from the names of variables to values; an  *)
(* endpoint variable is abstracted to the chain its endpoint is of, a key  *)
(* to "key".  "" stands for both unset and empty, as || has it.            *)
(***************************************************************************)
EXTENDS Integers, FiniteSets

CONSTANTS Shells,     \* environments of the shell, functions on EnvNames
          Contents,   \* what an env file may set, functions on some of EnvNames
          ByHand      \* processes started by hand

EnvNames == {"RELAYER_ENV_FILE", "RELAYER_NETWORK", "RELAYER_PORT",
             "RELAYER_PRIVATE_KEY", "RELAYER_RPC", "MAINNET_RPC", "SEPOLIA_RPC"}
Networks  == {"mainnet", "sepolia"}
FileNames == {"env.mainnet", "env.sepolia", "env"}

\* the children of start-both.mjs
Children  == {"mainnet child", "sepolia child"}
Processes == ByHand \cup Children

VARIABLES shell,      \* the environment the processes inherit
          envFiles,   \* the env files that exist, with their contents
          proc,       \* each process: down, starting, up on a port, or exited
          launcher    \* start-both.mjs: "idle", "running", "exited"

bootVars == <<shell, envFiles, proc, launcher>>

Down     == [st |-> "down"]
Starting == [st |-> "starting"]
Exited   == [st |-> "exited"]

\* JavaScript's || on strings
Or(a, b) == IF a # "" THEN a ELSE b

NetworkOf(f) == CASE f = "env.mainnet" -> "mainnet"
                  [] f = "env.sepolia" -> "sepolia"
                  [] OTHER -> ""
DefaultPort(n) == IF n = "mainnet" THEN "8788" ELSE "8787"
OtherPort(n)   == IF n = "mainnet" THEN "8787" ELSE "8788"

\* --env-file=..., which npm run start:mainnet and the launcher pass
FileArgument(c) ==
    CASE c \in {"mainnet child", "start:mainnet"} -> "env.mainnet"
      [] c \in {"sepolia child", "start:sepolia"} -> "env.sepolia"
      [] OTHER -> ""

----------------------------------------------------------------------------
(* resolveEnvPath: the files it may settle on; none when it refuses to     *)
(* choose between several.                                                 *)
EnvFile(c) ==
    LET hinted == {f \in DOMAIN envFiles :
                      NetworkOf(f) # "" /\ NetworkOf(f) = shell["RELAYER_NETWORK"]}
        named  == Or(FileArgument(c), shell["RELAYER_ENV_FILE"])
    IN  CASE named # "" -> {named}
          [] named = "" /\ hinted # {} -> hinted
          [] named = "" /\ hinted = {} /\ DOMAIN envFiles = {} -> {"env.mainnet"}
          [] OTHER -> IF Cardinality(DOMAIN envFiles) = 1 THEN DOMAIN envFiles ELSE {}

\* loadDotEnv: process.env once the file was read
Env(f, name) ==
    IF name \in DOMAIN envFiles[f] THEN envFiles[f][name] ELSE shell[name]

Network(f) == Or(Env(f, "RELAYER_NETWORK"), Or(NetworkOf(f), "mainnet"))

Port(f) == Or(Env(f, "RELAYER_PORT"), DefaultPort(Network(f)))

\* the chain of the endpoint it talks to
Rpc(f) == Or(Env(f, "RELAYER_RPC"),
             Or(Env(f, "MAINNET_RPC"), Or(Env(f, "SEPOLIA_RPC"), Network(f))))

\* the checks between reading the file and listening
Starts(f) ==
    /\ f \in DOMAIN envFiles
    /\ Network(f) \in Networks
    /\ NetworkOf(f) \in {"", Network(f)}
    /\ Port(f) # OtherPort(Network(f))
    /\ Env(f, "RELAYER_PRIVATE_KEY") = "key"

Taken == {proc[c].port : c \in {x \in Processes : proc[x].st = "up"}}

----------------------------------------------------------------------------
\* a process reads its file and listens, or exits: a check fails, or its port
\* is taken, an error event nobody handles
Boot(c) ==
    /\ proc[c] = IF c \in Children THEN Starting ELSE Down
    /\ proc' = [proc EXCEPT ![c] =
          IF \E f \in EnvFile(c) : Starts(f) /\ Port(f) \notin Taken
          THEN LET f == CHOOSE x \in EnvFile(c) : Starts(x)
               IN  [st |-> "up", file |-> f, net |-> Network(f), port |-> Port(f),
                    rpc |-> Rpc(f)]
          ELSE Exited]
    /\ UNCHANGED <<shell, envFiles, launcher>>

\* start-both.mjs refuses unless both named files exist, and spawns two
Launch ==
    /\ launcher = "idle"
    /\ IF {"env.mainnet", "env.sepolia"} \subseteq DOMAIN envFiles
       THEN /\ launcher' = "running"
            /\ proc' = [c \in Processes |-> IF c \in Children THEN Starting ELSE proc[c]]
       ELSE launcher' = "exited" /\ UNCHANGED proc
    /\ UNCHANGED <<shell, envFiles>>

\* Bug: the launcher looks after the first of its children only.
WatchesOneChild ==
    /\ launcher = "running" /\ proc["mainnet child"] = Exited
    /\ launcher' = "exited"
    /\ UNCHANGED <<shell, envFiles, proc>>

\* a child that exits takes the launcher with it, not the other child
LauncherGone ==
    /\ launcher = "running"
    /\ \E c \in Children : proc[c] = Exited
    /\ launcher' = "exited"
    /\ UNCHANGED <<shell, envFiles, proc>>

\* SIGINT: both children are killed
Shutdown ==
    /\ launcher = "running" /\ launcher' = "exited"
    /\ proc' = [c \in Processes |-> IF c \in Children THEN Exited ELSE proc[c]]
    /\ UNCHANGED <<shell, envFiles>>

Die(c) ==
    /\ proc[c].st \in {"starting", "up"} /\ proc' = [proc EXCEPT ![c] = Exited]
    /\ UNCHANGED <<shell, envFiles, launcher>>

BootInit ==
    /\ shell \in Shells
    /\ \E present \in SUBSET FileNames : envFiles \in [present -> Contents]
    /\ proc = [c \in Processes |-> Down] /\ launcher = "idle"

\* processes are started by hand (npm run start:...) or by the launcher
BootNext ==
    \/ \E c \in Processes : Boot(c) \/ Die(c)
    \/ Launch \/ LauncherGone \/ Shutdown

\* A spawned process runs on, and the launcher hears of a child's end.  Nobody
\* need start anything.
BootFairness ==
    /\ \A c \in Children : WF_bootVars(Boot(c))
    /\ WF_bootVars(LauncherGone)

BootSpec == BootInit /\ [][BootNext]_bootVars /\ BootFairness

----------------------------------------------------------------------------
Serves(n) == \E c \in Children : proc[c].st = "up" /\ proc[c].net = n

\* start-both.mjs runs both relayers "together": it never goes on for ever with
\* a network not served by a child of its own, whether that child found its file
\* in conflict with the shell, its port taken by a process started by hand, or
\* died later (child.on("exit"), start-both.mjs:30).
LaunchedServesBoth ==
    launcher = "running" ~> launcher = "exited" \/ \A n \in Networks : Serves(n)

\* A process talks to an endpoint of the network it serves.
RpcOfOwnNetwork ==
    \A c \in Processes : proc[c].st = "up" => proc[c].rpc = proc[c].net
=============================================================================
