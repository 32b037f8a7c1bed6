---------------------------- MODULE MCWebWallet ----------------------------
(* Uses of the web wallet for TLC, each as small as its question allows. *)
EXTENDS WebWallet

Tab == [notes |-> {"n1"}, pools |-> {"eth"}, dests |-> {"d1"}, amounts |-> {1},
        modes |-> {"full"}, routes |-> {"relayer"}, vault |-> FALSE, lag |-> 0,
        roams |-> FALSE, maxTx |-> 2, maxRestarts |-> 1]

TwoNotes == {"n1", "n2"}

\* one note, two destinations and a backup file; two notes that are merged or
\* each other's change, sent either way; two notes in two pools behind lagging
\* endpoints
MCUses == { [Tab EXCEPT !.dests = {"d1", "d2"}, !.vault = TRUE, !.roams = TRUE],
            [Tab EXCEPT !.notes = TwoNotes, !.modes = {"partial", "merge2"},
                        !.routes = {"relayer", "wallet"}, !.maxRestarts = 0],
            [Tab EXCEPT !.notes = TwoNotes, !.pools = {"eth", "dai"}, !.lag = 1,
                        !.modes = {"partial"}, !.maxRestarts = 0] }

\* a withdrawal sent from the wallet with either of two notes; with either of
\* two destinations; one deposit, also from a wallet that changes its network
WalletUses == { [Tab EXCEPT !.notes = TwoNotes, !.routes = {"wallet"}, !.maxTx = 3] }
DestinationUses == { [Tab EXCEPT !.routes = {"wallet"}, !.dests = {"d1", "d2"}] }
PlainUses == { Tab }
RoamingUses == { [Tab EXCEPT !.roams = TRUE] }
=============================================================================
