SPECIFICATION Spec
CONSTANTS
    Circuits <- AllCircuits
    Assets <- AllAssets
    Fees = {"alice", "bob", "deployer"}
    Endpoints = 2
    MaxSends = 4
    MaxRuns = 1
INVARIANT OwnContract
CHECK_DEADLOCK FALSE
