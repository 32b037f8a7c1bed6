SPECIFICATION OperationsSpec
CONSTANTS
    Circuits <- OneCircuit
    Assets <- TwoAssets
    Fees = {"alice", "bob", "deployer"}
    Endpoints = 2
    MaxSends = 10
    MaxRuns = 2
    Posters = {"alice", "bob"}
    Claims = {"claim"}
    MaxTime = 2
    Provable <- Verifies
    CircuitNames <- TwoCircuits
    People = {"dan", "evan"}
    Beacons = {"b1"}
    MaxRounds = 3
    MaxJobs = 7
    Notes = {"n1", "n2"}
    Worth <- Worths
    Place <- Places
    Holder = "holder"
    Others = {"payer", "auditor"}
    Thresholds = {0, 3, 4}
    VALUE_BOUND_MAX = 7
    CircuitBits = 2
    TypedSignals <- SignalsTyped
    Topics <- TopicsOfFiles
INVARIANT VerifiesBeforeDeployment
\* The bounds end every behaviour.
CHECK_DEADLOCK FALSE
