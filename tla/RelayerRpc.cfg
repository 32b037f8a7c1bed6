SPECIFICATION BothSpec
CONSTANTS
    Requests = {r1, r2}
    Bodies <- MCBodies
    Pools = {"eth", "old"}
    Registry = {"eth", "zero", "old"}
    ChainId = 1
    Selectors <- MCSelectors
    PoolPpm <- PpmOfPools
    RelayerPpm = 2
    ClientPpm = 2
    Denominator = 5
    Extras = {1, 2}
    RootWindow = 1
    TreeCapacity = 3
    Payees = {"contract", "fees"}
    Contracts = {"contract"}
    FeeRecipient = "fees"
    Shells <- MCShells
    Contents <- MCContents
    ByHand = {"start:mainnet", "node"}
INVARIANT RpcOfOwnNetwork
CHECK_DEADLOCK FALSE
