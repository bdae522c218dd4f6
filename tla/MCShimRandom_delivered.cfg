SPECIFICATION Spec
CONSTANTS
    Word64 <- MCWord64
    Pids <- MCPids
    Seeds <- MCSeeds
    UserSeeds <- MCUserSeeds
    Mix <- MCMix
    Low <- MCLow
    MAX_WORDS = 2
    MAX_DRAWN = 2
INVARIANTS SeedDelivered
