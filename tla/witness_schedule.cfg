SPECIFICATION Spec
CONSTANTS
    Witness = {1, 2, 3, 4}
    CHAIN_MAX_WITNESSES = 3
    CHAIN_MAX_TOP_WITNESSES = 2
    CHAIN_HARDFORK_REQUIRED_WITNESSES = 3
    CHAIN_MAX_WITNESS_MISSED_BLOCKS = 4
    CHAIN_100_PERCENT = 100
    LAP = 15
    WINDOW = 3
    MissPenalty <- Penalties
    MissDuration = 5
    HardforkTime <- Times
    FirstVotes <- FourVotes
    FirstList <- Listed
    SlotCycle = 6
    MaxVotes = 2
    MaxGap = 2
    MaxChanges = 3
INVARIANTS
    PenaltyIsPending
    NobodyIsLate
    OneTurnEach
PROPERTIES
    HardforkAgreed
    EveryoneServes
CHECK_DEADLOCK FALSE
