SPECIFICATION RunSpec
CONSTANTS
    ZeroId = "0"
    Block <- PartBlocks
    Witness <- FourWitnesses
    previous <- PartPrev
    block_num <- PartNum
    ancestors <- PartAncestors
    producer <- PartProducer
    skipped <- PartSkipped
    schedule <- PartSchedule
    EarlyBad = {}
    LateBad = {}
    DefaultMaxSize = 6
    CHAIN_IRREVERSIBLE_THRESHOLD = 7500
    CHAIN_IRREVERSIBLE_SUPPORT_MIN_RUN = 0
    CHAIN_MAX_UNDO_HISTORY = 10
    CHAIN_MAX_BLOCK_POST_VALIDATION_COUNT = 2
    Validators = {}
    StrayValues = {FALSE}
    Transactions = FALSE
    MaxCrashes = 0
PROPERTIES
    FailedPushUnwinds
