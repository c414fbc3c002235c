SPECIFICATION RunSpec
CONSTANTS
    ZeroId = "0"
    Block <- TreeBlocks
    Witness <- ThreeWitnesses
    previous <- TreePrev
    block_num <- TreeNum
    ancestors <- TreeAncestors
    producer <- TreeProducer
    skipped <- TreeSkipped
    schedule <- TreeSchedule
    EarlyBad = {}
    LateBad = {}
    DefaultMaxSize = 6
    CHAIN_IRREVERSIBLE_THRESHOLD = 7500
    CHAIN_IRREVERSIBLE_SUPPORT_MIN_RUN = 0
    CHAIN_MAX_UNDO_HISTORY = 10
    CHAIN_MAX_BLOCK_POST_VALIDATION_COUNT = 2
    Validators = {"A", "B", "C"}
    StrayValues = {FALSE}
    Transactions = FALSE
    MaxCrashes = 0
INVARIANTS
    LogIsCommittedChain
