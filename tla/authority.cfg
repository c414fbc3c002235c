SPECIFICATION Spec
CONSTANTS
    Accounts <- MCAccounts
    Keys <- MCKeys
    TempAccount = "temp"
    CHAIN_MAX_SIG_CHECK_DEPTH = 2
    Authorities <- MCAuthorities
    Transactions <- MCTransactions
    Approvals <- MCApprovals
INVARIANTS
    OnlyAuthorized
    AuthorizedPasses
    MinimalKeysSuffice
