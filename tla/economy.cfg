SPECIFICATION Spec
CONSTANTS
    Account = {0, 1, 2, 3, 4, 5, 6}
    CHAIN_100_PERCENT = 4
    CHAIN_DIGITAL_ASSET_ISSUED_PER_BLOCK = 5
    InflationWitnessPercent = 1
    InflationRatio = 2
    NewSharesPerToken = 2
    AccountCreationFee = 1
    Amounts = {1, 3}
    CHAIN_VESTING_WITHDRAW_INTERVAL = 1
    WithdrawIntervals = 2
    CHAIN_MAX_WITHDRAW_ROUTES = 2
    CHAIN_ENERGY_REGENERATION = 2
    MinDelegation = 1
    CreateAccountDelegationRatio = 2
    CreateAccountDelegationTime = 3
    Percents = {0, 2, 4}
    VoteAccountingMinRshares = 1
    Beneficiaries <- MCBeneficiaries
    EscrowId = {1}
    Delays = {1, 2}
    CHAIN_MASTER_UPDATE_LIMIT = 0
    CHAIN_MASTER_AUTH_RECOVERY_PERIOD = 2
    CHAIN_ACCOUNT_RECOVERY_REQUEST_EXPIRATION_PERIOD = 1
    CHAIN_ACCOUNT_ON_SALE_DELAY = 1
    TopWitness = 3
    Keys = {3, 9}
    AccountOnSaleFee = 1
    SubaccountOnSaleFee = 1
    CHAIN_ACCOUNT_AUCTION_MIN_STEP = 2
    WallClock = {1, 2}
    CommitteeCreateRequestFee = 1
    CommitteeApproveMinPercent = 1
    COMMITTEE_MIN_DURATION = 1
    COMMITTEE_MAX_DURATION = 2
    COMMITTEE_MAX_REQUIRED_AMOUNT = 10
    COMMITTEE_REQUEST_PER_TIME = 1
    COMMITTEE_REQUEST_PROCESSING = 2
    CHAIN_CLEAR_CLOSED_COMMITTEE_REQUEST_DELAY = 1
    Urls = {1}
    Votes <- MCVotes
    Durations = {1, 2}
    InviteKey = {1, 2}
    CreateInviteMinBalance = 1
    CHAIN_CLEAR_USED_INVITE_DELAY = 1
    CreatePaidSubscriptionFee = 1
    Levels = {0, 1, 2}
    Prices = {1, 3}
    Periods = {1, 2}
    Mixes <- MCMixes
    CHAIN_MAX_PROPOSAL_LIFETIME = 2
    Title = {1}
    Transfers <- MCTransfers
    FirstAccounts <- MCFirstAccounts
    FirstBalance = 4
    FirstShares = 5
    FirstFund = 7
    Leads = {3}
    FirstHistory <- MCFirstHistory
    Producer = 3
    MaxTime <- MCMaxTime
    MaxOps <- MCMaxOps
INVARIANTS Conserved SharesAccounted AwardsFade BidsAccounted CommitteePaysAsConcluded NothingOverdue ChargedAsAgreed
PROPERTIES SharePriceNeverFalls ProposalsWhole
CHECK_DEADLOCK FALSE
