SPECIFICATION Spec
CONSTANTS
    Account = {a, b, c, d, e}
    Witness = {v, w}
    NoProxy = none
    MaxDepth = 3
    MaxVotes = 2
    Amount = {2}
    MaxShares = 2
SYMMETRY Exchange
INVARIANTS
    NoProxyLoop
    EveryShareCounts
