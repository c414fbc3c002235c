SPECIFICATION Spec
CONSTANTS
    txA = txA
    txB = txB
    txC = txC
    None = None
    Tx = {txA, txB, txC}
    Expiration <- Expirations
    Excludes <- Pairs
    MaxUntil = 3
    Room = 2
    MaxTime = 3
    MaxPop = 1
    MaxPending = 2
INVARIANTS
    OncePerChain
    NothingForgotten
    BuiltBlockApplies
