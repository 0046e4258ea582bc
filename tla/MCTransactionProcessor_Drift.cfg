SPECIFICATION Spec
CONSTANTS
    a1 = a1
    a2 = a2
    b1 = b1
    c1 = c1
    a = a
    b = b
    c = c
    x = x
    y = y
    Rows <- MCRows
    Keys <- MCKeys
    Chains <- MCChains
    KeyOf <- MCKeyOf
    ChainOf <- MCChainOf
    PageSize = 3
    MaxAttempts = 2
    MayAnswerFalse = TRUE
    MaxNonce <- MCMaxNonce
INVARIANT CacheNeverAhead
