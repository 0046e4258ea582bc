SPECIFICATION Spec
CONSTANTS
    x = x
    y = y
    Chains <- MCChains
    LastSpec <- MCLastSpec
    Payloads <- MCPayloads
    SignDispatch <- sign_dispatch
    KnownCall <- IsCall
    MAX_NESTING = 5
INVARIANTS
    ClientOfTheBlock
    DispatchReadsAsSigned
    OnlyRefusedUnsigned
