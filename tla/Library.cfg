SPECIFICATION Spec
CONSTANTS
    Cont = 4
    KeySize = 2
    HashSize = 1
    SigSize = 1
    U32Size = 2
    U64Size = 3
    MaxEntriesPerDecode = 1
    MaxTxPerEntry = 1
    Goroutines = {g1, g2, g3}
    NoPlan = NoPlan
    NoType = NoType
    NoCall = NoCall
    Types <- MCTypes
    Compile <- CompileOutcome
    TypeOf <- MCTypeOf
    MaxDepth = 6
    Decoded <- MCDecoded
    Garbage <- MCGarbage
    Tails <- MCTails
    Mints <- MCMints
    TokenAccounts <- MCTokenAccounts
    Tables <- MCTables
    WordSize = 2
    Wide128 <- MCWide128
    Wide256 <- MCWide256
    BigInts <- MCBigInts
    Texts <- MCTexts
    Seeds <- MCSeeds
    Programs <- MCPrograms
    Slots <- MCSlots
    RawErrors <- MCRawErrors
    RuntimeErrors <- MCRuntimeErrors
    SignedMessages <- MCMessages
    OffsetLists <- MCDescriptors
    EthSize = 3
    MaxPDASeeds = 4
    MaxPDASeedLength = 3
    MaxBump = 3
SYMMETRY GoroutineSymmetry
INVARIANTS
    PlanShared
    CrashOnlyOnCycle
    DecodeInverts
    AccountsDecoded
    WideExact
    BumpHighest
    ErrorDecoded
    PrecompileReads
