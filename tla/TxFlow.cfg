SPECIFICATION Spec
CONSTANTS
    Cont = 4
    KeySize = 1
    HashSize = 1
    SigSize = 1
    U32Size = 2
    U64Size = 2
    MaxEntriesPerDecode = 5
    MaxTxPerEntry = 5
    NoTx = NoTx
    Messages <- MCMessages
    Signers <- MCSigners
    Hashes <- MCHashes
    EdSign <- MCEdSign
    MaxSigners = 2
    Alphabet <- MCAlphabet
    MaxInput = 14
INVARIANTS
    RoundTrip
    SizeExact
    Canonical
    StreamDecodes
    SignedVerifies
PROPERTY
    SignaturesKept
CHECK_DEADLOCK FALSE
