\* Two providers that return three batches between them.
SPECIFICATION Spec
CONSTANTS
    Second = 2
    Window = 4
    NoText = NoText
    Providers = 2
    Batches <- MCBatches
    RawQueries <- MCQueries
    MaxBatches = 3
    payment = payment
    cart = cart
INVARIANTS
    NothingLostOrCountedTwice
    ProviderOrderOnlyAffectsSeverity
    FailureOnlyRemovesEvidence
    ShiftKeepsIdentity
    ConfidenceIsEarned
\* The providers stop returning batches.
CHECK_DEADLOCK FALSE
