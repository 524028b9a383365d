\* The fingerprint of a repeated signal.
SPECIFICATION Spec
CONSTANTS
    Second = 2
    Window = 4
    NoText = NoText
    Providers = 1
    Batches <- MCBatches
    RawQueries <- MCQueries
    MaxBatches = 2
    payment = payment
    cart = cart
PROPERTIES
    SameSummariesSameFingerprint
CHECK_DEADLOCK FALSE
