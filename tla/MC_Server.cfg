\* Two requests of any route, from boot to the end of the process.
SPECIFICATION Spec
CONSTANTS
    Second = 2
    NoName = NoName
    Now = 16
    Lookback = 10
    DefaultLimit = 2
    Held <- MCHeld
    Pages <- MCPages
    Configs <- MCConfigs
    Requests = {r1, r2}
    Asks <- MCAsks
    pay = pay
    cart = cart
    prod = prod
    dev = dev
INVARIANTS
    TypeOK
    CleanExitAnswersAll
    RequestsAccounted
    ProvidersAreConfigured
    NewestUnderLimit
PROPERTIES
    StopsAfterSignal
    ReadIsAnswered
\* The process has ended.
CHECK_DEADLOCK FALSE
