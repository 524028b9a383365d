\* The same instance; a request that panics has no log line.
SPECIFICATION Spec
CONSTANTS
    Second = 2
    NoName = NoName
    Now = 16
    Lookback = 10
    DefaultLimit = 2
    Held <- MCHeld
    Pages <- MCPages
    Configs <- MCConfigs
    Requests = {r1, r2}
    Asks <- MCAsks
    pay = pay
    cart = cart
    prod = prod
    dev = dev
INVARIANT
    PanicsAreLogged
\* The process has ended.
CHECK_DEADLOCK FALSE
