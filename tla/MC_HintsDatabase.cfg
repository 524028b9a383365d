\* The database hint and the types of the signals.
SPECIFICATION Spec
CONSTANTS
    Second = 2
    Window = 4
    NoText = NoText
    Lookback = 8
    SuspectWindow = 2
    DatabaseTexts = {db}
    APITexts = {api}
    Signals <- MCSignals
    Deployments <- MCDeployments
    Query <- MCQuery
    MaxSignals = 3
    MaxDeployments = 0
    api = api
    db = db
INVARIANTS
    DatabaseHintIsMetricBeforeLog
\* Signals and deployments stop coming in.
CHECK_DEADLOCK FALSE
