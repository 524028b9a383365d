SPECIFICATION Spec
CONSTANTS
    Second = 2
    Window = 4
    NoText = NoText
    Lookback = 4
    SuspectWindow = 2
    Runs = {r1, r2}
    RawQueries <- MCQueries
    Unset = Unset
    Clock = {10}
    Providers = 2
    Batches <- MCBatches
    DeploymentProviders = 1
    DeploymentBatches <- MCDeploymentBatches
    MaxRetries = 2
    payment = payment
INVARIANTS
    TypeOK
    ReportMatchesResults
    MetricsAccount
    RecordedExactlyOnce
PROPERTIES
    AnalysisReturns
\* The analyses have returned.
CHECK_DEADLOCK FALSE
