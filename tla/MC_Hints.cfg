\* Three signals and two deployments.
SPECIFICATION Spec
CONSTANTS
    Second = 2
    Window = 4
    NoText = NoText
    Lookback = 8
    SuspectWindow = 2
    DatabaseTexts = {db}
    APITexts = {api}
    Signals <- MCSignals
    Deployments <- MCDeployments
    Query <- MCQuery
    MaxSignals = 3
    MaxDeployments = 2
    api = api
    db = db
INVARIANTS
    SuspectsPrecedeTheIncident
    DeploymentHintIsJustified
    HintsHaveWitnesses
PROPERTIES
    LaterEvidenceRetractsNothing
\* Signals and deployments stop coming in.
CHECK_DEADLOCK FALSE
