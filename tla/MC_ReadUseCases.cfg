\* One request to a use case that only reads.
SPECIFICATION ReadSpec
CONSTANTS
    f1 = f1
    f2 = f2
    f3 = f3
    g1 = g1
    api = api
    db = db
    web = web
    None = None
    Fingerprints = {f1, f2, f3, g1}
    Services = {api, db, web}
    ServiceOf <- ServicesOfPatterns
    SeveritiesOf <- SeverityChoices
    Limits = {0, 1}
    DefaultLimit = 2
    DefaultHistoryLimit = 2
    MaxSaves = 4
    MaxClock = 2
    NumProviders = 2
    Graphs <- SmallGraphs
INVARIANTS
    SimilarIsConsistent
    HistoryIsNewest
    DirectionNeedsAMove
    DominantIsOrderFree
    TypeOK
    BlastRadiusIsExact
PROPERTY
    SearchEnds
\* The request is answered.
CHECK_DEADLOCK FALSE
