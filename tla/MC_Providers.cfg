\* One call of any provider, with any answers of two tracks.
SPECIFICATION Spec
CONSTANTS
    Second = 2
    Window = 4
    NoText = NoText
    Page = 2
    RequiredTags <- MCRequiredTags
    SpanMargin = 2
    SpanFallback = 6
    Providers = {"monitors", "events", "errors", "logs"}
    Tracks <- MCTracks
    DefaultURLs <- MCDefaultURLs
    DatadogURL = com
    ErrorTrackingURL = own
    ElasticURL = elastic
    AllIndices = FALSE
    NoURL = NoURL
    ConfiguredService <- NoName
    Now = 21
    Held <- MCHeld
    Behaviours <- MCBehaviours
    Queries <- MCQueries
    payment = payment
    cart = cart
    eu = eu
    com = com
    own = own
    elastic = elastic
    team = team
INVARIANTS
    TypeOK
    AnswersWhenAHostServes
    CheckPredictsAnswers
    NothingActiveIsLost
    OnlyAFullPageLosesEvents
PROPERTIES
    Promise
\* The call has ended.
CHECK_DEADLOCK FALSE
