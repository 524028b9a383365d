\* The same instance; an issue is dropped for the time of its span.
SPECIFICATION Spec
CONSTANTS
    Second = 2
    Window = 4
    NoText = NoText
    Page = 2
    RequiredTags <- MCRequiredTags
    SpanMargin = 2
    SpanFallback = 6
    Providers = {"monitors", "events", "errors", "logs"}
    Tracks <- MCTracks
    DefaultURLs <- MCDefaultURLs
    DatadogURL = com
    ErrorTrackingURL = own
    ElasticURL = elastic
    AllIndices = FALSE
    NoURL = NoURL
    ConfiguredService <- NoName
    Now = 21
    Held <- MCHeld
    Behaviours <- MCBehaviours
    Queries <- MCQueries
    payment = payment
    cart = cart
    eu = eu
    com = com
    own = own
    elastic = elastic
    team = team
INVARIANT
    ActiveIssueIsReported
\* The call has ended.
CHECK_DEADLOCK FALSE
