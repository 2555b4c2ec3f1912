CONSTANTS
    p = p
    a = a
    b = b
    None = None
    Source = {p, a, b}
    Proxy = {p}
    Parsed = {}
    MayDieEarly = {a, b}
    MaxAttempts = 4
    MaxVitals = 2
SPECIFICATION FairSpec
INVARIANTS OneFeed ListInOrder ToldTheTruth
PROPERTIES FeedSpec EveryCallIsAnswered SourcesFeed
CHECK_DEADLOCK FALSE
