\* Two exchanges over both roads while the closure, the host or the heartbeat change: an
\* exchange is retried behind another while an inference of the first is left over.
SPECIFICATION FairSpec
CONSTANTS
    r1 = r1  r2 = r2  ok = ok  f1 = f1  f2 = f2
    Requests = {r1, r2}
    HttpRequests = {r1}
    Results = {ok}
    NoResult = NoResult
    Contexts = {c1, c2}
    NoContext = NoContext
    Facts = {f1, f2}
    NoFacts = NoFacts
    Nobody = Nobody
    MaxExchanges = 2
    MaxChanges = 1
INVARIANTS DenialTruthful OneInference AnswersBacked
PROPERTIES ConsumedUnderOnePolicy ExchangeEnds
\* A stopped process that nobody restarts after the last connection.
CHECK_DEADLOCK FALSE
