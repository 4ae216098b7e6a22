SPECIFICATION Spec
CONSTANTS
    Keys = {1}
    Components = {"c"}
    Mutations = {1, 2}
    Target <- OneQuery
    Paged = {1}
    OnMount = {1}
    ServerWins = FALSE
    MaxSends = 2
    MaxCalls = 3
INVARIANT QueueKept
INVARIANT FreshIsTrue
INVARIANT InvalidationAnswered
CHECK_DEADLOCK FALSE
