SPECIFICATION Spec
CONSTANTS
    Nodes = {1, 2}
    Providers <- OneProvider
    Observers <- OneObserver
    Services <- TwoServices
    Queries <- SomeQueries
    Faults = {"announce", "notify", "nomem", "hasty", "backlog"}
    QueueCap = 2
INVARIANTS Discoverable NoLeftovers NoGhosts LookupSound LookupComplete
CONSTRAINT Bounded
