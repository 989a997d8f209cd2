\* One worker at a time (docker-stack.yml: replicas 1), two restarts, a stream
\* that overflows, one undecodable entry, one failed call.
SPECIFICATION FairSpec
CONSTANTS
    Consumers = {c1, c2, c3}
    NoConsumer = NoConsumer
    MaxEntries = 3
    MaxLen = 2
    BatchSize = 2
    Malformed = {3}
    Overlap = FALSE
    MaxFaults = 1
INVARIANTS
    SettledIsStored
    DuplicatesNeedAFault
PROPERTIES
    ImplementsDelivery
    EveryEntrySettles
