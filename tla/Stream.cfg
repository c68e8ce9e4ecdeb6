\* A page that loads twice and loses its connection once, on either transport,
\* with a queue that overflows.
SPECIFICATION FairSpec
CONSTANTS
    QueueSize = 2
    BufferSize = 1
    MaxEvents = 5
    MaxLoads = 2
    MaxDrops = 1
INVARIANTS
    TypeOK
    AppliedOnceInOrder
    InFlightIsUnseen
PROPERTIES
    EndReachesSubscriber
CHECK_DEADLOCK FALSE
