\* An event is published while the handler is still replaying.
SPECIFICATION Spec
CONSTANTS
    QueueSize = 4
    BufferSize = 1
    MaxEvents = 4
    MaxLoads = 1
    MaxDrops = 0
PROPERTIES
    ReplayJoinsLiveStream
CHECK_DEADLOCK FALSE
