\* A replacement beside the connection it replaces; the smallest channel.
CONSTANTS
    Conns = {k1, k2}
    EventCap = 1
    MaxChanges = 2
SPECIFICATION PresenceFairSpec
INVARIANTS
    IndexLive
PROPERTIES
    OwnerMovesForward
    CallbacksReturn
    PresenceConverges
CHECK_DEADLOCK FALSE
