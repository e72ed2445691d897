\* a reader whose socket is half-closed when the ring is drained into it
SPECIFICATION Spec
CONSTANTS
    MaxSockets = 2
    MaxEnvelopes = 2
PROPERTIES
    DrainLosesNothing
\* the bounds on sockets and envelopes are reached
CHECK_DEADLOCK FALSE
