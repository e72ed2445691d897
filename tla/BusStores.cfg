\* the one way an envelope is lost
SPECIFICATION Spec
CONSTANTS
    MaxSockets = 3
    MaxEnvelopes = 4
PROPERTIES
    OnlyHalfClosedLoses
\* the bounds on sockets and envelopes are reached
CHECK_DEADLOCK FALSE
