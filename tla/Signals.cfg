\* three promises about steers and signals that are not kept: `tlc -continue`
\* shows a trace of each
SPECIFICATION RuntimeSpec
CONSTANTS
    MaxInterrupts = 2
    MaxSteers = 1
    MaxFailures = 0
    MaxReminders = 0
INVARIANT WindowCoversSteer
PROPERTIES
    AbortIsFinal
    EndHearsAll
CHECK_DEADLOCK FALSE
