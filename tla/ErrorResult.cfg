SPECIFICATION RuntimeSpec
CONSTANTS
    MaxInterrupts = 2
    MaxSteers = 0
    MaxFailures = 1
    MaxReminders = 0
PROPERTY ErrorExits
CHECK_DEADLOCK FALSE
