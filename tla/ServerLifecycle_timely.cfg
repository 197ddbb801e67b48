SPECIFICATION TimelySpec
CONSTANTS
    MaxStarts = 3
    MaxServices = 2
CHECK_DEADLOCK FALSE
INVARIANTS OneServerOrNone FlagIsThread
PROPERTIES StopEnds StartIsSeen SwitchSpec
