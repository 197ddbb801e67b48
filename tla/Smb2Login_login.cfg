SPECIFICATION FairSpec
CONSTANTS
    Parties <- Pairs
    MaxFaults = 1
CHECK_DEADLOCK FALSE
INVARIANTS CallerIsTold SidesAgree OnlyTheKnown
PROPERTIES LoginEnds
