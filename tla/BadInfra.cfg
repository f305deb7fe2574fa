SPECIFICATION Spec
CONSTANTS
    Tag = "v1"
    MaxAge = 1
    CodexFloor = 2
    Trees <- MCTrees
    First <- MCFirst
    Tools <- MCTools
    MaxCommits = 3
    MaxClock = 2
    MaxSlips = 1
INVARIANT ContentIsNotInfra
\* The bounds on commits and on the clock are what stops the system.
CHECK_DEADLOCK FALSE
