SPECIFICATION Spec
CONSTANTS
    Ceremonies <- MCCeremonies
    Modes <- MCModes
    MaxKills = 1
    MaxCommits = 1
INVARIANTS
    ExitTells
    NeverTwice
PROPERTIES
    FixesRepairs
    BuildsOnHead
