SPECIFICATION FairSpec
CONSTANTS
    Low = 6
    High = 2
    Cycle = 2
    Hold = 5
    Speed = 1
    Turns <- SomeTurns
    MaxRun = 2
    MaxCommands = 2
INVARIANTS
    TypeOK
    NeverLate
    PulseEnds
    NoStepLost
PROPERTIES
    PulsesWide
    PenSettled
    CommandEnds
