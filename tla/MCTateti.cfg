SPECIFICATION Spec
INVARIANTS
    TypeOK
    LogMatchesBoard
    RobotNeverLoses
    PaperMatchesBoard
    AlwaysAnswers
    VerdictIsRight
PROPERTIES
    PlaysByTheRules
