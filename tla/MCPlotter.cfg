SPECIFICATION Spec
CONSTANTS
    MaxBoards = 1
    MaxEvents = 1
INVARIANTS
    TypeOK
    MarksReadable
    EarlyMarksInside
