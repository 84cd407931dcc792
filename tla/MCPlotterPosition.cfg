SPECIFICATION Spec
CONSTANTS
    MaxBoards = 0
    MaxEvents = 1
INVARIANTS
    PositionIsReal
