SPECIFICATION Spec
CONSTANTS
    Pages = {navegador}
    Squares <- LongSquares
    MaxPending = 1
    MaxLine = 2
    MaxLosses = 1
    MaxResets = 1
    MaxDrops = 0
    MaxHurries = 0
    MaxStrays = 3
INVARIANTS
    ResultIsReal
    LogInBounds
