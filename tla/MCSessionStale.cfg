SPECIFICATION Spec
CONSTANTS
    Pages = {navegador}
    Squares <- AllSquares
    MaxPending = 1
    MaxLine = 1
    MaxLosses = 0
    MaxResets = 0
    MaxDrops = 0
    MaxHurries = 1
    MaxStrays = 1
INVARIANTS
    WebAndPaperAgree
