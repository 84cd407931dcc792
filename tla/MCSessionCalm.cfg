SPECIFICATION FairSpec
CONSTANTS
    Pages = {navegador}
    Squares <- AllSquares
    MaxPending = 1
    MaxLine = 2
    MaxLosses = 0
    MaxResets = 0
    MaxDrops = 1
    MaxHurries = 0
    MaxStrays = 2
INVARIANTS
    TypeOK
    WebAndPaperAgree
    ResultShown
PROPERTIES
    LegalGames
    MoveAnswered
