SPECIFICATION FairSpec
CONSTANTS
    Pages = {a, b}
    Squares <- TwoSquares
    MaxPending = 1
    MaxLine = 2
    MaxLosses = 0
    MaxResets = 0
    MaxDrops = 0
    MaxHurries = 1
    MaxStrays = 1
PROPERTIES
    ButtonsComeBack
