SPECIFICATION ProcessesSpec
CONSTANTS
    Writers = {w1, w2}
    Readers = {r1, r2}
    NoHolder = NoHolder
    IntMax = 5
    MaxUpdates = 4
    Main = main
    Workers = {w1, w2, w3}
    None = None
    MainInitializes = TRUE
    MaxInit = 2
INVARIANTS Fresh ExitClean
PROPERTY StaysReleased
