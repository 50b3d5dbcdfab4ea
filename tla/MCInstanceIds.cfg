SPECIFICATION Spec
CONSTANTS
    MaxU32 = 6
    Block = 2
    Word = 4
    Updaters = {u1, u2}
    MaxInstance = 4
    MaxRestarts = 1
SYMMETRY UpdaterSymmetry
INVARIANTS
    IdsInBounds
    LowestUnlessRaced
    
