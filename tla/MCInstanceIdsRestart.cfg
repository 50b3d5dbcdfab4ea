SPECIFICATION Spec
CONSTANTS
    MaxU32 = 7
    Block = 2
    Word = 4
    Updaters = {u1}
    MaxInstance = 5
    MaxRestarts = 1
INVARIANTS
    NoSharedId
