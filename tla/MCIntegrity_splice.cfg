SPECIFICATION Spec
CONSTANTS
    w1 = w1
    w2 = w2
    d1 = d1
    d2 = d2
    b1 = b1
    b2 = b2
    Recorders <- MCRecorders
    Data <- MCData
    Bodies <- MCBodies
    None = None
    MaxEvents = 2
    MaxChanges = 3
SYMMETRY MCSymmetry
INVARIANTS
    VerdictIsExact
    ChainPinsHistory
