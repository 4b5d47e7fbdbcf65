CONSTANTS
    Keys = {k1, k2, k3, k4, k5, k6, k7}
    Deadlines = {1, 2, 3, 4}
    Times = {0, 2}
SPECIFICATION Spec
SYMMETRY KeySymmetry
INVARIANTS
    HeapSound
PROPERTIES
    ImplementsTimerMap
