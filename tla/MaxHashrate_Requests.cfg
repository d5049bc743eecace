\* Two requests, blocks in any order, interruptions: is the answer the highest observed?
SPECIFICATION Spec
CONSTANTS
    Task = {t1, t2}
    Chain <- ThreeBlocks
SYMMETRY TaskSymmetry
INVARIANTS
    ReturnsHighestObserved
