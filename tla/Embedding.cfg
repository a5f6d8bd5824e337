SPECIFICATION StoreSpec
CONSTANTS
    Text = {t1, t2}
    Editor = {u1}
    Worker = {w1, w2}
    BatchLimit = 2
    MaxEntries = 3
SYMMETRY Symmetry
INVARIANTS
    ReplacementLives
PROPERTY FreshVectors
\* Every entry may be deleted, and then nothing is left to do.
CHECK_DEADLOCK FALSE
