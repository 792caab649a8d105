SPECIFICATION Spec
CONSTANTS
    Visits = {v1, v2}
    Deposits = {d1, d2}
    Texts = {empty, ten, twenty, half}
    Empty = empty
    Whole = {ten, twenty}
    Nil = Nil
SYMMETRY Symmetry
INVARIANTS
    ToastTellsTheTruth
