\* Two pages, three taps; two amounts that parse and one, "0.5", that does not.
SPECIFICATION Spec
CONSTANTS
    Visits = {v1, v2}
    Deposits = {d1, d2, d3}
    Texts = {empty, ten, twenty, half}
    Empty = empty
    Whole = {ten, twenty}
    Nil = Nil
SYMMETRY Symmetry
INVARIANTS
    TypeOK
    SubmittedIsTapped
    OneDepositPerPage
    LockHasOwner
