\* One sign-in, one deposit and one mint over one store.
SPECIFICATION AppSpec
CONSTANTS
    Attempts = {a1}
    Visits = {v1}
    Deposits = {d1}
    Texts = {empty, ten, half}
    Empty = empty
    Whole = {ten}
    Sheets = {s1}
    Scans = {w1}
    Mints = {m1}
    Pool = 2
    Nil = Nil
INVARIANTS
    OwnerHasAddress
PROPERTIES
    PassFits
