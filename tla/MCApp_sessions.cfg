\* Two attempts, which may overlap, and one deposit; the sheet stays closed.
SPECIFICATION AppSpec
CONSTANTS
    Attempts = {a1, a2}
    Visits = {v1}
    Deposits = {d1}
    Texts = {empty, ten}
    Empty = empty
    Whole = {ten}
    Sheets = {}
    Scans = {}
    Mints = {}
    Pool = 2
    Nil = Nil
SYMMETRY Symmetry
INVARIANTS
    ExecutedSessionAgrees
PROPERTIES
    DepositFits
