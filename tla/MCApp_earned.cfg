\* One sign-in and one deposit, beside the pass sheet.
SPECIFICATION AppSpec
CONSTANTS
    Attempts = {a1}
    Visits = {v1}
    Deposits = {d1}
    Texts = {empty, ten}
    Empty = empty
    Whole = {ten}
    Sheets = {s1}
    Scans = {w1}
    Mints = {m1}
    Pool = 2
    Nil = Nil
INVARIANTS
    PassIsEarned
