SPECIFICATION FairSpec
CONSTANTS
    Sheets = {s1}
    Scans = {w1}
    Mints = {m1}
    Pool = 2
    Nil = Nil
PROPERTIES
    PollingStops
