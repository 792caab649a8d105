\* Two scans and a mint over two presentations; one thread more than scans.
SPECIFICATION FairSpec
CONSTANTS
    Sheets = {s1, s2}
    Scans = {w1, w2}
    Mints = {m1}
    Pool = 3
    Nil = Nil
INVARIANTS
    TypeOK
    StepOneHasProof
    PassIsEarned
    MintUsesOneProof
    OwnerSectionShown
PROPERTIES
    PassIsKept
    MintProceeds
