\* Two attempts that may overlap; the process may die anywhere.
SPECIFICATION FairSpec
CONSTANTS
    Attempts = {a1, a2}
    Nil = Nil
INVARIANTS
    TypeOK
    SignedInHasCredentials
    StoredSessionAgrees
    ShownWalletAgrees
PROPERTIES
    SignInSticks
    ImplementsAccount
    PollingEnds
