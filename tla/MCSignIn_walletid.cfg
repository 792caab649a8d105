SPECIFICATION Spec
CONSTANTS
    Attempts = {a1}
    Nil = Nil
INVARIANTS
    WalletIDPresentWhenSignedIn
