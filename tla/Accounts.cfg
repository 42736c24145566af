SPECIFICATION AccountsSpec
CONSTANTS
    Slots = {s1, s2}
    BURST = 2
    REGISTER_WAIT = 2
    Epoch = 2
    MaxTime = 5
    Names = {n1, n2, n3}
    Creds = {c1, c2}
    MaxAccounts = 3
    MaxTokens = 2
SYMMETRY Symmetry
INVARIANTS
    AccountsAreSpaced
    TokensWork
PROPERTIES
    RegistrationsAreSpaced
    LoginIsStable
