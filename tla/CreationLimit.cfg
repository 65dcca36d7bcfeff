SPECIFICATION Spec
CONSTANTS
    s1 = s1  s2 = s2  s3 = s3  a1 = a1  a2 = a2  n1 = n1  n2 = n2  n3 = n3  n4 = n4
    Clients <- TwoClients
    Accounts = {a1}
    AccountOf <- SameAccount
    Names = {n1, n2, n3, n4}
    NoName = NoName
    NoAccount = NoAccount
    InitialOwner <- MCInitialOwner
    MaxCharacters = 2
    IoThreads = 2
    DbErrors = FALSE
SYMMETRY CreationSymmetry
INVARIANTS
    CharacterLimit
CHECK_DEADLOCK FALSE
