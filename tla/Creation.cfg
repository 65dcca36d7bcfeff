SPECIFICATION Spec
CONSTANTS
    s1 = s1  s2 = s2  s3 = s3  a1 = a1  a2 = a2  n1 = n1  n2 = n2  n3 = n3  n4 = n4
    Clients <- ThreeClients
    Accounts = {a1, a2}
    AccountOf <- MCAccountOf
    Names = {n1, n2, n3, n4}
    NoName = NoName
    NoAccount = NoAccount
    InitialOwner <- MCInitialOwner
    MaxCharacters = 2
    IoThreads = 2
    DbErrors = TRUE
SYMMETRY CreationSymmetry
INVARIANTS
    TypeOK
    LimitNearlyKept
    CreatedByOne
CHECK_DEADLOCK FALSE
