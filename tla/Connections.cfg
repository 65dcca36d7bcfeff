SPECIFICATION Spec
CONSTANTS
    s1 = s1  s2 = s2  p1 = p1  p2 = p2  a1 = a1  a2 = a2
    here = here  there = there  above = above  origin = origin
    Sessions <- MCSessions
    Players <- MCPlayers
    Accounts = {a1, a2}
    Places = {origin, here, there}
    Origin = origin
    NoPlayer = NoPlayer
    NoAccount = NoAccount
    NoPlace = NoPlace
    NoSession = NoSession
    Ground <- MCGround
    Walkable <- MCWalkable
    Near <- SameNear
    Owner <- TwoOwners
    InitialDb <- MCInitialDb
    DbErrors = TRUE
    Commands <- ManyCommands
    Events <- HangUpsAndLate
    MapRaces = TRUE
SYMMETRY OwnersSymmetry
INVARIANTS
    RegistryNamesItsPlayer
    OpenConnectionsLive
    SilenceExplained
    StaleEntriesExplained
    OnlyDuplicatesUnregister
    MutualAwareness
PROPERTIES
    ImplementsPresence
CHECK_DEADLOCK FALSE
