SPECIFICATION FairSpec
CONSTANTS
    s1 = s1  s2 = s2  p1 = p1  p2 = p2  a1 = a1  a2 = a2
    here = here  there = there  above = above  origin = origin
    Sessions <- MCSessions
    Players <- OnePlayer
    Accounts = {a1}
    Places = {origin, here, there}
    Origin = origin
    NoPlayer = NoPlayer
    NoAccount = NoAccount
    NoPlace = NoPlace
    NoSession = NoSession
    Ground <- MCGround
    Walkable <- MCWalkable
    Near <- SameNear
    Owner <- OneOwner
    InitialDb <- MCInitialDb
    DbErrors = FALSE
    Commands <- NoCommands
    Events <- LateLogins
    MapRaces = FALSE
PROPERTIES
    LoginTimeoutSparesTheLoggedIn
CHECK_DEADLOCK FALSE
