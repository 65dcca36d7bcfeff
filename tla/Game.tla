-------------------------------- MODULE Game --------------------------------
(***************************************************************************)
(* What the components of the server talk about: player ids, accounts, and *)
(* places.  A place stands for a whole (x, y, z) triple; Origin is         *)
(* (0, 0, 0), the value the code uses both as a coordinate and as "no      *)
(* position" (mapmanager.cpp:74-77, session.cpp:152).                      *)
(***************************************************************************)
CONSTANTS
    Players,    \* ids of the characters stored in the database
    Accounts,   \* ids of the user accounts
    Places,     \* places of the map, Origin among them
    Origin,     \* (0, 0, 0)
    NoPlayer,   \* the 0 a session holds in player_id_ before a selection
    NoAccount,  \* the 0 a session holds in account_id_ before a login
    NoPlace     \* a place nobody mentioned yet

ASSUME GameAssumption ==
    /\ Origin \in Places
    /\ NoPlace \notin Places
    /\ NoPlayer \notin Players
    /\ NoAccount \notin Accounts
=============================================================================
