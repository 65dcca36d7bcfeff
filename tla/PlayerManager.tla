---------------------------- MODULE PlayerManager ---------------------------
(***************************************************************************)
(* database/playermanager.cpp, as far as the sessions depend on it: which  *)
(* account owns a character and the position columns of its row.  Every    *)
(* call runs one statement on a pooled connection, so each is one atomic   *)
(* step on the database (characters are inserted in CharacterCreation).    *)
(* A call that finds no connection or whose statement fails does not raise *)
(* an error to the session in the code, except getCharacterInfoById: it    *)
(* answers with a value that means something else, given here as one of    *)
(* the outcomes when DbErrors is TRUE.                                     *)
(***************************************************************************)
EXTENDS Game

CONSTANTS
    Owner,      \* account_id of a character's row
    InitialDb,  \* position of a character's row when the server starts
    DbErrors    \* whether statements may fail

ASSUME PlayerManagerAssumption ==
    /\ Owner \in [Players -> Accounts]
    /\ InitialDb \in [Players -> Places]
    /\ DbErrors \in BOOLEAN

VARIABLE db     \* position columns (pos_x, pos_y, pos_z)

\* Faulty variant: the statement lacks its account_id condition.
getCharacterInfoByName(a) == Players

\* The characters getCharacterInfo may report for an account: a failure gives
\* an empty record, which the caller takes for "not found".
getCharacterInfo(a) == {p \in Players : Owner[p] = a}

\* A failed SELECT is answered with (0, 0, 0).
storedPosition(p) == {db[p]} \cup (IF DbErrors THEN {Origin} ELSE {})

\* UPDATE players SET pos_x ...: the row is written, or nothing is.
storePosition(p, place) == db' = [db EXCEPT ![p] = place]


-----------------------------------------------------------------------------
PlayerManagerTypeOK == db \in [Players -> Places]

PlayerManagerInit == db = InitialDb
=============================================================================
