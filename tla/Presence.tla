------------------------------ MODULE Presence ------------------------------
(***************************************************************************)
(* Abstract: what the server promises about characters and their places,   *)
(* whatever its handlers and timers are doing.  A connection belongs to    *)
(* one account for good, plays one character of it for good, and touches   *)
(* the entries and the row of that character only.  A place gets into the  *)
(* world from the character's row or by a move, and from the world into    *)
(* the row and to the clients that play other characters.  How long a      *)
(* place is under way, and what becomes of it in between, is left open.    *)
(***************************************************************************)
EXTENDS Game

CONSTANTS
    Sessions, NoSession,
    Owner,      \* the account of a character
    InitialDb,  \* the place in its row at the start
    Ground,     \* the place of the world under a place
    Walkable,   \* where a move may lead
    MapRaces    \* whether accesses of the table of places collide

VARIABLES
    account,    \* the account of each connection
    player,     \* the character it plays
    entering,   \* the character it is about to play
    arrival,    \* the place in the row of that character, when it was read
    unsaved,    \* the places it is about to store
    untold,     \* the characters, with their places, it is about to tell of
    sessions,   \* for each character the connection that is told of its world
    positions,  \* the places of the characters in the world
    db,         \* the places in their rows
    view        \* the place each client was last told of each character

entry == <<account, player, entering, arrival, sessions>>
vars  == <<entry, unsaved, untold, positions, db, view>>

Init ==
    /\ account   = [s \in Sessions |-> NoAccount]
    /\ player    = [s \in Sessions |-> NoPlayer]
    /\ entering  = [s \in Sessions |-> NoPlayer]
    /\ arrival   = [s \in Sessions |-> NoPlace]
    /\ unsaved   = [s \in Sessions |-> {}]
    /\ untold    = [s \in Sessions |-> {}]
    /\ sessions  = [p \in Players |-> NoSession]
    /\ positions = [p \in {} |-> Origin]
    /\ db        = InitialDb
    /\ view      = [s \in Sessions |-> [p \in Players |-> NoPlace]]

-----------------------------------------------------------------------------
(* Getting into the world and out of it.                                   *)

Put(p, place) ==
    positions' = [q \in DOMAIN positions \cup {p} |->
                      IF q = p THEN place ELSE positions[q]]

LogIn(s, a) ==
    /\ account[s] = NoAccount
    /\ account' = [account EXCEPT ![s] = a]
    /\ UNCHANGED <<player, entering, arrival, sessions, unsaved, untold, positions, db, view>>

Select(s, p) ==
    /\ player[s] = NoPlayer /\ entering[s] = NoPlayer
    /\ Owner[p] = account[s]
    /\ db[p] # Origin
    /\ entering' = [entering EXCEPT ![s] = p]
    /\ arrival' = [arrival EXCEPT ![s] = db[p]]
    /\ UNCHANGED <<account, player, sessions, unsaved, untold, positions, db, view>>

\* A character's first entry may be lost when it collides with another's.
Appear(s) ==
    /\ arrival[s] # NoPlace
    /\ \/ Put(entering[s], Ground[arrival[s]])
       \/ MapRaces /\ entering[s] \notin DOMAIN positions /\ UNCHANGED positions
    /\ arrival' = [arrival EXCEPT ![s] = NoPlace]
    /\ UNCHANGED <<account, player, entering, sessions, unsaved, untold, db, view>>

Enter(s) ==
    /\ entering[s] # NoPlayer /\ arrival[s] = NoPlace
    /\ player' = [player EXCEPT ![s] = entering[s]]
    /\ sessions' = [sessions EXCEPT ![entering[s]] = s]
    /\ entering' = [entering EXCEPT ![s] = NoPlayer]
    /\ UNCHANGED <<account, arrival, unsaved, untold, positions, db, view>>

Leave(p) ==
    /\ sessions' = [sessions EXCEPT ![p] = NoSession]
    /\ UNCHANGED <<account, player, entering, arrival, unsaved, untold, positions, db, view>>

-----------------------------------------------------------------------------
(* In the world.                                                           *)

\* Where a character stands: in its place of the world, or nowhere, which the
\* place (0, 0, 0) says and so does a read that collides with a first entry.
Standing(p) ==
    (IF p \in DOMAIN positions THEN {positions[p]} ELSE {Origin})
    \cup (IF MapRaces THEN {Origin} ELSE {})

Move(p) ==
    /\ \E place \in Walkable : Put(p, place)
    /\ UNCHANGED <<entry, unsaved, untold, db, view>>

BeginSave(s, p) ==
    /\ \E place \in Standing(p) : unsaved' = [unsaved EXCEPT ![s] = @ \cup {place}]
    /\ UNCHANGED <<entry, untold, positions, db, view>>

\* The place is stored or lost; it may be on its way a second time.
EndSave(s, p) ==
    /\ \E place \in unsaved[s] :
           /\ db' \in {db, [db EXCEPT ![p] = place]}
           /\ unsaved' \in {unsaved, [unsaved EXCEPT ![s] = @ \ {place}]}
    /\ UNCHANGED <<entry, untold, positions, view>>

Look(s) ==
    /\ \E q \in Players : \E place \in Standing(q) :
           untold' = [untold EXCEPT ![s] = {<<q, place>>}]
    /\ UNCHANGED <<entry, unsaved, positions, db, view>>

\* Clients in the world are told of characters that are not their own.
Tell(s) ==
    /\ \E seen \in untold[s], t \in Sessions :
           /\ player[t] \notin {NoPlayer, seen[1]}
           /\ view' = [view EXCEPT ![t][seen[1]] = seen[2]]
    /\ untold' \in {untold, [untold EXCEPT ![s] = {}]}
    /\ UNCHANGED <<entry, unsaved, positions, db>>

Forget(s) ==
    /\ untold' = [untold EXCEPT ![s] = {}]
    /\ UNCHANGED <<entry, unsaved, positions, db, view>>

-----------------------------------------------------------------------------
Next == \E s \in Sessions :
    \/ \E a \in Accounts : LogIn(s, a)
    \/ \E p \in Players : Select(s, p)
    \/ Appear(s) \/ Enter(s)
    \/ \E p \in Players :
           /\ player[s] = p
           /\ \/ Move(p) \/ BeginSave(s, p) \/ EndSave(s, p) \/ Leave(p)
              \/ Look(s) \/ Tell(s) \/ Forget(s)

Spec == Init /\ [][Next]_vars
=============================================================================
