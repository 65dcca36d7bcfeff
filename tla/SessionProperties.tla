-------------------------- MODULE SessionProperties -------------------------
(***************************************************************************)
(* What the sessions promise (first part) and what the repository says of  *)
(* them that the code does not keep (last part).                           *)
(***************************************************************************)
EXTENDS Session

\* Every variable has its type: the enum states of session.h, the completion
\* codes of a read, ids and places, and the local variables of the handlers.
TypeOK ==
    /\ WorldTypeOK /\ SessionManagerTypeOK /\ PlayerManagerTypeOK
    /\ socket \in [Sessions -> {"none", "open", "closed"}]
    /\ read \in [Sessions -> {"none", "pending", "data", "eof", "error"}]
    /\ state \in [Sessions -> {"Unauthenticated", "Authenticated", "InGame"}]
    /\ account \in [Sessions -> Accounts \cup {NoAccount}]
    /\ player \in [Sessions -> Players \cup {NoPlayer}]
    /\ pc \in [Sessions -> Steps]
    /\ subject \in [Sessions -> Players \cup {NoPlayer}]
    /\ carried \in [Sessions -> Places \cup {NoPlace}]
    /\ nearby \in [Sessions -> SUBSET Players]
    /\ audience \in [Sessions -> SUBSET Sessions]
    /\ loginTimer \in [Sessions -> {"off", "armed", "expired"}]
    /\ positionTimer \in [Sessions -> {"off", "armed", "comparing", "saving", "remembering"}]
    /\ timerPlace \in [Sessions -> Places \cup {NoPlace}]
    /\ lastSaved \in [Sessions -> Places]
    /\ lastCommand \in [Sessions -> AllCommands \cup {"NONE"}]
    /\ view \in [Sessions -> [Players -> Places \cup {NoPlace}]]
    /\ skipped \in [Sessions -> SUBSET Players]

\* What the read handler and the timer handler hold at each of their steps: one
\* read or one handler at a time, the character of a selection belongs to the
\* account, a handler step of the game runs in the game, and the locals a step
\* will use have been set (the one chain of receiveClientData calls).
HandlerOK ==
    \A s \in Sessions :
        /\ socket[s] = "none" =>
               /\ read[s] = "none" /\ pc[s] = "idle" /\ state[s] = "Unauthenticated"
               /\ loginTimer[s] = "off"
        /\ pc[s] # "idle" => read[s] = "none"
        /\ pc[s] \in {"placing", "registering"} =>
               /\ state[s] = "Authenticated"
               /\ subject[s] \in Players /\ Owner[subject[s]] = account[s]
        /\ pc[s] \in Steps \ {"idle", "placing", "registering", "leaving", "closing"} =>
               state[s] = "InGame"
        /\ pc[s] = "telling" => subject[s] \in Players
        /\ pc[s] \in {"placing", "telling", "announcing", "announcingTo", "notifying"}
                      \cup Ending => carried[s] \in Places
        /\ positionTimer[s] # "off" => state[s] = "InGame"
        /\ positionTimer[s] \in {"comparing", "saving", "remembering"} => timerPlace[s] \in Places
        /\ state[s] = "InGame" => player[s] \in Players /\ Owner[player[s]] = account[s]
        /\ state[s] # "InGame" => player[s] = NoPlayer

-----------------------------------------------------------------------------
(* States the properties speak of.                                         *)

\* The selection is over: the client was told who is near, the others were
\* told of it.
Entered(s) ==
    /\ state[s] = "InGame"
    /\ pc[s] \notin {"looking", "describing", "telling", "announcing", "announcingTo"}

\* No other session plays the same character.
Sole(s) == \A t \in Sessions \ {s} : player[t] # player[s]

Registered(s) == state[s] = "InGame" /\ sessions[player[s]] = s

\* Between two messages.
AtRest(s) == pc[s] = "idle" /\ read[s] \notin {"data", "eof", "error"}

-----------------------------------------------------------------------------
(* Safety.                                                                 *)

\* A registry entry leads to a session in the game that plays the entry's
\* player, a character of the account that logged in on that session: nobody
\* is ever sent what concerns another player (addSession after player_id_,
\* session.cpp:157-164; WHERE account_id in playermanager.cpp:123).
RegistryNamesItsPlayer ==
    \A p \in Players : sessions[p] # NoSession =>
        LET s == sessions[p]
        IN  state[s] = "InGame" /\ player[s] = p /\ account[s] = Owner[p]

\* A connected player can be missing from the registry only when the same
\* character was selected in two sessions: addSession and removeSession key
\* the registry by player id alone (sessionmanager.cpp:5-15).
OnlyDuplicatesUnregister ==
    \A s \in Sessions :
        state[s] = "InGame" /\ IsOpen(s) /\ pc[s] # "closing" =>
            Registered(s) \/ ~Sole(s)

\* An open connection always has a live session behind it: of its read, its
\* handler and its position timer one holds a shared_ptr, whatever the order
\* in which timers and handlers run (the weak_ptr of the registry never does).
OpenConnectionsLive == \A s \in Sessions : IsOpen(s) => Alive(s)

\* An open session that no longer reads was silenced by one of two commands,
\* a PING or an attack in another player's name; every other path through the
\* handlers starts the next read (session.cpp:347-351, sessionattack.cpp:17-22).
SilenceExplained ==
    \A s \in Sessions :
        IsOpen(s) /\ pc[s] = "idle" /\ read[s] = "none" =>
            lastCommand[s] \in {"PING", "ATTACK_OTHER"}

\* A registry entry whose session no longer exists was left by a LOGOUT, or by
\* a silenced session that the login timer closed: every session that ends in
\* handleDisconnection has erased the entry (session.cpp:120-123, 341-346).
StaleEntriesExplained ==
    \A p \in Players : sessions[p] # NoSession /\ ~Alive(sessions[p]) =>
        lastCommand[sessions[p]] \in {"LOGOUT", "PING", "ATTACK_OTHER"}

\* A row of the database holds a walkable place, its initial position or the
\* ground under that.  No save stores the (0, 0, 0) of a player without an entry
\* in the world, because the entry is made before the session can save
\* (session.cpp:153-167), and no save stores a place a move could not reach.
SavedPlacesWalked ==
    \A p \in Players : db[p] \in Walkable \cup {InitialDb[p], Ground[InitialDb[p]]}

\* As long as a connection is not ending, the row holds last_saved_, so that a
\* save that is skipped loses nothing, neither by the timer nor as the last one:
\* for a character played in one session, whatever it does while the UPDATE of
\* its timer runs, fails or has just ended (the timer handler sets last_saved_
\* after its UPDATE, session.cpp:69-75).  The last save may overlap the timer's:
\* then row and last_saved_ may be left different, and nothing is promised.
LastSavedIsStored ==
    \A s \in Sessions :
        /\ state[s] = "InGame" /\ IsOpen(s) /\ Sole(s)
        /\ pc[s] \notin Ending \cup {"leaving", "closing"}
        /\ positionTimer[s] # "remembering"
        /\ lastSaved[s] # Origin
        => db[player[s]] = lastSaved[s]

\* Two players that have entered know of each other: the client of a
\* registered session was sent the other player's place, by its own look
\* around or by the other's announcement.  It holds whichever way two
\* selections overlap, because each is placed before it registers, registers
\* before it looks and announces at last.  The only excuse is a player that had
\* announced itself before the look around and was then out of sight: too far
\* away, hidden or lost by a collision on the position table, or left out
\* because the database failed (session.cpp:153-167, 279-330).
MutualAwareness ==
    \A s, t \in Sessions :
        /\ Entered(s) /\ Entered(t) /\ player[s] # player[t]
        /\ IsOpen(s) /\ Registered(s)
        => view[s][player[t]] # NoPlace \/ player[t] \in skipped[s]

-----------------------------------------------------------------------------
(* The sessions implement Presence.                                        *)

\* The character a selection brings into the world, and the place it was read at.
Entering ==
    [s \in Sessions |->
        IF pc[s] \in {"placing", "registering"} THEN subject[s] ELSE NoPlayer]

Arrival == [s \in Sessions |-> IF pc[s] = "placing" THEN carried[s] ELSE NoPlace]

\* The places that the read handler and the timer handler are about to store.
Unsaved ==
    [s \in Sessions |->
        (IF pc[s] \in Comparing \cup Saving THEN {carried[s]} ELSE {})
        \cup (IF positionTimer[s] \in {"comparing", "saving"} THEN {timerPlace[s]} ELSE {})]

\* The player a read handler is about to tell clients of, and the place it found.
Untold ==
    [s \in Sessions |->
        IF pc[s] = "telling" THEN {<<subject[s], carried[s]>>}
        ELSE IF pc[s] \in {"announcing", "announcingTo", "notifying"}
             THEN {<<player[s], carried[s]>>} ELSE {}]

Characters == INSTANCE Presence WITH
    entering <- Entering, arrival <- Arrival, unsaved <- Unsaved, untold <- Untold,
    positions <- playerPositions

\* However handlers and timers interleave, fail and collide, a session logs in
\* once, plays one character of its account for good, and writes the entries and
\* the row of no other; every place in the world came from the character's row or
\* from a walkable move, and every place that was stored in a row or told to a
\* client is one the world gave for that character, though it may be an old one;
\* and no client is told of its own character as of another (session.cpp:60-80,
\* 142-167, 279-330, sessionmovement.cpp:21-80).
ImplementsPresence == Characters!Spec

-----------------------------------------------------------------------------
(* Liveness.                                                               *)

\* A client that does not log in within the deadline is disconnected: no
\* session stays open and without a login for ever.
LoginDeadline ==
    \A s \in Sessions : []<>~(IsOpen(s) /\ state[s] = "Unauthenticated")

\* A closed connection releases its session (a closed socket stays closed): the
\* pending read fails, and the position timer notices the closed socket
\* instead of starting again.
ClosedSessionsReleased ==
    \A s \in Sessions : []<>(socket[s] = "closed" => ~Alive(s))

Resting(s, p, place) ==
    /\ IsOpen(s) /\ state[s] = "InGame" /\ player[s] = p /\ Sole(s)
    /\ p \in Placed /\ getPlayerPosition(p) = place

\* The database does not fail every save of a session for ever.
DbRecovers == \A s \in Sessions : SF_vars(TimerStoresPlace(s))

\* A character that stays at a place other than (0, 0, 0) while its session is
\* connected has that place in its row in the end, also when saves fail now
\* and then, if they do not fail for ever: the timer saves again because
\* last_saved_ did not change.
PositionIsSaved ==
    DbRecovers =>
        \A s \in Sessions, p \in Players, place \in Places \ {Origin} :
            <>[]Resting(s, p, place) => <>[](db[p] = place)

-----------------------------------------------------------------------------
(* What the repository says and the code does not keep.                    *)

\* The login timer is cancelled once the login succeeded, so its handler never
\* closes the connection of a session that is logged in (sessionauth.cpp:30-31).
LoginTimeoutSparesTheLoggedIn ==
    [][\A s \in Sessions :
           IsOpen(s) /\ loginTimer[s] = "expired" /\ loginTimer'[s] = "off"
               /\ socket'[s] = "closed"
           => state[s] = "Unauthenticated"]_vars

\* The position updates of a move reach the players nearby
\* (CLIENT_PROTOCOL.md:191): a connected player is found in the registry.
PlayersStayReachable ==
    \A s \in Sessions : Entered(s) /\ IsOpen(s) /\ AtRest(s) =>
        getSession(player[s], Live) # NoSession

=============================================================================
