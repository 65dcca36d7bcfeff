------------------------------- MODULE Session ------------------------------
(***************************************************************************)
(* The sessions of the server, the position table they share, the registry *)
(* through which they find each other and the database rows they save to:  *)
(* session/session.cpp with its handlers sessionauth.cpp,                  *)
(* sessionmovement.cpp and sessionattack.cpp, and the accept loop of       *)
(* server/server.cpp.                                                      *)
(*                                                                         *)
(* io_context.run() is called by several threads and sessions use no       *)
(* strand, so handlers of different sessions, and the timer handlers of    *)
(* one session and its read handler, interleave at every access to shared  *)
(* state.  pc[s] is the point a read handler of s has reached ("idle" when *)
(* none runs).  One session never runs two read handlers, because a        *)
(* handler starts the next read only as its last act.  The number of       *)
(* threads is left out: any number of handlers may be under way, which     *)
(* allows every interleaving of the three threads of main.cpp.             *)
(***************************************************************************)
EXTENDS World, SessionManager, PlayerManager

CONSTANTS
    Commands,   \* the in-game commands the client of each session sends
    Events,     \* what the environment does to each session (see below)
    MapRaces    \* whether unsynchronised accesses of playerPositions collide

AllCommands == {"LOGOUT", "PING", "MOVE", "ATTACK", "ATTACK_OTHER", "UNKNOWN"}

\* "gone":      a client hangs up before beginSession asks for its address
\* "eof":       a client closes its connection
\* "reset":     a read of an open connection fails
\* "slowLogin": three seconds pass before the login
\* "tick":      the 500 ms of the position timer pass
AllEvents == {"gone", "eof", "reset", "slowLogin", "tick"}

ASSUME SessionAssumption ==
    /\ Commands \in [Sessions -> SUBSET AllCommands]
    /\ Events \in [Sessions -> SUBSET AllEvents]
    /\ MapRaces \in BOOLEAN

VARIABLES
    socket,         \* "none" before the accept, "open", "closed"
    read,           \* the outstanding async_read_some and how it completed
    state,          \* player_session_state_
    account,        \* account_id_
    player,         \* player_id_
    pc,             \* where the read handler of the session is
    subject,        \* local: the character selected or described
    carried,        \* local: the place a handler has read and will use later
    nearby,         \* local: players the running loop has still to serve
    audience,       \* local: sessions the running broadcast has still to serve
    loginTimer,     \* "off", "armed", or "expired" (its handler is queued)
    positionTimer,  \* "off", "armed", or the step of its handler
    timerPlace,     \* local of the timer handler: the place being saved
    lastSaved,      \* last_saved_x_, _y_, _z_
    lastCommand,    \* history: the last in-game command handled
    view,           \* history: the last place the client was sent for a player
    skipped         \* history: players left out of what the client was sent

socketVars  == <<socket, read>>
identity    == <<state, account, player>>
locals      == <<subject, carried, nearby, audience>>
timers      == <<loginTimer, positionTimer, timerPlace>>
histories   == <<lastCommand, view, skipped>>
shared      == <<playerPositions, sessions, db>>

vars == <<socketVars, identity, pc, locals, timers, lastSaved, histories, shared>>

-----------------------------------------------------------------------------
(* Vocabulary.                                                             *)

Steps == {"idle", "placing", "registering", "looking", "describing", "telling",
          "announcing", "announcingTo", "witnessing", "notifying",
          "comparingAtLogout", "comparingAtEof", "savingAtLogout", "savingAtEof",
          "rememberingAtLogout", "rememberingAtEof", "leaving", "closing"}

\* In savePlayerPosition: before it looks at last_saved_, before the UPDATE, and
\* between the UPDATE and the assignment of last_saved_.
Comparing   == {"comparingAtLogout", "comparingAtEof"}
Saving      == {"savingAtLogout", "savingAtEof"}
Remembering == {"rememberingAtLogout", "rememberingAtEof"}
Ending      == Comparing \cup Saving \cup Remembering

IsOpen(s) == socket[s] = "open"

\* Somebody holds a shared_ptr to s: its pending read, its running handler, or
\* its position timer.
Alive(s) == /\ socket[s] # "none"
            /\ read[s] # "none" \/ pc[s] # "idle" \/ positionTimer[s] # "off"

Live == {s \in Sessions : Alive(s)}

Goto(s, step) == pc' = [pc EXCEPT ![s] = step]

\* receiveClientData: start the next read.  On a closed socket the read fails.
receiveClientData(s) == read' = [read EXCEPT ![s] = "pending"]

\* The completion handler of a read begins and the read is no longer pending.
TakeRead(s) == read' = [read EXCEPT ![s] = "none"]

closeSocket(s) == socket' = [socket EXCEPT ![s] = "closed"]

\* sendDataToClient: a write to a closed socket fails and is only logged.
Told(s, p, place) == IF IsOpen(s) THEN [view EXCEPT ![s][p] = place] ELSE view

\* The handler of s returns, after its last loop.
Return(s) ==
    /\ Goto(s, "idle")
    /\ subject'  = [subject  EXCEPT ![s] = NoPlayer]
    /\ carried'  = [carried  EXCEPT ![s] = NoPlace]
    /\ UNCHANGED <<nearby, audience>>

\* Another session's first insertion may be under way.
Racing(s) == /\ MapRaces
             /\ \E t \in Sessions \ {s} :
                    pc[t] = "placing" /\ subject[t] \notin Placed

\* A read handler for a message begins, in the given state of the session.
Handles(s, st) == read[s] = "data" /\ pc[s] = "idle" /\ state[s] = st

InGameCommand(s, command) ==
    /\ Handles(s, "InGame")
    /\ command \in Commands[s]
    /\ lastCommand' = [lastCommand EXCEPT ![s] = command]

-----------------------------------------------------------------------------
(* server.cpp and beginSession.                                            *)

Accept(s) ==
    /\ socket[s] = "none"
    /\ socket' = [socket EXCEPT ![s] = "open"]
    /\ loginTimer' = [loginTimer EXCEPT ![s] = "armed"]
    /\ receiveClientData(s)
    /\ UNCHANGED <<identity, pc, locals, positionTimer, timerPlace, lastSaved,
                   histories, shared>>

\* remote_endpoint() raises an exception when the peer has already gone: the
\* session is dropped before it starts its timer or its first read.
AcceptGone(s) ==
    /\ "gone" \in Events[s]
    /\ socket[s] = "none"
    /\ socket' = [socket EXCEPT ![s] = "closed"]
    /\ UNCHANGED <<read, identity, pc, locals, timers, lastSaved, histories, shared>>

(* Completion of the outstanding read; the handler is then in the queue.   *)

DataArrives(s) ==
    /\ read[s] = "pending" /\ IsOpen(s)
    /\ read' = [read EXCEPT ![s] = "data"]
    /\ UNCHANGED <<socket, identity, pc, locals, timers, lastSaved, histories, shared>>

ClientCloses(s) ==
    /\ "eof" \in Events[s]
    /\ read[s] = "pending" /\ IsOpen(s)
    /\ read' = [read EXCEPT ![s] = "eof"]
    /\ UNCHANGED <<socket, identity, pc, locals, timers, lastSaved, histories, shared>>

\* Closing a socket aborts its read; an open one may fail by itself.
ReadFails(s) ==
    /\ read[s] = "pending"
    /\ ~IsOpen(s) \/ "reset" \in Events[s]
    /\ read' = [read EXCEPT ![s] = "error"]
    /\ UNCHANGED <<socket, identity, pc, locals, timers, lastSaved, histories, shared>>

-----------------------------------------------------------------------------
(* SessionAuth.                                                            *)

\* login_timer_.cancel() does not reach a handler that is already queued.
cancelLoginTimer(s) ==
    loginTimer' = [loginTimer EXCEPT ![s] = IF @ = "armed" THEN "off" ELSE @]

LoginSucceeds(s, a) ==
    /\ Handles(s, "Unauthenticated")
    /\ state' = [state EXCEPT ![s] = "Authenticated"]
    /\ account' = [account EXCEPT ![s] = a]
    /\ cancelLoginTimer(s)
    /\ receiveClientData(s)
    /\ UNCHANGED <<socket, player, pc, locals, positionTimer, timerPlace, lastSaved,
                   histories, shared>>

\* Faulty variant: the connection stays open after a failed login.
LoginFailsKeepingSocket(s) ==
    /\ Handles(s, "Unauthenticated")
    /\ TakeRead(s)
    /\ UNCHANGED <<socket, identity, pc, locals, timers, lastSaved, histories, shared>>

\* Wrong credentials, or an exception while they are read or looked up.
LoginFails(s) ==
    /\ Handles(s, "Unauthenticated")
    /\ closeSocket(s)
    /\ TakeRead(s)
    /\ UNCHANGED <<identity, pc, locals, timers, lastSaved, histories, shared>>

LoginTimerExpires(s) ==
    /\ "slowLogin" \in Events[s]
    /\ loginTimer[s] = "armed"
    /\ loginTimer' = [loginTimer EXCEPT ![s] = "expired"]
    /\ UNCHANGED <<socketVars, identity, pc, locals, positionTimer, timerPlace,
                   lastSaved, histories, shared>>

\* Faulty variant: the handler only logs the timeout.
onLoginTimeoutLogging(s) ==
    /\ loginTimer[s] = "expired"
    /\ loginTimer' = [loginTimer EXCEPT ![s] = "off"]
    /\ UNCHANGED <<socketVars, identity, pc, locals, positionTimer, timerPlace,
                   lastSaved, histories, shared>>

onLoginTimeout(s) ==
    /\ loginTimer[s] = "expired"
    /\ loginTimer' = [loginTimer EXCEPT ![s] = "off"]
    /\ closeSocket(s)
    /\ UNCHANGED <<read, identity, pc, locals, positionTimer, timerPlace, lastSaved,
                   histories, shared>>

-----------------------------------------------------------------------------
(* handleCharacterSelectionCommands.                                       *)

\* A list, a creation, an unknown command, and a selection that is refused
\* (code 1 or 2) send an answer and receive again.
AnswerInLobby(s) ==
    /\ Handles(s, "Authenticated")
    /\ receiveClientData(s)
    /\ UNCHANGED <<socket, identity, pc, locals, timers, lastSaved, histories, shared>>

SelectCharacter(s, p) ==
    /\ Handles(s, "Authenticated")
    /\ p \in getCharacterInfo(account[s])
    /\ \E place \in storedPosition(p) \ {Origin} :
           carried' = [carried EXCEPT ![s] = place]
    /\ subject' = [subject EXCEPT ![s] = p]
    /\ Goto(s, "placing")
    /\ TakeRead(s)
    /\ UNCHANGED <<socket, identity, nearby, audience, timers, lastSaved, histories,
                   shared>>

PlaceInWorld(s) ==
    /\ pc[s] = "placing"
    /\ WriteOutcome(subject[s], carried[s], Racing(s))
    /\ Goto(s, "registering")
    /\ UNCHANGED <<socketVars, identity, locals, timers, lastSaved, histories,
                   sessions, db>>

\* Faulty variant: the registry entry is made under the id the session had.
RegisterOldId(s) ==
    /\ pc[s] = "registering"
    /\ player' = [player EXCEPT ![s] = subject[s]]
    /\ addSession(player[s], s)
    /\ state' = [state EXCEPT ![s] = "InGame"]
    /\ positionTimer' = [positionTimer EXCEPT ![s] = IF IsOpen(s) THEN "armed" ELSE @]
    /\ Goto(s, "looking")
    /\ UNCHANGED <<socketVars, account, locals, loginTimer, timerPlace, lastSaved,
                   histories, playerPositions, db>>

\* player_id_, the registry entry, the state and the timer: others reach the
\* session only through the registry entry, so these are one step.
Register(s) ==
    /\ pc[s] = "registering"
    /\ player' = [player EXCEPT ![s] = subject[s]]
    /\ addSession(subject[s], s)
    /\ state' = [state EXCEPT ![s] = "InGame"]
    /\ positionTimer' = [positionTimer EXCEPT ![s] = IF IsOpen(s) THEN "armed" ELSE @]
    /\ Goto(s, "looking")
    /\ UNCHANGED <<socketVars, account, locals, loginTimer, timerPlace, lastSaved,
                   histories, playerPositions, db>>

(* sendNearbyPlayersInfo.                                                  *)

\* Players whose announcement has been addressed: it names no new session.
Announced == {player[t] : t \in {u \in Sessions :
    state[u] = "InGame"
        /\ pc[u] \notin {"looking", "describing", "telling", "announcing"}}}

\* Too far apart, or without an entry because its insertion was lost.
OutOfSight(p, q) ==
    IF {p, q} \subseteq Placed
    THEN <<playerPositions[p], playerPositions[q]>> \notin Near
    ELSE MapRaces

LookAround(s) ==
    /\ pc[s] = "looking"
    /\ \E seen \in ProximityOutcomes(player[s], Racing(s)) :
           /\ nearby' = [nearby EXCEPT ![s] = seen]
           /\ skipped' = [skipped EXCEPT ![s] = @ \cup
                  {q \in Announced \ seen : Racing(s) \/ OutOfSight(player[s], q)}]
    /\ Goto(s, "describing")
    /\ UNCHANGED <<socketVars, identity, subject, carried, audience, timers, lastSaved,
                   lastCommand, view, shared>>

DescribePlayer(s, q) ==
    /\ pc[s] = "describing"
    /\ q \in nearby[s]
    /\ \E place \in ReadOutcomes(q, Racing(s)) :
           carried' = [carried EXCEPT ![s] = place]
    /\ subject' = [subject EXCEPT ![s] = q]
    /\ Goto(s, "telling")
    /\ UNCHANGED <<socketVars, identity, nearby, audience, timers, lastSaved, histories,
                   shared>>

\* getCharacterInfoById raises an exception: the loop goes on with the next.
SkipPlayer(s, q) ==
    /\ pc[s] = "describing"
    /\ DbErrors
    /\ q \in nearby[s]
    /\ nearby' = [nearby EXCEPT ![s] = @ \ {q}]
    /\ skipped' = [skipped EXCEPT ![s] = @ \cup {q}]
    /\ UNCHANGED <<socketVars, identity, pc, subject, carried, audience, timers,
                   lastSaved, lastCommand, view, shared>>

TellPlayer(s) ==
    /\ pc[s] = "telling"
    /\ view' = Told(s, subject[s], carried[s])
    /\ nearby' = [nearby EXCEPT ![s] = @ \ {subject[s]}]
    /\ Goto(s, "describing")
    /\ UNCHANGED <<socketVars, identity, subject, carried, audience, timers, lastSaved,
                   lastCommand, skipped, shared>>

(* broadcastNewPlayerInfo, then the answer to the selection.               *)

ComposeAnnouncement(s) ==
    /\ pc[s] = "describing"
    /\ nearby[s] = {}
    /\ \E place \in ReadOutcomes(player[s], Racing(s)) :
           carried' = [carried EXCEPT ![s] = place]
    /\ subject' = [subject EXCEPT ![s] = player[s]]
    /\ Goto(s, "announcing")
    /\ UNCHANGED <<socketVars, identity, nearby, audience, timers, lastSaved, histories,
                   shared>>

\* Faulty variant: only the sessions of players within range are told.
AnnounceNearby(s) ==
    /\ pc[s] = "announcing"
    /\ audience' = [audience EXCEPT ![s] =
           {t \in getAllSessions(Live) : player[t] \in getPlayersInProximity(player[s])}]
    /\ Goto(s, "announcingTo")
    /\ UNCHANGED <<socketVars, identity, subject, carried, nearby, timers, lastSaved,
                   histories, shared>>

Announce(s) ==
    /\ pc[s] = "announcing"
    /\ audience' = [audience EXCEPT ![s] = getAllSessions(Live)]
    /\ Goto(s, "announcingTo")
    /\ UNCHANGED <<socketVars, identity, subject, carried, nearby, timers, lastSaved,
                   histories, shared>>

\* Faulty variant: the player's own client is told as well.
AnnounceToAll(s, t) ==
    /\ pc[s] = "announcingTo"
    /\ t \in audience[s]
    /\ audience' = [audience EXCEPT ![s] = @ \ {t}]
    /\ view' = Told(t, player[s], carried[s])
    /\ UNCHANGED <<socketVars, identity, pc, subject, carried, nearby, timers, lastSaved,
                   lastCommand, skipped, shared>>

AnnounceTo(s, t) ==
    /\ pc[s] = "announcingTo"
    /\ t \in audience[s]
    /\ audience' = [audience EXCEPT ![s] = @ \ {t}]
    /\ view' = IF player[t] = player[s] THEN view ELSE Told(t, player[s], carried[s])
    /\ UNCHANGED <<socketVars, identity, pc, subject, carried, nearby, timers, lastSaved,
                   lastCommand, skipped, shared>>

FinishSelection(s) ==
    /\ pc[s] = "announcingTo"
    /\ audience[s] = {}
    /\ receiveClientData(s)
    /\ Return(s)
    /\ UNCHANGED <<socket, identity, timers, lastSaved, histories, shared>>

-----------------------------------------------------------------------------
(* SessionMovement.                                                        *)

\* Faulty variant: the place is not looked up in the collision grid.
MoveAnywhere(s, to) ==
    /\ InGameCommand(s, "MOVE")
    /\ WriteOutcome(player[s], to, Racing(s))
    /\ Goto(s, "witnessing")
    /\ TakeRead(s)
    /\ UNCHANGED <<socket, identity, locals, timers, lastSaved, view, skipped,
                   sessions, db>>

MoveCharacter(s, to) ==
    /\ InGameCommand(s, "MOVE")
    /\ isPositionWalkable(to)
    /\ WriteOutcome(player[s], to, Racing(s))
    /\ Goto(s, "witnessing")
    /\ TakeRead(s)
    /\ UNCHANGED <<socket, identity, locals, timers, lastSaved, view, skipped,
                   sessions, db>>

\* Reading the new place back and looking for witnesses are one step: between
\* them only another session of the same player could move the entry.
FindWitnesses(s) ==
    /\ pc[s] = "witnessing"
    /\ \E place \in ReadOutcomes(player[s], Racing(s)) :
           carried' = [carried EXCEPT ![s] = place]
    /\ \E seen \in ProximityOutcomes(player[s], Racing(s)) :
           nearby' = [nearby EXCEPT ![s] = seen]
    /\ Goto(s, "notifying")
    /\ UNCHANGED <<socketVars, identity, subject, audience, timers, lastSaved, histories,
                   shared>>

NotifyWitness(s, q) ==
    /\ pc[s] = "notifying"
    /\ q \in nearby[s]
    /\ nearby' = [nearby EXCEPT ![s] = @ \ {q}]
    /\ LET t == getSession(q, Live)
       IN  view' = IF t = NoSession THEN view ELSE Told(t, player[s], carried[s])
    /\ UNCHANGED <<socketVars, identity, pc, subject, carried, audience, timers,
                   lastSaved, lastCommand, skipped, shared>>

\* Faulty variant: the handler of a move does not receive again.
FinishMoveSilently(s) ==
    /\ pc[s] = "notifying"
    /\ nearby[s] = {}
    /\ Return(s)
    /\ UNCHANGED <<socketVars, identity, timers, lastSaved, histories, shared>>

FinishMove(s) ==
    /\ pc[s] = "notifying"
    /\ nearby[s] = {}
    /\ receiveClientData(s)
    /\ Return(s)
    /\ UNCHANGED <<socket, identity, timers, lastSaved, histories, shared>>

(* The other in-game commands.                                             *)

\* A blocked or malformed move, an attack in the player's own name and an
\* unknown command are answered or logged, and the session receives again.
AnswerAndReceive(s, command) ==
    /\ command \in {"MOVE", "ATTACK", "UNKNOWN"}
    /\ InGameCommand(s, command)
    /\ receiveClientData(s)
    /\ UNCHANGED <<socket, identity, pc, locals, timers, lastSaved, view, skipped, shared>>

\* The PONG is sent and the handler returns; so does an attack in another
\* player's name after its error answer.  Neither receives again.
AnswerOnly(s, command) ==
    /\ command \in {"PING", "ATTACK_OTHER"}
    /\ InGameCommand(s, command)
    /\ TakeRead(s)
    /\ UNCHANGED <<socket, identity, pc, locals, timers, lastSaved, view, skipped, shared>>

-----------------------------------------------------------------------------
(* savePlayerPosition, called by LOGOUT, by an end of file and by the      *)
(* position timer: the place is read and compared with last_saved_, then   *)
(* written to the database, and last_saved_ is set after a successful      *)
(* write.  The read handler and the timer handler of one session may both  *)
(* be in it, and last_saved_ is three ints without a lock: what is read or *)
(* left while both assign or compare may be mixed of the places involved.  *)

Mixed(place, others) == IF others \subseteq {place} THEN {place} ELSE Places

HandlerRemembers(s) == IF pc[s] \in Remembering THEN {carried[s]} ELSE {}
TimerRemembers(s) == IF positionTimer[s] = "remembering" THEN {timerPlace[s]} ELSE {}

\* The read handler reads the place, if the socket is open.
BeginSave(s, comparing, after) ==
    IF IsOpen(s)
    THEN /\ Goto(s, comparing)
         /\ \E place \in ReadOutcomes(player[s], Racing(s)) :
                carried' = [carried EXCEPT ![s] = place]
    ELSE Goto(s, after) /\ UNCHANGED carried

Logout(s) ==
    /\ InGameCommand(s, "LOGOUT")
    /\ BeginSave(s, "comparingAtLogout", "closing")
    /\ TakeRead(s)
    /\ UNCHANGED <<socket, identity, subject, nearby, audience, timers, lastSaved, view,
                   skipped, shared>>

\* handleDisconnection on an end of file.  is_position_valid holds exactly for
\* the sessions in the game.
EndOfFile(s) ==
    /\ read[s] = "eof" /\ pc[s] = "idle"
    /\ IF state[s] = "InGame" THEN BeginSave(s, "comparingAtEof", "leaving")
                              ELSE Goto(s, "leaving") /\ UNCHANGED carried
    /\ TakeRead(s)
    /\ UNCHANGED <<socket, identity, subject, nearby, audience, timers, lastSaved,
                   histories, shared>>

AtLogout == {"comparingAtLogout", "savingAtLogout", "rememberingAtLogout"}

AfterSave(s) == IF pc[s] \in AtLogout THEN "closing" ELSE "leaving"

ComparePlace(s) ==
    /\ pc[s] \in Comparing
    /\ \E last \in Mixed(lastSaved[s], TimerRemembers(s)) :
           Goto(s, IF carried[s] = last THEN AfterSave(s)
                   ELSE IF pc[s] \in AtLogout THEN "savingAtLogout" ELSE "savingAtEof")
    /\ UNCHANGED <<socketVars, identity, locals, timers, lastSaved, histories, shared>>

StorePlace(s) ==
    /\ pc[s] \in Saving
    /\ storePosition(player[s], carried[s])
    /\ Goto(s, IF pc[s] \in AtLogout THEN "rememberingAtLogout" ELSE "rememberingAtEof")
    /\ UNCHANGED <<socketVars, identity, locals, timers, lastSaved, histories,
                   playerPositions, sessions>>

SaveFails(s) ==
    /\ DbErrors
    /\ pc[s] \in Saving
    /\ Goto(s, AfterSave(s))
    /\ UNCHANGED <<socketVars, identity, locals, timers, lastSaved, histories, shared>>

RememberPlace(s) ==
    /\ pc[s] \in Remembering
    /\ lastSaved' = [lastSaved EXCEPT ![s] = carried[s]]
    /\ Goto(s, AfterSave(s))
    /\ UNCHANGED <<socketVars, identity, locals, timers, histories, shared>>

Unregister(s) == IF state[s] = "InGame" THEN removeSession(player[s])
                                        ELSE UNCHANGED sessions

\* position_update_timer_.cancel() reaches neither a handler that runs already
\* nor one that is queued because the time is over.
cancelPositionTimer(s) ==
    \/ /\ positionTimer[s] = "armed"
       /\ positionTimer' = [positionTimer EXCEPT ![s] = "off"]
    \/ /\ positionTimer[s] # "armed" \/ "tick" \in Events[s]
       /\ UNCHANGED positionTimer

\* The timer is cancelled and the registry entry of the player is erased.
Leave(s) ==
    /\ pc[s] = "leaving"
    /\ cancelPositionTimer(s)
    /\ Unregister(s)
    /\ Goto(s, "closing")
    /\ UNCHANGED <<socketVars, identity, locals, loginTimer, timerPlace, lastSaved,
                   histories, playerPositions, db>>

\* Faulty variant: the registry entry is erased only on an end of file.
ReadErrorKeepingEntry(s) ==
    /\ read[s] = "error" /\ pc[s] = "idle"
    /\ TakeRead(s)
    /\ Goto(s, "closing")
    /\ UNCHANGED <<socket, identity, locals, timers, lastSaved, histories, shared>>

\* handleDisconnection on any other error: nothing is saved or cancelled.
ReadError(s) ==
    /\ read[s] = "error" /\ pc[s] = "idle"
    /\ Unregister(s)
    /\ TakeRead(s)
    /\ Goto(s, "closing")
    /\ UNCHANGED <<socket, identity, locals, timers, lastSaved, histories,
                   playerPositions, db>>

\* socket_.close(), the last act of LOGOUT and of handleDisconnection.
Close(s) ==
    /\ pc[s] = "closing"
    /\ closeSocket(s)
    /\ Return(s)
    /\ UNCHANGED <<read, identity, timers, lastSaved, histories, shared>>

(* The position timer: save, then start again unless the socket is closed. *)

\* Faulty variant: the timer starts again without looking at the socket.
FiresForEver(s) ==
    /\ "tick" \in Events[s]
    /\ positionTimer[s] = "armed"
    /\ IsOpen(s)
    /\ positionTimer' = [positionTimer EXCEPT ![s] = "comparing"]
    /\ \E place \in ReadOutcomes(player[s], Racing(s)) :
           timerPlace' = [timerPlace EXCEPT ![s] = place]
    /\ UNCHANGED <<socketVars, identity, pc, locals, loginTimer, lastSaved, histories,
                   shared>>

PositionTimerFires(s) ==
    /\ "tick" \in Events[s]
    /\ positionTimer[s] = "armed"
    /\ IF IsOpen(s)
       THEN /\ positionTimer' = [positionTimer EXCEPT ![s] = "comparing"]
            /\ \E place \in ReadOutcomes(player[s], Racing(s)) :
                   timerPlace' = [timerPlace EXCEPT ![s] = place]
       ELSE /\ positionTimer' = [positionTimer EXCEPT ![s] = "off"]
            /\ UNCHANGED timerPlace
    /\ UNCHANGED <<socketVars, identity, pc, locals, loginTimer, lastSaved, histories,
                   shared>>

\* At the end startPositionUpdateTimer looks at the socket again.
RestartTimer(s) ==
    /\ positionTimer' = [positionTimer EXCEPT ![s] = IF IsOpen(s) THEN "armed" ELSE "off"]
    /\ timerPlace' = [timerPlace EXCEPT ![s] = NoPlace]

TimerComparesPlace(s) ==
    /\ positionTimer[s] = "comparing"
    /\ \E last \in Mixed(lastSaved[s], HandlerRemembers(s)) :
           IF timerPlace[s] = last
           THEN RestartTimer(s)
           ELSE /\ positionTimer' = [positionTimer EXCEPT ![s] = "saving"]
                /\ UNCHANGED timerPlace
    /\ UNCHANGED <<socketVars, identity, pc, locals, loginTimer, lastSaved, histories,
                   shared>>

\* Faulty variant: the place is reset before it is written.
TimerStoresReset(s) ==
    /\ positionTimer[s] = "saving"
    /\ storePosition(player[s], NoPlace)
    /\ positionTimer' = [positionTimer EXCEPT ![s] = "remembering"]
    /\ UNCHANGED <<socketVars, identity, pc, locals, loginTimer, timerPlace, lastSaved,
                   histories, playerPositions, sessions>>

TimerStoresPlace(s) ==
    /\ positionTimer[s] = "saving"
    /\ storePosition(player[s], timerPlace[s])
    /\ positionTimer' = [positionTimer EXCEPT ![s] = "remembering"]
    /\ UNCHANGED <<socketVars, identity, pc, locals, loginTimer, timerPlace, lastSaved,
                   histories, playerPositions, sessions>>

\* Faulty variant: last_saved_ is set although the UPDATE failed.
TimerForgetsFailure(s) ==
    /\ DbErrors
    /\ positionTimer[s] = "saving"
    /\ lastSaved' = [lastSaved EXCEPT ![s] = timerPlace[s]]
    /\ RestartTimer(s)
    /\ UNCHANGED <<socketVars, identity, pc, locals, loginTimer, histories, shared>>

TimerSaveFails(s) ==
    /\ DbErrors
    /\ positionTimer[s] = "saving"
    /\ RestartTimer(s)
    /\ UNCHANGED <<socketVars, identity, pc, locals, loginTimer, lastSaved, histories,
                   shared>>

\* Faulty variant: after the UPDATE the place is read again to be remembered.
TimerRemembersReread(s) ==
    /\ positionTimer[s] = "remembering"
    /\ lastSaved' = [lastSaved EXCEPT ![s] = getPlayerPosition(player[s])]
    /\ RestartTimer(s)
    /\ UNCHANGED <<socketVars, identity, pc, locals, loginTimer, histories, shared>>

TimerRemembersPlace(s) ==
    /\ positionTimer[s] = "remembering"
    /\ lastSaved' = [lastSaved EXCEPT ![s] = timerPlace[s]]
    /\ RestartTimer(s)
    /\ UNCHANGED <<socketVars, identity, pc, locals, loginTimer, histories, shared>>

\* Both handlers assign last_saved_ at once.
BothRemember(s) ==
    /\ pc[s] \in Remembering /\ positionTimer[s] = "remembering"
    /\ \E last \in Mixed(carried[s], TimerRemembers(s)) :
           lastSaved' = [lastSaved EXCEPT ![s] = last]
    /\ Goto(s, AfterSave(s))
    /\ RestartTimer(s)
    /\ UNCHANGED <<socketVars, identity, locals, loginTimer, histories, shared>>

-----------------------------------------------------------------------------
Init ==
    /\ WorldInit /\ SessionManagerInit /\ PlayerManagerInit
    /\ socket        = [s \in Sessions |-> "none"]
    /\ read          = [s \in Sessions |-> "none"]
    /\ state         = [s \in Sessions |-> "Unauthenticated"]
    /\ account       = [s \in Sessions |-> NoAccount]
    /\ player        = [s \in Sessions |-> NoPlayer]
    /\ pc            = [s \in Sessions |-> "idle"]
    /\ subject       = [s \in Sessions |-> NoPlayer]
    /\ carried       = [s \in Sessions |-> NoPlace]
    /\ nearby        = [s \in Sessions |-> {}]
    /\ audience      = [s \in Sessions |-> {}]
    /\ loginTimer    = [s \in Sessions |-> "off"]
    /\ positionTimer = [s \in Sessions |-> "off"]
    /\ timerPlace    = [s \in Sessions |-> NoPlace]
    /\ lastSaved     = [s \in Sessions |-> Origin]
    /\ lastCommand   = [s \in Sessions |-> "NONE"]
    /\ view          = [s \in Sessions |-> [p \in Players |-> NoPlace]]
    /\ skipped       = [s \in Sessions |-> {}]

\* The rest of a read handler once it has begun, and the loops inside it.
HandlerStep(s) ==
    \/ PlaceInWorld(s) \/ Register(s) \/ LookAround(s)
    \/ \E q \in Players : DescribePlayer(s, q) \/ SkipPlayer(s, q)
    \/ TellPlayer(s) \/ ComposeAnnouncement(s) \/ Announce(s)
    \/ \E t \in Sessions : AnnounceTo(s, t)
    \/ FinishSelection(s)
    \/ FindWitnesses(s)
    \/ \E q \in Players : NotifyWitness(s, q)
    \/ FinishMove(s)
    \/ ComparePlace(s) \/ StorePlace(s) \/ SaveFails(s) \/ RememberPlace(s)
    \/ Leave(s) \/ Close(s)

\* A queued completion handler of a read begins.
HandlerBegins(s) ==
    \/ \E a \in Accounts : LoginSucceeds(s, a)
    \/ LoginFails(s)
    \/ AnswerInLobby(s)
    \/ \E p \in Players : SelectCharacter(s, p)
    \/ \E to \in Places : MoveCharacter(s, to)
    \/ \E command \in AllCommands :
           AnswerAndReceive(s, command) \/ AnswerOnly(s, command)
    \/ Logout(s)
    \/ EndOfFile(s) \/ ReadError(s)

TimerStep(s) ==
    \/ LoginTimerExpires(s) \/ onLoginTimeout(s)
    \/ PositionTimerFires(s) \/ TimerComparesPlace(s)
    \/ TimerStoresPlace(s) \/ TimerSaveFails(s)
    \/ TimerRemembersPlace(s) \/ BothRemember(s)

Environment(s) ==
    \/ Accept(s) \/ AcceptGone(s) \/ DataArrives(s) \/ ClientCloses(s) \/ ReadFails(s)

Next == \E s \in Sessions :
            \/ HandlerStep(s) \/ HandlerBegins(s) \/ TimerStep(s) \/ Environment(s)

\* asio runs every queued handler, a started handler runs to its end, timers
\* elapse and the read of a closed socket completes.  Clients owe nothing.
Fairness == \A s \in Sessions :
    /\ WF_vars(HandlerStep(s))
    /\ WF_vars(HandlerBegins(s))
    /\ WF_vars(~IsOpen(s) /\ ReadFails(s))
    /\ WF_vars(LoginTimerExpires(s))
    /\ WF_vars(onLoginTimeout(s))
    /\ WF_vars(PositionTimerFires(s))
    /\ WF_vars(TimerComparesPlace(s))
    /\ WF_vars(TimerStoresPlace(s) \/ TimerSaveFails(s))
    /\ WF_vars(TimerRemembersPlace(s))

Spec == Init /\ [][Next]_vars
FairSpec == Spec /\ Fairness
=============================================================================
