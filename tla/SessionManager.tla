--------------------------- MODULE SessionManager ---------------------------
(***************************************************************************)
(* session/sessionmanager.cpp: the registry from player id to session.     *)
(* Every method holds the registry's mutex, so each is one atomic step.    *)
(* The registry stores weak pointers: an entry does not keep its session   *)
(* alive, and a lookup must find out whether the session still exists      *)
(* (weak_ptr::lock), which is why the lookups take the set of live ones.   *)
(***************************************************************************)
EXTENDS Game

CONSTANTS
    Sessions,   \* the Session objects, one per accepted connection
    NoSession   \* no entry, or nullptr

ASSUME SessionManagerAssumption == NoSession \notin Sessions

VARIABLE sessions

\* sessions_[playerId] = session: a previous entry is overwritten.
addSession(p, s) == sessions' = [sessions EXCEPT ![p] = s]

\* sessions_.erase(playerId), whichever session the entry points to.
removeSession(p) == sessions' = [sessions EXCEPT ![p] = NoSession]

getSession(p, live) == IF sessions[p] \in live THEN sessions[p] ELSE NoSession

getAllSessions(live) == {s \in live : \E p \in Players : sessions[p] = s}

-----------------------------------------------------------------------------
SessionManagerTypeOK == sessions \in [Players -> Sessions \cup {NoSession}]

SessionManagerInit == sessions = [p \in Players |-> NoSession]
=============================================================================
