------------------------ MODULE SessionSafetyProofs -------------------------
(***************************************************************************)
(* The safety properties of the sessions hold in every instance.  Each     *)
(* part strengthens a property to an inductive invariant, which assumes    *)
(* the types (SessionProofs) and the invariants of the parts before it.    *)
(***************************************************************************)
EXTENDS SessionProofs

USE DEF socketVars, identity, locals, timers, histories, shared
USE DEF Comparing, Saving, Remembering, Ending, AtLogout

-----------------------------------------------------------------------------
(* The registry.                                                           *)

RegistryInv == RegistryNamesItsPlayer /\ OnlyDuplicatesUnregister

\* The steps that touch neither the registry, nor who a session is, nor its
\* socket.
RegistryQuiet(s) ==
    \/ PlaceInWorld(s)
    \/ LookAround(s)
    \/ (\E q \in Players : DescribePlayer(s, q))
    \/ (\E q \in Players : SkipPlayer(s, q))
    \/ TellPlayer(s)
    \/ ComposeAnnouncement(s)
    \/ Announce(s)
    \/ (\E t \in Sessions : AnnounceTo(s, t))
    \/ FinishSelection(s)
    \/ FindWitnesses(s)
    \/ (\E q \in Players : NotifyWitness(s, q))
    \/ FinishMove(s)
    \/ ComparePlace(s) \/ StorePlace(s) \/ SaveFails(s) \/ RememberPlace(s)
    \/ AnswerInLobby(s)
    \/ (\E p \in Players : SelectCharacter(s, p))
    \/ (\E to \in Places : MoveCharacter(s, to))
    \/ (\E c \in AllCommands : AnswerAndReceive(s, c))
    \/ (\E c \in AllCommands : AnswerOnly(s, c))
    \/ Logout(s)
    \/ EndOfFile(s)
    \/ LoginTimerExpires(s)
    \/ PositionTimerFires(s)
    \/ TimerComparesPlace(s) \/ TimerStoresPlace(s) \/ TimerSaveFails(s)
    \/ TimerRemembersPlace(s) \/ BothRemember(s)
    \/ DataArrives(s)
    \/ ClientCloses(s)
    \/ ReadFails(s)

\* They leave alone what RegistryInv relates: a socket about to be closed
\* stays so until Close.
LEMMA RegistryQuietSteps ==
    ASSUME TypeOK, HandlerOK, NEW s \in Sessions, RegistryQuiet(s)
    PROVE  /\ UNCHANGED <<socket, identity, sessions>>
           /\ \A u \in Sessions : pc[u] = "closing" => pc'[u] = "closing"
<1>1. UNCHANGED <<socket, identity, sessions>>
  BY DEF RegistryQuiet, PlaceInWorld, LookAround, DescribePlayer, SkipPlayer,
         TellPlayer, ComposeAnnouncement, Announce, AnnounceTo,
         FinishSelection, FindWitnesses, NotifyWitness, FinishMove,
         ComparePlace, StorePlace, SaveFails, RememberPlace, AfterSave,
         AnswerInLobby, SelectCharacter, MoveCharacter,
         AnswerAndReceive, AnswerOnly, Logout, EndOfFile, LoginTimerExpires,
         PositionTimerFires, TimerComparesPlace, TimerStoresPlace, TimerSaveFails,
         TimerRemembersPlace, BothRemember, DataArrives,
         ClientCloses, ReadFails, InGameCommand, TakeRead, receiveClientData,
         RestartTimer, AfterSave
<1>2. \A u \in Sessions : pc[u] = "closing" => pc'[u] = "closing"
  BY DEF RegistryQuiet, TypeOK, HandlerOK, PlaceInWorld, LookAround,
         DescribePlayer, SkipPlayer, TellPlayer, ComposeAnnouncement,
         Announce, AnnounceTo, FinishSelection, FindWitnesses, NotifyWitness,
         FinishMove, ComparePlace, StorePlace, SaveFails, RememberPlace, AnswerInLobby, SelectCharacter,
         MoveCharacter, AnswerAndReceive, AnswerOnly, Logout, EndOfFile,
         LoginTimerExpires, PositionTimerFires, TimerComparesPlace, TimerStoresPlace, TimerSaveFails,
         TimerRemembersPlace, BothRemember, DataArrives, ClientCloses, ReadFails, Return, Goto,
         InGameCommand, Handles, BeginSave, RestartTimer, AfterSave
<1> QED BY <1>1, <1>2

\* A session enters the registry under its own player and leaves it by erasing
\* the entry of its own player, which may be that of a duplicate.
LEMMA RegistryStep ==
    ASSUME TypeOK, HandlerOK, RegistryInv, [Next]_vars
    PROVE  RegistryInv'
<1> USE SessionManagerAssumption, GameAssumption
<1> USE DEF TypeOK, HandlerOK, SessionManagerTypeOK, RegistryInv,
            RegistryNamesItsPlayer, OnlyDuplicatesUnregister, Registered,
            Sole, IsOpen, Steps
<1>1. ASSUME NEW s \in Sessions, Register(s)
      PROVE  RegistryInv'
  BY <1>1 DEF Register, addSession, Goto
<1>2. ASSUME NEW s \in Sessions, Leave(s)
      PROVE  RegistryInv'
  <2>1. /\ UNCHANGED <<socket, identity>>
        /\ pc' = [pc EXCEPT ![s] = "closing"]
    BY <1>2 DEF Leave, Goto
  <2>2. CASE state[s] = "InGame"
    <3>1. sessions' = [sessions EXCEPT ![player[s]] = NoSession]
      BY <1>2, <2>2 DEF Leave, Unregister, removeSession
    <3>2. RegistryNamesItsPlayer'
      BY <2>1, <3>1
    <3>3. OnlyDuplicatesUnregister'
      BY <2>1, <2>2, <3>1
    <3> QED BY <3>2, <3>3
  <2>3. CASE state[s] # "InGame"
    <3>1. UNCHANGED sessions
      BY <1>2, <2>3 DEF Leave, Unregister
    <3> QED BY <2>1, <2>3, <3>1
  <2> QED BY <2>2, <2>3
<1>3. ASSUME NEW s \in Sessions, ReadError(s)
      PROVE  RegistryInv'
  <2>1. /\ UNCHANGED <<socket, identity>>
        /\ pc' = [pc EXCEPT ![s] = "closing"]
    BY <1>3 DEF ReadError, Goto, TakeRead
  <2>2. CASE state[s] = "InGame"
    <3>1. sessions' = [sessions EXCEPT ![player[s]] = NoSession]
      BY <1>3, <2>2 DEF ReadError, Unregister, removeSession
    <3>2. RegistryNamesItsPlayer'
      BY <2>1, <3>1
    <3>3. OnlyDuplicatesUnregister'
      BY <2>1, <2>2, <3>1
    <3> QED BY <3>2, <3>3
  <2>3. CASE state[s] # "InGame"
    <3>1. UNCHANGED sessions
      BY <1>3, <2>3 DEF ReadError, Unregister
    <3> QED BY <2>1, <2>3, <3>1
  <2> QED BY <2>2, <2>3
<1>4. ASSUME NEW s \in Sessions, Close(s)
      PROVE  RegistryInv'
  BY <1>4 DEF Close, closeSocket, Return, Goto
<1>5. ASSUME NEW s \in Sessions, NEW a \in Accounts, LoginSucceeds(s, a)
      PROVE  RegistryInv'
  BY <1>5 DEF LoginSucceeds, Handles, cancelLoginTimer, receiveClientData
<1>6. ASSUME NEW s \in Sessions, LoginFails(s)
      PROVE  RegistryInv'
  BY <1>6 DEF LoginFails, Handles, closeSocket, TakeRead
<1>7. ASSUME NEW s \in Sessions, onLoginTimeout(s)
      PROVE  RegistryInv'
  BY <1>7 DEF onLoginTimeout, closeSocket
<1>8. ASSUME NEW s \in Sessions, Accept(s)
      PROVE  RegistryInv'
  BY <1>8 DEF Accept, receiveClientData
<1>9. ASSUME NEW s \in Sessions, AcceptGone(s)
      PROVE  RegistryInv'
  BY <1>9 DEF AcceptGone
<1>10. ASSUME NEW s \in Sessions, RegistryQuiet(s)
      PROVE  RegistryInv'
  <2>1. /\ UNCHANGED <<socket, identity, sessions>>
        /\ \A u \in Sessions : pc[u] = "closing" => pc'[u] = "closing"
    BY <1>10, RegistryQuietSteps
  <2> QED BY <2>1
<1>11. CASE UNCHANGED vars
  BY <1>11 DEF vars
<1> QED
  BY <1>1, <1>2, <1>3, <1>4, <1>5, <1>6, <1>7, <1>8, <1>9, <1>10, <1>11
  DEF Next, HandlerStep, HandlerBegins, TimerStep, Environment, RegistryQuiet

\* RegistryInv holds initially: nobody is in the game and nobody is registered.
LEMMA RegistryInvInit ==
    ASSUME Init
    PROVE  RegistryInv
BY GameAssumption, SessionManagerAssumption
DEF Init, SessionManagerInit, RegistryInv, RegistryNamesItsPlayer, OnlyDuplicatesUnregister

\* What a registry entry says is true of its session (RegistryNamesItsPlayer),
\* and a connected player is in it unless the character is played in a second
\* session (OnlyDuplicatesUnregister), for any number of sessions and players
\* and also when accesses of the position table collide.
THEOREM RegistrySound ==
    Spec => [](RegistryNamesItsPlayer /\ OnlyDuplicatesUnregister)
<1>1. Init => RegistryInv
  BY RegistryInvInit
<1>2. TypeOK /\ HandlerOK /\ RegistryInv /\ [Next]_vars => RegistryInv'
  BY RegistryStep
<1>3. RegistryInv => RegistryNamesItsPlayer /\ OnlyDuplicatesUnregister
  BY DEF RegistryInv
<1> QED BY <1>1, <1>2, <1>3, TypeCorrect, PTL DEF Spec

\* Only the end of another session of the same player takes a connected player out
\* of the registry (session.cpp:121).
THEOREM OnlyDuplicatesTakeOut == Spec => []OnlyDuplicatesUnregister
<1> QED BY RegistrySound, PTL

-----------------------------------------------------------------------------
(* Open connections and their position timer.                              *)

\* The position timer of a session in the game runs until the session is about
\* to close its socket.
TimerRuns ==
    \A s \in Sessions :
        IsOpen(s) /\ state[s] = "InGame" /\ pc[s] # "closing" => positionTimer[s] # "off"

\* Before the game a session reads, or its handler runs.
LobbyListens ==
    \A s \in Sessions :
        IsOpen(s) /\ state[s] # "InGame" => read[s] # "none" \/ pc[s] # "idle"

\* Registering starts the timer; after that only a handler on its way to close
\* the socket, or the timer itself on a closed socket, stops it.
LEMMA TimerRunsStep ==
    ASSUME TypeOK, HandlerOK, TimerRuns, [Next]_vars
    PROVE  TimerRuns'
<1> USE DEF TypeOK, HandlerOK, IsOpen, Steps, TimerRuns
<1>1. ASSUME NEW s \in Sessions, HandlerStep(s)
      PROVE  TimerRuns'
  BY <1>1
     DEF HandlerStep, PlaceInWorld, Register, LookAround, DescribePlayer,
         SkipPlayer, TellPlayer, ComposeAnnouncement, Announce, AnnounceTo,
         FinishSelection, FindWitnesses, NotifyWitness, FinishMove,
         ComparePlace, StorePlace, SaveFails, RememberPlace, AfterSave,
         Leave, cancelPositionTimer, Close, Goto, Return, receiveClientData,
         closeSocket
<1>2. ASSUME NEW s \in Sessions, HandlerBegins(s)
      PROVE  TimerRuns'
  BY <1>2
     DEF HandlerBegins, LoginSucceeds, LoginFails, AnswerInLobby,
         SelectCharacter, MoveCharacter, AnswerAndReceive, AnswerOnly,
         Logout, EndOfFile, ReadError, Handles, cancelLoginTimer,
         receiveClientData, closeSocket, TakeRead, Goto, InGameCommand,
         BeginSave
<1>3. ASSUME NEW s \in Sessions, TimerStep(s)
      PROVE  TimerRuns'
  <2>1. /\ UNCHANGED state
        /\ \A u \in Sessions :
               /\ socket'[u] = "open" => socket[u] = "open"
               /\ pc'[u] = pc[u] \/ pc[u] \in Remembering
               /\ positionTimer'[u] = "off" => positionTimer[u] = "off" \/ socket'[u] # "open"
    BY <1>3
       DEF TimerStep, LoginTimerExpires, onLoginTimeout, PositionTimerFires,
           TimerComparesPlace, TimerStoresPlace, TimerSaveFails,
           TimerRemembersPlace, BothRemember, closeSocket,
           RestartTimer, AfterSave, Goto
  <2> HIDE DEF TypeOK, HandlerOK
  <2> QED BY <2>1
<1>4. ASSUME NEW s \in Sessions, Environment(s)
      PROVE  TimerRuns'
  BY <1>4
     DEF Environment, Accept, AcceptGone, DataArrives, ClientCloses,
         ReadFails, receiveClientData
<1>5. CASE UNCHANGED vars
  BY <1>5 DEF vars
<1> QED BY <1>1, <1>2, <1>3, <1>4, <1>5 DEF Next

\* Before the game every handler that returns has started the next read or
\* closed the socket.
LEMMA LobbyListensStep ==
    ASSUME TypeOK, HandlerOK, LobbyListens, [Next]_vars
    PROVE  LobbyListens'
<1> USE DEF TypeOK, HandlerOK, IsOpen, Steps, LobbyListens
<1>1. ASSUME NEW s \in Sessions, HandlerStep(s)
      PROVE  LobbyListens'
  <2>1. ASSUME ComparePlace(s) \/ StorePlace(s) \/ SaveFails(s) \/ RememberPlace(s)
        PROVE  LobbyListens'
    <3>1. /\ UNCHANGED <<socket, state, read>>
          /\ \A u \in Sessions : pc'[u] = pc[u] \/ pc[u] \in Ending
          /\ pc[s] \in Ending => pc'[s] # "idle"
          /\ \A u \in Sessions \ {s} : pc'[u] = pc[u]
      BY <2>1 DEF ComparePlace, StorePlace, SaveFails, RememberPlace, AfterSave, Goto
    <3> QED BY <3>1
  <2>2. ASSUME Leave(s) \/ Close(s)
        PROVE  LobbyListens'
    BY <2>2 DEF Leave, Close, Goto, Return, closeSocket
  <2>3. ASSUME PlaceInWorld(s) \/ Register(s) \/ FinishSelection(s) \/ FinishMove(s)
        PROVE  LobbyListens'
    BY <2>3 DEF PlaceInWorld, Register, FinishSelection, FinishMove, Goto, Return,
                receiveClientData
  <2>4. ASSUME \/ LookAround(s) \/ TellPlayer(s) \/ ComposeAnnouncement(s) \/ Announce(s)
               \/ FindWitnesses(s)
               \/ \E q \in Players :
                      DescribePlayer(s, q) \/ SkipPlayer(s, q) \/ NotifyWitness(s, q)
               \/ \E u \in Sessions : AnnounceTo(s, u)
        PROVE  LobbyListens'
    BY <2>4
       DEF LookAround, DescribePlayer, SkipPlayer, TellPlayer, ComposeAnnouncement,
           Announce, AnnounceTo, FindWitnesses, NotifyWitness, Goto
  <2> QED BY <1>1, <2>1, <2>2, <2>3, <2>4 DEF HandlerStep
<1>2. ASSUME NEW s \in Sessions, HandlerBegins(s)
      PROVE  LobbyListens'
  <2>1. ASSUME NEW a \in Accounts, LoginSucceeds(s, a) PROVE LobbyListens'
    BY <2>1 DEF LoginSucceeds, Handles, cancelLoginTimer, receiveClientData
  <2>2. ASSUME LoginFails(s) PROVE LobbyListens'
    BY <2>2 DEF LoginFails, Handles, closeSocket, TakeRead
  <2>3. ASSUME AnswerInLobby(s) PROVE LobbyListens'
    BY <2>3 DEF AnswerInLobby, Handles, receiveClientData
  <2>4. ASSUME NEW p \in Players, SelectCharacter(s, p) PROVE LobbyListens'
    BY <2>4 DEF SelectCharacter, Handles, Goto, TakeRead
  <2>5. ASSUME NEW to \in Places, MoveCharacter(s, to) PROVE LobbyListens'
    BY <2>5 DEF MoveCharacter, InGameCommand, Handles, Goto, TakeRead
  <2>6. ASSUME NEW c \in AllCommands, AnswerAndReceive(s, c) PROVE LobbyListens'
    BY <2>6 DEF AnswerAndReceive, InGameCommand, Handles, receiveClientData
  <2>7. ASSUME NEW c \in AllCommands, AnswerOnly(s, c) PROVE LobbyListens'
    BY <2>7 DEF AnswerOnly, InGameCommand, Handles, TakeRead
  <2>8. ASSUME Logout(s) PROVE LobbyListens'
    BY <2>8 DEF Logout, InGameCommand, Handles, BeginSave, Goto, TakeRead
  <2>9. ASSUME EndOfFile(s) PROVE LobbyListens'
    BY <2>9 DEF EndOfFile, BeginSave, Goto, TakeRead
  <2>10. ASSUME ReadError(s) PROVE LobbyListens'
    BY <2>10 DEF ReadError, TakeRead, Goto
  <2> QED BY <1>2, <2>1, <2>2, <2>3, <2>4, <2>5, <2>6, <2>7, <2>8, <2>9,
             <2>10 DEF HandlerBegins
<1>3. ASSUME NEW s \in Sessions, TimerStep(s)
      PROVE  LobbyListens'
  BY <1>3
     DEF TimerStep, LoginTimerExpires, onLoginTimeout, PositionTimerFires,
         TimerComparesPlace, TimerStoresPlace, TimerSaveFails,
         TimerRemembersPlace, BothRemember, closeSocket,
         RestartTimer, AfterSave, Goto
<1>4. ASSUME NEW s \in Sessions, Environment(s)
      PROVE  LobbyListens'
  BY <1>4
     DEF Environment, Accept, AcceptGone, DataArrives, ClientCloses,
         ReadFails, receiveClientData
<1>5. CASE UNCHANGED vars
  BY <1>5 DEF vars
<1> QED BY <1>1, <1>2, <1>3, <1>4, <1>5 DEF Next

\* In the game two commands return without starting a read, and name
\* themselves in lastCommand.
LEMMA SilenceExplainedStep ==
    ASSUME TypeOK, HandlerOK, SilenceExplained, [Next]_vars
    PROVE  SilenceExplained'
<1> USE DEF TypeOK, HandlerOK, IsOpen, Steps, SilenceExplained
<1>1. ASSUME NEW s \in Sessions, HandlerStep(s)
      PROVE  SilenceExplained'
  BY <1>1
     DEF HandlerStep, PlaceInWorld, Register, LookAround, DescribePlayer,
         SkipPlayer, TellPlayer, ComposeAnnouncement, Announce, AnnounceTo,
         FinishSelection, FindWitnesses, NotifyWitness, FinishMove,
         ComparePlace, StorePlace, SaveFails, RememberPlace, AfterSave,
         Leave, cancelPositionTimer, Close, Goto, Return, receiveClientData,
         closeSocket
<1>2. ASSUME NEW s \in Sessions, HandlerBegins(s)
      PROVE  SilenceExplained'
  BY <1>2
     DEF HandlerBegins, LoginSucceeds, LoginFails, AnswerInLobby,
         SelectCharacter, MoveCharacter, AnswerAndReceive, AnswerOnly,
         Logout, EndOfFile, ReadError, Handles, cancelLoginTimer,
         receiveClientData, closeSocket, TakeRead, Goto, InGameCommand,
         BeginSave
<1>3. ASSUME NEW s \in Sessions, TimerStep(s)
      PROVE  SilenceExplained'
  BY <1>3
     DEF TimerStep, LoginTimerExpires, onLoginTimeout, PositionTimerFires,
         TimerComparesPlace, TimerStoresPlace, TimerSaveFails,
         TimerRemembersPlace, BothRemember, closeSocket,
         RestartTimer, AfterSave, Goto
<1>4. ASSUME NEW s \in Sessions, Environment(s)
      PROVE  SilenceExplained'
  BY <1>4
     DEF Environment, Accept, AcceptGone, DataArrives, ClientCloses,
         ReadFails, receiveClientData
<1>5. CASE UNCHANGED vars
  BY <1>5 DEF vars
<1> QED BY <1>1, <1>2, <1>3, <1>4, <1>5 DEF Next

\* Initially no connection is open.
LEMMA ConnectionsInit ==
    ASSUME Init
    PROVE  TimerRuns /\ LobbyListens /\ SilenceExplained
BY DEF Init, TimerRuns, LobbyListens, SilenceExplained, IsOpen

\* An open connection is never left without a session (OpenConnectionsLive):
\* in the lobby its read or its handler holds it, in the game its timer does.
THEOREM OpenConnectionsAreLive == Spec => []OpenConnectionsLive
<1>1. Init => TimerRuns /\ LobbyListens
  BY ConnectionsInit
<1>2. TypeOK /\ HandlerOK /\ TimerRuns /\ [Next]_vars => TimerRuns'
  BY TimerRunsStep
<1>3. TypeOK /\ HandlerOK /\ LobbyListens /\ [Next]_vars => LobbyListens'
  BY LobbyListensStep
<1>4. TypeOK /\ TimerRuns /\ LobbyListens => OpenConnectionsLive
  BY DEF TypeOK, TimerRuns, LobbyListens, OpenConnectionsLive, Alive, IsOpen
<1> QED BY <1>1, <1>2, <1>3, <1>4, TypeCorrect, PTL DEF Spec

\* An open connection that is no longer read was silenced by a PING or by an
\* attack in another player's name (SilenceExplained).
THEOREM OnlyTwoCommandsSilence == Spec => []SilenceExplained
<1>1. Init => SilenceExplained
  BY ConnectionsInit
<1>2. TypeOK /\ HandlerOK /\ SilenceExplained /\ [Next]_vars => SilenceExplained'
  BY SilenceExplainedStep
<1> QED BY <1>1, <1>2, TypeCorrect, PTL DEF Spec

-----------------------------------------------------------------------------
\* A registered session that will not read again has logged out or was silenced.
StaleInv ==
    \A s \in Sessions :
        /\ pc[s] \in AtLogout => lastCommand[s] = "LOGOUT"
        /\ Registered(s) /\ (pc[s] = "closing" \/ (pc[s] = "idle" /\ read[s] = "none")) =>
               lastCommand[s] \in {"LOGOUT", "PING", "ATTACK_OTHER"}

\* A handler that goes on to close its socket has erased the registry entry, or
\* came from a LOGOUT; a session without a read was silenced.
LEMMA StaleStep ==
    ASSUME TypeOK, HandlerOK, RegistryInv, StaleInv, [Next]_vars
    PROVE  StaleInv'
<1> USE SessionManagerAssumption, GameAssumption
<1> USE DEF TypeOK, HandlerOK, IsOpen, Steps, SessionManagerTypeOK,
            RegistryInv, RegistryNamesItsPlayer, StaleInv, Registered
<1>1. ASSUME NEW s \in Sessions, HandlerStep(s)
      PROVE  StaleInv'
  <2>1. ASSUME PlaceInWorld(s) PROVE StaleInv'
    BY <2>1 DEF PlaceInWorld, Goto
  <2>2. ASSUME Register(s) PROVE StaleInv'
    BY <2>2 DEF Register, addSession, Goto
  <2>3. ASSUME LookAround(s) PROVE StaleInv'
    BY <2>3 DEF LookAround, Goto
  <2>4. ASSUME NEW q \in Players, DescribePlayer(s, q) PROVE StaleInv'
    BY <2>4 DEF DescribePlayer, Goto
  <2>5. ASSUME NEW q \in Players, SkipPlayer(s, q) PROVE StaleInv'
    BY <2>5 DEF SkipPlayer
  <2>6. ASSUME TellPlayer(s) PROVE StaleInv'
    BY <2>6 DEF TellPlayer, Goto
  <2>7. ASSUME ComposeAnnouncement(s) PROVE StaleInv'
    BY <2>7 DEF ComposeAnnouncement, Goto
  <2>8. ASSUME Announce(s) PROVE StaleInv'
    BY <2>8 DEF Announce, Goto
  <2>9. ASSUME NEW t \in Sessions, AnnounceTo(s, t) PROVE StaleInv'
    BY <2>9 DEF AnnounceTo
  <2>10. ASSUME FinishSelection(s) PROVE StaleInv'
    BY <2>10 DEF FinishSelection, Return, Goto, receiveClientData
  <2>11. ASSUME FindWitnesses(s) PROVE StaleInv'
    BY <2>11 DEF FindWitnesses, Goto
  <2>12. ASSUME NEW q \in Players, NotifyWitness(s, q) PROVE StaleInv'
    BY <2>12 DEF NotifyWitness
  <2>13. ASSUME FinishMove(s) PROVE StaleInv'
    BY <2>13 DEF FinishMove, Return, Goto, receiveClientData
  <2>14. ASSUME ComparePlace(s) \/ StorePlace(s) \/ SaveFails(s) \/ RememberPlace(s)
         PROVE  StaleInv'
    BY <2>14
    DEF ComparePlace, StorePlace, SaveFails, RememberPlace, AfterSave, Goto
  <2>15. ASSUME Leave(s) PROVE StaleInv'
    BY <2>15 DEF Leave, cancelPositionTimer, Unregister, removeSession, Goto
  <2>16. ASSUME Close(s) PROVE StaleInv'
    BY <2>16 DEF Close, closeSocket, Return, Goto
  <2> QED BY <1>1, <2>1, <2>2, <2>3, <2>4, <2>5, <2>6, <2>7, <2>8, <2>9, <2>10, <2>11,
        <2>12, <2>13, <2>14, <2>15, <2>16 DEF HandlerStep
<1>2. ASSUME NEW s \in Sessions, HandlerBegins(s)
      PROVE  StaleInv'
  <2>1. ASSUME NEW a \in Accounts, LoginSucceeds(s, a) PROVE StaleInv'
    BY <2>1 DEF LoginSucceeds, Handles, cancelLoginTimer, receiveClientData
  <2>2. ASSUME LoginFails(s) PROVE StaleInv'
    BY <2>2 DEF LoginFails, Handles, closeSocket, TakeRead
  <2>3. ASSUME AnswerInLobby(s) PROVE StaleInv'
    BY <2>3 DEF AnswerInLobby, Handles, receiveClientData
  <2>4. ASSUME NEW p \in Players, SelectCharacter(s, p) PROVE StaleInv'
    BY <2>4 DEF SelectCharacter, Handles, Goto, TakeRead
  <2>5. ASSUME NEW to \in Places, MoveCharacter(s, to) PROVE StaleInv'
    BY <2>5 DEF MoveCharacter, InGameCommand, Handles, Goto, TakeRead
  <2>6. ASSUME NEW c \in AllCommands, AnswerAndReceive(s, c) PROVE StaleInv'
    BY <2>6 DEF AnswerAndReceive, InGameCommand, Handles, receiveClientData
  <2>7. ASSUME NEW c \in AllCommands, AnswerOnly(s, c) PROVE StaleInv'
    BY <2>7 DEF AnswerOnly, InGameCommand, Handles, TakeRead
  <2>8. ASSUME Logout(s) PROVE StaleInv'
    BY <2>8 DEF Logout, InGameCommand, Handles, BeginSave, Goto, TakeRead
  <2>9. ASSUME EndOfFile(s) PROVE StaleInv'
    BY <2>9 DEF EndOfFile, BeginSave, Goto, TakeRead
  <2>10. ASSUME ReadError(s) PROVE StaleInv'
    BY <2>10 DEF ReadError, Unregister, removeSession, TakeRead, Goto
  <2> QED BY <1>2, <2>1, <2>2, <2>3, <2>4, <2>5, <2>6, <2>7, <2>8, <2>9,
             <2>10 DEF HandlerBegins
<1>3. ASSUME NEW s \in Sessions, TimerStep(s)
      PROVE  StaleInv'
  BY <1>3
     DEF TimerStep, LoginTimerExpires, onLoginTimeout, PositionTimerFires,
         TimerComparesPlace, TimerStoresPlace, TimerSaveFails,
         TimerRemembersPlace, BothRemember, closeSocket,
         RestartTimer, AfterSave, Goto
<1>4. ASSUME NEW s \in Sessions, Environment(s)
      PROVE  StaleInv'
  BY <1>4
     DEF Environment, Accept, AcceptGone, DataArrives, ClientCloses,
         ReadFails, receiveClientData
<1>5. CASE UNCHANGED vars
  BY <1>5 DEF vars
<1> QED BY <1>1, <1>2, <1>3, <1>4, <1>5 DEF Next

\* StaleInv holds initially: nobody is in the game and nobody is registered.
LEMMA StaleInvInit ==
    ASSUME Init
    PROVE  StaleInv
BY GameAssumption DEF Init, StaleInv, Registered

\* A registry entry whose session is gone was left by a LOGOUT or by a session
\* that had been silenced (StaleEntriesExplained).
THEOREM StaleEntriesAreExplained == Spec => []StaleEntriesExplained
<1>1. Init => RegistryInv /\ StaleInv
  BY RegistryInvInit, StaleInvInit
<1>2. TypeOK /\ HandlerOK /\ RegistryInv /\ [Next]_vars => RegistryInv'
  BY RegistryStep
<1>3. TypeOK /\ HandlerOK /\ RegistryInv /\ StaleInv /\ [Next]_vars => StaleInv'
  BY StaleStep
<1>4. TypeOK /\ HandlerOK /\ RegistryInv /\ StaleInv => StaleEntriesExplained
  <2> SUFFICES ASSUME TypeOK, HandlerOK, RegistryInv, StaleInv,
                      NEW p \in Players, sessions[p] # NoSession, ~Alive(sessions[p])
               PROVE  lastCommand[sessions[p]] \in {"LOGOUT", "PING", "ATTACK_OTHER"}
    BY DEF StaleEntriesExplained
  <2> DEFINE s == sessions[p]
  <2>1. s \in Sessions
    BY DEF TypeOK, SessionManagerTypeOK
  <2>2. Registered(s) /\ socket[s] # "none"
    BY <2>1 DEF RegistryInv, RegistryNamesItsPlayer, Registered, HandlerOK
  <2>3. pc[s] = "idle" /\ read[s] = "none"
    BY <2>2 DEF Alive
  <2> QED BY <2>1, <2>2, <2>3 DEF StaleInv
<1> QED BY <1>1, <1>2, <1>3, <1>4, TypeCorrect, PTL DEF Spec

-----------------------------------------------------------------------------
(* Saved places.                                                           *)

Walked(p) == Walkable \cup {InitialDb[p], Ground[InitialDb[p]]}

\* Without colliding accesses of the map, a player in the game has an entry in
\* it, and every place on its way to a row has been walked on or came from there.
WalkedInv ==
    /\ \A p \in Players : db[p] \in Walked(p)
    /\ \A p \in Placed : playerPositions[p] \in Walked(p)
    /\ \A s \in Sessions :
           /\ state[s] = "InGame" => player[s] \in Placed
           /\ pc[s] = "registering" => subject[s] \in Placed
           /\ pc[s] = "placing" => carried[s] \in Walked(subject[s])
           /\ pc[s] \in Comparing \cup Saving => carried[s] \in Walked(player[s])
           /\ positionTimer[s] \in {"comparing", "saving"} => timerPlace[s] \in Walked(player[s])

\* Without collisions an access of the map is exact (mapmanager.cpp:65-78).
LEMMA ExactAccess ==
    ASSUME ~MapRaces, NEW s \in Sessions
    PROVE  /\ ~Racing(s)
           /\ \A p : ReadOutcomes(p, Racing(s)) = {getPlayerPosition(p)}
           /\ \A p : ProximityOutcomes(p, Racing(s)) = {getPlayersInProximity(p)}
           /\ \A p, place : WriteOutcome(p, place, Racing(s)) =>
                                updatePlayerPosition(p, place)
<1>1. ~Racing(s)
  BY DEF Racing
<1> QED BY <1>1 DEF ReadOutcomes, ProximityOutcomes, WriteOutcome

\* An update of a walked place keeps every place walked.
LEMMA UpdateKeepsWalked ==
    ASSUME \A q \in Placed : playerPositions[q] \in Walked(q),
           NEW p \in Players, NEW place \in Walked(p), updatePlayerPosition(p, place)
    PROVE  /\ Placed' = Placed \cup {p}
           /\ \A q \in Placed' : playerPositions'[q] \in Walked(q)
<1>1. Placed' = Placed \cup {p}
  BY DEF updatePlayerPosition, Placed
<1>2. \A q \in Placed \cup {p} :
          playerPositions'[q] = IF q = p THEN Ground[place] ELSE playerPositions[q]
  BY DEF updatePlayerPosition
<1>3. Ground[place] \in Walked(p)
  <2>1. CASE place \in Walkable
    BY <2>1, WorldAssumption DEF Walked
  <2>2. CASE place \in {InitialDb[p], Ground[InitialDb[p]]}
    BY <2>2, WorldAssumption, PlayerManagerAssumption DEF Walked
  <2> QED BY <2>1, <2>2 DEF Walked
<1> QED BY <1>1, <1>2, <1>3

\* A step that moves no place towards a row and changes neither the rows nor the
\* entries keeps WalkedInv.
LEMMA QuietKeepsWalked ==
    ASSUME WalkedInv,
           UNCHANGED <<db, playerPositions, state, player>>,
           \A u \in Sessions :
               /\ \/ pc'[u] = pc[u] /\ carried'[u] = carried[u] /\ subject'[u] = subject[u]
                  \/ pc'[u] \notin {"registering", "placing"} \cup Comparing \cup Saving
               /\ positionTimer'[u] \in {"comparing", "saving"} =>
                      /\ positionTimer[u] \in {"comparing", "saving"}
                      /\ timerPlace'[u] = timerPlace[u]
    PROVE  WalkedInv'
<1>1. Placed' = Placed
  BY DEF Placed
<1>2. ASSUME NEW u \in Sessions
      PROVE  /\ state'[u] = "InGame" => player'[u] \in Placed'
             /\ pc'[u] = "registering" => subject'[u] \in Placed'
             /\ pc'[u] = "placing" => carried'[u] \in Walked(subject'[u])
             /\ pc'[u] \in Comparing \cup Saving =>
                    carried'[u] \in Walked(player'[u])
             /\ positionTimer'[u] \in {"comparing", "saving"} => timerPlace'[u] \in Walked(player'[u])
  BY <1>1 DEF WalkedInv
<1>3. /\ \A p \in Players : db'[p] \in Walked(p)
      /\ \A p \in Placed' : playerPositions'[p] \in Walked(p)
  BY <1>1 DEF WalkedInv
<1> QED BY <1>2, <1>3 DEF WalkedInv, Walked

\* Every place on its way to a row was read from an entry or from the row, and
\* entries are only set to the row's place or to a walkable one.
LEMMA WalkedStep ==
    ASSUME ~MapRaces, TypeOK, HandlerOK, WalkedInv, [Next]_vars
    PROVE  WalkedInv'
<1> USE ExactAccess, PlayerManagerAssumption
<1> USE DEF TypeOK, HandlerOK, IsOpen, Steps, WorldTypeOK,
            PlayerManagerTypeOK, Placed, WalkedInv, Walked
<1>1. ASSUME NEW s \in Sessions, HandlerStep(s)
      PROVE  WalkedInv'
  <2>1. ASSUME PlaceInWorld(s)
        PROVE  WalkedInv'
    <3>1. /\ subject[s] \in Players /\ carried[s] \in Walked(subject[s])
          /\ updatePlayerPosition(subject[s], carried[s])
      BY <2>1 DEF PlaceInWorld, WalkedInv
    <3>2. /\ Placed' = Placed \cup {subject[s]}
          /\ \A q \in Placed' : playerPositions'[q] \in Walked(q)
      BY <3>1, UpdateKeepsWalked DEF WalkedInv
    <3>3. ASSUME NEW u \in Sessions
          PROVE  /\ state'[u] = "InGame" => player'[u] \in Placed'
                 /\ pc'[u] = "registering" => subject'[u] \in Placed'
                 /\ pc'[u] = "placing" => carried'[u] \in Walked(subject'[u])
                 /\ pc'[u] \in Comparing \cup Saving =>
                        carried'[u] \in Walked(player'[u])
                 /\ positionTimer'[u] \in {"comparing", "saving"} => timerPlace'[u] \in Walked(player'[u])
      BY <2>1, <3>2 DEF PlaceInWorld, Goto, TakeRead, WalkedInv
    <3>4. \A p \in Players : db'[p] \in Walked(p)
      BY <2>1 DEF PlaceInWorld, WalkedInv
    <3> QED BY <3>2, <3>3, <3>4 DEF WalkedInv, Walked
  <2>2. ASSUME Register(s)
        PROVE  WalkedInv'
    BY <2>2 DEF Register, Goto
  <2>3. ASSUME ComparePlace(s) \/ StorePlace(s) \/ SaveFails(s) \/ RememberPlace(s)
        PROVE  WalkedInv'
    <3>1. \A p \in Players : db'[p] \in Walked(p)
      <4>1. CASE UNCHANGED db
        BY <4>1 DEF WalkedInv
      <4>2. CASE StorePlace(s)
        <5>1. player[s] \in Players /\ carried[s] \in Walked(player[s])
          BY <4>2 DEF StorePlace, WalkedInv
        <5> QED BY <4>2, <5>1 DEF StorePlace, storePosition, WalkedInv
      <4> QED BY <2>3, <4>1, <4>2 DEF ComparePlace, SaveFails, RememberPlace
    <3>2. UNCHANGED <<playerPositions, state, player, subject, carried, positionTimer, timerPlace>>
      BY <2>3 DEF ComparePlace, StorePlace, SaveFails, RememberPlace
    <3>3. \A u \in Sessions :
              \/ pc'[u] = pc[u]
              \/ pc'[u] \notin {"registering", "placing"} \cup Comparing \cup Saving
              \/ pc[u] \in Comparing /\ pc'[u] \in Saving
      BY <2>3 DEF ComparePlace, StorePlace, SaveFails, RememberPlace, AfterSave, Goto
    <3>4. Placed' = Placed /\ \A q \in Placed' : playerPositions'[q] \in Walked(q)
      BY <3>2 DEF WalkedInv
    <3>5. ASSUME NEW u \in Sessions
          PROVE  /\ state'[u] = "InGame" => player'[u] \in Placed'
                 /\ pc'[u] = "registering" => subject'[u] \in Placed'
                 /\ pc'[u] = "placing" => carried'[u] \in Walked(subject'[u])
                 /\ pc'[u] \in Comparing \cup Saving =>
                        carried'[u] \in Walked(player'[u])
                 /\ positionTimer'[u] \in {"comparing", "saving"} =>
                        timerPlace'[u] \in Walked(player'[u])
      <4> HIDE DEF TypeOK, HandlerOK, Walked, Placed
      <4>1. /\ state[u] = "InGame" => player[u] \in Placed
            /\ pc[u] = "registering" => subject[u] \in Placed
            /\ pc[u] = "placing" => carried[u] \in Walked(subject[u])
            /\ pc[u] \in Comparing \cup Saving => carried[u] \in Walked(player[u])
            /\ positionTimer[u] \in {"comparing", "saving"} =>
                   timerPlace[u] \in Walked(player[u])
        BY DEF WalkedInv
      <4> QED BY <3>2, <3>3, <3>4, <4>1
    <3> QED BY <3>1, <3>4, <3>5 DEF WalkedInv, Walked
  <2>4. ASSUME \/ LookAround(s)
              \/ (\E q \in Players : DescribePlayer(s, q))
              \/ (\E q \in Players : SkipPlayer(s, q))
              \/ TellPlayer(s)
              \/ ComposeAnnouncement(s)
              \/ Announce(s)
              \/ (\E t \in Sessions : AnnounceTo(s, t))
              \/ FinishSelection(s)
              \/ FindWitnesses(s)
              \/ (\E q \in Players : NotifyWitness(s, q))
              \/ FinishMove(s)
              \/ Leave(s)
              \/ Close(s)
        PROVE  WalkedInv'
    <3> HIDE DEF WalkedInv, Walked
    <3>1. /\ UNCHANGED <<db, playerPositions, state, player>>
          /\ \A u \in Sessions :
                 /\ \/ /\ pc'[u] = pc[u]
                       /\ carried'[u] = carried[u] /\ subject'[u] = subject[u]
                    \/ pc'[u] \notin {"registering", "placing"} \cup Comparing \cup Saving
                 /\ positionTimer'[u] \in {"comparing", "saving"} =>
                        /\ positionTimer[u] \in {"comparing", "saving"}
                        /\ timerPlace'[u] = timerPlace[u]
      BY <2>4
         DEF LookAround, Goto, DescribePlayer, getPlayerPosition, SkipPlayer,
             TellPlayer, ComposeAnnouncement, Announce, AnnounceTo,
             FinishSelection, Return, receiveClientData, FindWitnesses,
             NotifyWitness, FinishMove, Leave, cancelPositionTimer, Close, closeSocket
    <3> QED BY <3>1, QuietKeepsWalked
  <2> QED BY <1>1, <2>1, <2>2, <2>3, <2>4 DEF HandlerStep
<1>2. ASSUME NEW s \in Sessions, HandlerBegins(s)
      PROVE  WalkedInv'
  <2>1. ASSUME NEW p \in Players, SelectCharacter(s, p)
        PROVE  WalkedInv'
    BY <2>1
       DEF SelectCharacter, Handles, getCharacterInfo, storedPosition, Goto,
           TakeRead
  <2>2. ASSUME NEW to \in Places, MoveCharacter(s, to)
        PROVE  WalkedInv'
    <3>1. /\ player[s] \in Players /\ to \in Walked(player[s])
          /\ updatePlayerPosition(player[s], to)
      BY <2>2 DEF MoveCharacter, InGameCommand, Handles,
             isPositionWalkable, Walked
    <3>2. /\ Placed' = Placed \cup {player[s]}
          /\ \A q \in Placed' : playerPositions'[q] \in Walked(q)
      BY <3>1, UpdateKeepsWalked DEF WalkedInv
    <3>3. ASSUME NEW u \in Sessions
          PROVE  /\ state'[u] = "InGame" => player'[u] \in Placed'
                 /\ pc'[u] = "registering" => subject'[u] \in Placed'
                 /\ pc'[u] = "placing" => carried'[u] \in Walked(subject'[u])
                 /\ pc'[u] \in Comparing \cup Saving =>
                        carried'[u] \in Walked(player'[u])
                 /\ positionTimer'[u] \in {"comparing", "saving"} => timerPlace'[u] \in Walked(player'[u])
      BY <2>2, <3>2 DEF MoveCharacter, InGameCommand, Handles, Goto, TakeRead, WalkedInv
    <3>4. \A p \in Players : db'[p] \in Walked(p)
      BY <2>2 DEF MoveCharacter, InGameCommand, Handles, WalkedInv
    <3> QED BY <3>2, <3>3, <3>4 DEF WalkedInv, Walked
  <2>3. ASSUME Logout(s)
        PROVE  WalkedInv'
    BY <2>3
       DEF Logout, InGameCommand, Handles, BeginSave, getPlayerPosition,
           Goto, TakeRead
  <2>4. ASSUME EndOfFile(s)
        PROVE  WalkedInv'
    BY <2>4 DEF EndOfFile, BeginSave, getPlayerPosition, Goto, TakeRead
  <2>5. ASSUME \/ (\E a \in Accounts : LoginSucceeds(s, a))
              \/ LoginFails(s)
              \/ AnswerInLobby(s)
              \/ (\E c \in AllCommands : AnswerAndReceive(s, c))
              \/ (\E c \in AllCommands : AnswerOnly(s, c))
              \/ ReadError(s)
        PROVE  WalkedInv'
    BY <2>5
       DEF LoginSucceeds, Handles, cancelLoginTimer, receiveClientData,
           LoginFails, closeSocket, TakeRead, AnswerInLobby,
           AnswerAndReceive, InGameCommand, AnswerOnly, ReadError, Goto
  <2> QED BY <1>2, <2>1, <2>2, <2>3, <2>4, <2>5 DEF HandlerBegins
<1>3. ASSUME NEW s \in Sessions, TimerStep(s)
      PROVE  WalkedInv'
  <2>1. ASSUME LoginTimerExpires(s)
        PROVE  WalkedInv'
    BY <2>1 DEF LoginTimerExpires
  <2>2. ASSUME onLoginTimeout(s)
        PROVE  WalkedInv'
    BY <2>2 DEF onLoginTimeout, closeSocket
  <2>3. ASSUME PositionTimerFires(s)
        PROVE  WalkedInv'
    BY <2>3 DEF PositionTimerFires, getPlayerPosition
  <2>4. ASSUME TimerStoresPlace(s)
        PROVE  WalkedInv'
    BY <2>4 DEF TimerStoresPlace, storePosition
  <2>5. ASSUME \/ TimerComparesPlace(s) \/ TimerSaveFails(s)
               \/ TimerRemembersPlace(s) \/ BothRemember(s)
        PROVE  WalkedInv'
    <3> HIDE DEF WalkedInv, Walked
    <3>1. UNCHANGED <<db, playerPositions, state, player, carried, subject>>
      BY <2>5 DEF TimerComparesPlace, TimerSaveFails, TimerRemembersPlace, BothRemember
    <3>2. \A u \in Sessions :
              /\ \/ pc'[u] = pc[u]
                 \/ pc'[u] \notin {"registering", "placing"} \cup Comparing \cup Saving
              /\ positionTimer'[u] \in {"comparing", "saving"} =>
                     /\ positionTimer[u] \in {"comparing", "saving"}
                     /\ timerPlace'[u] = timerPlace[u]
      BY <2>5
      DEF TimerComparesPlace, TimerSaveFails, TimerRemembersPlace, BothRemember,
          RestartTimer, AfterSave, Goto
    <3> QED BY <3>1, <3>2, QuietKeepsWalked
  <2> QED BY <1>3, <2>1, <2>2, <2>3, <2>4, <2>5 DEF TimerStep
<1>4. ASSUME NEW s \in Sessions, Environment(s)
      PROVE  WalkedInv'
  BY <1>4
     DEF Environment, Accept, receiveClientData, AcceptGone, DataArrives,
         ClientCloses, ReadFails
<1>5. CASE UNCHANGED vars
  BY <1>5 DEF vars
<1> QED BY <1>1, <1>2, <1>3, <1>4, <1>5 DEF Next

\* Initially every row holds its initial position and the world is empty.
LEMMA WalkedInvInit ==
    ASSUME Init
    PROVE  WalkedInv
BY PlayerManagerAssumption
DEF Init, WorldInit, PlayerManagerInit, Placed, Walked, WalkedInv

\* As long as accesses of the position table do not collide, no row ever holds
\* a place where its character neither started nor could walk: the (0, 0, 0)
\* of a missing entry is never saved (SavedPlacesWalked).
THEOREM OnlyWalkedPlacesAreSaved ==
    ASSUME ~MapRaces
    PROVE  Spec => []SavedPlacesWalked
<1>1. Init => WalkedInv
  BY WalkedInvInit
<1>2. TypeOK /\ HandlerOK /\ WalkedInv /\ [Next]_vars => WalkedInv'
  BY WalkedStep
<1>3. WalkedInv => SavedPlacesWalked
  <2> HIDE DEF Comparing, Saving
  <2>1. WalkedInv => \A p \in Players : db[p] \in Walked(p)
    BY DEF WalkedInv
  <2>2. \A p \in Players : Walked(p) = Walkable \cup {InitialDb[p], Ground[InitialDb[p]]}
    BY DEF Walked
  <2> QED BY <2>1, <2>2 DEF SavedPlacesWalked
<1> QED BY <1>1, <1>2, <1>3, TypeCorrect, PTL DEF Spec

-----------------------------------------------------------------------------
\* Nobody else writes the row, and the last save of the session has not begun.
Undisturbed(s) ==
    /\ state[s] = "InGame" /\ IsOpen(s) /\ Sole(s)
    /\ pc[s] \notin Ending \cup {"leaving", "closing"}

\* last_saved_ starts at (0, 0, 0), only a session in the game saves, and between
\* the UPDATE of the timer and its last_saved_ the row holds the timer's place.
SavedInv ==
    \A s \in Sessions :
        /\ state[s] # "InGame" => lastSaved[s] = Origin
        /\ Undisturbed(s) =>
               IF positionTimer[s] = "remembering" THEN db[player[s]] = timerPlace[s]
               ELSE lastSaved[s] # Origin => db[player[s]] = lastSaved[s]

\* A step of a session that ends keeps SavedInv if nobody undisturbed loses its row,
\* its timer or its last_saved_.
LEMMA EndingKeepsSaved ==
    ASSUME SavedInv, NEW s \in Sessions, state[s] = "InGame",
           pc'[s] \in Ending \cup {"closing", "leaving"},
           UNCHANGED <<socket, state, player>>,
           \A u \in Sessions \ {s} :
               /\ pc'[u] = pc[u] /\ lastSaved'[u] = lastSaved[u]
               /\ positionTimer'[u] = positionTimer[u] /\ timerPlace'[u] = timerPlace[u]
               /\ Undisturbed(u) => db'[player[u]] = db[player[u]]
    PROVE  SavedInv'
<1>1. ASSUME NEW u \in Sessions \ {s}
      PROVE  /\ state'[u] # "InGame" => lastSaved'[u] = Origin
             /\ Undisturbed(u)' =>
                    IF positionTimer'[u] = "remembering"
                    THEN db'[player'[u]] = timerPlace'[u]
                    ELSE lastSaved'[u] # Origin => db'[player'[u]] = lastSaved'[u]
  <2>1. Undisturbed(u)' => Undisturbed(u)
    BY <1>1 DEF Undisturbed, Sole, IsOpen
  <2> HIDE DEF Undisturbed
  <2> QED BY <1>1, <2>1 DEF SavedInv
<1>2. ~Undisturbed(s)' /\ state'[s] = "InGame"
  BY DEF Undisturbed
<1> QED BY <1>1, <1>2 DEF SavedInv

\* A step keeps SavedInv if it writes no row and no last_saved_, leaves a timer that
\* has written alone, and ends no last save.
LEMMA QuietKeepsSaved ==
    ASSUME SavedInv, UNCHANGED <<db, lastSaved, player>>,
           \A u \in Sessions :
               /\ state'[u] = "InGame" <=> state[u] = "InGame"
               /\ socket'[u] = "open" => socket[u] = "open"
               /\ \/ pc'[u] = pc[u]
                  \/ pc[u] \notin Ending \cup {"leaving", "closing"}
                  \/ pc'[u] = "closing" \/ socket'[u] = "closed"
               /\ positionTimer'[u] = "remembering" <=> positionTimer[u] = "remembering"
               /\ positionTimer[u] = "remembering" => timerPlace'[u] = timerPlace[u]
    PROVE  SavedInv'
<1>1. \A u \in Sessions : Undisturbed(u)' => Undisturbed(u)
  BY DEF Undisturbed, Sole, IsOpen
<1> HIDE DEF Undisturbed
<1> QED BY <1>1 DEF SavedInv

\* A row is written by a session that plays its character: nobody else then plays
\* that character undisturbed.
LEMMA OthersUndisturbed ==
    ASSUME NEW s \in Sessions, player[s] \in Players, NEW place, TypeOK,
           storePosition(player[s], place)
    PROVE  \A u \in Sessions \ {s} : Undisturbed(u) => db'[player[u]] = db[player[u]]
BY DEF Undisturbed, Sole, storePosition, TypeOK, PlayerManagerTypeOK

\* The last save of a session ends its claim; until then only the timer of the one
\* session that plays the character writes the row and then last_saved_.
LEMMA SavedStep ==
    ASSUME TypeOK, HandlerOK, SavedInv, [Next]_vars
    PROVE  SavedInv'
<1> USE GameAssumption
<1> USE DEF TypeOK, HandlerOK, IsOpen, Steps, SavedInv, Undisturbed, Sole
<1>1. ASSUME NEW s \in Sessions, HandlerStep(s)
      PROVE  SavedInv'
  <2>1. ASSUME Register(s)
        PROVE  SavedInv'
    BY <2>1 DEF Register, Goto
  <2>2. ASSUME StorePlace(s)
        PROVE  SavedInv'
    <3>1. /\ UNCHANGED <<socket, state, player, positionTimer, timerPlace, lastSaved>>
          /\ pc[s] \in Saving /\ pc'[s] \in Ending
          /\ \A u \in Sessions \ {s} : pc'[u] = pc[u]
      BY <2>2 DEF StorePlace, Goto
    <3>2. \A u \in Sessions \ {s} : Undisturbed(u) => db'[player[u]] = db[player[u]]
      BY <2>2, OthersUndisturbed DEF StorePlace
    <3>3. state[s] = "InGame"
      BY <3>1
    <3> HIDE DEF TypeOK, HandlerOK, SavedInv, Undisturbed
    <3> QED BY <3>1, <3>2, <3>3, EndingKeepsSaved
  <2>3. ASSUME ComparePlace(s) \/ SaveFails(s) \/ RememberPlace(s)
        PROVE  SavedInv'
    <3>1. /\ UNCHANGED <<socket, state, player, positionTimer, timerPlace, db>>
          /\ pc[s] \in Ending
          /\ \A u \in Sessions \ {s} : pc'[u] = pc[u] /\ lastSaved'[u] = lastSaved[u]
      BY <2>3 DEF ComparePlace, SaveFails, RememberPlace, Goto
    <3>2. state[s] = "InGame"
      BY <3>1
    <3>3. pc'[s] \in Ending \cup {"closing", "leaving"}
      <4>1. pc[s] \in Steps
        BY DEF TypeOK
      <4> HIDE DEF TypeOK, HandlerOK, SavedInv
      <4>2. ASSUME NEW step \in Steps, Goto(s, step)
            PROVE  pc'[s] = step
        BY <4>2 DEF Goto, TypeOK
      <4>3. AfterSave(s) \in {"closing", "leaving"}
        BY DEF AfterSave
      <4> QED BY <2>3, <4>2, <4>3 DEF ComparePlace, SaveFails, RememberPlace, Steps
    <3> HIDE DEF TypeOK, HandlerOK, SavedInv, Undisturbed
    <3> QED BY <3>1, <3>2, <3>3, EndingKeepsSaved
  <2>4. ASSUME \/ PlaceInWorld(s)
              \/ LookAround(s)
              \/ (\E q \in Players : DescribePlayer(s, q))
              \/ (\E q \in Players : SkipPlayer(s, q))
              \/ TellPlayer(s)
              \/ ComposeAnnouncement(s)
              \/ Announce(s)
              \/ (\E t \in Sessions : AnnounceTo(s, t))
              \/ FinishSelection(s)
              \/ FindWitnesses(s)
              \/ (\E q \in Players : NotifyWitness(s, q))
              \/ FinishMove(s)
              \/ Leave(s)
              \/ Close(s)
        PROVE  SavedInv'
    <3>1. /\ UNCHANGED <<db, lastSaved, state, player>>
          /\ \A u \in Sessions :
                 /\ pc'[u] = pc[u] \/ pc[u] \notin Ending \cup {"leaving", "closing"}
                        \/ pc'[u] = "closing" \/ socket'[u] = "closed"
                 /\ socket'[u] = "open" => socket[u] = "open"
                 /\ positionTimer'[u] = "remembering" <=> positionTimer[u] = "remembering"
                 /\ timerPlace'[u] = timerPlace[u]
      BY <2>4
       DEF PlaceInWorld, Goto, LookAround, DescribePlayer, SkipPlayer,
           TellPlayer, ComposeAnnouncement, Announce, AnnounceTo,
           FinishSelection, Return, receiveClientData, FindWitnesses,
           NotifyWitness, FinishMove, Leave, cancelPositionTimer, Close, closeSocket
    <3> HIDE DEF TypeOK, HandlerOK, SavedInv, Undisturbed
    <3> QED BY <3>1, QuietKeepsSaved
  <2> QED BY <1>1, <2>1, <2>2, <2>3, <2>4 DEF HandlerStep
<1>2. ASSUME NEW s \in Sessions, HandlerBegins(s)
      PROVE  SavedInv'
  <2>1. /\ UNCHANGED <<db, lastSaved, player, positionTimer, timerPlace>>
        /\ \A u \in Sessions : pc'[u] = pc[u] \/ pc[u] = "idle"
        /\ \A u \in Sessions : socket'[u] = "open" => socket[u] = "open"
        /\ \A u \in Sessions : state'[u] = "InGame" <=> state[u] = "InGame"
    BY <1>2
     DEF HandlerBegins, LoginSucceeds, Handles, cancelLoginTimer,
         receiveClientData, LoginFails, closeSocket, TakeRead, AnswerInLobby,
         SelectCharacter, Goto, MoveCharacter, InGameCommand,
         AnswerAndReceive, AnswerOnly, Logout, BeginSave,
         EndOfFile, ReadError
  <2> HIDE DEF TypeOK, HandlerOK, SavedInv, Undisturbed
  <2> QED BY <2>1, QuietKeepsSaved
<1>3. ASSUME NEW s \in Sessions, TimerStep(s)
      PROVE  SavedInv'
  <2>1. ASSUME TimerStoresPlace(s)
        PROVE  SavedInv'
    <3>1. /\ UNCHANGED <<socket, state, player, pc, timerPlace, lastSaved>>
          /\ positionTimer' = [positionTimer EXCEPT ![s] = "remembering"]
          /\ db' = [db EXCEPT ![player[s]] = timerPlace[s]]
          /\ state[s] = "InGame" /\ player[s] \in Players
      BY <2>1 DEF TimerStoresPlace, storePosition
    <3>2. \A u \in Sessions \ {s} : Undisturbed(u) => db'[player[u]] = db[player[u]]
      BY <2>1, <3>1, OthersUndisturbed DEF TimerStoresPlace
    <3>3. db'[player[s]] = timerPlace[s]
      BY <3>1 DEF PlayerManagerTypeOK
    <3> QED BY <3>1, <3>2, <3>3
  <2>2. ASSUME TimerRemembersPlace(s)
        PROVE  SavedInv'
    BY <2>2 DEF TimerRemembersPlace, RestartTimer
  <2>3. ASSUME BothRemember(s)
        PROVE  SavedInv'
    <3>1. /\ UNCHANGED <<socket, state, player, db>>
          /\ pc'[s] \in {"closing", "leaving"} /\ state[s] = "InGame"
          /\ \A u \in Sessions \ {s} :
                 /\ pc'[u] = pc[u] /\ lastSaved'[u] = lastSaved[u]
                 /\ positionTimer'[u] = positionTimer[u] /\ timerPlace'[u] = timerPlace[u]
      BY <2>3 DEF BothRemember, RestartTimer, AfterSave, Goto
    <3> HIDE DEF TypeOK, HandlerOK, SavedInv, Undisturbed
    <3> QED BY <3>1, EndingKeepsSaved
  <2>4. ASSUME \/ LoginTimerExpires(s)
              \/ onLoginTimeout(s)
              \/ PositionTimerFires(s)
              \/ TimerComparesPlace(s)
              \/ TimerSaveFails(s)
        PROVE  SavedInv'
    <3>1. /\ UNCHANGED <<db, lastSaved, state, player, pc>>
          /\ \A u \in Sessions :
                 /\ socket'[u] = "open" => socket[u] = "open"
                 /\ positionTimer'[u] = "remembering" <=> positionTimer[u] = "remembering"
                 /\ positionTimer[u] = "remembering" => timerPlace'[u] = timerPlace[u]
      BY <2>4
      DEF LoginTimerExpires, onLoginTimeout, closeSocket, PositionTimerFires,
          TimerComparesPlace, TimerSaveFails, RestartTimer
    <3> QED BY <3>1
  <2> QED BY <1>3, <2>1, <2>2, <2>3, <2>4 DEF TimerStep
<1>4. ASSUME NEW s \in Sessions, Environment(s)
      PROVE  SavedInv'
  BY <1>4
     DEF Environment, Accept, receiveClientData, AcceptGone, DataArrives,
         ClientCloses, ReadFails
<1>5. CASE UNCHANGED vars
  BY <1>5 DEF vars
<1> QED BY <1>1, <1>2, <1>3, <1>4, <1>5 DEF Next

\* Initially last_saved_ is (0, 0, 0) everywhere.
LEMMA SavedInvInit ==
    ASSUME Init
    PROVE  SavedInv
BY DEF Init, SavedInv, Undisturbed

\* What a session takes for saved is saved until its last save begins
\* (LastSavedIsStored): whatever handlers of its own and of others run between the
\* statements of the timer's save, for any number of sessions, with failing saves
\* and colliding accesses of the position table.
THEOREM LastSavedIsTheRow == Spec => []LastSavedIsStored
<1>1. Init => SavedInv
  BY SavedInvInit
<1>2. TypeOK /\ HandlerOK /\ SavedInv /\ [Next]_vars => SavedInv'
  BY SavedStep
<1>3. SavedInv => LastSavedIsStored
  BY DEF SavedInv, Undisturbed, LastSavedIsStored
<1> QED BY <1>1, <1>2, <1>3, TypeCorrect, PTL DEF Spec

-----------------------------------------------------------------------------
(* Awareness.                                                              *)

\* s has looked around and t is in the game: s was told of t, or left it out,
\* or is still going through its list, or t is still to tell s.
AwareOf(s, t) ==
    \/ view[s][player[t]] # NoPlace
    \/ player[t] \in skipped[s]
    \/ pc[s] \in {"describing", "telling"} /\ player[t] \in nearby[s]
    \/ pc[t] \in {"looking", "describing", "telling", "announcing"}
    \/ pc[t] = "announcingTo" /\ s \in audience[t]

AwarenessInv ==
    \A s, t \in Sessions :
        /\ IsOpen(s) /\ Registered(s) /\ pc[s] # "looking"
        /\ state[t] = "InGame" /\ player[t] # player[s]
        => AwareOf(s, t)

\* What a client is sent is a place: a view that names a place keeps naming one.
LEMMA ToldIsKnown ==
    ASSUME TypeOK, NEW u \in Sessions, NEW p \in Players, NEW place \in Places,
           view' = Told(u, p, place)
    PROVE  /\ \A s \in Sessions, q \in Players :
                  view[s][q] # NoPlace => view'[s][q] # NoPlace
           /\ IsOpen(u) => view'[u][p] # NoPlace
<1> USE GameAssumption DEF TypeOK
<1>1. CASE IsOpen(u)
  <2>1. view' = [view EXCEPT ![u][p] = place]
    BY <1>1 DEF Told
  <2> QED BY <2>1
<1>2. CASE ~IsOpen(u)
  <2>1. view' = view
    BY <1>2 DEF Told
  <2> QED BY <1>2, <2>1
<1> QED BY <1>1, <1>2

\* An open registered session is found by getAllSessions.
LEMMA OpenIsFound ==
    ASSUME TypeOK, HandlerOK, TimerRuns, NEW s \in Sessions, IsOpen(s), Registered(s)
    PROVE  s \in getAllSessions(Live)
<1>1. Alive(s)
  BY DEF Alive, TimerRuns, IsOpen, Registered, HandlerOK, TypeOK
<1> QED BY <1>1 DEF getAllSessions, Live, Registered, HandlerOK, TypeOK

\* Who has announced itself is seen by a look around, or out of its sight: it is
\* in the table unless accesses collide.
LEMMA SeenOrSkipped ==
    ASSUME TypeOK, HandlerOK, ~MapRaces => WalkedInv,
           NEW s \in Sessions, LookAround(s),
           NEW t \in Sessions, state[t] = "InGame", player[t] # player[s],
           pc[t] \notin {"looking", "describing", "telling", "announcing"}
    PROVE  player[t] \in nearby'[s] \cup skipped'[s]
<1>1. PICK seen \in ProximityOutcomes(player[s], Racing(s)) :
          /\ nearby' = [nearby EXCEPT ![s] = seen]
          /\ skipped' = [skipped EXCEPT ![s] = @ \cup
                 {q \in Announced \ seen : Racing(s) \/ OutOfSight(player[s], q)}]
  BY DEF LookAround
<1>2. player[t] \in Announced
  BY DEF Announced
<1>3. ASSUME player[t] \notin seen, ~Racing(s)
      PROVE  OutOfSight(player[s], player[t])
  <2>1. seen = getPlayersInProximity(player[s])
    BY <1>3 DEF ProximityOutcomes
  <2>2. CASE {player[s], player[t]} \subseteq Placed
    BY <1>3, <2>1, <2>2 DEF getPlayersInProximity, OutOfSight
  <2>3. CASE ~({player[s], player[t]} \subseteq Placed)
    <3>1. state[s] = "InGame"
      BY DEF LookAround, HandlerOK, Steps
    <3>2. ~MapRaces => {player[s], player[t]} \subseteq Placed
      BY <3>1 DEF WalkedInv
    <3> QED BY <2>3, <3>2 DEF OutOfSight
  <2> QED BY <2>2, <2>3
<1>4. nearby'[s] = seen
  BY <1>1 DEF TypeOK
<1>5. skipped'[s] = skipped[s] \cup
          {q \in Announced \ seen : Racing(s) \/ OutOfSight(player[s], q)}
  BY <1>1 DEF TypeOK
<1> QED BY <1>2, <1>3, <1>4, <1>5

\* A session that looks around finds everybody who has announced itself; one that
\* announces itself later tells every open session of the registry.
LEMMA AwarenessStep ==
    ASSUME TypeOK, HandlerOK, TimerRuns, RegistryInv, ~MapRaces => WalkedInv,
           AwarenessInv, [Next]_vars
    PROVE  AwarenessInv'
<1> USE SessionManagerAssumption, GameAssumption
<1> USE DEF TypeOK, HandlerOK, IsOpen, Steps, SessionManagerTypeOK,
            AwarenessInv, AwareOf, Registered
<1>1. ASSUME NEW s \in Sessions, HandlerStep(s)
      PROVE  AwarenessInv'
  <2>1. ASSUME PlaceInWorld(s)
        PROVE  AwarenessInv'
    BY <2>1 DEF PlaceInWorld, Goto
  <2>2. ASSUME Register(s)
        PROVE  AwarenessInv'
    BY <2>2 DEF Register, addSession, Goto
  <2>3. ASSUME LookAround(s)
        PROVE  AwarenessInv'
    <3>1. /\ pc[s] = "looking" /\ pc' = [pc EXCEPT ![s] = "describing"]
          /\ UNCHANGED <<socket, state, player, sessions, audience, view>>
          /\ \A u \in Sessions \ {s} : nearby'[u] = nearby[u]
          /\ \A u \in Sessions : skipped[u] \subseteq skipped'[u]
      BY <2>3 DEF LookAround, Goto
    <3>2. \A t \in Sessions :
              /\ state[t] = "InGame" /\ player[t] # player[s]
              /\ pc[t] \notin {"looking", "describing", "telling", "announcing"}
              => player[t] \in nearby'[s] \cup skipped'[s]
      <4> HIDE DEF TypeOK, HandlerOK
      <4> QED BY <2>3, SeenOrSkipped
    <3> QED BY <3>1, <3>2
  <2>4. ASSUME NEW q \in Players, DescribePlayer(s, q)
        PROVE  AwarenessInv'
    BY <2>4 DEF DescribePlayer, Goto
  <2>5. ASSUME NEW q \in Players, SkipPlayer(s, q)
        PROVE  AwarenessInv'
    BY <2>5 DEF SkipPlayer
  <2>6. ASSUME TellPlayer(s)
        PROVE  AwarenessInv'
    <3>1. /\ pc[s] = "telling" /\ pc' = [pc EXCEPT ![s] = "describing"]
          /\ UNCHANGED <<socket, state, player, sessions, audience, skipped>>
          /\ nearby' = [nearby EXCEPT ![s] = @ \ {subject[s]}]
      BY <2>6 DEF TellPlayer, Goto
    <3>2. /\ \A u \in Sessions, q \in Players :
                 view[u][q] # NoPlace => view'[u][q] # NoPlace
          /\ IsOpen(s) => view'[s][subject[s]] # NoPlace
      <4>1. /\ subject[s] \in Players /\ carried[s] \in Places
            /\ view' = Told(s, subject[s], carried[s])
        BY <2>6 DEF TellPlayer
      <4> HIDE DEF IsOpen
      <4> QED BY <4>1, ToldIsKnown
    <3> QED BY <3>1, <3>2
  <2>7. ASSUME ComposeAnnouncement(s)
        PROVE  AwarenessInv'
    BY <2>7 DEF ComposeAnnouncement, Goto
  <2>8. ASSUME Announce(s)
        PROVE  AwarenessInv'
    <3>1. /\ pc[s] = "announcing" /\ pc' = [pc EXCEPT ![s] = "announcingTo"]
          /\ UNCHANGED <<socket, state, player, sessions, nearby, view, skipped>>
          /\ audience' = [audience EXCEPT ![s] = getAllSessions(Live)]
      BY <2>8 DEF Announce, Goto
    <3>2. \A u \in Sessions : IsOpen(u) /\ Registered(u) => u \in audience'[s]
      <4> HIDE DEF IsOpen, Registered
      <4>1. \A u \in Sessions : IsOpen(u) /\ Registered(u) => u \in getAllSessions(Live)
        BY OpenIsFound
      <4> QED BY <3>1, <4>1
    <3> QED BY <3>1, <3>2
  <2>9. ASSUME NEW t \in Sessions, AnnounceTo(s, t)
        PROVE  AwarenessInv'
    <3>1. /\ pc[s] = "announcingTo" /\ state[s] = "InGame" /\ player[s] \in Players
          /\ UNCHANGED <<socket, state, player, sessions, pc, nearby, skipped>>
          /\ audience' = [audience EXCEPT ![s] = @ \ {t}]
      BY <2>9 DEF AnnounceTo
    <3>2. /\ \A u \in Sessions, q \in Players :
                 view[u][q] # NoPlace => view'[u][q] # NoPlace
          /\ IsOpen(t) /\ player[t] # player[s] => view'[t][player[s]] # NoPlace
      <4>1. carried[s] \in Places
        BY <3>1
      <4>2. CASE player[t] = player[s]
        BY <2>9, <4>2 DEF AnnounceTo
      <4>3. CASE player[t] # player[s]
        <5>1. view' = Told(t, player[s], carried[s])
          BY <2>9, <4>3 DEF AnnounceTo
        <5> HIDE DEF IsOpen
        <5> QED BY <3>1, <4>1, <5>1, ToldIsKnown
      <4> QED BY <4>2, <4>3
    <3> QED BY <3>1, <3>2
  <2>10. ASSUME FindWitnesses(s)
        PROVE  AwarenessInv'
    BY <2>10 DEF FindWitnesses, Goto
  <2>11. ASSUME NEW q \in Players, NotifyWitness(s, q)
        PROVE  AwarenessInv'
    <3>1. /\ pc[s] = "notifying" /\ player[s] \in Players /\ carried[s] \in Places
          /\ UNCHANGED <<socket, state, player, sessions, pc, audience, skipped>>
          /\ \A u \in Sessions \ {s} : nearby'[u] = nearby[u]
      <4>1. /\ pc[s] = "notifying"
            /\ UNCHANGED <<socket, state, player, sessions, pc, audience, skipped>>
            /\ nearby' = [nearby EXCEPT ![s] = @ \ {q}]
        <5> HIDE DEF TypeOK, HandlerOK, AwarenessInv
        <5> QED BY <2>11 DEF NotifyWitness
      <4>2. player[s] \in Players /\ carried[s] \in Places
        BY <4>1
      <4> QED BY <4>1, <4>2
    <3>2. \A u \in Sessions, p \in Players :
                 view[u][p] # NoPlace => view'[u][p] # NoPlace
      <4>1. CASE getSession(q, Live) = NoSession
        BY <2>11, <4>1 DEF NotifyWitness
      <4>2. CASE getSession(q, Live) # NoSession
        <5>1. /\ getSession(q, Live) \in Sessions
              /\ view' = Told(getSession(q, Live), player[s], carried[s])
          BY <2>11, <4>2 DEF NotifyWitness, getSession, Live
        <5> HIDE DEF IsOpen
        <5> QED BY <3>1, <5>1, ToldIsKnown
      <4> QED BY <4>1, <4>2
    <3>3. ASSUME NEW u \in Sessions, NEW v \in Sessions, player[v] \in Players, AwareOf(u, v)
          PROVE  AwareOf(u, v)'
      <4>1. \/ view'[u][player[v]] # NoPlace
            \/ player[v] \in skipped[u]
            \/ u # s /\ pc[u] \in {"describing", "telling"} /\ player[v] \in nearby[u]
            \/ pc[v] \in {"looking", "describing", "telling", "announcing"}
            \/ pc[v] = "announcingTo" /\ u \in audience[v]
        BY <3>1, <3>2, <3>3
      <4> HIDE DEF TypeOK, HandlerOK, AwarenessInv
      <4> QED BY <3>1, <4>1
    <3> HIDE DEF AwareOf
    <3> QED BY <3>1, <3>3
  <2>12. ASSUME Leave(s)
        PROVE  AwarenessInv'
    BY <2>12 DEF Leave, Unregister, removeSession, cancelPositionTimer, Goto
  <2>13. ASSUME Close(s)
        PROVE  AwarenessInv'
    BY <2>13 DEF Close, closeSocket, Return, Goto
  <2>14. ASSUME FinishSelection(s) \/ FinishMove(s)
        PROVE  AwarenessInv'
    <3>1. /\ UNCHANGED <<socket, state, player, sessions, nearby, audience, view, skipped>>
          /\ \A u \in Sessions \ {s} : pc'[u] = pc[u]
          /\ \/ pc[s] = "announcingTo" /\ audience[s] = {}
             \/ pc[s] = "notifying"
      <4> HIDE DEF TypeOK, HandlerOK, AwarenessInv
      <4> QED BY <2>14 DEF FinishSelection, FinishMove, Return, Goto, TypeOK
    <3>2. \A u, v \in Sessions : AwareOf(u, v) => AwareOf(u, v)'
      <4> HIDE DEF TypeOK, HandlerOK, AwarenessInv
      <4> QED BY <3>1
    <3>3. pc[s] # "looking"
      BY <3>1
    <3> HIDE DEF AwareOf, TypeOK, HandlerOK
    <3> QED BY <3>1, <3>2, <3>3
  <2>15. ASSUME ComparePlace(s) \/ StorePlace(s) \/ SaveFails(s) \/ RememberPlace(s)
        PROVE  AwarenessInv'
    <3>1. /\ UNCHANGED <<socket, state, player, sessions, nearby, audience, view, skipped>>
          /\ pc[s] \in Ending /\ \A u \in Sessions \ {s} : pc'[u] = pc[u]
      BY <2>15 DEF ComparePlace, StorePlace, SaveFails, RememberPlace, Goto
    <3>2. \A u, v \in Sessions : AwareOf(u, v) => AwareOf(u, v)'
      BY <3>1
    <3>3. pc[s] # "looking"
      BY <3>1
    <3> HIDE DEF AwareOf, TypeOK, HandlerOK
    <3> QED BY <3>1, <3>2, <3>3
  <2> QED BY <1>1, <2>1, <2>2, <2>3, <2>4, <2>5, <2>6, <2>7, <2>8, <2>9, <2>10, <2>11,
         <2>12, <2>13, <2>14, <2>15 DEF HandlerStep
<1>2. ASSUME NEW s \in Sessions, HandlerBegins(s)
      PROVE  AwarenessInv'
  <2>1. ASSUME ReadError(s)
        PROVE  AwarenessInv'
    BY <2>1 DEF ReadError, Unregister, removeSession, TakeRead, Goto
  <2>2. ASSUME \/ (\E a \in Accounts : LoginSucceeds(s, a))
              \/ LoginFails(s)
              \/ AnswerInLobby(s)
              \/ (\E p \in Players : SelectCharacter(s, p))
              \/ (\E to \in Places : MoveCharacter(s, to))
              \/ (\E c \in AllCommands : AnswerAndReceive(s, c))
              \/ (\E c \in AllCommands : AnswerOnly(s, c))
              \/ Logout(s)
              \/ EndOfFile(s)
        PROVE  AwarenessInv'
    BY <2>2
       DEF LoginSucceeds, Handles, cancelLoginTimer, receiveClientData,
           LoginFails, closeSocket, TakeRead, AnswerInLobby, SelectCharacter,
           Goto, MoveCharacter, InGameCommand, AnswerAndReceive, AnswerOnly,
           Logout, BeginSave, EndOfFile
  <2> QED BY <1>2, <2>1, <2>2 DEF HandlerBegins
<1>3. ASSUME NEW s \in Sessions, TimerStep(s)
      PROVE  AwarenessInv'
  BY <1>3
     DEF TimerStep, LoginTimerExpires, onLoginTimeout, closeSocket,
         PositionTimerFires, TimerComparesPlace, TimerStoresPlace, TimerSaveFails,
         TimerRemembersPlace, BothRemember, RestartTimer, AfterSave, Goto
<1>4. ASSUME NEW s \in Sessions, Environment(s)
      PROVE  AwarenessInv'
  BY <1>4
     DEF Environment, Accept, receiveClientData, AcceptGone, DataArrives,
         ClientCloses, ReadFails
<1>5. CASE UNCHANGED vars
  BY <1>5 DEF vars
<1> QED BY <1>1, <1>2, <1>3, <1>4, <1>5 DEF Next

\* Initially nobody is in the game.
LEMMA AwarenessInvInit ==
    ASSUME Init
    PROVE  AwarenessInv
BY DEF Init, AwarenessInv

\* Two players that have entered know of each other (MutualAwareness), however
\* their selections and those of others overlap, with accesses of the position
\* table that collide and without.
THEOREM PlayersKnowOfEachOther == Spec => []MutualAwareness
<1>1. Init => TimerRuns /\ RegistryInv /\ (~MapRaces => WalkedInv) /\ AwarenessInv
  BY ConnectionsInit, RegistryInvInit, WalkedInvInit, AwarenessInvInit
<1>2. TypeOK /\ HandlerOK /\ TimerRuns /\ [Next]_vars => TimerRuns'
  BY TimerRunsStep
<1>3. TypeOK /\ HandlerOK /\ RegistryInv /\ [Next]_vars => RegistryInv'
  BY RegistryStep
<1>4. TypeOK /\ HandlerOK /\ (~MapRaces => WalkedInv) /\ [Next]_vars
          => (~MapRaces => WalkedInv)'
  BY WalkedStep
<1>5. TypeOK /\ HandlerOK /\ TimerRuns /\ RegistryInv /\ (~MapRaces => WalkedInv)
          /\ AwarenessInv /\ [Next]_vars => AwarenessInv'
  BY AwarenessStep
<1>6. TypeOK /\ AwarenessInv => MutualAwareness
  BY DEF TypeOK, AwarenessInv, AwareOf, MutualAwareness, Entered
<1> QED BY <1>1, <1>2, <1>3, <1>4, <1>5, <1>6, TypeCorrect, PTL DEF Spec
-----------------------------------------------------------------------------
(* The refinement of Presence.                                             *)

\* A session without a login has no account: it logs in once.
LoggedInOnce == \A s \in Sessions : state[s] = "Unauthenticated" => account[s] = NoAccount

\* Only a login changes the account, and nothing leads back to the time before it.
LEMMA LoggedInOnceStep ==
    ASSUME TypeOK, HandlerOK, LoggedInOnce, [Next]_vars
    PROVE  LoggedInOnce'
<1> USE DEF TypeOK, HandlerOK, LoggedInOnce
<1>1. ASSUME NEW s \in Sessions, Register(s)
      PROVE  LoggedInOnce'
  BY <1>1 DEF Register
<1>2. ASSUME NEW s \in Sessions, NEW a \in Accounts, LoginSucceeds(s, a)
      PROVE  LoggedInOnce'
  BY <1>2 DEF LoginSucceeds
<1>3. ASSUME NEW s \in Sessions,
             \/ RegistryQuiet(s) \/ Leave(s) \/ ReadError(s) \/ Close(s) \/ LoginFails(s)
             \/ onLoginTimeout(s) \/ Accept(s) \/ AcceptGone(s)
      PROVE  LoggedInOnce'
  <2>1. UNCHANGED identity
    BY <1>3, RegistryQuietSteps
    DEF Leave, ReadError, Close, LoginFails, onLoginTimeout, Accept, AcceptGone
  <2> QED BY <2>1
<1>4. CASE UNCHANGED vars
  BY <1>4 DEF vars
<1> QED
  BY <1>1, <1>2, <1>3, <1>4
  DEF Next, HandlerStep, HandlerBegins, TimerStep, Environment, RegistryQuiet

\* Whom a handler will tell of a character: clients in the game that play another.
ToldInv ==
    \A s \in Sessions :
        /\ pc[s] \in {"describing", "telling", "notifying"} => player[s] \notin nearby[s]
        /\ pc[s] = "telling" => subject[s] \in nearby[s]
        /\ pc[s] = "announcingTo" => \A t \in audience[s] : state[t] = "InGame"

\* The steps of a handler that read or change its loops.
Loops(s) ==
    \/ Register(s)
    \/ LookAround(s)
    \/ (\E q \in Players : DescribePlayer(s, q))
    \/ (\E q \in Players : SkipPlayer(s, q))
    \/ TellPlayer(s)
    \/ ComposeAnnouncement(s)
    \/ Announce(s)
    \/ (\E t \in Sessions : AnnounceTo(s, t))
    \/ FindWitnesses(s)
    \/ (\E q \in Players : NotifyWitness(s, q))

\* A step inside a save leads further into it or out of it.
LEMMA SaveEnds ==
    ASSUME TypeOK, NEW s \in Sessions,
           \/ ComparePlace(s) \/ StorePlace(s) \/ SaveFails(s) \/ RememberPlace(s)
           \/ BothRemember(s)
    PROVE  pc'[s] \in Ending \cup {"leaving", "closing"}
<1>1. ASSUME NEW step \in Steps, Goto(s, step)
      PROVE  pc'[s] = step
  BY <1>1 DEF Goto, TypeOK
<1>2. AfterSave(s) \in {"closing", "leaving"}
  BY DEF AfterSave
<1> QED
  BY <1>1, <1>2
  DEF ComparePlace, StorePlace, SaveFails, RememberPlace, BothRemember, Steps

\* The other steps leave the loops alone, and no step leads into one.
LEMMA LoopsKept ==
    ASSUME TypeOK, HandlerOK, [Next]_vars, \A s \in Sessions : ~Loops(s)
    PROVE  /\ UNCHANGED <<player, nearby, audience>>
           /\ \A t \in Sessions :
                 /\ state[t] = "InGame" => state'[t] = "InGame"
                 /\ pc'[t] \in {"describing", "telling", "notifying", "announcingTo"} =>
                        pc'[t] = pc[t] /\ subject'[t] = subject[t]
<1> USE DEF TypeOK, HandlerOK
<1>1. ASSUME NEW s \in Sessions, NEW a \in Accounts, LoginSucceeds(s, a)
      PROVE  /\ UNCHANGED <<player, nearby, audience, pc, subject>>
             /\ \A t \in Sessions : state[t] = "InGame" => state'[t] = "InGame"
  BY <1>1 DEF LoginSucceeds, Handles
<1>2. ASSUME NEW s \in Sessions,
             \/ ComparePlace(s) \/ StorePlace(s) \/ SaveFails(s) \/ RememberPlace(s)
             \/ BothRemember(s)
      PROVE  /\ UNCHANGED <<player, nearby, audience, state, subject>>
             /\ \A t \in Sessions \ {s} : pc'[t] = pc[t]
             /\ pc'[s] \in Ending \cup {"leaving", "closing"}
  <2>1. /\ UNCHANGED <<player, nearby, audience, state, subject>>
        /\ \A t \in Sessions \ {s} : pc'[t] = pc[t]
    BY <1>2 DEF ComparePlace, StorePlace, SaveFails, RememberPlace, BothRemember, Goto
  <2> QED BY <1>2, <2>1, SaveEnds
<1>3. ASSUME NEW s \in Sessions, HandlerStep(s) \/ HandlerBegins(s) \/ TimerStep(s) \/ Environment(s),
             ~Loops(s), \A a \in Accounts : ~LoginSucceeds(s, a),
             ~(ComparePlace(s) \/ StorePlace(s) \/ SaveFails(s) \/ RememberPlace(s)),
             ~BothRemember(s)
      PROVE  /\ UNCHANGED <<player, nearby, audience, state>>
             /\ \A t \in Sessions \ {s} : pc'[t] = pc[t] /\ subject'[t] = subject[t]
             /\ \/ pc'[s] = pc[s] /\ subject'[s] = subject[s]
                \/ pc'[s] \notin {"describing", "telling", "notifying", "announcingTo"}
  <2> HIDE DEF HandlerOK
  <2> QED
    BY <1>3
    DEF Loops, HandlerStep, HandlerBegins, TimerStep, Environment, PlaceInWorld, FinishSelection,
        FinishMove, Leave, Close, LoginFails, AnswerInLobby, SelectCharacter,
        MoveCharacter, AnswerAndReceive, AnswerOnly, Logout, EndOfFile, ReadError,
        LoginTimerExpires, onLoginTimeout, PositionTimerFires, TimerComparesPlace,
        TimerStoresPlace, TimerSaveFails, TimerRemembersPlace, Accept, AcceptGone, DataArrives,
        ClientCloses, ReadFails, BeginSave, InGameCommand, Return, Goto
<1>4. CASE UNCHANGED vars
  BY <1>4 DEF vars
<1>5. ASSUME NEW s \in Sessions,
             HandlerStep(s) \/ HandlerBegins(s) \/ TimerStep(s) \/ Environment(s)
      PROVE  /\ UNCHANGED <<player, nearby, audience>>
             /\ \A t \in Sessions :
                   /\ state[t] = "InGame" => state'[t] = "InGame"
                   /\ pc'[t] \in {"describing", "telling", "notifying", "announcingTo"} =>
                          pc'[t] = pc[t] /\ subject'[t] = subject[t]
  <2> HIDE DEF TypeOK, HandlerOK
  <2> QED BY <1>1, <1>2, <1>3, <1>5
<1> HIDE DEF TypeOK, HandlerOK
<1> QED BY <1>4, <1>5 DEF Next

\* The loops run over players other than the session's own, and announcements are
\* sent to sessions of the registry, which are in the game.
LEMMA ToldStep ==
    ASSUME TypeOK, HandlerOK, RegistryInv, ToldInv, [Next]_vars
    PROVE  ToldInv'
<1> USE DEF TypeOK, HandlerOK, ToldInv
<1>1. ASSUME NEW s \in Sessions, Register(s)
      PROVE  ToldInv'
  BY <1>1 DEF Register, Goto
<1>2. ASSUME NEW s \in Sessions, LookAround(s)
      PROVE  ToldInv'
  <2>1. \A seen \in ProximityOutcomes(player[s], Racing(s)) : player[s] \notin seen
    BY DEF ProximityOutcomes, getPlayersInProximity
  <2> QED BY <1>2, <2>1 DEF LookAround, Goto
<1>3. ASSUME NEW s \in Sessions, NEW q \in Players, DescribePlayer(s, q)
      PROVE  ToldInv'
  <2>1. /\ pc[s] = "describing" /\ pc' = [pc EXCEPT ![s] = "telling"]
        /\ subject' = [subject EXCEPT ![s] = q] /\ q \in nearby[s]
        /\ UNCHANGED <<state, player, nearby, audience>>
    BY <1>3 DEF DescribePlayer, Goto
  <2> QED BY <2>1
<1>4. ASSUME NEW s \in Sessions, NEW q \in Players, SkipPlayer(s, q)
      PROVE  ToldInv'
  <2>1. /\ pc[s] = "describing" /\ nearby' = [nearby EXCEPT ![s] = @ \ {q}]
        /\ UNCHANGED <<pc, subject, state, player, audience>>
    BY <1>4 DEF SkipPlayer
  <2> QED BY <2>1
<1>5. ASSUME NEW s \in Sessions, TellPlayer(s)
      PROVE  ToldInv'
  <2>1. /\ pc[s] = "telling" /\ pc' = [pc EXCEPT ![s] = "describing"]
        /\ nearby' = [nearby EXCEPT ![s] = @ \ {subject[s]}]
        /\ UNCHANGED <<subject, state, player, audience>>
    BY <1>5 DEF TellPlayer, Goto
  <2> QED BY <2>1
<1>6. ASSUME NEW s \in Sessions, ComposeAnnouncement(s)
      PROVE  ToldInv'
  <2>1. /\ pc' = [pc EXCEPT ![s] = "announcing"]
        /\ \A t \in Sessions \ {s} : subject'[t] = subject[t]
        /\ UNCHANGED <<nearby, state, player, audience>>
    BY <1>6 DEF ComposeAnnouncement, Goto
  <2> QED BY <2>1
<1>7. ASSUME NEW s \in Sessions, Announce(s)
      PROVE  ToldInv'
  <2>1. \A t \in getAllSessions(Live) : state[t] = "InGame"
    BY SessionManagerAssumption
    DEF getAllSessions, Live, RegistryInv, RegistryNamesItsPlayer
  <2> QED BY <1>7, <2>1 DEF Announce, Goto
<1>8. ASSUME NEW s \in Sessions, NEW t \in Sessions, AnnounceTo(s, t)
      PROVE  ToldInv'
  BY <1>8 DEF AnnounceTo
<1>9. ASSUME NEW s \in Sessions, FindWitnesses(s)
      PROVE  ToldInv'
  <2>1. \A seen \in ProximityOutcomes(player[s], Racing(s)) : player[s] \notin seen
    BY DEF ProximityOutcomes, getPlayersInProximity
  <2> QED BY <1>9, <2>1 DEF FindWitnesses, Goto
<1>10. ASSUME NEW s \in Sessions, NEW q \in Players, NotifyWitness(s, q)
      PROVE  ToldInv'
  BY <1>10 DEF NotifyWitness
<1>11. CASE \A s \in Sessions : ~Loops(s)
  BY <1>11, LoopsKept
<1> QED
  BY <1>1, <1>2, <1>3, <1>4, <1>5, <1>6, <1>7, <1>8, <1>9, <1>10, <1>11 DEF Loops

\* Where a read handler carries nothing that will enter the world, be told or stored.
Idle(step) == step \in {"idle", "looking", "describing", "witnessing", "leaving", "closing"}

\* The steps that Presence does not see.
PresenceQuiet(s) ==
    \/ LookAround(s)
    \/ (\E q \in Players : SkipPlayer(s, q))
    \/ Announce(s)
    \/ Close(s)
    \/ LoginFails(s)
    \/ AnswerInLobby(s)
    \/ (\E c \in AllCommands : AnswerAndReceive(s, c))
    \/ (\E c \in AllCommands : AnswerOnly(s, c))
    \/ LoginTimerExpires(s)
    \/ onLoginTimeout(s)
    \/ Accept(s)
    \/ AcceptGone(s)
    \/ DataArrives(s)
    \/ ClientCloses(s)
    \/ ReadFails(s)

\* They leave what a handler carries alone, or carry it only where it will neither
\* be told nor stored.
LEMMA PresenceQuietSteps ==
    ASSUME TypeOK, HandlerOK, NEW s \in Sessions, PresenceQuiet(s)
    PROVE  UNCHANGED Characters!vars
<1>1. UNCHANGED <<account, player, sessions, playerPositions, db, view, positionTimer,
                  timerPlace>>
  BY DEF PresenceQuiet, LookAround, SkipPlayer, Announce, Close, LoginFails, AnswerInLobby,
         AnswerAndReceive, AnswerOnly, LoginTimerExpires, onLoginTimeout, Accept, AcceptGone,
         DataArrives, ClientCloses, ReadFails, InGameCommand
<1>2. \A t \in Sessions :
          /\ \/ pc'[t] = pc[t]
             \/ pc[t] = "announcing" /\ pc'[t] = "announcingTo"
             \/ Idle(pc[t]) /\ Idle(pc'[t])
          /\ \/ subject'[t] = subject[t] /\ carried'[t] = carried[t]
             \/ Idle(pc[t]) /\ Idle(pc'[t])
  BY DEF PresenceQuiet, Idle, TypeOK, HandlerOK, LookAround, SkipPlayer, Announce, Close,
         LoginFails, AnswerInLobby, AnswerAndReceive, AnswerOnly, LoginTimerExpires,
         onLoginTimeout, Accept, AcceptGone, DataArrives, ClientCloses, ReadFails,
         InGameCommand, Return, Goto
<1>3. Entering' = Entering /\ Arrival' = Arrival /\ Unsaved' = Unsaved /\ Untold' = Untold
  BY <1>1, <1>2 DEF Idle, Entering, Arrival, Unsaved, Untold
<1> QED BY <1>1, <1>3 DEF Characters!vars, Characters!entry

\* Where a read handler carries what it will tell of.
Telling(step) == step \in {"telling", "announcing", "announcingTo", "notifying"}

\* Handlers that tell nobody of anything, before and after a step.
LEMMA UntoldKept ==
    ASSUME \A t \in Sessions :
               \/ /\ pc'[t] = pc[t] /\ subject'[t] = subject[t] /\ carried'[t] = carried[t]
                  /\ player'[t] = player[t]
               \/ ~Telling(pc[t]) /\ ~Telling(pc'[t])
    PROVE  Untold' = Untold
BY DEF Telling, Untold

\* How the hidden variables of Presence change with the handler's.
LEMMA OneHandlerMoves ==
    ASSUME TypeOK, NEW s \in Sessions, NEW brought, NEW place, NEW places,
           \A t \in Sessions \ {s} :
               /\ pc'[t] = pc[t] /\ subject'[t] = subject[t] /\ carried'[t] = carried[t]
               /\ positionTimer'[t] = positionTimer[t] /\ timerPlace'[t] = timerPlace[t],
           brought = Entering'[s], place = Arrival'[s], places = Unsaved'[s]
    PROVE  /\ Entering' = [Entering EXCEPT ![s] = brought]
           /\ Arrival'  = [Arrival  EXCEPT ![s] = place]
           /\ Unsaved'  = [Unsaved  EXCEPT ![s] = places]
<1>1. \A t \in Sessions \ {s} : /\ Entering'[t] = Entering[t] /\ Arrival'[t] = Arrival[t]
                                /\ Unsaved'[t] = Unsaved[t]
  BY DEF Entering, Arrival, Unsaved
<1>2. /\ Entering = [t \in Sessions |-> Entering[t]] /\ Entering' = [t \in Sessions |-> Entering'[t]]
      /\ Arrival = [t \in Sessions |-> Arrival[t]] /\ Arrival' = [t \in Sessions |-> Arrival'[t]]
      /\ Unsaved = [t \in Sessions |-> Unsaved[t]] /\ Unsaved' = [t \in Sessions |-> Unsaved'[t]]
  BY DEF Entering, Arrival, Unsaved
<1> QED BY <1>1, <1>2

\* The same of a step that only begins or ends a save.
LEMMA SavesMove ==
    ASSUME TypeOK, NEW s \in Sessions, NEW places, Unsaved'[s] = places,
           \A t \in Sessions \ {s} :
               /\ pc'[t] = pc[t] /\ subject'[t] = subject[t] /\ carried'[t] = carried[t]
               /\ positionTimer'[t] = positionTimer[t] /\ timerPlace'[t] = timerPlace[t]
    PROVE  Unsaved' = [Unsaved EXCEPT ![s] = places]
<1>1. PICK brought, place : brought = Entering'[s] /\ place = Arrival'[s]
  OBVIOUS
<1> QED BY <1>1, OneHandlerMoves

\* A character is selected by its own account, with the place of its row: a place
\* that is not the one of a failed SELECT (session.cpp:144-152).
LEMMA SelectInPresence ==
    ASSUME TypeOK, HandlerOK, NEW s \in Sessions, NEW p \in Players, SelectCharacter(s, p)
    PROVE  Characters!Select(s, p)
<1> USE DEF TypeOK, HandlerOK, SelectCharacter, Handles, Goto
<1>1. PICK place \in storedPosition(p) \ {Origin} : carried' = [carried EXCEPT ![s] = place]
  OBVIOUS
<1>2. place = db[p] /\ db[p] # Origin
  BY <1>1 DEF storedPosition
<1>3. player[s] = NoPlayer /\ Entering[s] = NoPlayer /\ Owner[p] = account[s]
  BY DEF Entering, getCharacterInfo
<1>4. /\ Entering'[s] = p /\ Arrival'[s] = db[p] /\ Unsaved'[s] = Unsaved[s]
  BY <1>1, <1>2 DEF Entering, Arrival, Unsaved
<1>5. /\ Entering' = [Entering EXCEPT ![s] = p]
      /\ Arrival'  = [Arrival  EXCEPT ![s] = db[p]]
      /\ Unsaved'  = [Unsaved  EXCEPT ![s] = Unsaved[s]]
  BY <1>1, <1>4, OneHandlerMoves
<1>6. Unsaved' = Unsaved
  BY <1>5 DEF Unsaved
<1>7. Untold' = Untold
  BY UntoldKept DEF Telling
<1> QED BY <1>2, <1>3, <1>5, <1>6, <1>7 DEF Characters!Select

\* The character appears in the world at that place, on the ground (session.cpp:154).
LEMMA PlaceInPresence ==
    ASSUME TypeOK, HandlerOK, NEW s \in Sessions, PlaceInWorld(s)
    PROVE  Characters!Appear(s)
<1> USE DEF TypeOK, HandlerOK, PlaceInWorld, Goto
<1>1. Entering[s] = subject[s] /\ Arrival[s] = carried[s] /\ carried[s] # NoPlace
  BY GameAssumption DEF Entering, Arrival
<1>2. /\ Entering'[s] = Entering[s] /\ Arrival'[s] = NoPlace /\ Unsaved'[s] = Unsaved[s]
  BY DEF Entering, Arrival, Unsaved
<1>3. /\ Entering' = [Entering EXCEPT ![s] = Entering[s]]
      /\ Arrival'  = [Arrival  EXCEPT ![s] = NoPlace]
      /\ Unsaved'  = [Unsaved  EXCEPT ![s] = Unsaved[s]]
  BY <1>2, OneHandlerMoves
<1>4. Entering' = Entering /\ Unsaved' = Unsaved
  BY <1>3 DEF Entering, Unsaved
<1>5. \/ Characters!Put(Entering[s], Ground[Arrival[s]])
      \/ MapRaces /\ Entering[s] \notin DOMAIN playerPositions /\ UNCHANGED playerPositions
  BY <1>1 DEF WriteOutcome, updatePlayerPosition, Placed, Racing, Characters!Put
<1>6. Untold' = Untold
  BY UntoldKept DEF Telling
<1> QED BY <1>1, <1>3, <1>4, <1>5, <1>6 DEF Characters!Appear

\* The session plays it, and is registered for it (session.cpp:157-164).
LEMMA RegisterInPresence ==
    ASSUME TypeOK, HandlerOK, NEW s \in Sessions, Register(s)
    PROVE  Characters!Enter(s)
<1> USE DEF TypeOK, HandlerOK, Register, addSession, Goto
<1>1. Entering[s] = subject[s] /\ Arrival[s] = NoPlace /\ subject[s] # NoPlayer
  BY GameAssumption DEF Entering, Arrival
<1>2. /\ Entering'[s] = NoPlayer /\ Arrival'[s] = NoPlace /\ Unsaved'[s] = Unsaved[s]
  <2>1. positionTimer[s] = "off" /\ positionTimer'[s] \notin {"comparing", "saving"}
    OBVIOUS
  <2> QED BY <2>1 DEF Entering, Arrival, Unsaved
<1>3. /\ Entering' = [Entering EXCEPT ![s] = NoPlayer]
      /\ Arrival'  = [Arrival  EXCEPT ![s] = NoPlace]
      /\ Unsaved'  = [Unsaved  EXCEPT ![s] = Unsaved[s]]
  <2>1. \A t \in Sessions \ {s} :
            /\ pc'[t] = pc[t] /\ subject'[t] = subject[t] /\ carried'[t] = carried[t]
            /\ positionTimer'[t] = positionTimer[t] /\ timerPlace'[t] = timerPlace[t]
    OBVIOUS
  <2>2. NoPlayer = Entering'[s] /\ NoPlace = Arrival'[s] /\ Unsaved[s] = Unsaved'[s]
    BY <1>2
  <2> HIDE DEF TypeOK, HandlerOK, Register
  <2> QED BY <2>1, <2>2, OneHandlerMoves
<1>4. Arrival' = Arrival /\ Unsaved' = Unsaved
  <2>1. /\ Arrival = [Arrival EXCEPT ![s] = Arrival[s]]
        /\ Unsaved = [Unsaved EXCEPT ![s] = Unsaved[s]]
    BY DEF Arrival, Unsaved
  <2> QED BY <1>1, <1>3, <2>1
<1>5. Untold' = Untold
  BY UntoldKept DEF Telling
<1> QED BY <1>1, <1>3, <1>4, <1>5 DEF Characters!Enter

\* A login gives the session the account it has had none of (sessionauth.cpp:22-23).
LEMMA LoginInPresence ==
    ASSUME LoggedInOnce, NEW s \in Sessions, NEW a \in Accounts, LoginSucceeds(s, a)
    PROVE  Characters!LogIn(s, a)
BY DEF LoggedInOnce, LoginSucceeds, Handles, Characters!LogIn, Entering, Arrival, Unsaved,
       Untold

\* A move leads to a walkable place, or collides with another's first entry and is
\* lost (sessionmovement.cpp:21-23).
LEMMA MoveInPresence ==
    ASSUME TypeOK, HandlerOK, NEW s \in Sessions, NEW to \in Places, MoveCharacter(s, to)
    PROVE  \/ Characters!Move(player[s])
           \/ UNCHANGED Characters!vars
<1> USE DEF TypeOK, HandlerOK, MoveCharacter, InGameCommand, Handles, Goto
<1>1. \A t \in Sessions :
          \/ pc'[t] = pc[t] /\ subject'[t] = subject[t] /\ carried'[t] = carried[t]
          \/ /\ {pc[t], pc'[t]} \cap {"placing", "registering"} = {}
             /\ {pc[t], pc'[t]} \cap (Comparing \cup Saving) = {}
  OBVIOUS
<1>2. Entering' = Entering /\ Arrival' = Arrival /\ Unsaved' = Unsaved
  BY <1>1 DEF Entering, Arrival, Unsaved
<1>3. Untold' = Untold
  BY UntoldKept DEF Telling
<1>4. to \in Walkable /\ Ground[to] = to
  BY WorldAssumption DEF isPositionWalkable
<1>5. CASE updatePlayerPosition(player[s], to)
  <2>1. Characters!Put(player[s], to)
    BY <1>4, <1>5 DEF updatePlayerPosition, Placed, Characters!Put
  <2> QED BY <1>2, <1>4, <1>3, <2>1 DEF Characters!Move, Characters!entry
<1>6. CASE UNCHANGED playerPositions
  BY <1>2, <1>6, <1>3 DEF Characters!vars, Characters!entry
<1> QED BY <1>5, <1>6 DEF WriteOutcome

\* What a save finds in the table of places is where the character stands.
LEMMA ReadsInPresence ==
    ASSUME NEW p, NEW s
    PROVE  ReadOutcomes(p, Racing(s)) \subseteq Characters!Standing(p)
BY DEF ReadOutcomes, getPlayerPosition, Placed, Racing, Characters!Standing

\* LOGOUT and an end of file begin a save, unless the socket is closed.
LEMMA BeginSaveInPresence ==
    ASSUME TypeOK, HandlerOK, NEW s \in Sessions, pc[s] = "idle",
           NEW comparing \in Comparing,
           NEW after \in {"leaving", "closing"}, BeginSave(s, comparing, after),
           UNCHANGED <<account, player, subject, sessions, playerPositions, db, view,
                       positionTimer, timerPlace>>
    PROVE  Characters!BeginSave(s, player[s]) \/ UNCHANGED Characters!vars
<1> USE DEF TypeOK, Goto
<1>1. CASE IsOpen(s)
  <2>1. PICK place \in ReadOutcomes(player[s], Racing(s)) :
            /\ pc' = [pc EXCEPT ![s] = comparing]
            /\ carried' = [carried EXCEPT ![s] = place]
    BY <1>1 DEF BeginSave
  <2>2. place \in Characters!Standing(player[s])
    BY <2>1, ReadsInPresence
  <2>3. /\ Entering'[s] = Entering[s] /\ Arrival'[s] = Arrival[s]
        /\ Unsaved'[s] = Unsaved[s] \cup {place}
    BY <2>1 DEF Entering, Arrival, Unsaved
  <2>4. /\ Entering' = [Entering EXCEPT ![s] = Entering[s]]
        /\ Arrival'  = [Arrival  EXCEPT ![s] = Arrival[s]]
        /\ Unsaved'  = [Unsaved  EXCEPT ![s] = Unsaved[s] \cup {place}]
    BY <2>1, <2>3, OneHandlerMoves
  <2>5. Entering' = Entering /\ Arrival' = Arrival
    BY <2>4 DEF Entering, Arrival
  <2>6. Untold' = Untold
    BY <2>1, UntoldKept DEF Telling
  <2> QED BY <2>2, <2>4, <2>5, <2>6 DEF Characters!BeginSave, Characters!entry
<1>2. CASE ~IsOpen(s)
  <2>1. pc' = [pc EXCEPT ![s] = after] /\ carried' = carried
    BY <1>2 DEF BeginSave
  <2>2. Entering' = Entering /\ Arrival' = Arrival /\ Unsaved' = Unsaved
    BY <2>1 DEF Entering, Arrival, Unsaved
  <2>3. Untold' = Untold
    BY <2>1, UntoldKept DEF Telling
  <2> QED BY <2>2, <2>3 DEF Characters!vars, Characters!entry
<1> QED BY <1>1, <1>2

\* Only a session in the game saves when its client hangs up (session.cpp:112-114).
LEMMA EndOfFileInPresence ==
    ASSUME TypeOK, HandlerOK, NEW s \in Sessions, EndOfFile(s)
    PROVE  \/ state[s] = "InGame" /\ Characters!BeginSave(s, player[s])
           \/ UNCHANGED Characters!vars
<1>1. CASE state[s] = "InGame"
  BY <1>1, BeginSaveInPresence DEF EndOfFile
<1>2. CASE state[s] # "InGame"
  <2>1. pc' = [pc EXCEPT ![s] = "leaving"] /\ carried' = carried /\ pc[s] = "idle"
    BY <1>2 DEF EndOfFile, Goto
  <2>2. Entering' = Entering /\ Arrival' = Arrival /\ Unsaved' = Unsaved
    BY <2>1 DEF EndOfFile, TypeOK, Entering, Arrival, Unsaved
  <2>3. Untold' = Untold
    BY <2>1, UntoldKept DEF EndOfFile, TypeOK, Telling
  <2> QED BY <2>2, <2>3 DEF EndOfFile, Characters!vars, Characters!entry
<1> QED BY <1>1, <1>2

\* The position timer begins a save, or ends because the socket is closed
\* (session.cpp:47-66).
LEMMA FiringInPresence ==
    ASSUME TypeOK, HandlerOK, NEW s \in Sessions, PositionTimerFires(s)
    PROVE  Characters!BeginSave(s, player[s]) \/ UNCHANGED Characters!vars
<1> USE DEF TypeOK, PositionTimerFires
<1>1. Entering' = Entering /\ Arrival' = Arrival /\ Untold' = Untold
  BY DEF Entering, Arrival, Untold
<1>2. CASE positionTimer' = [positionTimer EXCEPT ![s] = "off"] /\ UNCHANGED timerPlace
  <2>1. Unsaved' = Unsaved
    BY <1>2 DEF Unsaved
  <2> QED BY <1>1, <2>1 DEF Characters!vars, Characters!entry
<1>3. ASSUME NEW place \in ReadOutcomes(player[s], Racing(s)),
             positionTimer' = [positionTimer EXCEPT ![s] = "comparing"],
             timerPlace' = [timerPlace EXCEPT ![s] = place]
      PROVE  Characters!BeginSave(s, player[s])
  <2>1. place \in Characters!Standing(player[s])
    BY ReadsInPresence
  <2>2. Unsaved'[s] = Unsaved[s] \cup {place}
    BY <1>3 DEF Unsaved
  <2>3. Unsaved' = [Unsaved EXCEPT ![s] = Unsaved[s] \cup {place}]
    <3>1. /\ UNCHANGED <<pc, subject, carried>>
          /\ \A t \in Sessions \ {s} :
                 positionTimer'[t] = positionTimer[t] /\ timerPlace'[t] = timerPlace[t]
      BY <1>3
    <3> HIDE DEF PositionTimerFires, TypeOK
    <3> QED BY <2>2, <3>1, SavesMove
  <2> QED BY <1>1, <2>1, <2>3 DEF Characters!BeginSave, Characters!entry
<1> QED BY <1>2, <1>3

\* A later step of a save, of whichever handler: the place that was under way is
\* stored or not, and it, or the same place of the other handler, may stay under way.
LEMMA EndSaveInPresence ==
    ASSUME TypeOK, NEW s \in Sessions, NEW place, place \in Unsaved[s],
           db' \in {db, [db EXCEPT ![player[s]] = place]},
           UNCHANGED <<account, player, Entering, Arrival, sessions, Untold,
                       playerPositions, view, subject, carried>>,
           \A t \in Sessions \ {s} :
               /\ pc'[t] = pc[t]
               /\ positionTimer'[t] = positionTimer[t] /\ timerPlace'[t] = timerPlace[t],
           Unsaved'[s] = Unsaved[s] \/ Unsaved'[s] = Unsaved[s] \ {place}
    PROVE  Characters!EndSave(s, player[s])
<1>1. ASSUME NEW places, Unsaved'[s] = places
      PROVE  Unsaved' = [Unsaved EXCEPT ![s] = places]
  BY <1>1, SavesMove
<1>2. \/ Unsaved' = Unsaved
      \/ Unsaved' = [Unsaved EXCEPT ![s] = @ \ {place}]
  <2>1. CASE Unsaved'[s] = Unsaved[s]
    <3>1. Unsaved = [Unsaved EXCEPT ![s] = Unsaved[s]]
      BY DEF Unsaved
    <3> QED BY <1>1, <2>1, <3>1
  <2>2. CASE Unsaved'[s] = Unsaved[s] \ {place}
    BY <1>1, <2>2
  <2> QED BY <2>1, <2>2
<1> QED BY <1>2 DEF Characters!EndSave, Characters!entry

\* The read handler compares, stores or fails, and in the end sets last_saved_,
\* which Presence does not have (session.cpp:66-79).
LEMMA HandlerSaveInPresence ==
    ASSUME TypeOK, HandlerOK, NEW s \in Sessions,
           ComparePlace(s) \/ StorePlace(s) \/ SaveFails(s) \/ RememberPlace(s)
    PROVE  Characters!EndSave(s, player[s]) \/ UNCHANGED Characters!vars
<1>1. /\ pc[s] \in Ending /\ \A t \in Sessions \ {s} : pc'[t] = pc[t]
      /\ UNCHANGED <<account, player, sessions, playerPositions, view, subject, carried,
                     positionTimer, timerPlace>>
  BY DEF ComparePlace, StorePlace, SaveFails, RememberPlace, Goto, TypeOK
<1>2. pc'[s] \in Ending \cup {"leaving", "closing"}
  BY SaveEnds
<1>3. \/ /\ pc[s] \in Comparing \cup Saving
         /\ db' \in {db, [db EXCEPT ![player[s]] = carried[s]]}
      \/ pc[s] \in Remembering /\ pc'[s] \in {"leaving", "closing"} /\ db' = db
  BY DEF ComparePlace, StorePlace, SaveFails, RememberPlace, storePosition, AfterSave, Goto,
         TypeOK
<1>4. UNCHANGED <<Entering, Arrival, Untold>>
  <2>1. \A t \in Sessions : \/ pc'[t] = pc[t]
                            \/ /\ pc[t] \in Ending
                               /\ pc'[t] \in Ending \cup {"leaving", "closing"}
    BY <1>1, <1>2
  <2> QED BY <1>1, <2>1 DEF Entering, Arrival, Untold
<1>5. CASE pc[s] \in Comparing \cup Saving
  <2>1. carried[s] \in Unsaved[s]
    BY <1>5 DEF Unsaved
  <2>2. Unsaved'[s] = Unsaved[s] \/ Unsaved'[s] = Unsaved[s] \ {carried[s]}
    BY <1>1, <1>5 DEF Unsaved
  <2> QED BY <1>1, <1>3, <1>4, <1>5, <2>1, <2>2, EndSaveInPresence
<1>6. CASE pc[s] \in Remembering
  <2>1. Unsaved' = Unsaved
    BY <1>1, <1>3, <1>6 DEF Unsaved
  <2> QED BY <1>1, <1>3, <1>4, <1>6, <2>1 DEF Characters!vars, Characters!entry
<1> QED BY <1>1, <1>5, <1>6

\* The timer does the same; the read handler may have the same place under way.
LEMMA TimerSaveInPresence ==
    ASSUME TypeOK, HandlerOK, NEW s \in Sessions,
           TimerComparesPlace(s) \/ TimerStoresPlace(s) \/ TimerSaveFails(s)
    PROVE  Characters!EndSave(s, player[s])
<1> USE DEF TimerComparesPlace, TimerStoresPlace, TimerSaveFails, RestartTimer
<1>1. /\ UNCHANGED <<pc, account, player, sessions, playerPositions, view, subject, carried>>
      /\ positionTimer[s] \in {"comparing", "saving"}
      /\ \A t \in Sessions \ {s} : /\ positionTimer'[t] = positionTimer[t]
                                   /\ timerPlace'[t] = timerPlace[t]
      /\ db' \in {db, [db EXCEPT ![player[s]] = timerPlace[s]]}
  BY DEF storePosition, TypeOK
<1>2. \/ positionTimer'[s] = "saving" /\ timerPlace'[s] = timerPlace[s]
      \/ positionTimer'[s] \notin {"comparing", "saving"}
  BY DEF TypeOK
<1> HIDE DEF TimerComparesPlace, TimerStoresPlace, TimerSaveFails, RestartTimer
<1>3. UNCHANGED <<Entering, Arrival, Untold>>
  BY <1>1 DEF Entering, Arrival, Untold
<1>4. timerPlace[s] \in Unsaved[s]
  BY <1>1 DEF Unsaved
<1>5. Unsaved'[s] = Unsaved[s] \/ Unsaved'[s] = Unsaved[s] \ {timerPlace[s]}
  BY <1>1, <1>2 DEF Unsaved
<1> QED BY <1>1, <1>3, <1>4, <1>5, EndSaveInPresence

\* What the timer handler does after its UPDATE Presence does not see.
LEMMA RememberingIsUnseen ==
    ASSUME TypeOK, HandlerOK, NEW s \in Sessions,
           TimerRemembersPlace(s) \/ BothRemember(s)
    PROVE  UNCHANGED Characters!vars
<1>1. /\ UNCHANGED <<account, player, sessions, playerPositions, view, db, subject, carried>>
      /\ \A t \in Sessions \ {s} : /\ positionTimer'[t] = positionTimer[t]
                                   /\ timerPlace'[t] = timerPlace[t] /\ pc'[t] = pc[t]
      /\ {positionTimer[s], positionTimer'[s]} \cap {"comparing", "saving"} = {}
  <2>1. /\ UNCHANGED <<account, player, sessions, playerPositions, view, db, subject, carried>>
        /\ \A t \in Sessions \ {s} : pc'[t] = pc[t]
        /\ positionTimer[s] = "remembering" /\ RestartTimer(s)
    BY DEF TimerRemembersPlace, BothRemember, Goto, TypeOK
  <2>2. /\ positionTimer'[s] \in {"armed", "off"}
        /\ \A t \in Sessions \ {s} : /\ positionTimer'[t] = positionTimer[t]
                                     /\ timerPlace'[t] = timerPlace[t]
    BY <2>1 DEF RestartTimer, TypeOK
  <2> QED BY <2>1, <2>2
<1>2. \/ pc'[s] = pc[s]
      \/ pc[s] \in Remembering /\ pc'[s] \in {"leaving", "closing"}
  <2>1. ASSUME BothRemember(s)
        PROVE  pc[s] \in Remembering /\ pc'[s] = AfterSave(s)
    BY <2>1 DEF BothRemember, Goto, TypeOK
  <2>2. AfterSave(s) \in {"leaving", "closing"}
    BY DEF AfterSave
  <2>3. ASSUME TimerRemembersPlace(s)
        PROVE  pc'[s] = pc[s]
    BY <2>3 DEF TimerRemembersPlace
  <2> QED BY <2>1, <2>2, <2>3
<1>3. UNCHANGED <<Entering, Arrival, Unsaved, Untold>>
  BY <1>1, <1>2 DEF Entering, Arrival, Unsaved, Untold
<1> QED BY <1>1, <1>3 DEF Characters!vars, Characters!entry

\* handleDisconnection takes the session's own character out of the registry.
LEMMA LeaveInPresence ==
    ASSUME TypeOK, HandlerOK, NEW s \in Sessions, Leave(s) \/ ReadError(s)
    PROVE  \/ state[s] = "InGame" /\ Characters!Leave(player[s])
           \/ UNCHANGED Characters!vars
<1> USE DEF TypeOK, Leave, ReadError, Unregister, cancelPositionTimer, Goto
<1>1. \A t \in Sessions :
          \/ pc'[t] = pc[t]
          \/ /\ {pc[t], pc'[t]} \cap {"placing", "registering"} = {}
             /\ {pc[t], pc'[t]} \cap (Comparing \cup Saving) = {}
  OBVIOUS
<1>2. \A t \in Sessions :
          positionTimer'[t] = positionTimer[t]
              \/ {positionTimer[t], positionTimer'[t]} \subseteq {"off", "armed"}
  OBVIOUS
<1>3. Entering' = Entering /\ Arrival' = Arrival /\ Unsaved' = Unsaved
  BY <1>1, <1>2 DEF Entering, Arrival, Unsaved
<1>4. Untold' = Untold
  BY UntoldKept DEF Telling
<1>5. CASE state[s] = "InGame"
  BY <1>3, <1>4, <1>5 DEF removeSession, Characters!Leave
<1>6. CASE state[s] # "InGame"
  BY <1>3, <1>4, <1>6 DEF Characters!vars, Characters!entry
<1> QED BY <1>5, <1>6

\* A step of a handler that only tells, and neither enters nor saves.
LEMMA TellingMoves ==
    ASSUME NEW s \in Sessions, NEW seen, seen = Untold'[s],
           UNCHANGED <<player, positionTimer, timerPlace>>,
           \A t \in Sessions \ {s} :
               pc'[t] = pc[t] /\ subject'[t] = subject[t] /\ carried'[t] = carried[t],
           pc[s] \notin {"placing", "registering"} \cup Comparing \cup Saving,
           pc'[s] \notin {"placing", "registering"} \cup Comparing \cup Saving
    PROVE  /\ Entering' = Entering /\ Arrival' = Arrival /\ Unsaved' = Unsaved
           /\ Untold' = [Untold EXCEPT ![s] = seen]
<1>1. Entering' = Entering /\ Arrival' = Arrival /\ Unsaved' = Unsaved
  BY DEF Entering, Arrival, Unsaved
<1>2. \A t \in Sessions \ {s} : Untold'[t] = Untold[t]
  BY DEF Untold
<1>3. Untold = [t \in Sessions |-> Untold[t]] /\ Untold' = [t \in Sessions |-> Untold'[t]]
  BY DEF Untold
<1> QED BY <1>1, <1>2, <1>3

\* A handler reads the place of a character to tell of it: of a nearby player, of
\* the player who has come, and of the player who has moved (session.cpp:277-330,
\* sessionmovement.cpp:36-58).
LEMMA LookInPresence ==
    ASSUME TypeOK, HandlerOK, NEW s \in Sessions,
           \/ \E q \in Players : DescribePlayer(s, q)
           \/ ComposeAnnouncement(s) \/ FindWitnesses(s)
    PROVE  Characters!Look(s)
<1> USE DEF TypeOK, HandlerOK, Goto
<1>1. player[s] \in Players /\ pc[s] \in {"describing", "witnessing"}
  BY DEF DescribePlayer, ComposeAnnouncement, FindWitnesses
<1>2. PICK q \in Players, place \in Places :
          /\ place \in ReadOutcomes(q, Racing(s))
          /\ carried' = [carried EXCEPT ![s] = place]
          /\ \/ subject' = [subject EXCEPT ![s] = q] /\ pc' = [pc EXCEPT ![s] = "telling"]
             \/ /\ q = player[s] /\ subject' = [subject EXCEPT ![s] = q]
                /\ pc' = [pc EXCEPT ![s] = "announcing"]
             \/ /\ q = player[s] /\ UNCHANGED subject
                /\ pc' = [pc EXCEPT ![s] = "notifying"]
  <2>1. ASSUME NEW q \in Players
        PROVE  ReadOutcomes(q, Racing(s)) \subseteq Places
    BY ReadTypes
  <2>2. ASSUME NEW q \in Players, DescribePlayer(s, q)
        PROVE  \E place \in Places :
                   /\ place \in ReadOutcomes(q, Racing(s))
                   /\ carried' = [carried EXCEPT ![s] = place]
                   /\ subject' = [subject EXCEPT ![s] = q]
                   /\ pc' = [pc EXCEPT ![s] = "telling"]
    BY <2>1, <2>2 DEF DescribePlayer
  <2>3. CASE ComposeAnnouncement(s)
    BY <1>1, <2>1, <2>3 DEF ComposeAnnouncement
  <2>4. CASE FindWitnesses(s)
    BY <1>1, <2>1, <2>4 DEF FindWitnesses
  <2> QED BY <2>2, <2>3, <2>4
<1>3. UNCHANGED <<account, player, sessions, playerPositions, db, view, positionTimer,
                  timerPlace>>
  BY DEF DescribePlayer, ComposeAnnouncement, FindWitnesses
<1>4. place \in Characters!Standing(q)
  BY <1>2, ReadsInPresence
<1>5. Untold'[s] = {<<q, place>>}
  BY <1>2, <1>3 DEF Untold
<1>6. /\ Entering' = Entering /\ Arrival' = Arrival /\ Unsaved' = Unsaved
      /\ Untold' = [Untold EXCEPT ![s] = {<<q, place>>}]
  <2>1. \A t \in Sessions \ {s} :
            pc'[t] = pc[t] /\ subject'[t] = subject[t] /\ carried'[t] = carried[t]
    BY <1>2
  <2>2. /\ pc[s] \notin {"placing", "registering"} \cup Comparing \cup Saving
        /\ pc'[s] \notin {"placing", "registering"} \cup Comparing \cup Saving
    BY <1>1, <1>2
  <2> QED BY <1>3, <1>5, <2>1, <2>2, TellingMoves
<1> QED BY <1>3, <1>4, <1>6 DEF Characters!Look, Characters!entry

\* A client in the game is told of a character that is not its own, or nobody is.
LEMMA TellInPresence ==
    ASSUME TypeOK, HandlerOK, RegistryInv, ToldInv, NEW s \in Sessions,
           \/ TellPlayer(s)
           \/ \E t \in Sessions : AnnounceTo(s, t)
           \/ \E q \in Players : NotifyWitness(s, q)
    PROVE  Characters!Tell(s) \/ Characters!Forget(s) \/ UNCHANGED Characters!vars
<1> USE DEF TypeOK, HandlerOK, Goto
<1> DEFINE seen == IF pc[s] = "telling" THEN subject[s] ELSE player[s]
<1>1. /\ pc[s] \in {"telling", "announcingTo", "notifying"}
      /\ seen \in Players /\ <<seen, carried[s]>> \in Untold[s]
  BY DEF TellPlayer, AnnounceTo, NotifyWitness, ToldInv, Untold
<1> DEFINE ToldOrNot ==
               \/ UNCHANGED view
               \/ \E t \in Sessions : /\ player[t] \notin {NoPlayer, seen}
                                      /\ view' = [view EXCEPT ![t][seen] = carried[s]]
<1>2. ToldOrNot
  <2>1. CASE TellPlayer(s)
    <3>1. /\ pc[s] = "telling" /\ seen = subject[s]
          /\ view' = Told(s, seen, carried[s])
      BY <2>1 DEF TellPlayer
    <3>2. player[s] # seen
      BY <3>1 DEF ToldInv
    <3>3. player[s] \in Players
      BY <3>1 DEF Steps
    <3> QED BY <3>1, <3>2, <3>3, GameAssumption DEF Told
  <2>2. ASSUME NEW t \in Sessions, AnnounceTo(s, t)
        PROVE  ToldOrNot
    <3>1. /\ pc[s] = "announcingTo" /\ seen = player[s] /\ t \in audience[s]
          /\ view' = IF player[t] = seen THEN view ELSE Told(t, seen, carried[s])
      BY <2>2 DEF AnnounceTo
    <3>2. player[t] # NoPlayer
      BY <3>1, GameAssumption DEF ToldInv
    <3> QED BY <3>1, <3>2 DEF Told
  <2>3. ASSUME NEW q \in Players, NotifyWitness(s, q)
        PROVE  ToldOrNot
    <3> DEFINE t == getSession(q, Live)
    <3>1. /\ pc[s] = "notifying" /\ seen = player[s] /\ q \in nearby[s]
          /\ view' = IF t = NoSession THEN view ELSE Told(t, seen, carried[s])
      BY <2>3 DEF NotifyWitness
    <3>2. t # NoSession => t = sessions[q] /\ t \in Sessions
      BY DEF getSession, Live
    <3>3. t # NoSession => player[t] = q
      BY <3>2 DEF RegistryInv, RegistryNamesItsPlayer
    <3>4. q # seen /\ q # NoPlayer
      BY <3>1, GameAssumption DEF ToldInv
    <3> HIDE DEF t
    <3> QED BY <3>1, <3>2, <3>3, <3>4 DEF Told
  <2> QED BY <2>1, <2>2, <2>3
<1>3. UNCHANGED <<account, player, sessions, playerPositions, db, positionTimer, timerPlace,
                  subject, carried>>
  BY DEF TellPlayer, AnnounceTo, NotifyWitness
<1>4. \/ UNCHANGED pc
      \/ pc[s] = "telling" /\ pc' = [pc EXCEPT ![s] = "describing"]
  BY DEF TellPlayer, AnnounceTo, NotifyWitness
<1>5. /\ Entering' = Entering /\ Arrival' = Arrival /\ Unsaved' = Unsaved
      /\ Untold' \in {Untold, [Untold EXCEPT ![s] = {}]}
  <2>1. CASE UNCHANGED pc
    BY <1>3, <2>1 DEF Entering, Arrival, Unsaved, Untold
  <2>2. CASE pc[s] = "telling" /\ pc' = [pc EXCEPT ![s] = "describing"]
    <3>1. Untold'[s] = {}
      BY <2>2 DEF Untold
    <3>2. \A t \in Sessions \ {s} :
              pc'[t] = pc[t] /\ subject'[t] = subject[t] /\ carried'[t] = carried[t]
      BY <1>3, <2>2
    <3>3. pc'[s] = "describing"
      BY <2>2
    <3> HIDE DEF TypeOK, HandlerOK
    <3>4. /\ Entering' = Entering /\ Arrival' = Arrival /\ Unsaved' = Unsaved
          /\ Untold' = [Untold EXCEPT ![s] = {}]
      BY <1>3, <2>2, <3>1, <3>2, <3>3, TellingMoves
    <3> QED BY <3>4
  <2> QED BY <1>4, <2>1, <2>2
<1> HIDE DEF seen
<1>6. CASE UNCHANGED view
  BY <1>3, <1>5, <1>6 DEF Characters!Forget, Characters!vars, Characters!entry
<1>7. ASSUME NEW t \in Sessions, player[t] \notin {NoPlayer, seen},
             view' = [view EXCEPT ![t][seen] = carried[s]]
      PROVE  Characters!Tell(s)
  <2>1. PICK told \in Untold[s] : told[1] = seen /\ told[2] = carried[s]
    BY <1>1
  <2> QED BY <1>3, <1>5, <1>7, <2>1 DEF Characters!Tell, Characters!entry
<1> QED BY <1>2, <1>6, <1>7

\* The loop is over, and what it told is forgotten.
LEMMA ForgetInPresence ==
    ASSUME TypeOK, HandlerOK, NEW s \in Sessions, FinishSelection(s) \/ FinishMove(s)
    PROVE  Characters!Forget(s)
<1> USE DEF TypeOK, FinishSelection, FinishMove, Return, Goto
<1>1. UNCHANGED <<account, player, sessions, playerPositions, db, view, positionTimer,
                  timerPlace>>
  OBVIOUS
<1>2. pc[s] \in {"announcingTo", "notifying"} /\ Untold'[s] = {}
  BY DEF Untold
<1>3. /\ Entering' = Entering /\ Arrival' = Arrival /\ Unsaved' = Unsaved
      /\ Untold' = [Untold EXCEPT ![s] = {}]
  <2>1. \A t \in Sessions \ {s} :
            pc'[t] = pc[t] /\ subject'[t] = subject[t] /\ carried'[t] = carried[t]
    OBVIOUS
  <2>2. pc'[s] = "idle"
    OBVIOUS
  <2> HIDE DEF FinishSelection, FinishMove
  <2> QED BY <1>1, <1>2, <2>1, <2>2, TellingMoves
<1> QED BY <1>1, <1>3 DEF Characters!Forget, Characters!entry

\* Every step of the sessions is one of Presence, or invisible to it.
LEMMA PresenceStep ==
    ASSUME TypeOK, HandlerOK, RegistryInv, LoggedInOnce, ToldInv, [Next]_vars
    PROVE  [Characters!Next]_(Characters!vars)
<1> DEFINE Seen == [Characters!Next]_(Characters!vars)
<1> SUFFICES Seen
  OBVIOUS
<1>1. /\ \A s \in Sessions : Characters!Appear(s) \/ Characters!Enter(s) => Seen
      /\ \A s \in Sessions, p \in Players : Characters!Select(s, p) => Seen
      /\ \A s \in Sessions, a \in Accounts : Characters!LogIn(s, a) => Seen
      /\ UNCHANGED Characters!vars => Seen
  BY DEF Characters!Next
<1>2. ASSUME NEW s \in Sessions, player[s] \in Players,
              \/ Characters!Move(player[s]) \/ Characters!Leave(player[s])
              \/ Characters!BeginSave(s, player[s]) \/ Characters!EndSave(s, player[s])
              \/ Characters!Look(s) \/ Characters!Tell(s) \/ Characters!Forget(s)
       PROVE  Seen
  BY <1>2 DEF Characters!Next
<1> HIDE DEF Seen
<1>3. ASSUME NEW s \in Sessions, PlaceInWorld(s) \/ Register(s)
      PROVE  Seen
  BY <1>1, <1>3, PlaceInPresence, RegisterInPresence
<1>4. ASSUME NEW s \in Sessions, NEW p \in Players, SelectCharacter(s, p)
      PROVE  Seen
  BY <1>1, <1>4, SelectInPresence
<1>5. ASSUME NEW s \in Sessions, NEW a \in Accounts, LoginSucceeds(s, a)
      PROVE  Seen
  BY <1>1, <1>5, LoginInPresence
<1>6. ASSUME NEW s \in Sessions, NEW to \in Places, MoveCharacter(s, to)
      PROVE  Seen
  <2>1. player[s] \in Players
    BY <1>6 DEF HandlerOK, MoveCharacter, InGameCommand, Handles
  <2> QED BY <1>1, <1>2, <1>6, <2>1, MoveInPresence
<1>7. ASSUME NEW s \in Sessions, Logout(s)
      PROVE  Seen
  <2>1. player[s] \in Players
    BY <1>7 DEF HandlerOK, Logout, InGameCommand, Handles
  <2>2. Characters!BeginSave(s, player[s]) \/ UNCHANGED Characters!vars
    BY <1>7, BeginSaveInPresence DEF Logout, InGameCommand, Handles
  <2> QED BY <1>1, <1>2, <2>1, <2>2
<1>8. ASSUME NEW s \in Sessions, EndOfFile(s) \/ Leave(s) \/ ReadError(s)
      PROVE  Seen
  <2>1. state[s] = "InGame" => player[s] \in Players
    BY DEF HandlerOK
  <2> QED BY <1>1, <1>2, <1>8, <2>1, EndOfFileInPresence, LeaveInPresence
<1>9. ASSUME NEW s \in Sessions,
             ComparePlace(s) \/ StorePlace(s) \/ SaveFails(s) \/ RememberPlace(s)
      PROVE  Seen
  <2>1. pc[s] \in Ending
    BY <1>9 DEF ComparePlace, StorePlace, SaveFails, RememberPlace
  <2>2. player[s] \in Players
    BY <2>1 DEF HandlerOK, Steps
  <2> QED BY <1>1, <1>2, <1>9, <2>2, HandlerSaveInPresence
<1>10. ASSUME NEW s \in Sessions,
             \/ PositionTimerFires(s) \/ TimerComparesPlace(s)
             \/ TimerStoresPlace(s) \/ TimerSaveFails(s)
             \/ TimerRemembersPlace(s) \/ BothRemember(s)
      PROVE  Seen
  <2>1. positionTimer[s] # "off"
    BY <1>10
    DEF PositionTimerFires, TimerComparesPlace, TimerStoresPlace, TimerSaveFails,
        TimerRemembersPlace, BothRemember
  <2>2. player[s] \in Players
    BY <2>1 DEF HandlerOK
  <2> QED BY <1>1, <1>2, <1>10, <2>2, FiringInPresence, TimerSaveInPresence,
             RememberingIsUnseen
<1>11. ASSUME NEW s \in Sessions,
             \/ \E q \in Players : DescribePlayer(s, q) \/ NotifyWitness(s, q)
             \/ TellPlayer(s) \/ ComposeAnnouncement(s) \/ FindWitnesses(s)
             \/ \E t \in Sessions : AnnounceTo(s, t)
             \/ FinishSelection(s) \/ FinishMove(s)
      PROVE  Seen
  <2>1. player[s] \in Players
    <3>1. pc[s] \in {"describing", "telling", "announcingTo", "witnessing", "notifying"}
      BY <1>11
      DEF DescribePlayer, NotifyWitness, TellPlayer, ComposeAnnouncement, FindWitnesses,
          AnnounceTo, FinishSelection, FinishMove
    <3> QED BY <3>1 DEF HandlerOK, Steps
  <2>2. \/ Characters!Look(s) \/ Characters!Tell(s) \/ Characters!Forget(s)
        \/ UNCHANGED Characters!vars
    BY <1>11, LookInPresence, TellInPresence, ForgetInPresence
  <2> QED BY <1>1, <1>2, <2>1, <2>2
<1>12. ASSUME NEW s \in Sessions, PresenceQuiet(s)
      PROVE  Seen
  BY <1>1, <1>12, PresenceQuietSteps
<1>13. CASE UNCHANGED vars
  <2>1. UNCHANGED Characters!vars
    BY <1>13
    DEF vars, Characters!vars, Characters!entry, Entering, Arrival, Unsaved, Untold
  <2> QED BY <1>1, <2>1
<1> QED
  BY <1>3, <1>4, <1>5, <1>6, <1>7, <1>8, <1>9, <1>10, <1>11, <1>12, <1>13
  DEF Next, HandlerStep, HandlerBegins, TimerStep, Environment, PresenceQuiet

\* Accounts, characters, places and rows behave as Presence says, for any number of
\* sessions and players, with failing statements and colliding accesses: no session
\* ever writes an entry or a row of another's character, no place is stored or told
\* that the world did not give for that very character, and no client is told of its
\* own.  ToldInv says whom the loops of a handler will tell, RegistryInv whose
\* session the registry answers with.
THEOREM SessionsImplementPresence == Spec => ImplementsPresence
<1>1. Init => RegistryInv /\ LoggedInOnce /\ ToldInv /\ Characters!Init
  <2>1. Init => LoggedInOnce /\ ToldInv /\ Characters!Init
    BY DEF Init, WorldInit, SessionManagerInit, PlayerManagerInit, LoggedInOnce, ToldInv,
           Characters!Init, Entering, Arrival, Unsaved, Untold
  <2> QED BY <2>1, RegistryInvInit
<1>2. TypeOK /\ HandlerOK /\ RegistryInv /\ LoggedInOnce /\ ToldInv /\ [Next]_vars
        => /\ RegistryInv' /\ LoggedInOnce' /\ ToldInv'
           /\ [Characters!Next]_(Characters!vars)
  BY RegistryStep, LoggedInOnceStep, ToldStep, PresenceStep
<1> QED BY <1>1, <1>2, TypeCorrect, PTL DEF Spec, ImplementsPresence, Characters!Spec
=============================================================================
