----------------------------- MODULE SessionProofs --------------------------
(***************************************************************************)
(* Proofs about Session, for any number of sessions, players and places.   *)
(***************************************************************************)
EXTENDS SessionProperties, TLAPS

USE DEF socketVars, identity, locals, timers, histories, shared

-----------------------------------------------------------------------------
(* Type correctness.  TypeOK is not inductive alone: that a saved or told  *)
(* place is a place needs what the handler holds at that step.             *)

LEMMA InitTypes == Init => TypeOK /\ HandlerOK
<1> SUFFICES ASSUME Init PROVE TypeOK /\ HandlerOK
  OBVIOUS
<1> USE GameAssumption, SessionManagerAssumption, PlayerManagerAssumption
<1>1. WorldTypeOK /\ SessionManagerTypeOK /\ PlayerManagerTypeOK
  BY DEF Init, WorldInit, SessionManagerInit, PlayerManagerInit, WorldTypeOK,
         SessionManagerTypeOK, PlayerManagerTypeOK, Placed
<1>2. TypeOK
  BY <1>1 DEF Init, TypeOK, Steps
<1>3. HandlerOK
  BY DEF Init, HandlerOK, Ending, Comparing, Saving, Remembering
<1> QED BY <1>2, <1>3

(* What the helpers of the handlers return.                                *)

\* A write to the position table keeps its type (mapmanager.cpp:65-68).
LEMMA WriteTypes ==
    ASSUME WorldTypeOK, NEW p \in Players, NEW place \in Places, NEW racing,
           WriteOutcome(p, place, racing)
    PROVE  WorldTypeOK'
<1>1. CASE updatePlayerPosition(p, place)
  BY <1>1, WorldAssumption DEF WorldTypeOK, updatePlayerPosition, Placed
<1>2. CASE UNCHANGED playerPositions
  BY <1>2 DEF WorldTypeOK, Placed
<1> QED BY <1>1, <1>2 DEF WriteOutcome

\* What a client was sent about a player is a place (session.cpp:388-397).
LEMMA ToldTypes ==
    ASSUME view \in [Sessions -> [Players -> Places \cup {NoPlace}]],
           NEW t \in Sessions, NEW p \in Players, NEW place \in Places
    PROVE  Told(t, p, place) \in [Sessions -> [Players -> Places \cup {NoPlace}]]
BY DEF Told

\* A read answers with a place, also for a missing id (mapmanager.cpp:70-78).
LEMMA ReadTypes ==
    ASSUME WorldTypeOK, NEW p, NEW racing
    PROVE  ReadOutcomes(p, racing) \subseteq Places
BY GameAssumption DEF WorldTypeOK, ReadOutcomes, getPlayerPosition, Placed

\* Proximity answers with players (mapmanager.cpp:80-107).
LEMMA ProximityTypes ==
    ASSUME WorldTypeOK, NEW p, NEW racing
    PROVE  \A seen \in ProximityOutcomes(p, racing) : seen \subseteq Players
<1>1. getPlayersInProximity(p) \subseteq Players
  BY DEF WorldTypeOK, getPlayersInProximity, Placed
<1> QED BY <1>1 DEF ProximityOutcomes

\* Leaving the registry keeps its type (session.cpp:120-123).
LEMMA UnregisterTypes ==
    ASSUME SessionManagerTypeOK, NEW s, Unregister(s)
    PROVE  SessionManagerTypeOK'
<1>1. CASE removeSession(player[s])
  BY <1>1 DEF SessionManagerTypeOK, removeSession
<1>2. CASE UNCHANGED sessions
  BY <1>2 DEF SessionManagerTypeOK
<1> QED BY <1>1, <1>2 DEF Unregister

\* The begin of a save moves the handler on, with a place if it goes on to look
\* at last_saved_ (session.cpp:60-63).
LEMMA BeginSaveTypes ==
    ASSUME TypeOK, NEW s \in Sessions, NEW comparing \in Steps, NEW after \in Steps,
           BeginSave(s, comparing, after)
    PROVE  /\ pc' \in [Sessions -> Steps]
           /\ carried' \in [Sessions -> Places \cup {NoPlace}]
<1>1. pc \in [Sessions -> Steps] /\ carried \in [Sessions -> Places \cup {NoPlace}]
  BY DEF TypeOK
<1>2. CASE IsOpen(s)
  <2>1. PICK place \in ReadOutcomes(player[s], Racing(s)) :
            carried' = [carried EXCEPT ![s] = place]
    BY <1>2 DEF BeginSave
  <2>2. place \in Places
    BY <2>1, ReadTypes DEF TypeOK
  <2> QED BY <1>1, <1>2, <2>1, <2>2 DEF BeginSave, Goto
<1>3. CASE ~IsOpen(s)
  BY <1>1, <1>3 DEF BeginSave, Goto
<1> QED BY <1>2, <1>3

\* What is read or left of last_saved_ is a place (session.cpp:66, 73-75).
LEMMA MixedTypes ==
    ASSUME NEW place \in Places, NEW others
    PROVE  Mixed(place, others) \subseteq Places
BY DEF Mixed

\* Every step keeps the types and what the handlers hold.
LEMMA TypesStep == TypeOK /\ HandlerOK /\ [Next]_vars => TypeOK' /\ HandlerOK'
<1> SUFFICES ASSUME TypeOK, HandlerOK, [Next]_vars PROVE TypeOK' /\ HandlerOK'
  OBVIOUS
<1> USE GameAssumption, WorldAssumption, SessionManagerAssumption, PlayerManagerAssumption,
        SessionAssumption
<1> USE DEF TypeOK, HandlerOK, WorldTypeOK, SessionManagerTypeOK, PlayerManagerTypeOK,
            Steps, Comparing, Saving, Remembering, Ending, AllCommands, Placed
<1>1. ASSUME NEW s \in Sessions, PlaceInWorld(s)
      PROVE  TypeOK' /\ HandlerOK'
  <2>1. TypeOK'
    <3>1. WorldTypeOK'
      BY <1>1, WriteTypes DEF PlaceInWorld
    <3> QED BY <1>1, <3>1 DEF PlaceInWorld, Goto
  <2>2. HandlerOK'
    BY <1>1 DEF PlaceInWorld, WriteOutcome, updatePlayerPosition, Goto
  <2> QED BY <2>1, <2>2
<1>2. ASSUME NEW s \in Sessions, Register(s)
      PROVE  TypeOK' /\ HandlerOK'
  <2>1. TypeOK'
    BY <1>2 DEF Register, addSession, Goto
  <2>2. HandlerOK'
    BY <1>2 DEF Register, addSession, Goto
  <2> QED BY <2>1, <2>2
<1>3. ASSUME NEW s \in Sessions, LookAround(s)
      PROVE  TypeOK' /\ HandlerOK'
  <2>1. TypeOK'
    <3>1. \A seen \in ProximityOutcomes(player[s], Racing(s)) : seen \subseteq Players
      BY ProximityTypes
    <3>2. Announced \subseteq Players
      BY DEF Announced
    <3>3. nearby' \in [Sessions -> SUBSET Players] /\ pc' \in [Sessions -> Steps]
      BY <1>3, <3>1 DEF LookAround, Goto
    <3>4. skipped' \in [Sessions -> SUBSET Players]
      BY <1>3, <3>2 DEF LookAround
    <3> QED BY <1>3, <3>3, <3>4 DEF LookAround
  <2>2. HandlerOK'
    BY <1>3 DEF LookAround, ProximityOutcomes, getPlayersInProximity, Goto
  <2> QED BY <2>1, <2>2
<1>4. ASSUME NEW s \in Sessions, NEW q \in Players, DescribePlayer(s, q)
      PROVE  TypeOK' /\ HandlerOK'
  <2>1. TypeOK'
    BY <1>4 DEF DescribePlayer, ReadOutcomes, getPlayerPosition, Goto
  <2>2. HandlerOK'
    BY <1>4 DEF DescribePlayer, ReadOutcomes, getPlayerPosition, Goto
  <2> QED BY <2>1, <2>2
<1>5. ASSUME NEW s \in Sessions, NEW q \in Players, SkipPlayer(s, q)
      PROVE  TypeOK' /\ HandlerOK'
  <2>1. TypeOK'
    BY <1>5 DEF SkipPlayer
  <2>2. HandlerOK'
    BY <1>5 DEF SkipPlayer
  <2> QED BY <2>1, <2>2
<1>6. ASSUME NEW s \in Sessions, TellPlayer(s)
      PROVE  TypeOK' /\ HandlerOK'
  <2>1. TypeOK'
    BY <1>6 DEF TellPlayer, Told, Goto
  <2>2. HandlerOK'
    BY <1>6 DEF TellPlayer, Told, Goto
  <2> QED BY <2>1, <2>2
<1>7. ASSUME NEW s \in Sessions, ComposeAnnouncement(s)
      PROVE  TypeOK' /\ HandlerOK'
  <2>1. TypeOK'
    BY <1>7 DEF ComposeAnnouncement, ReadOutcomes, getPlayerPosition, Goto
  <2>2. HandlerOK'
    BY <1>7 DEF ComposeAnnouncement, ReadOutcomes, getPlayerPosition, Goto
  <2> QED BY <2>1, <2>2
<1>8. ASSUME NEW s \in Sessions, Announce(s)
      PROVE  TypeOK' /\ HandlerOK'
  <2>1. TypeOK'
    BY <1>8 DEF Announce, getAllSessions, Live, Goto
  <2>2. HandlerOK'
    BY <1>8 DEF Announce, getAllSessions, Live, Goto
  <2> QED BY <2>1, <2>2
<1>9. ASSUME NEW s \in Sessions, NEW t \in Sessions, AnnounceTo(s, t)
      PROVE  TypeOK' /\ HandlerOK'
  <2>1. TypeOK'
    <3>1. player[s] \in Players /\ carried[s] \in Places
      BY <1>9 DEF AnnounceTo
    <3>2. Told(t, player[s], carried[s]) \in [Sessions -> [Players -> Places \cup {NoPlace}]]
      BY <3>1, ToldTypes
    <3> QED BY <1>9, <3>2 DEF AnnounceTo
  <2>2. HandlerOK'
    BY <1>9 DEF AnnounceTo, Told
  <2> QED BY <2>1, <2>2
<1>10. ASSUME NEW s \in Sessions, FinishSelection(s)
      PROVE  TypeOK' /\ HandlerOK'
  <2>1. TypeOK'
    BY <1>10 DEF FinishSelection, Return, Goto, receiveClientData
  <2>2. HandlerOK'
    BY <1>10 DEF FinishSelection, Return, Goto, receiveClientData
  <2> QED BY <2>1, <2>2
<1>11. ASSUME NEW s \in Sessions, FindWitnesses(s)
      PROVE  TypeOK' /\ HandlerOK'
  <2>1. TypeOK'
    <3>1. ReadOutcomes(player[s], Racing(s)) \subseteq Places
      BY ReadTypes
    <3>2. \A seen \in ProximityOutcomes(player[s], Racing(s)) : seen \subseteq Players
      BY ProximityTypes
    <3> QED BY <1>11, <3>1, <3>2 DEF FindWitnesses, Goto
  <2>2. HandlerOK'
    BY <1>11
    DEF FindWitnesses, ReadOutcomes, getPlayerPosition, ProximityOutcomes,
       getPlayersInProximity, Goto
  <2> QED BY <2>1, <2>2
<1>12. ASSUME NEW s \in Sessions, NEW q \in Players, NotifyWitness(s, q)
      PROVE  TypeOK' /\ HandlerOK'
  <2>1. TypeOK'
    <3>1. player[s] \in Players /\ carried[s] \in Places
      BY <1>12 DEF NotifyWitness
    <3>2. \A t \in Sessions :
             Told(t, player[s], carried[s]) \in [Sessions -> [Players -> Places \cup {NoPlace}]]
      BY <3>1, ToldTypes
    <3>3. getSession(q, Live) # NoSession => getSession(q, Live) \in Sessions
      BY DEF getSession, Live
    <3> QED BY <1>12, <3>2, <3>3 DEF NotifyWitness
  <2>2. HandlerOK'
    BY <1>12 DEF NotifyWitness, Told, getSession, Live
  <2> QED BY <2>1, <2>2
<1>13. ASSUME NEW s \in Sessions, FinishMove(s)
      PROVE  TypeOK' /\ HandlerOK'
  <2>1. TypeOK'
    BY <1>13 DEF FinishMove, Return, Goto, receiveClientData
  <2>2. HandlerOK'
    BY <1>13 DEF FinishMove, Return, Goto, receiveClientData
  <2> QED BY <2>1, <2>2
<1>14. ASSUME NEW s \in Sessions,
              ComparePlace(s) \/ StorePlace(s) \/ SaveFails(s) \/ RememberPlace(s)
      PROVE  TypeOK' /\ HandlerOK'
  <2>1. pc[s] \in Ending /\ carried[s] \in Places /\ state[s] = "InGame"
    BY <1>14 DEF ComparePlace, StorePlace, SaveFails, RememberPlace
  <2>2. ASSUME ComparePlace(s) PROVE TypeOK' /\ HandlerOK'
    BY <2>1, <2>2 DEF ComparePlace, AfterSave, AtLogout, Goto
  <2>3. ASSUME StorePlace(s) PROVE TypeOK' /\ HandlerOK'
    BY <2>1, <2>3 DEF StorePlace, storePosition, AtLogout, Goto
  <2>4. ASSUME SaveFails(s) PROVE TypeOK' /\ HandlerOK'
    BY <2>1, <2>4 DEF SaveFails, AfterSave, AtLogout, Goto
  <2>5. ASSUME RememberPlace(s) PROVE TypeOK' /\ HandlerOK'
    BY <2>1, <2>5 DEF RememberPlace, AfterSave, AtLogout, Goto
  <2> QED BY <1>14, <2>2, <2>3, <2>4, <2>5
<1>15. ASSUME NEW s \in Sessions, Leave(s)
      PROVE  TypeOK' /\ HandlerOK'
  <2>1. TypeOK'
    <3>1. SessionManagerTypeOK'
      BY <1>15, UnregisterTypes DEF Leave
    <3> QED BY <1>15, <3>1 DEF Leave, cancelPositionTimer, Goto
  <2>2. HandlerOK'
    BY <1>15 DEF Leave, cancelPositionTimer, Unregister, removeSession, Goto
  <2> QED BY <2>1, <2>2
<1>16. ASSUME NEW s \in Sessions, Close(s)
      PROVE  TypeOK' /\ HandlerOK'
  <2>1. TypeOK'
    BY <1>16 DEF Close, closeSocket, Return, Goto
  <2>2. HandlerOK'
    BY <1>16 DEF Close, closeSocket, Return, Goto
  <2> QED BY <2>1, <2>2
<1>17. ASSUME NEW s \in Sessions, NEW a \in Accounts, LoginSucceeds(s, a)
      PROVE  TypeOK' /\ HandlerOK'
  <2>1. TypeOK'
    BY <1>17 DEF LoginSucceeds, Handles, cancelLoginTimer, receiveClientData
  <2>2. HandlerOK'
    BY <1>17 DEF LoginSucceeds, Handles, cancelLoginTimer, receiveClientData
  <2> QED BY <2>1, <2>2
<1>18. ASSUME NEW s \in Sessions, LoginFails(s)
      PROVE  TypeOK' /\ HandlerOK'
  <2>1. TypeOK'
    BY <1>18 DEF LoginFails, Handles, closeSocket, TakeRead
  <2>2. HandlerOK'
    BY <1>18 DEF LoginFails, Handles, closeSocket, TakeRead
  <2> QED BY <2>1, <2>2
<1>19. ASSUME NEW s \in Sessions, AnswerInLobby(s)
      PROVE  TypeOK' /\ HandlerOK'
  <2>1. TypeOK'
    BY <1>19 DEF AnswerInLobby, Handles, receiveClientData
  <2>2. HandlerOK'
    BY <1>19 DEF AnswerInLobby, Handles, receiveClientData
  <2> QED BY <2>1, <2>2
<1>20. ASSUME NEW s \in Sessions, NEW p \in Players, SelectCharacter(s, p)
      PROVE  TypeOK' /\ HandlerOK'
  <2>1. TypeOK'
    BY <1>20
    DEF SelectCharacter, Handles, getCharacterInfo, storedPosition, Goto,
       TakeRead
  <2>2. HandlerOK'
    BY <1>20
    DEF SelectCharacter, Handles, getCharacterInfo, storedPosition, Goto,
       TakeRead
  <2> QED BY <2>1, <2>2
<1>21. ASSUME NEW s \in Sessions, NEW to \in Places, MoveCharacter(s, to)
      PROVE  TypeOK' /\ HandlerOK'
  <2>1. TypeOK'
    <3>1. player[s] \in Players
      BY <1>21 DEF MoveCharacter, InGameCommand, Handles
    <3>2. WorldTypeOK'
      BY <1>21, <3>1, WriteTypes DEF MoveCharacter
    <3> QED BY <1>21, <3>2 DEF MoveCharacter, InGameCommand, Goto, TakeRead
  <2>2. HandlerOK'
    BY <1>21
    DEF MoveCharacter, InGameCommand, Handles, isPositionWalkable,
       WriteOutcome, updatePlayerPosition, Goto, TakeRead
  <2> QED BY <2>1, <2>2
<1>22. ASSUME NEW s \in Sessions, NEW c \in AllCommands, AnswerAndReceive(s, c)
      PROVE  TypeOK' /\ HandlerOK'
  <2>1. TypeOK'
    BY <1>22 DEF AnswerAndReceive, InGameCommand, Handles, receiveClientData
  <2>2. HandlerOK'
    BY <1>22 DEF AnswerAndReceive, InGameCommand, Handles, receiveClientData
  <2> QED BY <2>1, <2>2
<1>23. ASSUME NEW s \in Sessions, NEW c \in AllCommands, AnswerOnly(s, c)
      PROVE  TypeOK' /\ HandlerOK'
  <2>1. TypeOK'
    BY <1>23 DEF AnswerOnly, InGameCommand, Handles, TakeRead
  <2>2. HandlerOK'
    BY <1>23 DEF AnswerOnly, InGameCommand, Handles, TakeRead
  <2> QED BY <2>1, <2>2
<1>24. ASSUME NEW s \in Sessions, Logout(s)
      PROVE  TypeOK' /\ HandlerOK'
  <2>1. TypeOK'
    <3>1. /\ pc' \in [Sessions -> Steps]
          /\ carried' \in [Sessions -> Places \cup {NoPlace}]
      BY <1>24, BeginSaveTypes DEF Logout
    <3> QED BY <1>24, <3>1 DEF Logout, InGameCommand, TakeRead
  <2>2. HandlerOK'
    BY <1>24
    DEF Logout, InGameCommand, Handles, BeginSave, ReadOutcomes,
       getPlayerPosition, Goto, TakeRead
  <2> QED BY <2>1, <2>2
<1>25. ASSUME NEW s \in Sessions, EndOfFile(s)
      PROVE  TypeOK' /\ HandlerOK'
  <2>1. TypeOK'
    <3>1. /\ pc' \in [Sessions -> Steps]
          /\ carried' \in [Sessions -> Places \cup {NoPlace}]
      <4>1. CASE state[s] = "InGame"
        <5>1. BeginSave(s, "comparingAtEof", "leaving")
          BY <1>25, <4>1 DEF EndOfFile
        <5>2. "comparingAtEof" \in Steps /\ "leaving" \in Steps
          OBVIOUS
        <5> HIDE DEF TypeOK, HandlerOK, Steps
        <5> QED BY <1>25, <5>1, <5>2, BeginSaveTypes
      <4>2. CASE state[s] # "InGame"
        <5>1. pc' = [pc EXCEPT ![s] = "leaving"] /\ carried' = carried
          BY <1>25, <4>2 DEF EndOfFile, Goto
        <5> QED BY <5>1
      <4> QED BY <4>1, <4>2
    <3>2. read' = [read EXCEPT ![s] = "none"]
      BY <1>25 DEF EndOfFile, TakeRead
    <3> QED BY <1>25, <3>1, <3>2 DEF EndOfFile
  <2>2. HandlerOK'
    BY <1>25
    DEF EndOfFile, BeginSave, ReadOutcomes, getPlayerPosition, Goto, TakeRead
  <2> QED BY <2>1, <2>2
<1>26. ASSUME NEW s \in Sessions, ReadError(s)
      PROVE  TypeOK' /\ HandlerOK'
  <2>1. TypeOK'
    <3>1. SessionManagerTypeOK'
      BY <1>26, UnregisterTypes DEF ReadError
    <3> QED BY <1>26, <3>1 DEF ReadError, TakeRead, Goto
  <2>2. HandlerOK'
    BY <1>26 DEF ReadError, Unregister, removeSession, TakeRead, Goto
  <2> QED BY <2>1, <2>2
<1>27. ASSUME NEW s \in Sessions, LoginTimerExpires(s)
      PROVE  TypeOK' /\ HandlerOK'
  <2>1. TypeOK'
    BY <1>27 DEF LoginTimerExpires
  <2>2. HandlerOK'
    BY <1>27 DEF LoginTimerExpires
  <2> QED BY <2>1, <2>2
<1>28. ASSUME NEW s \in Sessions, onLoginTimeout(s)
      PROVE  TypeOK' /\ HandlerOK'
  <2>1. TypeOK'
    BY <1>28 DEF onLoginTimeout, closeSocket
  <2>2. HandlerOK'
    BY <1>28 DEF onLoginTimeout, closeSocket
  <2> QED BY <2>1, <2>2
<1>29. ASSUME NEW s \in Sessions, PositionTimerFires(s)
      PROVE  TypeOK' /\ HandlerOK'
  <2>1. positionTimer[s] = "armed"
        /\ UNCHANGED <<socketVars, identity, pc, locals, loginTimer, lastSaved, histories,
                       shared>>
    BY <1>29 DEF PositionTimerFires
  <2>2. \/ /\ positionTimer' = [positionTimer EXCEPT ![s] = "off"]
           /\ UNCHANGED timerPlace
        \/ /\ positionTimer' = [positionTimer EXCEPT ![s] = "comparing"]
           /\ \E place \in ReadOutcomes(player[s], Racing(s)) :
                  timerPlace' = [timerPlace EXCEPT ![s] = place]
    BY <1>29 DEF PositionTimerFires
  <2>3. ReadOutcomes(player[s], Racing(s)) \subseteq Places
    BY ReadTypes
  <2>4. CASE /\ positionTimer' = [positionTimer EXCEPT ![s] = "off"]
             /\ UNCHANGED timerPlace
    BY <2>1, <2>4
  <2>5. ASSUME NEW place \in Places,
               positionTimer' = [positionTimer EXCEPT ![s] = "comparing"],
               timerPlace' = [timerPlace EXCEPT ![s] = place]
        PROVE  TypeOK' /\ HandlerOK'
    BY <2>1, <2>5
  <2> QED BY <2>2, <2>3, <2>4, <2>5
<1>30. ASSUME NEW s \in Sessions,
              \/ TimerComparesPlace(s) \/ TimerStoresPlace(s)
              \/ TimerSaveFails(s) \/ TimerRemembersPlace(s)
      PROVE  TypeOK' /\ HandlerOK'
  <2>1. timerPlace[s] \in Places
    BY <1>30 DEF TimerComparesPlace, TimerStoresPlace, TimerSaveFails, TimerRemembersPlace
  <2>2. ASSUME TimerComparesPlace(s) PROVE TypeOK' /\ HandlerOK'
    <3>1. \/ RestartTimer(s)
          \/ /\ positionTimer' = [positionTimer EXCEPT ![s] = "saving"]
             /\ UNCHANGED timerPlace
      BY <2>2 DEF TimerComparesPlace
    <3>2. CASE RestartTimer(s)
      BY <2>1, <2>2, <3>2 DEF TimerComparesPlace, RestartTimer
    <3>3. CASE /\ positionTimer' = [positionTimer EXCEPT ![s] = "saving"]
               /\ UNCHANGED timerPlace
      BY <2>1, <2>2, <3>3 DEF TimerComparesPlace
    <3> QED BY <3>1, <3>2, <3>3
  <2>3. ASSUME TimerStoresPlace(s) PROVE TypeOK' /\ HandlerOK'
    BY <2>1, <2>3 DEF TimerStoresPlace, storePosition
  <2>4. ASSUME TimerSaveFails(s) PROVE TypeOK' /\ HandlerOK'
    BY <2>1, <2>4 DEF TimerSaveFails, RestartTimer
  <2>5. ASSUME TimerRemembersPlace(s) PROVE TypeOK' /\ HandlerOK'
    BY <2>1, <2>5 DEF TimerRemembersPlace, RestartTimer
  <2> QED BY <1>30, <2>2, <2>3, <2>4, <2>5
<1>31. ASSUME NEW s \in Sessions, BothRemember(s)
      PROVE  TypeOK' /\ HandlerOK'
  <2>1. carried[s] \in Places
    BY <1>31 DEF BothRemember
  <2>2. Mixed(carried[s], TimerRemembers(s)) \subseteq Places
    BY <2>1, MixedTypes
  <2>3. TypeOK'
    BY <1>31, <2>2 DEF BothRemember, RestartTimer, AfterSave, Goto
  <2>4. HandlerOK'
    BY <1>31 DEF BothRemember, RestartTimer, AfterSave, Goto
  <2> QED BY <2>3, <2>4
<1>32. ASSUME NEW s \in Sessions, Accept(s)
      PROVE  TypeOK' /\ HandlerOK'
  <2>1. TypeOK'
    BY <1>32 DEF Accept, receiveClientData
  <2>2. HandlerOK'
    BY <1>32 DEF Accept, receiveClientData
  <2> QED BY <2>1, <2>2
<1>33. ASSUME NEW s \in Sessions, AcceptGone(s)
      PROVE  TypeOK' /\ HandlerOK'
  <2>1. TypeOK'
    BY <1>33 DEF AcceptGone
  <2>2. HandlerOK'
    BY <1>33 DEF AcceptGone
  <2> QED BY <2>1, <2>2
<1>34. ASSUME NEW s \in Sessions, DataArrives(s)
      PROVE  TypeOK' /\ HandlerOK'
  <2>1. TypeOK'
    BY <1>34 DEF DataArrives
  <2>2. HandlerOK'
    BY <1>34 DEF DataArrives
  <2> QED BY <2>1, <2>2
<1>35. ASSUME NEW s \in Sessions, ClientCloses(s)
      PROVE  TypeOK' /\ HandlerOK'
  <2>1. TypeOK'
    BY <1>35 DEF ClientCloses
  <2>2. HandlerOK'
    BY <1>35 DEF ClientCloses
  <2> QED BY <2>1, <2>2
<1>36. ASSUME NEW s \in Sessions, ReadFails(s)
      PROVE  TypeOK' /\ HandlerOK'
  <2>1. TypeOK'
    BY <1>36 DEF ReadFails
  <2>2. HandlerOK'
    BY <1>36 DEF ReadFails
  <2> QED BY <2>1, <2>2
<1>37. CASE UNCHANGED vars
  BY <1>37 DEF vars
<1> HIDE DEF TypeOK, HandlerOK, WorldTypeOK, SessionManagerTypeOK, PlayerManagerTypeOK,
             Steps, Comparing, Saving, Remembering, Ending, AllCommands, Placed
<1> QED
  BY <1>1, <1>2, <1>3, <1>4, <1>5, <1>6, <1>7, <1>8, <1>9, <1>10, <1>11,
     <1>12, <1>13, <1>14, <1>15, <1>16, <1>17, <1>18, <1>19, <1>20, <1>21,
     <1>22, <1>23, <1>24, <1>25, <1>26, <1>27, <1>28, <1>29, <1>30, <1>31,
     <1>32, <1>33, <1>34, <1>35, <1>36, <1>37
  DEF Next, HandlerStep, HandlerBegins, TimerStep, Environment

\* In every reachable state the variables have their types: no save, send or
\* registry entry ever carries an id, a place or a session that is not one.
THEOREM TypeCorrect == Spec => [](TypeOK /\ HandlerOK)
<1> QED BY InitTypes, TypesStep, PTL DEF Spec
=============================================================================
