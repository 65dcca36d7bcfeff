-------------------------- MODULE MCClientConnection -------------------------
(***************************************************************************)
(* A small instance of ClientConnection for TLC: a map of 8 by 8 pixels,   *)
(* names of one or two bytes, and ids on both sides of 2^16.               *)
(***************************************************************************)
EXTENDS ClientConnection

\* An obstacle at pixels 2.5 to 4.25 by 1 to 3, one that is not an obstacle, and
\* one in a layer of another kind.
MCLayers ==
    {[type |-> "Object", name |-> "Collision",
      objects |-> {[left |-> 640, top |-> 256, width |-> 448, height |-> 512]}],
     [type |-> "Object", name |-> "Spawns",
      objects |-> {[left |-> 1536, top |-> 1536, width |-> 256, height |-> 256]}],
     [type |-> "Tile", name |-> "Collision", objects |-> {}]}

MCAccount == [id |-> 300, username |-> <<97, 98>>, password |-> <<99>>]
Knight  == [id |-> 7, name |-> <<107>>, vocation |-> <<75>>, level |-> 1, place |-> <<6, 1, 0>>]
Veteran == [id |-> 65543, name |-> <<118>>, vocation |-> <<75>>, level |-> 8,
            place |-> <<700, 1, 2>>]
Nowhere == [id |-> 9, name |-> <<110>>, vocation |-> <<75>>, level |-> 1, place |-> <<0, 0, 0>>]
MCCharacters == <<Knight, Veteran, Nowhere>>
MCNeighbour == [id |-> 8, name |-> <<111, 112>>, place |-> <<6, 3>>]

Login(password) == [name |-> "LOGIN", username |-> <<97, 98>>, password |-> password]
Select(c) == [name |-> "SELECT", character |-> c.name]
Move(x, y) == [name |-> "MOVE", to |-> <<x, y>>]
Step(dx, dy) == [name |-> "STEP", delta |-> <<dx, dy>>]
Attack(c, target) == [name |-> "ATTACK", attacker |-> c.id, target |-> target]
Plain(name) == [name |-> name]

MCConversations ==
    {<<Login(<<99>>), Select(Knight), Move(2, 2), Plain("LOGOUT")>>,
     <<Login(<<99>>), Select(Knight), Step(0, -1), Step(5, 5)>>,
     <<Login(<<99>>), Plain("LIST"), Select(Veteran), Attack(Veteran, 8), Move(300, 2)>>,
     <<Login(<<99>>), [name |-> "CREATE", character |-> <<120>>, vocation |-> <<75>>],
       Select(Nowhere), Plain("PING"), Select(Veteran), Attack(Knight, 8)>>,
     <<Login(<<99>>), Select(Knight), Attack(Knight, 8), Plain("PING")>>,
     <<Login(<<100>>), Plain("LIST")>>}
=============================================================================
