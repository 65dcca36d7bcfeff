------------------------------- MODULE MapGrid ------------------------------
(***************************************************************************)
(* The map: the obstacles maploader.cpp takes from the map file, the       *)
(* collision grid mapmanager.cpp makes from them, pixel by pixel, and the  *)
(* distance test.                                                          *)
(***************************************************************************)
EXTENDS Integers

\* Obstacles have float coordinates; they are integers here, in 1/Unit pixels.
Unit == 256

CONSTANTS
    mapWidth, mapHeight,    \* map_->getBounds(), in pixels
    Layers                  \* the layers of the map file

Rectangles == [left : Int, top : Int, width : Nat, height : Nat]

ASSUME MapAssumption ==
    /\ mapWidth \in Nat /\ mapHeight \in Nat
    /\ \A layer \in Layers : layer.objects \subseteq Rectangles

Pixels == (0 .. mapWidth - 1) \X (0 .. mapHeight - 1)

-----------------------------------------------------------------------------

\* loadMap: the objects of the object layers called "Collision".  Layers inside a
\* group layer are not among Layers, and are not looked at.
collisionAreas ==
    UNION {layer.objects : layer \in
              {l \in Layers : l.type = "Object" /\ l.name = "Collision"}}

\* Faulty variant: the next pixel.
RoundUp(v) == IF v >= 0 THEN v \div Unit + 1 ELSE -((-v) \div Unit)

\* static_cast<int> of a float rounds towards zero.
Trunc(v) == IF v >= 0 THEN v \div Unit ELSE -((-v) \div Unit)

Blocks(rect, x, y) ==
    /\ Trunc(rect.left) <= x /\ x <= Trunc(rect.left + rect.width)
    /\ Trunc(rect.top)  <= y /\ y <= Trunc(rect.top + rect.height)

collisionGrid == [pixel \in Pixels |-> ~ \E rect \in collisionAreas :
                                             Blocks(rect, pixel[1], pixel[2])]

isPositionWalkable(x, y) == <<x, y>> \in Pixels /\ collisionGrid[<<x, y>>]

\* The (x, y) of all players within range of a player, itself left out.
Distance2(p, q) == (p[1] - q[1]) * (p[1] - q[1]) + (p[2] - q[2]) * (p[2] - q[2])

getPlayersInProximity(playerPositions, playerId, range) ==
    {other \in DOMAIN playerPositions \ {playerId} :
        /\ playerId \in DOMAIN playerPositions
        /\ Distance2(playerPositions[other], playerPositions[playerId]) <= range * range}

-----------------------------------------------------------------------------
(* What the grid is for, stated on the rectangles themselves.              *)

\* A part of the pixel (x, y), a square with sides of one Unit, is inside rect,
\* when the rectangle is made larger by the given margin on its far sides.
Meets(rect, x, y, margin) ==
    /\ rect.left < (x + 1) * Unit /\ x * Unit < rect.left + rect.width + margin
    /\ rect.top  < (y + 1) * Unit /\ y * Unit < rect.top + rect.height + margin

\* Nobody stands on a pixel an obstacle reaches into.
Clear(x, y) == <<x, y>> \in Pixels /\ \A rect \in collisionAreas : ~Meets(rect, x, y, 0)
=============================================================================
