---------------------------- MODULE MapGridProofs ---------------------------
(***************************************************************************)
(* The collision grid blocks what the obstacles cover and at most one      *)
(* pixel more, and distances on a map fit in an int.                       *)
(***************************************************************************)
EXTENDS MapGrid, TLAPS

\* Truncation drops less than a unit, toward zero.
LEMMA TruncBounds ==
  ASSUME NEW v \in Int
  PROVE  /\ Trunc(v) \in Int
         /\ v >= 0 => Trunc(v) * Unit <= v /\ v < (Trunc(v) + 1) * Unit
         /\ v < 0 => (Trunc(v) - 1) * Unit < v /\ v <= Trunc(v) * Unit
<1>1. ASSUME NEW n \in Nat
      PROVE  n \div 256 \in Int /\ (n \div 256) * 256 <= n /\ n < (n \div 256 + 1) * 256
  <2>1. PICK q \in Int : q = n \div 256
    OBVIOUS
  <2>2. n % 256 = n - 256 * q /\ n % 256 >= 0 /\ n % 256 <= 255
    BY <2>1
  <2>3. q * 256 <= n /\ n < (q + 1) * 256
    BY <2>2
  <2> QED BY <2>1, <2>3
<1>2. CASE v >= 0
  <2>1. PICK q \in Int : q = v \div 256 /\ q * 256 <= v /\ v < (q + 1) * 256
    BY <1>1, <1>2
  <2>2. Trunc(v) = q
    BY <1>2, <2>1 DEF Trunc, Unit
  <2> QED BY <1>2, <2>1, <2>2 DEF Unit
<1>3. CASE v < 0
  <2>1. PICK q \in Int : q = (-v) \div 256 /\ q * 256 <= -v /\ -v < (q + 1) * 256
    BY <1>1, <1>3
  <2>2. Trunc(v) = -q
    BY <1>3, <2>1 DEF Trunc, Unit
  <2> QED BY <1>3, <2>1, <2>2 DEF Unit
<1> QED BY <1>2, <1>3

\* A side of a rectangle against the pixels 0, 1, 2, ... of one axis.
LEMMA Side ==
  ASSUME NEW from \in Int, NEW length \in Nat, NEW x \in Nat
  PROVE  /\ from < (x + 1) * Unit /\ x * Unit < from + length
              => Trunc(from) <= x /\ x <= Trunc(from + length)
         /\ Trunc(from) <= x /\ x <= Trunc(from + length)
              => from < (x + 1) * Unit /\ x * Unit < from + length + Unit
<1>1. PICK to \in Int : to = from + length
  OBVIOUS
<1>2. PICK a, b \in Int : a = Trunc(from) /\ b = Trunc(to)
  BY TruncBounds
<1>3. /\ from >= 0 => a * Unit <= from /\ from < (a + 1) * Unit
      /\ from < 0 => (a - 1) * Unit < from /\ from <= a * Unit
      /\ to >= 0 => b * Unit <= to /\ to < (b + 1) * Unit
      /\ to < 0 => (b - 1) * Unit < to /\ to <= b * Unit
  BY <1>2, TruncBounds
<1>4. from < (x + 1) * Unit /\ x * Unit < to => a <= x /\ x <= b
  BY <1>3 DEF Unit
<1>5. a <= x /\ x <= b => from < (x + 1) * Unit /\ x * Unit < to + Unit
  BY <1>3 DEF Unit
<1> QED BY <1>1, <1>2, <1>4, <1>5

\* A walkable pixel is clear of every obstacle (mapmanager.cpp:34-49).
THEOREM WalkableIsClear ==
  ASSUME MapAssumption, NEW x \in Int, NEW y \in Int, isPositionWalkable(x, y)
  PROVE  Clear(x, y)
<1>1. <<x, y>> \in Pixels /\ \A rect \in collisionAreas : ~Blocks(rect, x, y)
  BY DEF isPositionWalkable, collisionGrid
<1>2. x \in Nat /\ y \in Nat
  BY <1>1 DEF Pixels
<1>3. collisionAreas \subseteq Rectangles
  BY DEF collisionAreas, MapAssumption
<1>4. ASSUME NEW rect \in collisionAreas, Meets(rect, x, y, 0) PROVE FALSE
  <2>1. rect.left \in Int /\ rect.top \in Int /\ rect.width \in Nat /\ rect.height \in Nat
    BY <1>3 DEF Rectangles
  <2>2. Blocks(rect, x, y)
    BY <1>2, <1>4, <2>1, Side DEF Blocks, Meets
  <2> QED BY <1>1, <2>2
<1> QED BY <1>1, <1>4 DEF Clear

\* A pixel of the map that is blocked although no obstacle reaches into it lies
\* right of or below one, by less than a pixel (the <= of mapmanager.cpp:42-43).
THEOREM BlockedIsNear ==
  ASSUME MapAssumption, NEW x \in Int, NEW y \in Int,
         <<x, y>> \in Pixels, ~isPositionWalkable(x, y)
  PROVE  \E rect \in collisionAreas : Meets(rect, x, y, Unit)
<1>1. PICK rect \in collisionAreas : Blocks(rect, x, y)
  BY DEF isPositionWalkable, collisionGrid
<1>2. x \in Nat /\ y \in Nat
  BY DEF Pixels
<1>3. rect.left \in Int /\ rect.top \in Int /\ rect.width \in Nat /\ rect.height \in Nat
  BY DEF collisionAreas, MapAssumption, Rectangles
<1> QED BY <1>1, <1>2, <1>3, Side DEF Blocks, Meets

\* Between two pixels of a map of at most 32767 by 32767 the sum of the squares is
\* an int (mapmanager.cpp:98).
THEOREM DistanceFits ==
  ASSUME MapAssumption, mapWidth <= 32767, mapHeight <= 32767,
         NEW p \in Pixels, NEW q \in Pixels
  PROVE  0 <= Distance2(p, q) /\ Distance2(p, q) <= 2147483647
<1>1. ASSUME NEW d \in Int, -32766 <= d, d <= 32766
      PROVE  0 <= d * d /\ d * d <= 1073610756
  <2>1. CASE d >= 0
    BY <1>1, <2>1
  <2>2. CASE d < 0
    BY <1>1, <2>2
  <2> QED BY <2>1, <2>2
<1>2. PICK dx, dy \in Int : /\ dx = p[1] - q[1] /\ -32766 <= dx /\ dx <= 32766
                            /\ dy = p[2] - q[2] /\ -32766 <= dy /\ dy <= 32766
  BY DEF Pixels, MapAssumption
<1>3. Distance2(p, q) = dx * dx + dy * dy
  BY <1>2 DEF Distance2
<1> QED BY <1>1, <1>2, <1>3
=============================================================================
