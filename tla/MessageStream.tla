---------------------------- MODULE MessageStream ---------------------------
(***************************************************************************)
(* Abstract: what sendDataToClient promises to the client of a connection. *)
(* Messages are posted one after the other, and their bytes arrive, part   *)
(* by part, whole and in the order of the posts, unless parts of several   *)
(* messages are mixed.                                                     *)
(***************************************************************************)
EXTENDS Naturals, Sequences

VARIABLES
    posted,     \* the messages
    last,       \* the last part sent: bytes from..to of message number
    mixed       \* whether parts may be out of order

vars == <<posted, last, mixed>>

NoPart == [number |-> 0, from |-> 0, to |-> 0]

\* part comes next after the part before.
Continues(before, messages, part) ==
    \/ before # NoPart /\ part.number = before.number /\ part.from = before.to + 1
    \/ /\ before # NoPart => before.to = Len(messages[before.number])
       /\ part.number = before.number + 1 /\ part.from = 1

Init == posted = <<>> /\ last = NoPart /\ mixed = FALSE

\* A message is posted, or a part is sent, or both.
Next == /\ \/ UNCHANGED posted
           \/ /\ Len(posted') = Len(posted) + 1
              /\ SubSeq(posted', 1, Len(posted)) = posted
        /\ UNCHANGED last \/ mixed' \/ Continues(last, posted', last')
        /\ mixed => mixed'

Spec == Init /\ [][Next]_vars
=============================================================================
