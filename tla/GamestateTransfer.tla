------------------------- MODULE GamestateTransfer -------------------------
(***************************************************************************)
(* What the gamestate writer and reader promise together: after every      *)
(* serverdata message the client application is handed the elements of the *)
(* gamestate one by one, in their order, none of them twice, none left out.*)
(***************************************************************************)
EXTENDS Integers, Sequences

CONSTANT NumItems \* elements of a gamestate, a natural number

VARIABLES
  level, \* serverdata messages seen on this connection
  got    \* the <<level, element>> handed over since the last of them

Init ==
  /\ level = 0
  /\ got = <<>>

StartLevel ==
  /\ level' = level + 1
  /\ got' = <<>>

HandOver ==
  /\ level > 0
  /\ Len(got) < NumItems
  /\ got' = Append(got, <<level, Len(got) + 1>>)
  /\ UNCHANGED level

Disconnect ==
  /\ level' = 0
  /\ got' = <<>>

Next == StartLevel \/ HandOver \/ Disconnect

Spec == Init /\ [][Next]_<<level, got>>
=============================================================================
