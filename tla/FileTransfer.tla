---------------------------- MODULE FileTransfer ----------------------------
(***************************************************************************)
(* What a download promises: the client's file grows from its beginning,   *)
(* byte by byte in order, and the download is complete exactly when the    *)
(* whole file has arrived.  Byte i of the file is the number i.            *)
(***************************************************************************)
EXTENDS Naturals, Sequences

CONSTANT Sizes \* sizes of the files there are

VARIABLES
  status, \* "idle", "receiving", "complete" or "stopped"
  size,   \* of the file that was asked for
  file    \* what the client has of it

vars == <<status, size, file>>

Beginning(n) == [i \in 1..n |-> i]

Init ==
  /\ status = "idle"
  /\ size = 0
  /\ file = <<>>

Start ==
  /\ status # "receiving"
  /\ status' = "receiving"
  /\ size' \in Sizes
  /\ file' = <<>>

Receive ==
  /\ status = "receiving"
  /\ \E n \in Len(file)..size :
       /\ file' = Beginning(n)
       /\ status' = IF n = size THEN "complete" ELSE "receiving"
  /\ UNCHANGED size

\* The server has no more, though the file is not complete.
Stop ==
  /\ status = "receiving"
  /\ status' = "stopped"
  /\ UNCHANGED <<size, file>>

Forget ==
  /\ status \in {"receiving", "stopped"}
  /\ status' = "idle"
  /\ file' = <<>>
  /\ UNCHANGED size

Next == Start \/ Receive \/ Stop \/ Forget

Spec == Init /\ [][Next]_vars
=============================================================================
