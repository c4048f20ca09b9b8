------------------------- MODULE DownloadInvariant -------------------------
(***************************************************************************)
(* The inductive invariant behind the safety properties of DownloadSystem: *)
(* the messages on their way continue the client's file and its inflate    *)
(* stream up to where the server stands.  It needs an application that     *)
(* does not ask for data again after an error, and messages that hold no   *)
(* more of the file than a reader can count.                               *)
(***************************************************************************)
EXTENDS DownloadSystem

\* No message on its way holds more of the file than INT16_MAX.
ShortMessages == \A i \in 1..Len(wire) : Len(wire[i].bytes) <= MaxInt16

\* 100 * total_size fits a size_t.
PercentFits(n) == 100 * n < SizeModulus

\* The room for deflated data is never more than what a later packet has.
SteadyRooms ==
  Protocol = "q2pro" /\ EnableDeflate =>
    \A first \in PacketRooms, room \in PacketRooms :
      room > ZDOWNLOAD_SIZE =>
        Monus(first - ZDOWNLOAD_SIZE, OUTPUT_MARGIN) <= room - ZDOWNLOAD_SIZE

\* bytes of the file from one position to another
Slice(from, to) == [i \in 1..(to - from) |-> from + i]

DownloadMessage ==
  [zipped : BOOLEAN, bytes : Seq(Nat), size : Int, percent : 0..100,
   starts : BOOLEAN, ends : BOOLEAN]

(***************************************************************************)
(* at[i] is the position in the file after the first i messages.  Only the *)
(* last message reaches the end of the file or says that there is no more. *)
(***************************************************************************)
IsLast(i, phases) == i = Len(wire) /\ phase \in phases \cup {"idle"}
MessageInv(at, i) ==
  LET m == wire[i] IN
    /\ at[i - 1] <= at[i] /\ at[i] - at[i - 1] <= MaxInt16
    /\ m.bytes = Slice(at[i - 1], at[i])
    /\ m.size \in -1..MaxInt16
    /\ ~m.zipped /\ m.size # -1 => m.size = at[i] - at[i - 1]
    /\ m.size = -1 => ~m.zipped /\ at[i] = at[i - 1] /\ IsLast(i, {"stopped"})
    /\ m.size # -1 /\ at[i] = total => IsLast(i, {"complete"})
    /\ m.size # -1 => /\ m.percent = 100 => at[i] = total
                      /\ at[i] = total /\ PercentFits(total) => m.percent = 100

(***************************************************************************)
(* In Q2PRO the first deflated message of a download begins the stream,    *)
(* and what is sent plainly between two deflated ones is empty.            *)
(***************************************************************************)
ZippedBefore(i) == \E j \in 1..(i - 1) : wire[j].zipped
StreamInv(at, i) ==
  LET m == wire[i]
      begun == inflating \/ ZippedBefore(i)
  IN /\ m.zipped =>
          /\ Protocol \in {"r1q2", "q2pro"}
          /\ Protocol = "q2pro" =>
               /\ m.starts <=> ~begun
               /\ m.starts => at[i - 1] = 0
               /\ m.ends => at[i] = total
     /\ ~m.zipped /\ Protocol = "q2pro" /\ begun => at[i] = at[i - 1]

WireInv(at) ==
  /\ at \in [0..Len(wire) -> 0..total]
  /\ at[0] = Len(file)
  /\ at[Len(wire)] <= transferred
  /\ phase # "overrun" /\ cphase # "idle" => at[Len(wire)] = transferred
  /\ \A i \in 1..Len(wire) : MessageInv(at, i) /\ StreamInv(at, i)

(***************************************************************************)
(* The server: whether its stream has begun is known from what was sent.   *)
(***************************************************************************)
ServerBegan ==
  \/ compress = "raw" /\ data > 0
  \/ compress = "deflate" /\ valid

ServerInv ==
  /\ total \in TotalSizes \cup {0}
  /\ compress = "raw" => Protocol = "q2pro"
  /\ compress = "deflate" => EnableDeflate /\ Protocol # "vanilla"
  /\ zmax = 0 \/ \E room \in PacketRooms : room > ZDOWNLOAD_SIZE /\ zmax = MaxCompressed(room)
  /\ phase \in {"idle", "active", "complete"} => valid \in BOOLEAN
  /\ phase = "active" =>
       /\ transferred = data
       /\ data = total => total = 0
       /\ Protocol = "q2pro" =>
            /\ ServerBegan <=> inflating \/ ZippedBefore(Len(wire) + 1)
            /\ compress # "none" /\ ~ServerBegan => data = 0
  /\ phase = "complete" => transferred = total
  /\ phase = "complete" /\ PercentFits(total) => CompleteIsReported

ClientInv ==
  /\ file = Slice(0, Len(file))
  /\ IF inflating THEN Protocol = "q2pro" /\ zat = Len(file) ELSE zat = 0
  /\ cphase # "receiving" =>
       wire = <<>> /\ ~inflating /\ phase \in {"complete", "stopped", "idle"}
  /\ cphase = "idle" => file = <<>> /\ phase = "idle"
  /\ cphase = "complete" => Len(file) = total
  /\ AlwaysInflates

\* where each message ends, if nothing is missing
Positions == [i \in 0..Len(wire) |-> Len(file) + InFlight[i]]

IInv ==
  /\ TypeOK
  /\ wire \in Seq(DownloadMessage)
  /\ WireInv(Positions)
  /\ ServerInv
  /\ ClientInv
=============================================================================
