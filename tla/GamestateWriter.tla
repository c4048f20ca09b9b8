-------------------------- MODULE GamestateWriter --------------------------
(***************************************************************************)
(* q2proto_server_write_gamestate(): the resumable writer of a gamestate,  *)
(* the zpacket it may be wrapped in, and the server application that calls *)
(* it, flushes packets and writes other messages between the calls.        *)
(*                                                                         *)
(* One action is one turn of a loop or one write with its error exit.  The *)
(* writer runs on one thread: while wpc is inside a call nothing else      *)
(* happens on the server; the client (StreamReader) runs concurrently.     *)
(***************************************************************************)
EXTENDS GamestateWire

CONSTANTS
  PacketSize,    \* bytes of an empty packet
  StringLens,    \* lengths of configstring values
  BaselineSizes, \* encoded sizes of baseline deltas, command byte excluded
  Unwritable,    \* baselines whose delta the protocol may be unable to express
  BaselineMax,   \* WRITE_GAMESTATE_BASELINE_SIZE, command byte included
  MsgSizes,      \* sizes of the other messages the server writes
  EnableDeflate, \* features.enable_deflate and deflate_args given
  MaxMsgs,       \* bound: other messages per connection
  MaxLevels      \* bound: serverdata messages per connection

ASSUME WriterAssumption ==
  /\ PacketSize \in Nat
  /\ StringLens \subseteq Nat
  /\ BaselineMax \in Nat \ {0}
  /\ BaselineSizes \subseteq 1..(BaselineMax - 1)
  /\ Unwritable \subseteq (NumConfigstrings + 1)..NumItems
  /\ MsgSizes \subseteq Nat \ {0}
  /\ EnableDeflate \in BOOLEAN
  /\ MaxMsgs \in Nat
  /\ MaxLevels \in Nat

VARIABLES
  size,  \* input: string length resp. encoded size of every element
  pos,   \* context->gamestate_pos
  wpc,   \* where the writer is; see WriterPCs
  room,  \* bytes left in the packet
  zip,   \* zpacket_state.deflate_enabled of the call in progress
  zmax,  \* max_deflated given to q2protoio_deflate_begin
  zraw,  \* bytes written to the deflate I/O argument
  zout,  \* bytes they have been deflated to
  err,   \* the error that made wpc "failed"
  level, \* serverdata messages sent on this connection
  msgs   \* other messages written on this connection

writerVars == <<size, pos, wpc, room, zip, zmax, zraw, zout, err, level, msgs>>
deflateVars == <<zip, zmax, zraw, zout>>

SVC_ZPACKET_SIZE    == 5
MIN_COMPRESS_SIZE   == SVC_ZPACKET_SIZE + 16
OUTPUT_MARGIN       == 16
COMMAND_SIZE        == 1
END_MARKER_SIZE     == 2

(***************************************************************************)
(* "offline"  no serverdata sent yet    "ready"  write_gamestate may be    *)
(* called   "full"  the packet must be flushed before: NOT_ENOUGH_PACKET_  *)
(* SPACE was returned, or serverdata written   "done"  SUCCESS was         *)
(* returned   "failed"  another error was   others: inside a call          *)
(***************************************************************************)
Outside   == {"offline", "ready", "full", "done", "failed"}
Inside    == {"cfg", "cfgloop", "base", "baseloop", "endfull", "endok"}
Running   == Outside \ {"failed"}
WriterPCs == Outside \cup Inside

WriterInit ==
  /\ size \in {s \in [Items -> StringLens \cup BaselineSizes] :
                 \A i \in Items : IF i <= NumConfigstrings
                                    THEN s[i] \in StringLens
                                    ELSE s[i] \in BaselineSizes}
  /\ pos = 0
  /\ wpc = "offline"
  /\ room = PacketSize
  /\ zip = FALSE
  /\ zmax = 0 /\ zraw = 0 /\ zout = 0
  /\ err = "none"
  /\ level = 0
  /\ msgs = 0

-----------------------------------------------------------------------------
(***************************************************************************)
(* The I/O arguments.  A raw packet takes exactly room bytes.  The deflate *)
(* I/O argument takes everything; n bytes deflate to about half of that or *)
(* do not compress.  What q2protoio_write_available says of it is smaller  *)
(* than what really fits: a margin is kept, and input not yet deflated may *)
(* be counted in full.                                                     *)
(***************************************************************************)
CompressedSizes(n) == {n \div 2, n}

Monus(a, b) == IF a > b THEN a - b ELSE 0

ReportedSpace ==
  IF zip THEN {Monus(zmax, OUTPUT_MARGIN + zraw), Monus(zmax, OUTPUT_MARGIN + zout)}
         ELSE {room}

\* A write of n bytes that puts token t into the packet.
WriteTo(n, t) ==
  /\ IF zip
       THEN /\ zraw' = zraw + n
            /\ \E c \in CompressedSizes(n) : zout' = zout + c
            /\ UNCHANGED room
       ELSE /\ room >= n
            /\ room' = room - n
            /\ UNCHANGED <<zraw, zout>>
  /\ wire' = Append(wire, t)
  /\ UNCHANGED <<sent, zip, zmax>>

\* The same write when it does not fit: WRITE_CHECKED returns from the call
\* at once, leaving the deflate I/O argument, if any, as it is.
WriteFails(n) ==
  /\ ~zip
  /\ room < n
  /\ wpc' = "failed"
  /\ err' = "io"
  /\ UNCHANGED <<channel, size, pos, room, deflateVars, level, msgs>>

\* A token written by the call in progress, after num elements.
Piece(kind, num) == Tok(kind, zip, level, num)

-----------------------------------------------------------------------------
(***************************************************************************)
(* Calling write_gamestate: q2proto_maybe_zpacket_begin.  Its errors are   *)
(* ignored, writing falls back to the raw packet.                          *)
(***************************************************************************)
BeginWriteGamestate ==
  /\ wpc = "ready"
  /\ wpc' = "cfg"
  /\ \/ /\ UNCHANGED <<channel, deflateVars>>
     \/ /\ EnableDeflate
        /\ room >= MIN_COMPRESS_SIZE
        /\ zip' = TRUE
        /\ zmax' = room - SVC_ZPACKET_SIZE
        /\ zraw' = 0 /\ zout' = 0
        /\ wire' = Append(wire, Tok("zpacket", FALSE, level, LastToken.n))
        /\ UNCHANGED sent
  /\ UNCHANGED <<size, pos, room, err, level, msgs>>

OpenConfigstream ==
  /\ wpc = "cfg"
  /\ pos < NumConfigstrings
  /\ IF Streamed
       THEN WriteTo(COMMAND_SIZE, Piece("cfgstream", pos))
       ELSE UNCHANGED <<channel, room, deflateVars>>
  /\ wpc' = "cfgloop"
  /\ UNCHANGED <<size, pos, err, level, msgs>>

SkipConfigstrings ==
  /\ wpc = "cfg"
  /\ pos >= NumConfigstrings
  /\ wpc' = "base"
  /\ UNCHANGED <<channel, size, pos, room, deflateVars, err, level, msgs>>

\* index, string and terminator; the command byte or, in a stream, none
ConfigstringSize(i) == size[i] + (IF Streamed THEN 3 ELSE 4)

\* the space asked for: in a stream the end marker must fit as well
ConfigstringNeed(i) == ConfigstringSize(i) + (IF Streamed THEN END_MARKER_SIZE ELSE 0)

WriteConfigstring ==
  /\ wpc = "cfgloop"
  /\ pos < NumConfigstrings
  /\ \E avail \in ReportedSpace : avail >= ConfigstringNeed(pos + 1)
  /\ WriteTo(ConfigstringSize(pos + 1),
             Piece(IF Streamed THEN "scfg" ELSE "cfg", pos + 1))
  /\ pos' = pos + 1
  /\ UNCHANGED <<size, wpc, err, level, msgs>>

\* mutant: the stream is left open at the end of the packet
ConfigstreamLeftOpen ==
  /\ wpc = "cfgloop"
  /\ pos < NumConfigstrings
  /\ \E avail \in ReportedSpace : avail < ConfigstringNeed(pos + 1)
  /\ wpc' = "endfull"
  /\ UNCHANGED <<channel, room, deflateVars, size, pos, err, level, msgs>>

\* mutant: the element that does not fit is counted as written
ConfigstringLost ==
  /\ wpc = "cfgloop"
  /\ pos < NumConfigstrings
  /\ \E avail \in ReportedSpace : avail < ConfigstringNeed(pos + 1)
  /\ IF Streamed
       THEN WriteTo(END_MARKER_SIZE, Piece("endcfg", pos))
       ELSE UNCHANGED <<channel, room, deflateVars>>
  /\ wpc' = "endfull"
  /\ pos' = pos + 1
  /\ UNCHANGED <<size, err, level, msgs>>

\* Not enough space: the stream is closed and the call ends.
ConfigstringsFull ==
  /\ wpc = "cfgloop"
  /\ pos < NumConfigstrings
  /\ \E avail \in ReportedSpace : avail < ConfigstringNeed(pos + 1)
  /\ IF Streamed
       THEN WriteTo(END_MARKER_SIZE, Piece("endcfg", pos))
       ELSE UNCHANGED <<channel, room, deflateVars>>
  /\ wpc' = "endfull"
  /\ UNCHANGED <<size, pos, err, level, msgs>>

CloseConfigstream ==
  /\ wpc = "cfgloop"
  /\ pos >= NumConfigstrings
  /\ IF Streamed
       THEN WriteTo(END_MARKER_SIZE, Piece("endcfg", pos))
       ELSE UNCHANGED <<channel, room, deflateVars>>
  /\ wpc' = "base"
  /\ UNCHANGED <<size, pos, err, level, msgs>>

OpenBaselinestream ==
  /\ wpc = "base"
  /\ pos < NumItems
  /\ IF Streamed
       THEN WriteTo(COMMAND_SIZE, Piece("basestream", pos))
       ELSE UNCHANGED <<channel, room, deflateVars>>
  /\ wpc' = "baseloop"
  /\ UNCHANGED <<size, pos, err, level, msgs>>

SkipBaselines ==
  /\ wpc = "base"
  /\ pos >= NumItems
  /\ wpc' = "endok"
  /\ UNCHANGED <<channel, size, pos, room, deflateVars, err, level, msgs>>

BaselineSize(i) == size[i] + (IF Streamed THEN 0 ELSE COMMAND_SIZE)
BaselineNeed    == BaselineMax + (IF Streamed THEN END_MARKER_SIZE ELSE 0)

\* mutant: gamestate_pos stays at the baseline just written
BaselineRepeated ==
  /\ wpc = "baseloop"
  /\ pos < NumItems
  /\ \E avail \in ReportedSpace : avail >= BaselineNeed
  /\ WriteTo(BaselineSize(pos + 1),
             Piece(IF Streamed THEN "sbase" ELSE "base", pos + 1))
  /\ UNCHANGED <<pos, size, wpc, err, level, msgs>>

WriteBaseline ==
  /\ wpc = "baseloop"
  /\ pos < NumItems
  /\ \E avail \in ReportedSpace : avail >= BaselineNeed
  /\ WriteTo(BaselineSize(pos + 1),
             Piece(IF Streamed THEN "sbase" ELSE "base", pos + 1))
  /\ pos' = pos + 1
  /\ UNCHANGED <<size, wpc, err, level, msgs>>

(***************************************************************************)
(* Q2P_ERR_BAD_DATA from the write of a baseline, e.g. a model index above *)
(* 255 for R1Q2.  A streaming writer returns it at once.  The other writer *)
(* does not look at the result: the message breaks off, at the earliest    *)
(* after its command byte, and the element counts as written.              *)
(***************************************************************************)
RefuseBaseline ==
  /\ wpc = "baseloop"
  /\ pos < NumItems
  /\ pos + 1 \in Unwritable
  /\ \E avail \in ReportedSpace : avail >= BaselineNeed
  /\ IF Streamed
       THEN /\ wpc' = "failed"
            /\ err' = "data"
            /\ UNCHANGED <<channel, pos, room, deflateVars>>
       ELSE /\ \E n \in {COMMAND_SIZE, BaselineSize(pos + 1)} :
                 WriteTo(n, Piece("torn", pos + 1))
            /\ pos' = pos + 1
            /\ UNCHANGED <<wpc, err>>
  /\ UNCHANGED <<size, level, msgs>>

BaselinesFull ==
  /\ wpc = "baseloop"
  /\ pos < NumItems
  /\ \E avail \in ReportedSpace : avail < BaselineNeed
  /\ IF Streamed
       THEN WriteTo(END_MARKER_SIZE, Piece("endbase", pos))
       ELSE UNCHANGED <<channel, room, deflateVars>>
  /\ wpc' = "endfull"
  /\ UNCHANGED <<size, pos, err, level, msgs>>

\* mutant: off by one, the loop over the baselines does not end
BaselinesNeverEnd ==
  /\ wpc = "baseloop"
  /\ pos > NumItems
  /\ IF Streamed
       THEN WriteTo(END_MARKER_SIZE, Piece("endbase", pos))
       ELSE UNCHANGED <<channel, room, deflateVars>>
  /\ wpc' = "endok"
  /\ UNCHANGED <<size, pos, err, level, msgs>>

CloseBaselinestream ==
  /\ wpc = "baseloop"
  /\ pos >= NumItems
  /\ IF Streamed
       THEN WriteTo(END_MARKER_SIZE, Piece("endbase", pos))
       ELSE UNCHANGED <<channel, room, deflateVars>>
  /\ wpc' = "endok"
  /\ UNCHANGED <<size, pos, err, level, msgs>>

\* The writes above whose space was not asked for, when they do not fit.
UncheckedWriteFails ==
  /\ Streamed
  /\ \/ wpc = "cfg" /\ pos < NumConfigstrings /\ WriteFails(COMMAND_SIZE)
     \/ wpc = "base" /\ pos < NumItems /\ WriteFails(COMMAND_SIZE)
     \/ /\ wpc \in {"cfgloop", "baseloop"}
        /\ WriteFails(END_MARKER_SIZE)

-----------------------------------------------------------------------------
(***************************************************************************)
(* The end of a call: q2proto_maybe_zpacket_end writes the zpacket and     *)
(* ends the deflate stream; gamestate_pos is reset when all is written.    *)
(***************************************************************************)
\* mutants: a full packet starts over; a finished gamestate does not; a full
\* packet is reported as the end
PosAlwaysReset == 0
PosNeverReset  == pos
AlwaysDone     == "done"

EndedPos    == IF wpc = "endok" THEN 0 ELSE pos
EndedResult == IF wpc = "endok" THEN "done" ELSE "full"

\* mutant: the size of the input is taken for that of the output
EndZpacketUncompressed ==
  /\ room' = room - SVC_ZPACKET_SIZE - zraw
  /\ wire' = Append(wire, Tok("zend", TRUE, level, LastToken.n))
  /\ zip' = FALSE
  /\ zmax' = 0 /\ zraw' = 0 /\ zout' = 0
  /\ UNCHANGED sent

EndZpacket ==
  /\ room' = room - SVC_ZPACKET_SIZE - zout
  /\ wire' = Append(wire, Tok("zend", TRUE, level, LastToken.n))
  /\ zip' = FALSE
  /\ zmax' = 0 /\ zraw' = 0 /\ zout' = 0
  /\ UNCHANGED sent

\* mutant: NOT_ENOUGH_PACKET_SPACE is returned without ending the zpacket
ZpacketLeftOpen ==
  /\ wpc \in {"endfull", "endok"}
  /\ pos' = EndedPos
  /\ wpc' = EndedResult
  /\ UNCHANGED err
  /\ IF zip /\ wpc = "endok" THEN EndZpacket
                             ELSE UNCHANGED <<channel, room, deflateVars>>
  /\ UNCHANGED <<size, level, msgs>>

\* When the zpacket does not fit WRITE_CHECKED returns before the deflate
\* stream is ended.
EndWriteGamestate ==
  /\ wpc \in {"endfull", "endok"}
  /\ pos' = EndedPos
  /\ IF zip /\ room < SVC_ZPACKET_SIZE + zout
       THEN /\ wpc' = "failed"
            /\ err' = "io"
            /\ UNCHANGED <<channel, room, deflateVars>>
       ELSE /\ wpc' = EndedResult
            /\ UNCHANGED err
            /\ IF zip THEN EndZpacket ELSE UNCHANGED <<channel, room, deflateVars>>
  /\ UNCHANGED <<size, level, msgs>>

\* q2protoio_deflate_get_data fails: the stream is ended, its data is lost.
EndZpacketFails ==
  /\ wpc \in {"endfull", "endok"}
  /\ zip
  /\ wpc' = "failed"
  /\ err' = "deflate"
  /\ pos' = EndedPos
  /\ zip' = FALSE
  /\ zmax' = 0 /\ zraw' = 0 /\ zout' = 0
  /\ UNCHANGED <<channel, size, room, level, msgs>>

-----------------------------------------------------------------------------
(***************************************************************************)
(* The server application.  After NOT_ENOUGH_PACKET_SPACE it flushes the   *)
(* packet before the next call; after another error it drops the client.   *)
(***************************************************************************)
Flush ==
  /\ wpc \in Running
  /\ LastToken.k # "eop" \/ wpc = "full"
  /\ wire' = Append(wire, Tok("eop", FALSE, level, LastToken.n))
  /\ sent' = Len(wire')
  /\ room' = PacketSize
  /\ wpc' = IF wpc = "full" THEN "ready" ELSE wpc
  /\ UNCHANGED <<size, pos, deflateVars, err, level, msgs>>

\* Any other message, written to the packet between two calls.
WriteMessage ==
  /\ wpc \in Running
  /\ msgs < MaxMsgs
  /\ msgs' = msgs + 1
  /\ \E n \in MsgSizes :
       /\ room >= n
       /\ room' = room - n
  /\ wire' = Append(wire, Tok("msg", FALSE, level, LastToken.n))
  /\ UNCHANGED <<sent, size, pos, wpc, deflateVars, err, level>>

\* serverdata for the first or, when a gamestate was written, another map;
\* it goes out in a packet before those of the gamestate.
WriteServerdata ==
  /\ wpc \in {"offline", "done"}
  /\ LastToken.k = "eop"
  /\ level < MaxLevels
  /\ level' = level + 1
  /\ wire' = Append(wire, Tok("serverdata", FALSE, level + 1, 0))
  /\ wpc' = "full"
  /\ UNCHANGED <<sent, size, pos, room, deflateVars, err, msgs>>

WriterStep ==
  \/ BeginWriteGamestate
  \/ OpenConfigstream \/ SkipConfigstrings \/ WriteConfigstring
  \/ ConfigstringsFull \/ CloseConfigstream
  \/ OpenBaselinestream \/ SkipBaselines
  \/ WriteBaseline \/ RefuseBaseline
  \/ BaselinesFull \/ CloseBaselinestream
  \/ UncheckedWriteFails
  \/ EndWriteGamestate \/ EndZpacketFails

ServerNext == WriterStep \/ Flush \/ WriteMessage \/ WriteServerdata
=============================================================================
