-------------------------- MODULE GamestateSystem --------------------------
(***************************************************************************)
(* Server and client together: GamestateWriter writes what StreamReader    *)
(* reads, over a reliable ordered channel that delivers whole packets (the *)
(* netchan of the applications).                                           *)
(***************************************************************************)
EXTENDS GamestateWriter, StreamReader

CONSTANT MaxReconnects \* bound: connections of the client

ASSUME SystemAssumption == MaxReconnects \in Nat

VARIABLE reconnects

vars == <<channel, writerVars, readerVars, reconnects>>

Init ==
  /\ ChannelInit
  /\ WriterInit
  /\ ReaderInit
  /\ reconnects = 0

(***************************************************************************)
(* The client connects anew, at any time the server is not inside a call.  *)
(* q2proto_init_clientcontext and q2proto_init_servercontext clear both    *)
(* contexts; what the old connection had in flight is gone.                *)
(***************************************************************************)
Reconnect ==
  /\ wpc \in Outside
  /\ reconnects < MaxReconnects
  /\ reconnects' = reconnects + 1
  /\ wire' = <<>> /\ sent' = 0
  /\ pos' = 0
  /\ wpc' = "offline"
  /\ room' = PacketSize
  /\ zip' = FALSE
  /\ zmax' = 0 /\ zraw' = 0 /\ zout' = 0
  /\ err' = "none"
  /\ level' = 0
  /\ msgs' = 0
  /\ rd' = 0
  /\ mode' = "default"
  /\ inflating' = FALSE
  /\ clevel' = 0
  /\ got' = <<>>
  /\ cerr' = FALSE
  /\ UNCHANGED size

Server == ServerNext /\ UNCHANGED <<readerVars, reconnects>>
Client == ClientNext /\ UNCHANGED <<writerVars, reconnects>>

Next == Server \/ Client \/ Reconnect

Spec == Init /\ [][Next]_vars

(***************************************************************************)
(* Fairness: a call of the library returns, a server with a gamestate to   *)
(* send goes on calling and flushing (q2proto_server.h:274), and a client  *)
(* reads what it received.  Nobody has to write other messages, load       *)
(* another map or reconnect.                                               *)
(***************************************************************************)
FairSpec ==
  /\ Spec
  /\ WF_vars(Server /\ WriterStep)
  /\ WF_vars(Server /\ Flush)
  /\ WF_vars(Client)

-----------------------------------------------------------------------------
ChannelTypeOK ==
  /\ wire \in Seq(Token)
  /\ sent \in 0..Len(wire)

WriterTypeOK ==
  /\ size \in [Items -> Nat]
  /\ pos \in 0..NumItems
  /\ wpc \in WriterPCs
  /\ room \in 0..PacketSize
  /\ zip \in BOOLEAN
  /\ zmax \in Nat /\ zraw \in Nat /\ zout \in Nat
  /\ err \in {"none", "io", "deflate", "data"}
  /\ level \in Nat
  /\ msgs \in Nat

ReaderTypeOK ==
  /\ rd \in 0..sent
  /\ mode \in Modes
  /\ inflating \in BOOLEAN
  /\ clevel \in Nat
  /\ got \in Seq(Nat \X Nat)
  /\ cerr \in BOOLEAN

(***************************************************************************)
(* The type invariant.  Beyond types it says that a packet is never        *)
(* overfull (room) and that the client reads only what was sent.           *)
(***************************************************************************)
TypeOK == ChannelTypeOK /\ WriterTypeOK /\ ReaderTypeOK /\ reconnects \in Nat

(***************************************************************************)
(* However the gamestate is cut into packets, wrapped into zpackets and    *)
(* resumed after Q2P_ERR_NOT_ENOUGH_PACKET_SPACE, and whatever happens to  *)
(* the server, what the client has been handed since serverdata is the     *)
(* beginning of the gamestate.                                             *)
(***************************************************************************)
InOrderOnce ==
  /\ Len(got) <= NumItems
  /\ \A i \in 1..Len(got) : got[i] = <<clevel, i>>

(***************************************************************************)
(* SUCCESS means that everything was written: a client that has read all   *)
(* packets of a finished gamestate has every element of it.                *)
(***************************************************************************)
SuccessIsComplete ==
  (wpc = "done" /\ rd = Len(wire)) => Len(got) = NumItems /\ clevel = level

(***************************************************************************)
(* q2proto_server.h:274: SUCCESS if the gamestate was successfully         *)
(* written, an error code otherwise.  Every element has a token.           *)
(***************************************************************************)
SuccessIsWritten ==
  wpc = "done" => \A i \in Items : \E j \in 1..Len(wire) :
                    wire[j].g = level /\ wire[j].n = i /\ wire[j].k \in ItemKinds

(***************************************************************************)
(* Every packet can be parsed: no stream is left open at the end of a      *)
(* packet, no element is written outside of a stream, a zpacket is never   *)
(* nested, so the client never meets a token its parse state cannot read.  *)
(***************************************************************************)
NeverConfused == ~cerr

(***************************************************************************)
(* A deflate stream lives no longer than the call that began it, whether   *)
(* the gamestate was complete, the packet full or deflate failed, with one *)
(* exception: a streaming call that was refused a baseline returns         *)
(* BAD_DATA from inside the zpacket (q2proto_proto_q2pro.c:2244) and       *)
(* leaves its stream open.  That no I/O error is a second one needs the    *)
(* zpacket to fit into the space it was begun with, although most of the   *)
(* stream markers are written without asking.                              *)
(***************************************************************************)
DeflateEnded ==
  zip => \/ wpc \in Inside
         \/ wpc = "failed" /\ err = "data" /\ pos + 1 \in Unwritable

(***************************************************************************)
(* gamestate_pos only moves forward by the element just written, until the *)
(* gamestate is complete or the connection is gone: an element counted as  *)
(* written has a token of its own in the packet.                           *)
(***************************************************************************)
PosFollowsWire ==
  [][pos' # pos =>
       \/ pos' = pos + 1 /\ wire' # wire /\ LastToken'.n = pos' /\ LastToken'.k \in ItemKinds
       \/ pos' = 0 /\ (pos = NumItems \/ wpc' = "offline")]_vars

\* The abstract view: the client's application.
Transfer == INSTANCE GamestateTransfer WITH level <- clevel

TransferSpec == Transfer!Spec

(***************************************************************************)
(* If every element fits into an empty packet a gamestate once begun is    *)
(* finished, unless writing fails or the client goes away.                 *)
(***************************************************************************)
EventuallyWritten ==
  (wpc = "ready") ~> (wpc \in {"done", "failed", "offline"})

(***************************************************************************)
(* ... and then the client gets all of it, unless it goes away.            *)
(***************************************************************************)
EventuallyComplete ==
  (wpc = "done") ~> (Len(got) = NumItems \/ wpc = "offline")
=============================================================================
