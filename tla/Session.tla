------------------------------ MODULE Session ------------------------------
(***************************************************************************)
(* The packets of a connection after its serverdata: the server puts       *)
(* messages, frames and gamestates into a packet, the application may wrap *)
(* a finished packet in a zpacket, and the client's parser takes it apart  *)
(* with what it keeps in its context from one call to the next.  Both      *)
(* sides of the KEX protocols also track which entities are solid, since   *)
(* in demos the width of coordinates depends on it.                        *)
(*                                                                         *)
(* The two sides share nothing but the packet, so a packet is written      *)
(* while nothing is being read; packets may be lost.                       *)
(***************************************************************************)
EXTENDS Commands, SequencesExt

CONSTANTS
  Protocols,   \* of the connections considered
  Entities,    \* entity numbers
  LaterKinds,  \* kinds of the messages that are not the first of their packet
  MaxItems,    \* bound: items in a packet
  Nests        \* whether the application wraps packets that contain a zpacket

VARIABLES
  proto,    \* constant in a behaviour
  server,   \* q2proto_servercontext_t, and where it is in the packet
  packet,   \* being written
  sent,     \* what the packet being read is meant to say
  client    \* q2proto_clientcontext_t and what it reads
vars == <<proto, server, packet, sent, client>>
-----------------------------------------------------------------------------
(* A packet is a sequence of items.  An item with a command byte has a     *)
(* form: how what follows the command is laid out.                         *)
Forms == {"frame", "zpacket", "configblast", "spawnbaselineblast", "gamestate",
          "configstringstream", "baselinestream"}
FormOf(name) == IF name \in Forms THEN name ELSE "plain"

Message(kind, command) ==
  [is |-> "command", form |-> "plain", kind |-> kind, command |-> command]
Opening(form, command) == [is |-> "command", form |-> form, command |-> command]
Compressed(form, command, data) ==
  [is |-> "command", form |-> form, command |-> command, data |-> data]
Entity(is, num, solid, narrow) ==
  [is |-> is, num |-> num, solid |-> solid, narrow |-> narrow]
Solids == {"same", "zero", "nonzero"}
Configstring == [is |-> "configstring"]
EndOfStream == [is |-> "end"]
Broken == [is |-> "broken"]
Removal(num) == [is |-> "remove", num |-> num]
Terminator == [is |-> "terminator"]

HasForm(form, items) ==
  \E i \in DOMAIN items : items[i].is = "command" /\ items[i].form = form

\* What the server means the client to be handed, of an item and of a list of
\* them, some of which contain a list, in which some may contain one again
MeantBy(item) ==
  CASE item.is = "command" /\ item.form = "plain" -> <<item.kind>>
    [] item.is = "command" /\ item.form = "frame" -> <<"frame">>
    [] item.is = "baseline" -> <<"spawnbaseline">>
    [] item.is \in {"configstring", "delta", "remove", "terminator"} -> <<item.is>>
    [] OTHER -> <<>>
Encloses(item) == "data" \in DOMAIN item
MeantInner(items) == FlattenSeq([i \in 1 .. Len(items) |-> MeantBy(items[i])])
MeantByOuter(item) == IF Encloses(item) THEN MeantInner(item.data) ELSE MeantBy(item)
MeantOuter(items) == FlattenSeq([i \in 1 .. Len(items) |-> MeantByOuter(items[i])])
MeantByAny(item) == IF Encloses(item) THEN MeantOuter(item.data) ELSE MeantBy(item)
Meant(items) == FlattenSeq([i \in 1 .. Len(items) |-> MeantByAny(items[i])])
-----------------------------------------------------------------------------
(* The tracking of solid entities, the same code on both sides             *)
SetBit(bits, num, flag) == IF flag THEN bits \union {num} ELSE bits \ {num}
Tracked(p, ctx, num, solid) ==
  IF p \in Kex /\ solid # "same"
  THEN [ctx EXCEPT !.edict = SetBit(@, num, solid = "nonzero")]
  ELSE ctx
\* coordinates in 16 bits: by the value sent, or else by what is assumed
Narrow(p, solid, assumed) ==
  p = "kexdemo" /\ ~(IF solid = "same" THEN assumed ELSE solid = "nonzero")
TrackedBaseline(p, ctx, num, solid) ==
  LET t == Tracked(p, ctx, num, solid)
  IN  IF p \in Kex THEN [t EXCEPT !.base = SetBit(@, num, num \in t.edict)] ELSE t
TrackedRemoval(p, ctx, num) ==
  IF p \in Kex THEN [ctx EXCEPT !.edict = SetBit(@, num, num \in ctx.base)] ELSE ctx
SolidsOf == IF proto \in Kex THEN Solids ELSE {"same"}
-----------------------------------------------------------------------------
(* The server.  A frame is followed by entities up to the terminator.  A   *)
(* write that finds the packet full leaves it broken off.                  *)
ServerInit ==
  [edict |-> {}, base |-> {}, inFrame |-> FALSE, full |-> FALSE,
   misheard |-> FALSE]   \* whether it took a message of the client for another
MayWrite == ~client.reading /\ ~server.full /\ Len(packet) < MaxItems
Put(items) == packet' = packet \o items /\ UNCHANGED <<proto, sent, client>>

WriteMessage(kind) ==
  /\ MayWrite /\ ~server.inFrame
  /\ kind \in DOMAIN ServerWrites(proto)
  /\ packet = <<>> \/ kind \in LaterKinds
  /\ \E command \in ServerWrites(proto)[kind] : Put(<<Message(kind, command)>>)
  /\ UNCHANGED server

\* R1Q2 and Q2PRO put flags of the player state into the command
FrameCommands(p) ==
  IF p \in {"r1q2", "q2pro"} THEN {20 + 32 * flags : flags \in {0, 7}} ELSE {20}
WriteFrame ==
  /\ MayWrite /\ ~server.inFrame
  /\ \E command \in FrameCommands(proto) : Put(<<Opening("frame", command)>>)
  /\ server' = [server EXCEPT !.inFrame = TRUE]

WriteDelta(num) ==
  /\ MayWrite /\ server.inFrame
  /\ \E solid \in SolidsOf :
       /\ Put(<<Entity("delta", num, solid, Narrow(proto, solid, num \in server.edict))>>)
       /\ server' = Tracked(proto, server, num, solid)
WriteRemove(num) ==
  /\ MayWrite /\ server.inFrame
  /\ Put(<<Removal(num)>>)
  /\ server' = TrackedRemoval(proto, server, num)
\* the bound does not count it
WriteTerminator ==
  /\ ~client.reading /\ ~server.full /\ server.inFrame
  /\ Put(<<Terminator>>)
  /\ server' = [server EXCEPT !.inFrame = FALSE]

\* A configstring and a baseline of each protocol: how many of them, and
\* where the packet is cut, is the subject of GamestateWriter
BaselineOf(num, solid) == Entity("baseline", num, solid, Narrow(proto, solid, FALSE))
BaselineMessage(baseline) ==
  [is |-> "command", form |-> "plain", kind |-> "spawnbaseline", command |-> 14,
   entity |-> baseline]
Separately(baseline) == <<Message("configstring", 13), BaselineMessage(baseline)>>
Q2proStreams == [config |-> 25, baseline |-> 26]
Q2reproStreams == [config |-> 38, baseline |-> 39]
InStreams(baseline) ==
  LET c == IF proto = "q2pro" THEN Q2proStreams ELSE Q2reproStreams
  IN  <<Opening("configstringstream", c.config), Configstring, EndOfStream,
        Opening("baselinestream", c.baseline), baseline, EndOfStream>>
InOneMessage(baseline) ==
  <<Opening("gamestate", 23), Configstring, EndOfStream, baseline, EndOfStream>>
InBlasts(baseline) ==
  <<Compressed("configblast", 22, <<Configstring>>),
    Compressed("spawnbaselineblast", 23, <<baseline>>)>>

Plainly(baseline) ==
  CASE proto = "q2pro" -> {InStreams(baseline), InOneMessage(baseline)}
    [] proto = "q2repro" -> {InStreams(baseline)}
    [] OTHER -> {Separately(baseline)}
Gamestates(baseline) ==
  Plainly(baseline)
  \union (IF proto \in Kex THEN {InBlasts(baseline)} ELSE {})
  \union (IF HasZpacket(proto)
          THEN {<<Compressed("zpacket", ZpacketCmd(proto), g)>> : g \in Plainly(baseline)}
          ELSE {})
WriteGamestate(num) ==
  /\ MayWrite /\ ~server.inFrame
  /\ ~\E i \in DOMAIN packet : MeantBy(packet[i]) = <<>>   \* one in a packet
  /\ \E solid \in SolidsOf :
       /\ \E items \in Gamestates(BaselineOf(num, solid)) : Put(items)
       /\ server' = TrackedBaseline(proto, server, num, solid)

\* The packet has no room for what is written next; the KEX protocols are
\* only written to files
Overfill ==
  /\ MayWrite /\ packet # <<>> /\ proto \notin Kex
  /\ Put(<<>>) \/ Put(<<Broken>>)
  /\ server' = [server EXCEPT !.full = TRUE, !.inFrame = FALSE]
-----------------------------------------------------------------------------
(* The application's side of the channel *)
Finished == ~client.reading /\ packet # <<>> /\ ~server.inFrame
Emptied == packet' = <<>> /\ server' = [server EXCEPT !.full = FALSE] /\ UNCHANGED proto
Deliver(items) ==
  /\ Emptied
  /\ sent' = Meant(items)
  /\ client' = [client EXCEPT !.reading = TRUE, !.raw = items, !.handed = <<>>]

SendPacket == Finished /\ Deliver(packet)
\* mutant: whatever is in the packet is compressed
SendZpacketAgain ==
  /\ Finished /\ HasZpacket(proto)
  /\ Nests \/ ~HasForm("zpacket", Tail(packet))
  /\ Deliver(<<Compressed("zpacket", ZpacketCmd(proto), packet)>>)
\* q2proto_server_write_zpacket looks for a zpacket at the packet's start
SendZpacket ==
  /\ Finished /\ HasZpacket(proto)
  /\ ~HasForm("zpacket", <<Head(packet)>>)
  /\ Nests \/ ~HasForm("zpacket", Tail(packet))
  /\ Deliver(<<Compressed("zpacket", ZpacketCmd(proto), packet)>>)
LosePacket == Finished /\ proto \notin Kex /\ Emptied /\ UNCHANGED <<sent, client>>
-----------------------------------------------------------------------------
(* The client.  mode stands for client_read, inflated for inflate_io_arg;  *)
(* a blast is inflated without has_inflate_io_arg.                         *)
ClientInit ==
  [mode |-> "packet", inflating |-> FALSE, inflated |-> <<>>, edict |-> {}, base |-> {},
   reading |-> FALSE, raw |-> <<>>, handed |-> <<>>, error |-> "none"]

Blasts == {"configblast", "spawnbaselineblast"}
FromInflated == client.inflating \/ client.mode \in Blasts
Input == IF FromInflated THEN client.inflated ELSE client.raw
Rest(c) ==
  IF FromInflated THEN [c EXCEPT !.inflated = Tail(Input)] ELSE [c EXCEPT !.raw = Tail(Input)]
Parses == client.reading /\ client.error = "none" /\ UNCHANGED <<proto, server, packet, sent>>
Parsing(mode, is) ==
  /\ Parses /\ client.mode = mode
  /\ Input # <<>> /\ Head(Input).is = is
Takes(form) ==
  /\ Parsing("packet", "command")
  /\ Head(Input).form = form
  /\ FormOf(Understood(proto, Head(Input).command)) = form
Hand(c, kind) == client' = [Rest(c) EXCEPT !.handed = Append(@, kind)]
Enter(c, mode) == client' = [Rest(c) EXCEPT !.mode = mode]
NarrowAgrees(p, entity, assumed) == entity.narrow = Narrow(p, entity.solid, assumed)

\* mutant: the baseline is not remembered, only the entity
HandBaselineForgotten(entity) ==
  /\ NarrowAgrees(proto, entity, FALSE)
  /\ Hand(Tracked(proto, client, entity.num, entity.solid), "spawnbaseline")
HandBaseline(entity) ==
  /\ NarrowAgrees(proto, entity, FALSE)
  /\ Hand(TrackedBaseline(proto, client, entity.num, entity.solid), "spawnbaseline")

ReadMessage ==
  /\ Takes("plain")
  /\ LET item == Head(Input)
         kind == Understood(proto, item.command)
     IN  /\ kind # "bad"
         /\ IF "entity" \in DOMAIN item
            THEN kind = "spawnbaseline" /\ HandBaseline(item.entity)
            ELSE Hand(client, kind)
ReadFrame == Takes("frame") /\ Hand([client EXCEPT !.mode = "entities"], "frame")

ReadDelta ==
  /\ Parsing("entities", "delta")
  /\ LET entity == Head(Input)
     IN  /\ NarrowAgrees(proto, entity, entity.num \in client.edict)
         /\ Hand(Tracked(proto, client, entity.num, entity.solid), "delta")
\* mutant: the removed entity keeps its last solidity
ReadRemoveUntracked == Parsing("entities", "remove") /\ Hand(client, "remove")
ReadRemove ==
  /\ Parsing("entities", "remove")
  /\ Hand(TrackedRemoval(proto, client, Head(Input).num), "remove")
ReadTerminator ==
  /\ Parsing("entities", "terminator")
  /\ Hand([client EXCEPT !.mode = "packet"], "terminator")

\* inflate_begin may be asked for while an inflate argument is in use
ReadZpacket ==
  /\ Takes("zpacket")
  /\ client' = [Rest(client) EXCEPT !.inflating = TRUE, !.inflated = Head(Input).data]
ReadZpacketEnd ==
  /\ Parses /\ client.mode = "packet" /\ client.inflating /\ Input = <<>>
  /\ client' = [client EXCEPT !.inflating = FALSE]

ReadBlast(blast) ==
  /\ Takes(blast)
  /\ client' = [Rest(client) EXCEPT !.mode = blast, !.inflated = Head(Input).data]
ReadBlastEnd ==
  /\ Parses /\ client.mode \in Blasts /\ Input = <<>>
  /\ client' = [client EXCEPT !.mode = "packet"]

StreamForms == {"configstringstream", "baselinestream", "gamestate"}
OpenStream(form) == Takes(form) /\ Enter(client, form)
\* mutant: it ends with its configstrings
ReadStreamEndAtOnce ==
  /\ \E form \in StreamForms \union {"gamestate baselines"} : Parsing(form, "end")
  /\ Enter(client, "packet")
\* the single gamestate message goes on with its baselines
ReadStreamEnd ==
  \/ /\ \E form \in {"configstringstream", "baselinestream", "gamestate baselines"} :
           Parsing(form, "end")
     /\ Enter(client, "packet")
  \/ /\ Parsing("gamestate", "end")
     /\ Enter(client, "gamestate baselines")
ReadConfigstring ==
  /\ \E mode \in {"configstringstream", "gamestate", "configblast"} :
       Parsing(mode, "configstring")
  /\ Hand(client, "configstring")
ReadBaseline ==
  /\ \E mode \in {"baselinestream", "gamestate baselines", "spawnbaselineblast"} :
       Parsing(mode, "baseline")
  /\ HandBaseline(Head(Input))
Reads ==
  \/ ReadMessage \/ ReadFrame \/ ReadDelta \/ ReadRemove \/ ReadTerminator
  \/ ReadZpacket \/ ReadZpacketEnd \/ ReadBlastEnd \/ ReadStreamEnd
  \/ ReadConfigstring \/ ReadBaseline
  \/ \E blast \in Blasts : ReadBlast(blast)
  \/ \E form \in StreamForms : OpenStream(form)

\* client_read finds nothing more: the next packet
AtEnd == client.mode = "packet" /\ ~client.inflating /\ Input = <<>>
ReadPacketEnd ==
  /\ client.reading /\ client.error = "none" /\ AtEnd
  /\ client' = [client EXCEPT !.reading = FALSE, !.handed = <<>>]
  /\ sent' = <<>>
  /\ UNCHANGED <<proto, server, packet>>
\* An error while entities are read ends their frame
Unreadable ==
  IF Input = <<>> THEN client.mode = "entities" ELSE Head(Input).is = "broken"
ReadBroken ==
  /\ Parses /\ Unreadable
  /\ client' = [client EXCEPT !.error = "broken",
                             !.mode = IF @ = "entities" THEN "packet" ELSE @]

\* The application drops the rest of a packet with an error, or the connection
\* if it was in compressed data: the context keeps the inflate argument
SkipPacket ==
  /\ client.error # "none" /\ ~FromInflated
  /\ client' = [client EXCEPT !.reading = FALSE, !.raw = <<>>, !.error = "none", !.handed = <<>>]
  /\ sent' = <<>>
  /\ UNCHANGED <<proto, server, packet>>
Reconnect ==
  /\ client.error # "none" /\ FromInflated
  /\ client' = ClientInit /\ server' = ServerInit /\ packet' = <<>> /\ sent' = <<>>
  /\ UNCHANGED proto
-----------------------------------------------------------------------------
(* Messages of the client, one at a time                                   *)
ClientWrite(kind) ==
  /\ ~client.reading /\ packet = <<>>
  /\ kind \in DOMAIN ClientWrites(proto)
  /\ \E command \in ClientWrites(proto)[kind] :
       server' = [server EXCEPT !.misheard = @ \/ ServerUnderstood(proto, command) # kind]
  /\ UNCHANGED <<proto, packet, sent, client>>
-----------------------------------------------------------------------------
Init ==
  /\ proto \in Protocols
  /\ server = ServerInit /\ packet = <<>> /\ sent = <<>> /\ client = ClientInit
Server ==
  \/ \E kind \in UNION {DOMAIN ServerWrites(p) : p \in Protocols} : WriteMessage(kind)
  \/ \E num \in Entities : WriteDelta(num) \/ WriteRemove(num) \/ WriteGamestate(num)
  \/ WriteFrame \/ WriteTerminator \/ Overfill
Client == Reads \/ ReadPacketEnd \/ ReadBroken
Next ==
  \/ Server \/ Client
  \/ SendPacket \/ SendZpacket \/ LosePacket \/ SkipPacket \/ Reconnect
  \/ \E kind \in UNION {DOMAIN ClientWrites(p) : p \in Protocols} : ClientWrite(kind)
Spec == Init /\ [][Next]_vars
-----------------------------------------------------------------------------
(* What the parser can go on with: for a reader r, its mode and the        *)
(* entities it holds for solid, the items that one of the reading actions  *)
(* takes; an item broken off only where an error brings the parser back to *)
(* the start of a packet.                                                  *)
Reader(mode, ctx) == [mode |-> mode, edict |-> ctx.edict, base |-> ctx.base]
Between == {"packet", "entities"}
ExpectsCommand(p, item) ==
  LET kind == Understood(p, item.command)
  IN  /\ FormOf(kind) = item.form /\ kind # "bad"
      /\ item.form = "plain" /\ "entity" \in DOMAIN item =>
           kind = "spawnbaseline" /\ NarrowAgrees(p, item.entity, FALSE)
Expects(p, r, item) ==
  \/ r.mode = "packet" /\ item.is = "command" /\ ExpectsCommand(p, item)
  \/ r.mode = "entities" /\ item.is = "delta" /\ NarrowAgrees(p, item, item.num \in r.edict)
  \/ r.mode = "entities" /\ item.is \in {"remove", "terminator"}
  \/ r.mode \in {"configstringstream", "gamestate", "configblast"} /\ item.is = "configstring"
  \/ /\ r.mode \in {"baselinestream", "gamestate baselines", "spawnbaselineblast"}
     /\ item.is = "baseline" /\ NarrowAgrees(p, item, FALSE)
  \/ r.mode \in StreamForms \union {"gamestate baselines"} /\ item.is = "end"
  \/ r.mode \in Between /\ item.is = "broken"

(* The parser always knows what to make of the bytes that come next, in    *)
(* whichever state the packet before left it, also after a broken one, and *)
(* the commands written by either side are those the other side reads:     *)
(* the client_read and server_read functions and their switches.           *)
NeverConfused ==
  /\ client.reading /\ client.error = "none" =>
       IF Input = <<>> THEN client.mode \in Between \union Blasts
                       ELSE Expects(proto, Reader(client.mode, client), Head(Input))
  /\ ~server.misheard

(* What the server wrote is handed over as what it was, in order, and all  *)
(* of it when the packet has been read to its end without an error, with   *)
(* zpackets anywhere in the packet: q2proto_server_write_zpacket and the   *)
(* has_inflate_io_arg of the client_read functions.  Not so if the         *)
(* application wraps a packet with a zpacket behind its start (Nests):     *)
(* q2proto_server.h:291-292 has it refused, q2proto_server.c:353 sees only *)
(* the packet's first byte.                                                *)
AllHanded ==
  /\ IsPrefix(client.handed, sent)
  /\ client.reading /\ client.error = "none" /\ AtEnd => client.handed = sent

(* Between packets the writer and the reader of a KEX connection hold the  *)
(* same entities for solid: kex_demo_edict_nonzero_solid and               *)
(* kex_demo_baseline_nonzero_solid.                                        *)
SolidAgree ==
  ~client.reading /\ packet = <<>> =>
    server.edict = client.edict /\ server.base = client.base
=============================================================================
