-------------------------- MODULE SessionInvariant --------------------------
(***************************************************************************)
(* The inductive invariants behind SolidAgree, AllHanded and NeverConfused:*)
(* whatever the server knows of entities that the client does not, and     *)
(* whatever is meant for the client that it was not handed, is in the      *)
(* items ahead of the client, and each of these is one that the parser     *)
(* expects in the mode in which the items before it leave it.              *)
(***************************************************************************)
EXTENDS Session

(***************************************************************************)
(* What an item of a KEX packet does to the tracking of solid entities,    *)
(* and whether a frame is open after it.                                   *)
(***************************************************************************)
Solidity(edict, num, solid) ==
  IF solid = "same" THEN edict ELSE SetBit(edict, num, solid = "nonzero")

DeltaEffect(t, e) == [t EXCEPT !.edict = Solidity(@, e.num, e.solid)]

BaselineEffect(t, e) ==
  LET edict == Solidity(t.edict, e.num, e.solid)
  IN  [edict |-> edict, base |-> SetBit(t.base, e.num, e.num \in edict),
       inFrame |-> t.inFrame]

RemovalEffect(t, num) == [t EXCEPT !.edict = SetBit(@, num, num \in t.base)]

PlainEffect(t, item) ==
  CASE item.is = "delta"      -> DeltaEffect(t, item)
    [] item.is = "baseline"   -> BaselineEffect(t, item)
    [] item.is = "remove"     -> RemovalEffect(t, item.num)
    [] item.is = "terminator" -> [t EXCEPT !.inFrame = FALSE]
    [] item.is = "command" /\ item.form = "frame" -> [t EXCEPT !.inFrame = TRUE]
    [] item.is = "command" /\ item.form = "plain" /\ "entity" \in DOMAIN item ->
         BaselineEffect(t, item.entity)
    [] OTHER -> t

IsBlast(item) == item.is = "command" /\ item.form \in Blasts

\* a blast contains one item
Effect(t, item) == PlainEffect(t, IF IsBlast(item) THEN item.data[1] ELSE item)

\* What is tracked after a list of items.
After(t, items) ==
  LET after[i \in 0 .. Len(items)] == IF i = 0 THEN t ELSE Effect(after[i - 1], items[i])
  IN  after[Len(items)]

(***************************************************************************)
(* The items that a KEX server writes.                                     *)
(***************************************************************************)
InBlast(item) == item.is \in {"configstring", "baseline"}
KexItem(item) ==
  \/ item.is \in {"configstring", "baseline", "delta", "remove", "terminator"}
  \/ item.is = "command" /\ item.form \in {"plain", "frame"}
  \/ IsBlast(item) /\ item.data = <<item.data[1]>> /\ InBlast(item.data[1])

KexItems(items) ==
  /\ items \in Seq({items[i] : i \in 1 .. Len(items)})
  /\ \A i \in 1 .. Len(items) : KexItem(items[i])
-----------------------------------------------------------------------------
ClientShape(c) ==
  c = [mode |-> c.mode, inflating |-> c.inflating, inflated |-> c.inflated,
       edict |-> c.edict, base |-> c.base, reading |-> c.reading, raw |-> c.raw,
       handed |-> c.handed, error |-> c.error]
ServerShape(s) ==
  s = [edict |-> s.edict, base |-> s.base, inFrame |-> s.inFrame, full |-> s.full,
       misheard |-> s.misheard]

\* What the client has yet to read of what was written.
Ahead ==
  CASE ~client.reading        -> packet
    [] client.mode \in Blasts -> client.inflated \o client.raw
    [] OTHER                  -> client.raw

KnownToClient ==
  [edict |-> client.edict, base |-> client.base, inFrame |-> client.mode = "entities"]
KnownToServer ==
  [edict |-> server.edict, base |-> server.base, inFrame |-> server.inFrame]

\* The KEX protocols: the server is the client with all that is ahead.
KexInv ==
  /\ ~server.full /\ client.error = "none" /\ ~client.inflating
  /\ client.mode \in {"packet", "entities"} \union Blasts
  /\ IF client.reading
     THEN packet = <<>> /\ ~server.inFrame /\ KexItems(client.raw)
     ELSE client.mode = "packet" /\ KexItems(packet)
  /\ client.mode \in Blasts => /\ KexItems(client.inflated)
                               /\ \A i \in 1 .. Len(client.inflated) : InBlast(client.inflated[i])
  /\ KnownToServer = After(KnownToClient, Ahead)

\* The others track nothing.
UntrackedInv ==
  server.edict = {} /\ server.base = {} /\ client.edict = {} /\ client.base = {}

(* At every moment the server holds for solid what the client will hold    *)
(* when it has read what is ahead of it, item by item, and a frame is open *)
(* for the one when it will be for the other; the protocols other than KEX *)
(* leave the tracking alone: kex_client_read_entity_delta,                 *)
(* kex_server_write_frame_entity_delta and the two sides' baselines.       *)
SolidInv ==
  /\ ClientShape(client) /\ ServerShape(server)
  /\ IF proto \in Kex THEN KexInv ELSE UntrackedInv
-----------------------------------------------------------------------------
(***************************************************************************)
(* The command bytes mean the same to both sides: a comparison of finite   *)
(* tables, all of which TLC looks up when it evaluates this assumption.    *)
(***************************************************************************)
ASSUME CommandAssumption ==
  \A p \in Protocols :
    /\ \A kind \in DOMAIN ServerWrites(p) :
         \A command \in ServerWrites(p)[kind] : Understood(p, command) = kind
    /\ Understood(p, 13) = "configstring"

\* What may be handed over.
WrittenKinds == UNION {DOMAIN ServerWrites(p) : p \in Protocols}
Kinds ==
  WrittenKinds
  \union {"frame", "spawnbaseline", "configstring", "delta", "remove", "terminator"}

\* An item that contains no others, with a command that the client understands ...
LooseItem(p, item) ==
  /\ ~Encloses(item)
  /\ \/ item.is \in {"configstring", "baseline", "delta", "remove", "terminator", "end", "broken"}
     \/ item.is = "command" /\ item.form \in {"frame"} \union StreamForms
     \/ /\ item.is = "command" /\ item.form = "plain" /\ item.kind \in Kinds
        /\ IF "entity" \in DOMAIN item
           THEN item.kind = "spawnbaseline"
           ELSE Understood(p, item.command) = item.kind
LooseItems(p, items) ==
  /\ items \in Seq({items[i] : i \in 1 .. Len(items)})
  /\ \A i \in 1 .. Len(items) : LooseItem(p, items[i])

\* ... or one that contains such items, compressed.
EnclosingItem(p, item) ==
  /\ Encloses(item) /\ LooseItems(p, item.data)
  /\ item.is = "command"
  /\ IF p \in Kex THEN item.form \in Blasts ELSE item.form = "zpacket"
PacketItems(p, items) ==
  /\ items \in Seq({items[i] : i \in 1 .. Len(items)})
  /\ \A i \in 1 .. Len(items) : LooseItem(p, items[i]) \/ EnclosingItem(p, items[i])

\* What the client is still to be handed of the packet.
Left == (IF FromInflated THEN Meant(client.inflated) ELSE <<>>) \o Meant(client.raw)

HandInv ==
  /\ proto \in Protocols
  /\ client.handed \in Seq(Kinds)
  /\ PacketItems(proto, packet)
  /\ IF client.reading
     THEN /\ sent = client.handed \o Left
          /\ PacketItems(proto, client.raw)
          /\ FromInflated => LooseItems(proto, client.inflated)
     ELSE client.handed = <<>> /\ sent = <<>> /\ ~FromInflated

-----------------------------------------------------------------------------
(***************************************************************************)
(* The same tables, for the other commands and the other direction.        *)
(***************************************************************************)
ASSUME FormAssumption ==
  \A p \in Protocols :
    /\ DOMAIN ServerWrites(p) \intersect (Forms \union {"bad"}) = {}
    /\ Understood(p, 14) = "spawnbaseline"
    /\ \A command \in FrameCommands(p) : Understood(p, command) = "frame"
    /\ HasZpacket(p) => Understood(p, ZpacketCmd(p)) = "zpacket"
    /\ p \in Kex => /\ Understood(p, 22) = "configblast"
                    /\ Understood(p, 23) = "spawnbaselineblast"
    /\ p = "q2pro" => /\ Understood(p, Q2proStreams.config) = "configstringstream"
                      /\ Understood(p, Q2proStreams.baseline) = "baselinestream"
                      /\ Understood(p, 23) = "gamestate"
    /\ p = "q2repro" => /\ Understood(p, Q2reproStreams.config) = "configstringstream"
                        /\ Understood(p, Q2reproStreams.baseline) = "baselinestream"
    /\ \A kind \in DOMAIN ClientWrites(p) :
         \A command \in ClientWrites(p)[kind] : ServerUnderstood(p, command) = kind

(***************************************************************************)
(* Where the parser is after an item: a reader, in Session, that is lost   *)
(* once it meets an item that it does not expect.  A blast is read to its  *)
(* end, and only the KEX protocols have one; what a zpacket contains has   *)
(* to be readable by itself.                                               *)
(***************************************************************************)
NextMode(mode, item) ==
  IF item.is = "command"
  THEN IF item.form = "frame" THEN "entities"
       ELSE IF item.form \in StreamForms \union Blasts THEN item.form ELSE "packet"
  ELSE IF item.is \in {"terminator", "broken"} THEN "packet"
  ELSE IF item.is = "end" THEN IF mode = "gamestate" THEN "gamestate baselines" ELSE "packet"
  ELSE mode

TrackedBy(p, r, item) ==
  IF item.is = "delta" THEN Tracked(p, r, item.num, item.solid)
  ELSE IF item.is = "remove" THEN TrackedRemoval(p, r, item.num)
  ELSE IF item.is = "baseline" THEN TrackedBaseline(p, r, item.num, item.solid)
  ELSE IF item.is = "command" /\ item.form = "plain" /\ "entity" \in DOMAIN item
       THEN TrackedBaseline(p, r, item.entity.num, item.entity.solid)
  ELSE r

Lost(r) == Reader("lost", r)
PastItem(p, r, item) ==
  IF Expects(p, r, item) THEN Reader(NextMode(r.mode, item), TrackedBy(p, r, item)) ELSE Lost(r)

\* at the end of a blast
Closed(r, blast) == IF r.mode = blast THEN Reader("packet", r) ELSE Lost(r)
Beyond(p, r, item) ==
  IF ~IsBlast(item) THEN PastItem(p, r, item)
  ELSE IF p \in Kex THEN Closed(PastItem(p, PastItem(p, r, item), item.data[1]), item.form)
  ELSE Lost(r)

\* Where it is after a list of items.
Through(p, r, items) ==
  LET at[i \in 0 .. Len(items)] == IF i = 0 THEN r ELSE Beyond(p, at[i - 1], items[i])
  IN  at[Len(items)]

Listed(items) == items \in Seq({items[i] : i \in 1 .. Len(items)})

\* A list that is read from the start of a packet, without entities to track.
AtStart == [mode |-> "packet", edict |-> {}, base |-> {}]
Readable(p, items) == Listed(items) /\ Through(p, AtStart, items).mode \in Between

\* The application may wrap a packet with a gamestate's zpacket in it, not more.
IsZpacket(item) == item.is = "command" /\ item.form = "zpacket"
NoZpackets(items) == \A i \in 1 .. Len(items) : ~IsZpacket(items[i])
Unwraps(p, items) ==
  \A i \in 1 .. Len(items) :
    IsZpacket(items[i]) => Readable(p, items[i].data) /\ NoZpackets(items[i].data)
UnwrapsTwice(p, items) ==
  \A i \in 1 .. Len(items) :
    IsZpacket(items[i]) => Readable(p, items[i].data) /\ Unwraps(p, items[i].data)

AtClient == Reader(client.mode, client)
AtServer == Reader(IF server.inFrame THEN "entities" ELSE "packet", server)

\* The client can read what is inflated and then the rest of the packet.
Following ==
  /\ Listed(client.raw) /\ UnwrapsTwice(proto, client.raw)
  /\ client.mode \in Blasts =>
       LET inner == Through(proto, AtClient, client.inflated)
       IN  /\ ~client.inflating /\ Listed(client.inflated)
           /\ inner.mode = client.mode
           /\ Through(proto, Reader("packet", inner), client.raw).mode \in Between
  /\ client.inflating =>
       /\ Listed(client.inflated) /\ Unwraps(proto, client.inflated)
       /\ Through(proto, AtClient, client.inflated).mode \in Between
       /\ Through(proto, Reader("packet", client), client.raw).mode \in Between
  /\ ~FromInflated => Through(proto, AtClient, client.raw).mode \in Between

(* The parser, on its way through the items ahead of it, expects each of   *)
(* them, and is where the server is at the end of a packet that was not    *)
(* broken off; after an error it is where a packet starts.                 *)
FollowInv ==
  /\ proto \in Protocols /\ ~server.misheard
  /\ IF client.reading
     THEN /\ packet = <<>> /\ ~server.inFrame /\ ~server.full
          /\ IF client.error = "none" THEN Following ELSE client.mode = "packet"
     ELSE /\ client.mode = "packet" /\ ~client.inflating /\ client.error = "none"
          /\ Listed(packet) /\ Unwraps(proto, packet)
          /\ IF server.full THEN Through(proto, AtClient, packet).mode \in Between
                            ELSE Through(proto, AtClient, packet) = AtServer

(* The three together.  If the application wraps a packet that contains a  *)
(* zpacket the second is lost with what came after that.                   *)
SessionInv == SolidInv /\ (~Nests => HandInv) /\ FollowInv
=============================================================================
