--------------------------- MODULE MessageFormats ---------------------------
(***************************************************************************)
(* One message through one protocol: the server makes the delta of two     *)
(* packed states and writes it, the client reads it and applies it to the  *)
(* state it has; moves go the other way.  A context is the protocol, its   *)
(* version and the server's game API.                                      *)
(***************************************************************************)
EXTENDS ExtdemoFormat

CONSTANTS Contexts,      \* [proto, version, api]
          EntityCases,   \* [from, to, entnum, old, remove]
          FrameCases,    \* [from, to, header]
          MoveCases,     \* [set, val]
          BatchCases     \* sequences of frames of moves

\* The protocols a game can be played or recorded with
GameProtocols ==
  [vanilla   |-> {"vanilla", "r1q2", "q2pro"}, ext |-> {"q2pro", "extdemo"},
   v2        |-> {"q2pro", "extdemo"}, rerelease |-> {"q2repro", "kex", "kexdemo"}]
ASSUME ContextAssumption ==
  \A c \in Contexts :
    /\ c.api \in DOMAIN GameProtocols /\ c.proto \in GameProtocols[c.api] /\ c.version \in Nat
\* Packed states
ASSUME StateAssumption ==
  /\ \A e \in EntityCases : DOMAIN e.to = EntityFields /\ e.to[F("sound")] \in Nat
  /\ \A p \in FrameCases : DOMAIN p.to = PlayerFields
\* Fields of a move are as wide as in the structure.  R1Q2 needs the bits of the
\* buttons that games do not use, and divides by five whatever is a multiple of it.
SuitsR1q2(c, d) ==
  d.val[F("buttons")] \in GameButtonValues /\ (c.version >= R1Q2_UCMD => FivesFit(d))
ASSUME MoveAssumption ==
  \A d \in MoveCases :
    /\ d.set \subseteq MoveFields /\ DOMAIN d.val = MoveWhole /\ IsMove(d)
    /\ \A c \in Contexts : c.proto = "r1q2" => SuitsR1q2(c, d)

VARIABLES ctx, msg, phase, out, seen
vars == <<ctx, msg, phase, out, seen>>
-----------------------------------------------------------------------------
(* The handlers of the protocols *)
IsKex(c) == c.proto \in {"kex", "kexdemo"}
HasClientnum(c) == c.proto \in {"q2pro", "q2repro"}
HasMoves(c) == ~IsKex(c) /\ c.proto # "extdemo"

WriteEntity(c, entnum, d) ==
  CASE c.proto = "vanilla" -> VanillaWriteEntity(entnum, d)
    [] c.proto = "r1q2"    -> R1q2WriteEntity(c.version, entnum, d)
    [] c.proto \in {"q2pro", "extdemo"} -> Q2proWriteEntity(c, entnum, d)
    [] c.proto = "q2repro" -> Q2reproWriteEntity(entnum, d)
    [] IsKex(c)            -> KexWriteEntity(c, entnum, d, FALSE)
ReadBaseline(c, wire) ==
  CASE c.proto = "vanilla" -> VanillaReadBaseline(wire)
    [] c.proto = "r1q2"    -> R1q2ReadBaseline(c.version, wire)
    [] c.proto \in {"q2pro", "extdemo"} -> Q2proReadBaseline(c, wire)
    [] c.proto = "q2repro" -> Q2reproReadBaseline(wire)
    [] IsKex(c)            -> KexReadBaseline(c, wire)

\* In a frame an entity may go away, and entity 0 ends the list; else it is sent as
\* in a baseline.  The old protocols have at most four bytes of flags.
WriteFrameEntity(c, entnum, remove, d) ==
  IF remove THEN WriteRemove(entnum)
  ELSE IF entnum = 0 THEN WriteTerminator
  ELSE WriteEntity(c, entnum, d)
ReadFrameEntity(c, wire) ==
  LET h == ReadEntityBits(wire)
      gone == h.r.ok /\ U.REMOVE \in h.bits
      end  == h.r.ok /\ h.r.got[F("entnum")] = 0
      bad  == c.proto \in {"vanilla", "r1q2"} /\ U.MOREBITS4 \in h.bits
  IN  [remove |-> gone /\ ~end,
       r |-> IF bad THEN OutOfStep(h.r) ELSE IF gone \/ end THEN h.r ELSE ReadBaseline(c, wire)]

WriteFrame(c, fr, d) ==
  CASE c.proto = "vanilla" -> VanillaWriteFrame(fr, d)
    [] c.proto = "r1q2"    -> R1q2WriteFrame(fr, d)
    [] c.proto = "q2pro"   -> Q2proWriteFrame(c, fr, d)
    [] c.proto = "extdemo" -> ExtdemoWriteFrame(c, fr, d)
    [] c.proto = "q2repro" -> Q2reproWriteFrame(fr, d)
    [] IsKex(c)            -> KexWriteFrame(fr, d)
ReadFrame(c, wire) ==
  CASE c.proto = "vanilla" -> VanillaReadFrame(Tail(wire), FALSE)
    [] c.proto = "r1q2"    -> R1q2ReadFrame(wire[1].v, Tail(wire))
    [] c.proto = "q2pro"   -> Q2proReadFrame(c, wire[1].v, Tail(wire))
    [] c.proto = "extdemo" -> ExtdemoReadFrame(c, Tail(wire))
    [] c.proto = "q2repro" -> Q2reproReadFrame(Tail(wire))
    [] IsKex(c)            -> KexReadFrame(Tail(wire))
MakeEntityDelta(c, from, to, old) ==
  CASE IsKex(c)            -> KexEntityDelta(from, to, old)
    [] c.proto = "q2repro" -> Q2reproEntityDelta(from, to, old)
    [] OTHER               -> EntityDelta(from, to, old, Extended(c))
MakePlayerDelta(c, from, to) ==
  CASE IsKex(c)            -> KexPlayerDelta(from, to)
    [] c.proto = "q2repro" -> Q2reproPlayerDelta(from, to)
    [] OTHER               -> PlayerDelta(from, to)

WriteMove(c, lastframe, moves) ==
  CASE c.proto = "vanilla" -> VanillaWriteMove(lastframe, moves)
    [] c.proto = "r1q2"    -> R1q2WriteMove(c.version, lastframe, moves)
    [] c.proto = "q2pro"   -> Q2proWriteMove(lastframe, moves)
    [] c.proto = "q2repro" -> Q2reproWriteMove(lastframe, moves)
ReadMove(c, wire) ==
  CASE c.proto = "vanilla" -> VanillaReadMove(Tail(wire))
    [] c.proto = "r1q2"    -> R1q2ReadMove(c.version, Tail(wire))
    [] c.proto = "q2pro"   -> Q2proReadMove(Tail(wire))
    [] c.proto = "q2repro" -> Q2reproReadMove(Tail(wire))

HasBatch(c) == c.proto \in {"q2pro", "q2repro"}
WriteBatch(c, lastframe, frames) ==
  IF c.proto = "q2pro" THEN Q2proWriteBatch(lastframe, frames)
  ELSE Q2reproWriteBatch(lastframe, frames)
ReadBatch(c, wire) ==
  IF c.proto = "q2pro" THEN Q2proReadBatch(wire) ELSE Q2reproReadBatch(wire)

\* The client number is not part of a packed state; a server may add it
WithClientnum(fr, d) ==
  IF fr[F("clientnum")] = -1 THEN d
  ELSE [d EXCEPT !.set = @ \cup {F("clientnum")},
                 !.val = With(@, "clientnum", fr[F("clientnum")])]
-----------------------------------------------------------------------------
Init ==
  /\ ctx \in Contexts
  /\ \/ \E e \in EntityCases :
          msg = [kind |-> "entity", from |-> e.from, to |-> e.to, entnum |-> e.entnum,
                 old |-> e.old, remove |-> e.remove]
     \/ \E p \in FrameCases :
          msg = [kind |-> "frame", from |-> p.from, to |-> p.to, header |-> p.header]
     \/ HasMoves(ctx) /\ \E d \in MoveCases : msg = [kind |-> "move", delta |-> d]
     \/ HasBatch(ctx) /\ \E b \in BatchCases : msg = [kind |-> "batch", frames |-> b]
  /\ phase = "made"
  /\ out = Written(<<>>)
  /\ seen = [r |-> Reader(<<>>)]

\* Three moves are sent; the middle one has all fields that the protocol can send,
\* to tell them apart
MiddleMove(c, d) ==
  [set |-> IF c.proto = "q2repro" THEN MoveWhole \ {<<"move", 2>>} ELSE MoveWhole, val |-> d.val]
Moves(c, d) == <<d, MiddleMove(c, d), d>>

Write ==
  /\ phase = "made"
  /\ out' =
       CASE msg.kind = "entity" ->
              WriteFrameEntity(ctx, msg.entnum, msg.remove,
                               MakeEntityDelta(ctx, msg.from, msg.to, msg.old))
         [] msg.kind = "frame" ->
              WriteFrame(ctx, msg.header, WithClientnum(msg.header, MakePlayerDelta(ctx, msg.from, msg.to)))
         [] msg.kind = "move"  -> WriteMove(ctx, 7, Moves(ctx, msg.delta))
         [] msg.kind = "batch" -> WriteBatch(ctx, IF Len(msg.frames) = 1 THEN -1 ELSE 7, msg.frames)
  /\ phase' = "written"
  /\ UNCHANGED <<ctx, msg, seen>>

Read ==
  /\ phase = "written"
  /\ ~out.err
  /\ seen' =
       CASE msg.kind = "entity" -> ReadFrameEntity(ctx, out.wire)
         [] msg.kind = "frame" -> [r |-> ReadFrame(ctx, out.wire)]
         [] msg.kind = "move"  -> ReadMove(ctx, out.wire)
         [] msg.kind = "batch" -> ReadBatch(ctx, out.wire)
  /\ phase' = "read"
  /\ UNCHANGED <<ctx, msg, out>>

Next == Write \/ Read
Spec == Init /\ [][Next]_vars
-----------------------------------------------------------------------------
(* What the client has when it applies what it got to the state before *)
Applied(from, got) ==
  [f \in DOMAIN from |->
     IF f = F("event") THEN IF f \in DOMAIN got THEN got[f] ELSE 0
     ELSE IF f \notin DOMAIN got THEN from[f]
     ELSE IF f[1] \in {"origin", "pm_origin", "pm_velocity"} /\ CoordType(ctx) = "i23"
     THEN IF got[f][2] THEN from[f] + got[f][1] ELSE got[f][1]
     ELSE got[f]]

\* What is the same in the eyes of a protocol: coordinates of 16 bits wrap around,
\* an angle of 8 bits is cut off and then stretched to 257/256 of what is left, which
\* takes a negative one further from what it was (up to 383), an origin that stays
\* within an eighth of a unit is not sent, or not all of it,
\* and Q2PRO has 3 bits for the skin of the gun
SameShort(a, b) == (a - b) % 65536 = 0
SameAngle(a, b) == (a - b) % 65536 \in (0 .. 127) \cup (65536 - 383 .. 65535)

FloatCoords == ctx.proto \in {"q2repro", "kex", "kexdemo"}
ShortCoords == ~FloatCoords /\ ~ExtendedV2(ctx)
CoarseAngles == ctx.proto \in {"vanilla", "r1q2"} \/ (ctx.proto = "q2pro" /\ ctx.version < SHORT_ANGLES)
ShortSolid == ctx.proto = "vanilla" \/ (ctx.proto = "r1q2" /\ ctx.version < R1Q2_LONG_SOLID)

Same(f, a, b) ==
  \/ a = b
  \/ /\ f[1] \in {"origin", "old_origin", "pm_origin", "pm_velocity"}
     /\ ShortCoords /\ SameShort(a, b)
  \/ f[1] = "origin" /\ ctx.proto = "q2repro" /\ Eighths(a) = Eighths(b)
  \/ /\ f[1] \in {"origin", "old_origin"} /\ ctx.proto = "kexdemo"
     /\ msg.to[F("solid")] = 0 \/ msg.from[F("solid")] = msg.to[F("solid")]
     /\ SameShort(Eighths(a), Eighths(b))
  \/ f[1] = "angles" /\ CoarseAngles /\ SameAngle(a, b)
  \/ f = F("solid") /\ ShortSolid /\ SameShort(a, b)
  \/ f = F("gunskin") /\ Extended(ctx) /\ (a - b) % 8 = 0

\* What the server does not send for this message: the old origin if it is not
\* asked for, the extended fields without that API, and the volume and attenuation
\* of an entity whose sound stays
NotSent ==
  (IF msg.old THEN {} ELSE Vec("old_origin", 3))
  \cup (IF Extended(ctx) THEN {} ELSE ExtendedFields)
  \cup (IF msg.from[F("sound")] = msg.to[F("sound")]
        THEN {F("loop_volume"), F("loop_attenuation")} ELSE {})

\* An entity that is written arrives: the client that applies the delta to the old
\* state has the new one, in every field and whatever fields change together.  It is
\* taken for the end of the list, or for gone, only if that is what was written.
EntityArrives ==
  (phase = "read" /\ msg.kind = "entity") =>
    /\ seen.r.got[F("entnum")] = msg.entnum
    /\ seen.remove = msg.remove
    /\ ~msg.remove /\ msg.entnum # 0 =>
       LET now == Applied(msg.from, seen.r.got)
       IN  \A f \in EntityFields \ NotSent : Same(f, now[f], msg.to[f])

\* Blends are written as a whole by all protocols but Q2PRO's second extended
\* API and Q2rePRO, with no value for the components that stay; only the delta of
\* the rerelease has values for all
LostBlend ==
  IF ExtendedV2(ctx) \/ ctx.api = "rerelease" THEN {}
  ELSE {f \in Vec("blend", 4) : msg.from[f] = msg.to[f]}
\* R1Q2 sends the third component of the velocity if that of the origin changes
LostVelocity == IF ctx.proto = "r1q2" THEN {<<"pm_velocity", 2>>} ELSE {}
\* Q2PRO cuts off a gunindex that a game without extensions cannot have, where the
\* other protocols refuse it; its demos cut off gunframe, and KEX what is left of its word
CutGun ==
  IF ctx.proto = "q2pro" /\ ~Extended(ctx) /\ msg.to[F("gunindex")] > 255 THEN {F("gunindex")}
  ELSE IF ctx.proto = "extdemo" /\ msg.to[F("gunframe")] > 255 THEN {F("gunframe")}
  ELSE {}
\* Q2rePRO does not send a gunskin without a new gunindex
LostGunskin ==
  IF ctx.proto = "q2repro" /\ msg.from[F("gunindex")] = msg.to[F("gunindex")] THEN {F("gunskin")}
  ELSE {}
\* Fields that a demo of Q2PRO leaves out; games of the rerelease send the fog apart
NotInFormat ==
  IF ctx.proto = "extdemo" THEN {F("gunrate"), F("pm_viewheight")}
  ELSE IF ctx.api = "rerelease" THEN FogFields ELSE {}
Lost == LostBlend \cup LostVelocity \cup CutGun \cup LostGunskin \cup NotInFormat

PlayerNow == Applied(msg.from, seen.r.got)

\* A player state that is written arrives, but for the components above.
PlayerArrives ==
  (phase = "read" /\ msg.kind = "frame") =>
    \A f \in PlayerFields \ Lost : Same(f, PlayerNow[f], msg.to[f])

\* The blend of the screen arrives, as q2proto_server.h:211 promises of a delta: with
\* the old player state it allows to recreate the new one.
BlendArrives ==
  (phase = "read" /\ msg.kind = "frame") =>
    \A f \in Vec("blend", 4) : Same(f, PlayerNow[f], msg.to[f])

\* The header of a frame arrives: its number, that of the frame it is a delta from,
\* and the flags that share a byte with those of the player.
FrameArrives ==
  (phase = "read" /\ msg.kind = "frame") =>
    /\ \A f \in {F("serverframe"), F("deltaframe"), F("suppress_count"), F("areabits_len")} :
         seen.r.got[f] = msg.header[f]
    /\ (HasClientnum(ctx) /\ msg.header[F("clientnum")] # -1) =>
         seen.r.got[F("clientnum")] = msg.header[F("clientnum")]

\* The three moves of a message arrive, compressed or not.
MoveArrives ==
  (phase = "read" /\ msg.kind = "move") =>
    \A i \in 1 .. 3 : \A f \in Moves(ctx, msg.delta)[i].set \cup {F("msec"), F("lightlevel")} :
      /\ f \in DOMAIN seen.moves[i]
      /\ seen.moves[i][f] = msg.delta.val[f]

\* The moves of a batch arrive with the angles and the msec of the moves before.
BatchArrives ==
  (phase = "read" /\ msg.kind = "batch") =>
    /\ Len(seen.frames) = Len(msg.frames)
    /\ \A i \in DOMAIN msg.frames :
         /\ Len(seen.frames[i]) = Len(msg.frames[i])
         /\ \A j \in DOMAIN msg.frames[i] :
              LET sent == msg.frames[i][j] got == seen.frames[i][j] IN
              /\ \A k \in 0 .. 2 : got.angles[k] = MoveVal(sent, "angles", k)
              /\ \A k \in 0 .. 2 :
                   <<"move", k>> \in sent.set => got.move[k] = MoveVal(sent, "move", k)
              /\ F("buttons") \in sent.set => got.buttons = sent.val[F("buttons")]
              /\ got.msec = sent.val[F("msec")]

\* The reader stays in step: it asks for each item in the width in which it was
\* written, and nothing is left of the message at its end.
InStep ==
  (phase = "read" /\ msg.kind # "batch") => seen.r.ok /\ seen.r.in = <<>>

\* The fields a protocol has no place for, and those it has too small a place for
Lacks ==
  (IF ctx.proto \in {"vanilla", "r1q2", "q2pro"} THEN {F("pm_viewheight"), F("gunrate")} ELSE {})
  \cup (IF Extended(ctx) THEN {} ELSE ExtendedFields \cup {F("gunskin")})
  \cup (IF ExtendedV2(ctx) \/ ctx.api = "rerelease" THEN {}
        ELSE Vec("damage_blend", 4) \cup {<<"stats", i>> : i \in {32, 63}})
  \cup (IF ctx.api = "rerelease" \/ (ctx.proto \in {"q2pro", "extdemo"} /\ ctx.version >= PLAYERFOG)
        THEN {} ELSE FogFields)
TooWide(f, v) ==
  /\ v > 255 /\ ctx.api # "rerelease"
  /\ \/ f \in Models \cup {F("sound")} /\ ~Extended(ctx)
     \/ f \in {F("pm_time"), F("pm_flags")} /\ ~ExtendedV2(ctx)
     \/ f = F("gunindex") /\ ~Extended(ctx)
     \/ f = F("gunframe")
\* The original protocol sends the frame of a gun with whatever else of it changes
GunTooWide ==
  /\ ctx.proto = "vanilla" /\ msg.to[F("gunframe")] > 255
  /\ \E f \in GunFields : msg.from[f] # msg.to[f]

\* Only a message with a field that the protocol lacks, or with a value too wide
\* for its field, is refused.
RefusedForAReason ==
  out.err =>
    CASE msg.kind \in {"entity", "frame"} ->
           \/ \E f \in DOMAIN msg.to :
                msg.from[f] # msg.to[f] /\ (f \in Lacks \/ TooWide(f, msg.to[f]))
           \/ msg.kind = "frame" /\ GunTooWide
           \/ msg.kind = "frame" /\ msg.header[F("clientnum")] > 255
           \/ msg.kind = "frame" /\ msg.header[F("clientnum")] # -1 /\ ~HasClientnum(ctx)
      [] msg.kind = "move" -> ctx.proto = "q2repro" /\ MovesUp(msg.delta)
      [] msg.kind = "batch" ->
           /\ ctx.proto = "q2repro"
           /\ \E i \in DOMAIN msg.frames : \E j \in DOMAIN msg.frames[i] : MovesUp(msg.frames[i][j])
=============================================================================
