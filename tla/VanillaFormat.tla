--------------------------- MODULE VanillaFormat ---------------------------
(***************************************************************************)
(* The messages of the original protocol (34): entities, players, frames   *)
(* and moves, as q2proto_proto_vanilla.c writes and reads them.            *)
(***************************************************************************)
EXTENDS PlayerDelta

svc_playerinfo == 17
svc_packetentities == 18
svc_frame == 20
clc_move == 2
-----------------------------------------------------------------------------
(* Entities *)
VanillaEntityRefused(d) == Changed(d, ExtendedFields)

VanillaEntityBits(d) ==
  FieldFlags(d) \cup FrameFlag(d)
  \cup WidthFlagsOf(d, F("skinnum"), U.SKIN8, U.SKIN16, FALSE)
  \cup WidthFlagsOf(d, F("effects"), U.EFFECTS8, U.EFFECTS16, FALSE)
  \cup WidthFlagsOf(d, F("renderfx"), U.RENDERFX8, U.RENDERFX16, FALSE)

EntityOut ==
  On(U.MODEL, "modelindex", "u8max") \o On(U.MODEL2, "modelindex2", "u8max")
  \o On(U.MODEL3, "modelindex3", "u8max") \o On(U.MODEL4, "modelindex4", "u8max")
  \o On(U.FRAME16, "frame", "u16") \o OnElse(U.FRAME8, U.FRAME16, "frame", "u8")
  \o OnWidth(U.SKIN8, U.SKIN16, "skinnum") \o OnWidth(U.EFFECTS8, U.EFFECTS16, "effects")
  \o OnWidth(U.RENDERFX8, U.RENDERFX16, "renderfx")
  \o OnComp(U.ORIGIN1, "origin", 0, "u16") \o OnComp(U.ORIGIN2, "origin", 1, "u16")
  \o OnComp(U.ORIGIN3, "origin", 2, "u16") \o OnComp(U.ANGLE1, "angles", 0, "angle8")
  \o OnComp(U.ANGLE2, "angles", 1, "angle8") \o OnComp(U.ANGLE3, "angles", 2, "angle8")
  \o OnVec(U.OLDORIGIN, "old_origin", 3, "u16") \o On(U.SOUND, "sound", "u8max")
  \o On(U.EVENT, "event", "u8")
VanillaEntityOut == EntityOut \o On(U.SOLID, "solid", "u16")

VanillaWriteEntity(entnum, d) ==
  IF VanillaEntityRefused(d) THEN Refused
  ELSE LET bits == VanillaEntityBits(d)
       IN  Then(EntityBits(bits, entnum), WriteRows(VanillaEntityOut, bits, d.val))

EntityIn ==
  On(U.MODEL, "modelindex", "u8") \o On(U.MODEL2, "modelindex2", "u8")
  \o On(U.MODEL3, "modelindex3", "u8") \o On(U.MODEL4, "modelindex4", "u8")
  \o On(U.FRAME8, "frame", "u8") \o OnElse(U.FRAME16, U.FRAME8, "frame", "u16")
  \o OnWidth(U.SKIN8, U.SKIN16, "skinnum") \o OnWidth(U.EFFECTS8, U.EFFECTS16, "effects")
  \o OnWidth(U.RENDERFX8, U.RENDERFX16, "renderfx")
  \o OnComp(U.ORIGIN1, "origin", 0, "i16") \o OnComp(U.ORIGIN2, "origin", 1, "i16")
  \o OnComp(U.ORIGIN3, "origin", 2, "i16") \o OnComp(U.ANGLE1, "angles", 0, "angle8")
  \o OnComp(U.ANGLE2, "angles", 1, "angle8") \o OnComp(U.ANGLE3, "angles", 2, "angle8")
  \o OnVec(U.OLDORIGIN, "old_origin", 3, "i16") \o On(U.SOUND, "sound", "u8")
  \o On(U.EVENT, "event", "u8")
VanillaEntityIn == EntityIn \o On(U.SOLID, "solid", "u16")

VanillaReadEntity(wire) ==
  LET h == ReadEntityBits(wire)
  IN  [bits |-> h.bits, r |-> ReadRows(h.r, VanillaEntityIn, h.bits)]

VanillaReadBaseline(wire) == VanillaReadEntity(wire).r
-----------------------------------------------------------------------------
(* Players *)
VanillaGun(d) == Changed(d, GunFields \ {F("gunrate")})

VanillaPlayerRefused(d) ==
  \/ Changed(d, {F("pm_viewheight"), F("gunskin"), F("gunrate"), F("clientnum")})
  \/ Changed(d, Vec("damage_blend", 4) \cup FogFields)
  \/ \E f \in {F("pm_time"), F("pm_flags")} \cap d.set : d.val[f] > 255
  \/ VanillaGun(d) /\ d.val[F("gunframe")] > 255
  \/ StatsIn(d, 64) # StatsIn(d, 32)

VanillaPlayerBits(d) ==
  CommonFlags(d)
  \cup FlagIf(Changed(d, Vec("pm_origin", 3)), PS.M_ORIGIN)
  \cup FlagIf(Changed(d, Vec("pm_velocity", 3)), PS.M_VELOCITY)
  \cup FlagIf(Changed(d, Vec("viewangles", 3)), PS.VIEWANGLES)
  \cup FlagIf(Changed(d, Vec("blend", 4)), PS.BLEND)
  \cup FlagIf(Changed(d, {F("gunindex")}), PS.WEAPONINDEX)
  \cup FlagIf(VanillaGun(d), PS.WEAPONFRAME)

VanillaPlayerOut ==
  On(PS.M_TYPE, "pm_type", "u8") \o OnVec(PS.M_ORIGIN, "pm_origin", 3, "i16")
  \o OnVec(PS.M_VELOCITY, "pm_velocity", 3, "i16") \o On(PS.M_TIME, "pm_time", "u8")
  \o On(PS.M_FLAGS, "pm_flags", "u8") \o On(PS.M_GRAVITY, "pm_gravity", "i16")
  \o OnVec(PS.M_DELTA_ANGLES, "pm_delta_angles", 3, "i16")
  \o OnVec(PS.VIEWOFFSET, "viewoffset", 3, "i8")
  \o OnVec(PS.VIEWANGLES, "viewangles", 3, "i16")
  \o OnVec(PS.KICKANGLES, "kick_angles", 3, "i8")
  \o On(PS.WEAPONINDEX, "gunindex", "u8max") \o On(PS.WEAPONFRAME, "gunframe", "u8")
  \o OnVec(PS.WEAPONFRAME, "gunoffset", 3, "i8")
  \o OnVec(PS.WEAPONFRAME, "gunangles", 3, "i8")
  \o OnVec(PS.BLEND, "blend", 4, "u8") \o On(PS.FOV, "fov", "u8")
  \o On(PS.RDFLAGS, "rdflags", "u8")

VanillaWritePlayer(d) ==
  IF VanillaPlayerRefused(d) THEN Refused
  ELSE LET bits == VanillaPlayerBits(d)
       IN  InTurn(<<Put("u8", svc_playerinfo), Put("u16", SumSet({2^b : b \in bits})),
                    WriteRows(VanillaPlayerOut, bits, d.val), WriteStats32(d)>>)

VanillaPlayerIn ==
  On(PS.M_TYPE, "pm_type", "u8") \o OnVec(PS.M_ORIGIN, "pm_origin", 3, "i16")
  \o OnVec(PS.M_VELOCITY, "pm_velocity", 3, "i16") \o On(PS.M_TIME, "pm_time", "u8")
  \o On(PS.M_FLAGS, "pm_flags", "u8") \o On(PS.M_GRAVITY, "pm_gravity", "i16")
  \o OnVec(PS.M_DELTA_ANGLES, "pm_delta_angles", 3, "i16")
  \o OnVec(PS.VIEWOFFSET, "viewoffset", 3, "i8")
  \o OnVec(PS.VIEWANGLES, "viewangles", 3, "i16")
  \o OnVec(PS.KICKANGLES, "kick_angles", 3, "i8") \o On(PS.WEAPONINDEX, "gunindex", "u8")
  \o On(PS.WEAPONFRAME, "gunframe", "u8") \o OnVec(PS.WEAPONFRAME, "gunoffset", 3, "i8")
  \o OnVec(PS.WEAPONFRAME, "gunangles", 3, "i8") \o OnVec(PS.BLEND, "blend", 4, "u8")
  \o On(PS.FOV, "fov", "u8") \o On(PS.RDFLAGS, "rdflags", "u8")

VanillaReadPlayer(r) ==
  LET flags == Get(r, "flags", "u16")
  IN  ReadStats32(ReadRows(flags, VanillaPlayerIn, Flags(flags, "flags")))
-----------------------------------------------------------------------------
(* Frames: a header, the player, and the list of entities that follows.    *)
(* Demos of old versions have no suppress_count.                           *)
VanillaFrameHeader == Always("serverframe", "i32") \o Always("deltaframe", "i32")

VanillaWriteFrame(fr, d) ==
  InTurn(<<Put("u8", svc_frame), WriteRows(VanillaFrameHeader, {}, fr),
           Put("u8", fr[F("suppress_count")]), Put("u8", fr[F("areabits_len")]),
           Written(<<RawItem(fr[F("areabits_len")])>>), VanillaWritePlayer(d),
           Put("u8", svc_packetentities)>>)

VanillaReadFrame(wire, oldDemo) ==
  LET head == ReadRows(Reader(wire), VanillaFrameHeader
                         \o IF oldDemo THEN <<>> ELSE Always("suppress_count", "u8"), {})
      area == GetRaw(Get(head, "areabits_len", "u8"), "areabits", "areabits_len")
  IN  Expect(VanillaReadPlayer(Expect(area, svc_playerinfo)), svc_packetentities)
-----------------------------------------------------------------------------
(* Moves: three deltas, each against the previous one.  A delta has the fields *)
(* it announces (set) and the values of all of them (val).                     *)
MoveFields == Vec("angles", 3) \cup Vec("move", 3) \cup {F("buttons"), F("impulse")}
MoveWhole == MoveFields \cup {F("msec"), F("lightlevel")}
MoveRange(f) ==
  IF f[1] \in {"angles", "move"} THEN {n \in Int : -32768 <= n /\ n < 32768} ELSE 0 .. 255
IsMove(d) == \A f \in MoveWhole : d.val[f] \in MoveRange(f)

CM == [ANGLE1 |-> 0, ANGLE2 |-> 1, ANGLE3 |-> 2, FORWARD |-> 3, SIDE |-> 4, UP |-> 5,
       BUTTONS |-> 6, IMPULSE |-> 7]

MoveFlags(d) ==
  {p[2] : p \in {q \in {<<<<"angles", 0>>, CM.ANGLE1>>, <<<<"angles", 1>>, CM.ANGLE2>>,
                        <<<<"angles", 2>>, CM.ANGLE3>>, <<<<"move", 0>>, CM.FORWARD>>,
                        <<<<"move", 1>>, CM.SIDE>>, <<<<"move", 2>>, CM.UP>>,
                        <<F("buttons"), CM.BUTTONS>>, <<F("impulse"), CM.IMPULSE>>} :
                   q[1] \in d.set}}

MoveAngles ==
  OnComp(CM.ANGLE1, "angles", 0, "i16") \o OnComp(CM.ANGLE2, "angles", 1, "i16")
  \o OnComp(CM.ANGLE3, "angles", 2, "i16")
VanillaMoveOut ==
  MoveAngles \o OnComp(CM.FORWARD, "move", 0, "i16") \o OnComp(CM.SIDE, "move", 1, "i16")
  \o OnComp(CM.UP, "move", 2, "i16") \o On(CM.BUTTONS, "buttons", "u8")
  \o On(CM.IMPULSE, "impulse", "u8") \o Always("msec", "u8") \o Always("lightlevel", "u8")
VanillaWriteMoveDelta(d) ==
  Then(Byte(MoveFlags(d)), WriteRows(VanillaMoveOut, MoveFlags(d), d.val))

VanillaWriteMove(lastframe, moves) ==
  InTurn(<<Put("u8", clc_move), Written(<<RawItem(1)>>), Put("i32", lastframe)>>
         \o [i \in 1 .. 3 |-> VanillaWriteMoveDelta(moves[i])])

VanillaMoveIn ==
  MoveAngles \o OnComp(CM.FORWARD, "move", 0, "i16") \o OnComp(CM.SIDE, "move", 1, "i16")
  \o OnComp(CM.UP, "move", 2, "i16") \o On(CM.BUTTONS, "buttons", "u8")
  \o On(CM.IMPULSE, "impulse", "u8") \o Always("msec", "u8") \o Always("lightlevel", "u8")

VanillaReadMoveDelta(r) ==
  LET bits == Get([r EXCEPT !.got = [f \in {} |-> 0]], "bits", "u8")
  IN  ReadRows(bits, VanillaMoveIn, Flags(bits, "bits"))

\* The result of the readers m[1], m[2], m[3] of the moves that follow the head m[0]
ReadMoves(m) ==
  [lastframe |-> m[0].got[F("lastframe")], moves |-> [i \in 1 .. 3 |-> m[i].got], r |-> m[3]]
VanillaReadMove(wire) ==
  LET head == Get(GetWide(Reader(wire), "checksum", 1001), "lastframe", "i32")
      m[i \in 0 .. 3] == IF i = 0 THEN head ELSE VanillaReadMoveDelta(m[i - 1])
  IN  ReadMoves(m)
=============================================================================
