--------------------------- MODULE ExtdemoFormat ---------------------------
(***************************************************************************)
(* Demos that Q2PRO records of a game with an extended API: Q2PRO's        *)
(* entities in frames like those of the original protocol, with a player   *)
(* whose vectors are sent as a whole.                                      *)
(***************************************************************************)
EXTENDS KexFormat

ExtdemoPlayerBits(d) ==
  VanillaPlayerBits(d)
  \cup FlagIf(Changed(d, Vec("damage_blend", 4)), PS.BLEND)
  \cup FlagIf(Changed(d, {F("gunskin")}), PS.WEAPONINDEX)
  \cup FlagIf(Changed(d, FogFields), PS.Q2PRO_PLAYERFOG)
  \cup FlagIf(Changed(d, FogFields), PS.MOREBITS)

ExtdemoPlayerRefused(c, d) ==
  \/ ~ExtendedV2(c) /\ \E f \in {F("pm_time"), F("pm_flags")} \cap d.set : d.val[f] > 255
  \/ ~ExtendedV2(c) /\ (Changed(d, Vec("damage_blend", 4)) \/ StatsIn(d, 64) # StatsIn(d, 32))
  \/ F("clientnum") \in d.set
  \/ Changed(d, FogFields) /\ ~HasMorebits(c)

ExtdemoPlayerOut(c) ==
  On(PS.M_TYPE, "pm_type", "u8") \o OnVec(PS.M_ORIGIN, "pm_origin", 3, CoordType(c))
  \o OnVec(PS.M_VELOCITY, "pm_velocity", 3, CoordType(c)) \o On(PS.M_TIME, "pm_time", PmType(c))
  \o On(PS.M_FLAGS, "pm_flags", PmType(c)) \o On(PS.M_GRAVITY, "pm_gravity", "i16")
  \o OnVec(PS.M_DELTA_ANGLES, "pm_delta_angles", 3, "i16")
  \o OnVec(PS.VIEWOFFSET, "viewoffset", 3, "i8") \o OnVec(PS.VIEWANGLES, "viewangles", 3, "i16")
  \o OnVec(PS.KICKANGLES, "kick_angles", 3, "i8") \o On(PS.WEAPONINDEX, "gun_index_and_skin", "u16")
  \o On(PS.WEAPONFRAME, "gunframe", "u8") \o OnVec(PS.WEAPONFRAME, "gunoffset", 3, "i8")
  \o OnVec(PS.WEAPONFRAME, "gunangles", 3, "i8")

ExtdemoWritePlayer(c, d) ==
  IF ExtdemoPlayerRefused(c, d) THEN Refused
  ELSE LET bits == ExtdemoPlayerBits(d)
           Rows(rows) == WriteRows(rows, bits, PlayerValues(c, d))
       IN  InTurn(<<Put("u8", svc_playerinfo), Put("u16", SumSet({2^b : b \in bits \cap 0 .. 15})),
                    If(PS.MOREBITS \in bits, Byte({b - 16 : b \in bits \ (0 .. 15)})),
                    Rows(ExtdemoPlayerOut(c)),
                    If(PS.BLEND \in bits,
                       IF ExtendedV2(c) THEN WriteBlends(d)
                       ELSE WriteRows(AlwaysVec("blend", 4, "u8"), {}, d.val)),
                    If(PS.Q2PRO_PLAYERFOG \in bits, WriteFog(d)), Rows(FovRows),
                    IF ExtendedV2(c) THEN WriteStats64(d) ELSE WriteStats32(d)>>)

ExtdemoPlayerIn(c) ==
  On(PS.M_TYPE, "pm_type", "u8") \o OnVec(PS.M_ORIGIN, "pm_origin", 3, CoordType(c))
  \o OnVec(PS.M_VELOCITY, "pm_velocity", 3, CoordType(c)) \o On(PS.M_TIME, "pm_time", PmType(c))
  \o On(PS.M_FLAGS, "pm_flags", PmType(c)) \o On(PS.M_GRAVITY, "pm_gravity", "i16")
  \o OnVec(PS.M_DELTA_ANGLES, "pm_delta_angles", 3, "i16")
  \o OnVec(PS.VIEWOFFSET, "viewoffset", 3, "i8") \o OnVec(PS.VIEWANGLES, "viewangles", 3, "i16")
  \o OnVec(PS.KICKANGLES, "kick_angles", 3, "i8") \o On(PS.WEAPONINDEX, "gun_index_and_skin", "u16")
  \o On(PS.WEAPONFRAME, "gunframe", "u8") \o OnVec(PS.WEAPONFRAME, "gunoffset", 3, "i8")
  \o OnVec(PS.WEAPONFRAME, "gunangles", 3, "i8")

\* bits has those of the second byte only in a version that has the fog
ExtdemoReadFields(c, r, bits) ==
  LET rows == SplitGun(c, ReadRows(r, ExtdemoPlayerIn(c), bits))
      fog == ReadPlayerFog(ReadPlayerBlend(c, rows, bits), bits)
  IN  ReadStats(c, ReadRows(fog, FovRows, bits))
ExtdemoReadPlayer(c, r) ==
  LET flags == ReadMoreFlags(Get(r, "flags", "u16"), HasMorebits(c), "u8")
  IN  ExtdemoReadFields(c, flags, PlayerFlags(flags))
-----------------------------------------------------------------------------
ExtdemoWriteFrame(c, fr, d) ==
  InTurn(<<Put("u8", svc_frame), WriteRows(VanillaFrameHeader, {}, fr),
           Put("u8", fr[F("suppress_count")]), AreaBits(fr), ExtdemoWritePlayer(c, d),
           Put("u8", svc_packetentities)>>)
ExtdemoReadFrame(c, wire) ==
  LET head == ReadRows(Reader(wire), VanillaFrameHeader \o Always("suppress_count", "u8"), {})
  IN  Expect(ExtdemoReadPlayer(c, Expect(ReadAreaBits(head), svc_playerinfo)), svc_packetentities)
=============================================================================
