----------------------------- MODULE KexFormat -----------------------------
(***************************************************************************)
(* The protocol of the rerelease (2023), and that of its demos (2022),     *)
(* where the origins of entities that are not solid are in eighths.  Both  *)
(* sides keep track of which entities are solid; solid is what they have.  *)
(***************************************************************************)
EXTENDS Q2reproFormat

IsDemo(c) == c.proto = "kexdemo"
KexEntityDelta(from, to, writeOldOrigin) == EntityDelta(from, to, writeOldOrigin, TRUE)
-----------------------------------------------------------------------------
(* Entities *)
EffectsFlags(d) ==
  IF ~Changed(d, Vec("effects", 2)) THEN {}
  ELSE IF d.val[<<"effects", 1>>] # 0
  THEN {U.KEX_EFFECTS64} \cup WidthFlags(d.val[<<"effects", 1>>], U.EFFECTS8, U.EFFECTS16, FALSE)
  ELSE WidthFlags(d.val[F("effects")], U.EFFECTS8, U.EFFECTS16, FALSE)

\* The engine takes the lower 32 bits for a signed number: all or none of the
\* bits above them are set
SignExtended(bits) == IF \E b \in bits : b >= 32 THEN bits \cup 32 .. 39 ELSE bits

KexEntityBits(d) ==
  LET model16 == \E f \in Models \cap d.set : d.val[f] > 255
  IN  SignExtended(
        FieldFlags(d) \cup FrameFlag(d) \cup EffectsFlags(d)
        \cup WidthFlagsOf(d, F("skinnum"), U.SKIN8, U.SKIN16, FALSE)
        \cup WidthFlagsOf(d, F("renderfx"), U.RENDERFX8, U.RENDERFX16, FALSE)
        \cup FlagIf(model16, U.MODEL16) \cup FlagIf(F("alpha") \in d.set, U.ALPHA)
        \cup FlagIf(F("scale") \in d.set, U.SCALE))

KexFirstRows ==
  Wide(U.MODEL, U.MODEL16, "modelindex", 0, "u8", "u16")
  \o Wide(U.MODEL2, U.MODEL16, "modelindex2", 0, "u8", "u16")
  \o Wide(U.MODEL3, U.MODEL16, "modelindex3", 0, "u8", "u16")
  \o Wide(U.MODEL4, U.MODEL16, "modelindex4", 0, "u8", "u16")
\* 64 bits of effects are the lower half, and the upper one as wide as it needs
KexEffectsRows ==
  On(U.KEX_EFFECTS64, "low_effects", "u32") \o OnWidth(U.EFFECTS8, U.EFFECTS16, "high_effects")
KexOriginRows(coord) ==
  OnComp(U.ORIGIN1, "origin", 0, coord) \o OnComp(U.ORIGIN2, "origin", 1, coord)
  \o OnComp(U.ORIGIN3, "origin", 2, coord) \o OnVec(U.OLDORIGIN, "old_origin", 3, coord)
KexAngleRows ==
  OnComp(U.ANGLE1, "angles", 0, "float") \o OnComp(U.ANGLE2, "angles", 1, "float")
  \o OnComp(U.ANGLE3, "angles", 2, "float") \o On(U.SOUND, "sound_word", "u16")
KexLastRows ==
  On(VOLUME, "loop_volume", "u8") \o On(ATTENUATION, "loop_attenuation", "u8")
  \o On(U.EVENT, "event", "u8") \o On(U.ALPHA, "alpha", "u8") \o On(U.SCALE, "scale", "u8")
  \o On(U.KEX_INSTANCE, "instance", "u8") \o On(U.KEX_OWNER, "owner", "u16")
  \o On(U.KEX_OLDFRAME, "oldframe", "u16")

\* Whether an entity is solid after a message, and what its origin is sent as
SolidAfter(solid, bits, value) == IF U.SOLID \in bits THEN value # 0 ELSE solid
KexCoord(c, solid) == IF IsDemo(c) /\ ~solid THEN "eighths" ELSE "float"

KexEntityOut(coord) ==
  KexFirstRows \o On(U.FRAME16, "frame", "u16") \o OnElse(U.FRAME8, U.FRAME16, "frame", "u8")
  \o OnWidth(U.SKIN8, U.SKIN16, "skinnum") \o KexEffectsRows
  \o OnWidth(U.RENDERFX8, U.RENDERFX16, "renderfx") \o On(U.SOLID, "solid", "u32")
  \o KexOriginRows(coord) \o KexAngleRows \o KexLastRows

KexWriteEntity(c, entnum, d, solid) ==
  LET bits == KexEntityBits(d)
      after == SolidAfter(solid, bits, d.val[F("solid")])
      values == (F("low_effects") :> d.val[F("effects")])
                @@ (F("high_effects") :> d.val[IF U.KEX_EFFECTS64 \in bits
                                               THEN <<"effects", 1>> ELSE F("effects")])
                @@ (F("instance") :> 0) @@ (F("owner") :> 0) @@ (F("oldframe") :> 0)
                @@ (F("sound_word") :> SoundWord(c, d)) @@ d.val
  IN  Then(EntityBits(bits, entnum),
           WriteRows(KexEntityOut(KexCoord(c, after)), bits \cup SoundBits(c, d), values))

KexUpToSolid ==
  KexFirstRows \o On(U.FRAME8, "frame", "u8") \o OnElse(U.FRAME16, U.FRAME8, "frame", "u16")
  \o OnWidth(U.SKIN8, U.SKIN16, "skinnum") \o KexEffectsRows
  \o OnWidth(U.RENDERFX8, U.RENDERFX16, "renderfx") \o On(U.SOLID, "solid", "u32")

\* All 64 bits of the effects are replaced
JoinEffects(r, bits) ==
  LET high == IF Has(r, "high_effects") THEN r.got[F("high_effects")] ELSE 0
      halves == IF U.KEX_EFFECTS64 \in bits THEN <<r.got[F("low_effects")], high>> ELSE <<high, 0>>
  IN  IF ~r.ok \/ bits \cap {U.KEX_EFFECTS64, U.EFFECTS8, U.EFFECTS16} = {} THEN r
      ELSE [r EXCEPT !.got = (F("effects") :> halves[1]) @@ (<<"effects", 1>> :> halves[2]) @@ @]

\* [bits, r, solid]
KexReadFromOrigin(c, r, bits, solid) ==
  [bits |-> bits, solid |-> solid,
   r |-> ReadWithSound(r, bits, KexOriginRows(KexCoord(c, solid)) \o KexAngleRows,
                       KexLastRows, TRUE)]
KexReadSolid(c, r, bits, solid) ==
  KexReadFromOrigin(c, r, bits,
                    SolidAfter(solid, bits, IF Has(r, "solid") THEN r.got[F("solid")] ELSE 0))
KexReadEntity(c, wire, solid) ==
  LET h == ReadEntityBits(wire)
  IN  KexReadSolid(c, JoinEffects(ReadRows(h.r, KexUpToSolid, h.bits), h.bits), h.bits, solid)

\* A baseline starts with an entity that is not solid
KexReadBaseline(c, wire) == KexReadEntity(c, wire, FALSE).r
-----------------------------------------------------------------------------
(* Players *)
\* the gun's frame, and the flags of what follows it, are one word
GUNBIT == [OFFSET_X |-> 0, OFFSET_Y |-> 1, OFFSET_Z |-> 2, ANGLES_X |-> 3, ANGLES_Y |-> 4,
           ANGLES_Z |-> 5, GUNRATE |-> 6]

\* the delta has values for all of the blends, and joins what is sent together
KexValued ==
  Valued \cup {Vec("blend", 4), Vec("damage_blend", 4), Vec("viewoffset", 3) \cup {F("pm_viewheight")},
               GunFields \cup {F("gunrate")}}
KexPlayerDelta(from, to) == PlayerDeltaOf(KexValued, PlayerFields \ FogFields, from, to)

KexPlayerBits(d) ==
  CommonFlags(d)
  \cup FlagIf(Changed(d, Vec("pm_origin", 3)), PS.M_ORIGIN)
  \cup FlagIf(Changed(d, Vec("pm_velocity", 3)), PS.M_VELOCITY)
  \cup FlagIf(Changed(d, {F("pm_viewheight")}), PS.VIEWOFFSET)
  \cup FlagIf(Changed(d, Vec("viewangles", 3)), PS.VIEWANGLES)
  \cup FlagIf(Changed(d, Vec("blend", 4)), PS.BLEND)
  \cup FlagIf(Changed(d, Vec("damage_blend", 4)), PS.KEX_DAMAGE_BLEND)
  \cup FlagIf(Changed(d, Vec("damage_blend", 4)), PS.MOREBITS)
  \cup FlagIf(Changed(d, {F("gunindex"), F("gunskin")}), PS.WEAPONINDEX)
  \cup FlagIf(Changed(d, GunFields), PS.WEAPONFRAME)

GunBits(d) ==
  {i \in 0 .. 2 : <<"gunoffset", i>> \in d.set}
  \cup {3 + i : i \in {j \in 0 .. 2 : <<"gunangles", j>> \in d.set}}
  \cup FlagIf(F("gunrate") \in d.set, GUNBIT.GUNRATE)
GunWord(d) == SumSet({2^b : b \in BitsOf(d.val[F("gunframe")]) \cup {9 + b : b \in GunBits(d)}})

\* the bits of the gun's word, numbered from 100
KexGunRows ==
  [i \in 1 .. 6 |-> Row({109 + i - 1}, {}, <<IF i <= 3 THEN "gunoffset" ELSE "gunangles", (i - 1) % 3>>,
                        "float")[1]]
  \o On(115, "gunrate", "u8")
GunWordBits(word) == {100 + b : b \in BitsOf(word)}

KexMotionRows ==
  On(PS.M_TYPE, "pm_type", "u8") \o OnVec(PS.M_ORIGIN, "pm_origin", 3, "float")
  \o OnVec(PS.M_VELOCITY, "pm_velocity", 3, "float") \o On(PS.M_TIME, "pm_time", "u16")
  \o On(PS.M_FLAGS, "pm_flags", "u16") \o On(PS.M_GRAVITY, "pm_gravity", "i16")
  \o OnVec(PS.M_DELTA_ANGLES, "pm_delta_angles", 3, "float")
  \o OnVec(PS.VIEWOFFSET, "viewoffset", 3, "i16") \o On(PS.VIEWOFFSET, "pm_viewheight", "i8")
  \o OnVec(PS.VIEWANGLES, "viewangles", 3, "float") \o OnVec(PS.KICKANGLES, "kick_angles", 3, "i16")
  \o On(PS.WEAPONINDEX, "gun_index_and_skin", "u16") \o On(PS.WEAPONFRAME, "gun_word", "u16")
KexBlendRows == OnVec(PS.BLEND, "blend", 4, "u8") \o FovRows

\* two sets of 32 stats, the second one of those from 32 on
StatsFrom(d, first) == {i \in StatNumbers : i \in first .. first + 31 /\ <<"stats", i>> \in d.set}
HalfStats(d, first) ==
  Then(StatBits32({i - first : i \in StatsFrom(d, first)}),
       WriteRows(StatRows(StatsFrom(d, first)), {}, d.val))

KexWritePlayer(d) ==
  IF Changed(d, FogFields \cup {F("clientnum")}) THEN Refused
  ELSE LET bits == KexPlayerBits(d)
           gun == d.val[F("gunindex")] + 2^13 * d.val[F("gunskin")]
           values == With(With(d.val, "gun_index_and_skin", gun), "gun_word", GunWord(d))
       IN  InTurn(<<Put("u8", svc_playerinfo), Put("u16", SumSet({2^b : b \in bits \cap 0 .. 15})),
                    If(PS.MOREBITS \in bits,
                       Put("u16", SumSet({2^(b - 16) : b \in bits \ (0 .. 15)}))),
                    WriteRows(KexMotionRows, bits, values),
                    If(PS.WEAPONFRAME \in bits,
                       WriteRows(KexGunRows, {109 + b : b \in GunBits(d)}, d.val)),
                    WriteRows(KexBlendRows, bits, d.val), HalfStats(d, 0), HalfStats(d, 32),
                    WriteRows(OnVec(PS.KEX_DAMAGE_BLEND, "damage_blend", 4, "u8"), bits, d.val)>>)

ReadHalfStats(r, first) ==
  LET bits == Get(r, "statbits", "u32")
  IN  IF bits.ok THEN ReadRows(bits, StatRows({first + i : i \in bits.got[F("statbits")]}), {}) ELSE bits

KexReadMotion ==
  On(PS.M_TYPE, "pm_type", "u8") \o OnVec(PS.M_ORIGIN, "pm_origin", 3, "float")
  \o OnVec(PS.M_VELOCITY, "pm_velocity", 3, "float") \o On(PS.M_TIME, "pm_time", "u16")
  \o On(PS.M_FLAGS, "pm_flags", "u16") \o On(PS.M_GRAVITY, "pm_gravity", "i16")
  \o OnVec(PS.M_DELTA_ANGLES, "pm_delta_angles", 3, "float")
  \o OnVec(PS.VIEWOFFSET, "viewoffset", 3, "i16") \o On(PS.VIEWOFFSET, "pm_viewheight", "i8")
  \o OnVec(PS.VIEWANGLES, "viewangles", 3, "float") \o OnVec(PS.KICKANGLES, "kick_angles", 3, "i16")
  \o On(PS.WEAPONINDEX, "gun_index_and_skin", "u16") \o On(PS.WEAPONFRAME, "gun_word", "u16")

ReadGun(r) ==
  IF ~Has(r, "gun_word") THEN r
  ELSE LET word == r.got[F("gun_word")]
       IN  ReadRows(Decoded(r, "gunframe", word % 512), KexGunRows, GunWordBits(word))
KexReadFields(r, bits) ==
  LET gun == ReadGun(SplitGun(Rerelease, ReadRows(r, KexReadMotion, bits)))
      stats == ReadHalfStats(ReadHalfStats(ReadRows(gun, KexBlendRows, bits), 0), 32)
  IN  ReadRows(stats, OnVec(PS.KEX_DAMAGE_BLEND, "damage_blend", 4, "u8")
                      \o On(PS.KEX_TEAM_ID, "team_id", "u8"), bits)
KexReadPlayer(r) ==
  LET flags == ReadMoreFlags(Get(r, "flags", "u16"), TRUE, "u16")
  IN  KexReadFields(flags, PlayerFlags(flags))
-----------------------------------------------------------------------------
(* Frames, as in the original protocol *)
KexWriteFrame(fr, d) ==
  InTurn(<<Put("u8", svc_frame), WriteRows(VanillaFrameHeader, {}, fr),
           Put("u8", fr[F("suppress_count")]), AreaBits(fr), KexWritePlayer(d),
           Put("u8", svc_packetentities)>>)
KexReadFrame(wire) ==
  LET head == ReadRows(Reader(wire), VanillaFrameHeader \o Always("suppress_count", "u8"), {})
  IN  Expect(KexReadPlayer(Expect(ReadAreaBits(head), svc_playerinfo)), svc_packetentities)
=============================================================================
