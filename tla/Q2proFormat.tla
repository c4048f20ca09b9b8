---------------------------- MODULE Q2proFormat ----------------------------
(***************************************************************************)
(* The Q2PRO protocol (36): R1Q2's frames, with fields of the extended     *)
(* game APIs.  A context c has a version and the server's game API, which  *)
(* decides on the fields and on their widths.                              *)
(***************************************************************************)
EXTENDS R1q2Format

SHORT_ANGLES == 1018
CLIENTNUM_SHORT == 1022
PLAYERFOG == 1026

Extended(c) == c.api # "vanilla"
ExtendedV2(c) == c.api = "v2"
CoordType(c) == IF ExtendedV2(c) THEN "i23" ELSE "i16"
OldCoordType(c) == IF ExtendedV2(c) THEN "i23abs" ELSE "i16"

\* A sound has 14 bits; the upper two of its word say what follows, and are
\* numbered from 100 among the bits of the rows
VOLUME == 114
ATTENUATION == 115
WordBits(word) == {100 + b : b \in BitsOf(word) \cap {14, 15}}
-----------------------------------------------------------------------------
(* Entities *)
Models == {F("modelindex"), F("modelindex2"), F("modelindex3"), F("modelindex4")}

Q2proEntityBits(c, d) ==
  LET angle16 == Changed(d, Vec("angles", 3)) /\ c.version >= SHORT_ANGLES
      model16 == \E f \in Models \cap d.set : d.val[f] > 255
  IN  FieldFlags(d) \cup FrameFlag(d)
      \cup WidthFlagsOf(d, F("skinnum"), U.SKIN8, U.SKIN16, TRUE)
      \cup WidthFlagsOf(d, F("effects"), U.EFFECTS8, U.EFFECTS16, TRUE)
      \cup WidthFlagsOf(d, <<"effects", 1>>, U.MOREFX8, U.MOREFX16, TRUE)
      \cup WidthFlagsOf(d, F("renderfx"), U.RENDERFX8, U.RENDERFX16, TRUE)
      \cup FlagIf(angle16, U.ANGLE16) \cup FlagIf(model16, U.MODEL16)
      \cup FlagIf(F("alpha") \in d.set, U.ALPHA) \cup FlagIf(F("scale") \in d.set, U.SCALE)

\* mutant: whatever the game API
Q2proEntityRefusedAlways(c, d) ==
  \/ Changed(d, {<<"effects", 1>>, F("alpha"), F("scale")})
  \/ U.MODEL16 \in Q2proEntityBits(c, d)
Q2proEntityRefused(c, d) ==
  /\ ~Extended(c)
  /\ \/ Changed(d, {<<"effects", 1>>, F("alpha"), F("scale")})
     \/ U.MODEL16 \in Q2proEntityBits(c, d)
     \/ F("sound") \in d.set /\ Changed(d, {F("loop_volume"), F("loop_attenuation")})

\* loop_volume and loop_attenuation follow the sound, and only that
SoundWord(c, d) ==
  LET flags == (IF F("loop_volume") \in d.set THEN {14} ELSE {})
               \cup (IF F("loop_attenuation") \in d.set THEN {15} ELSE {})
  IN  SumSet({2^b : b \in BitsOf(d.val[F("sound")]) \cup IF Extended(c) THEN flags ELSE {}})
SoundBits(c, d) ==
  IF Extended(c) /\ F("sound") \in d.set THEN WordBits(SoundWord(c, d)) ELSE {}

ExtendedEntityOut(coord, oldCoord, extended) ==
  Wide(U.MODEL, U.MODEL16, "modelindex", 0, "u8", "u16")
  \o Wide(U.MODEL2, U.MODEL16, "modelindex2", 0, "u8", "u16")
  \o Wide(U.MODEL3, U.MODEL16, "modelindex3", 0, "u8", "u16")
  \o Wide(U.MODEL4, U.MODEL16, "modelindex4", 0, "u8", "u16")
  \o On(U.FRAME16, "frame", "u16") \o OnElse(U.FRAME8, U.FRAME16, "frame", "u8")
  \o OnWidth(U.SKIN8, U.SKIN16, "skinnum") \o OnWidth(U.EFFECTS8, U.EFFECTS16, "effects")
  \o OnWidth(U.RENDERFX8, U.RENDERFX16, "renderfx")
  \o OnComp(U.ORIGIN1, "origin", 0, coord)
  \o OnComp(U.ORIGIN2, "origin", 1, coord)
  \o OnComp(U.ORIGIN3, "origin", 2, coord)
  \o Wide(U.ANGLE1, U.ANGLE16, "angles", 0, "angle8", "i16")
  \o Wide(U.ANGLE2, U.ANGLE16, "angles", 1, "angle8", "i16")
  \o Wide(U.ANGLE3, U.ANGLE16, "angles", 2, "angle8", "i16")
  \o OnVec(U.OLDORIGIN, "old_origin", 3, oldCoord)
  \o On(U.SOUND, "sound_word", IF extended THEN "u16" ELSE "u8max")
  \o On(VOLUME, "loop_volume", "u8") \o On(ATTENUATION, "loop_attenuation", "u8")
  \o On(U.EVENT, "event", "u8") \o On(U.SOLID, "solid", "u32")
  \o Row({U.MOREFX8, U.MOREFX16}, {}, <<"effects", 1>>, "u32")
  \o Row({U.MOREFX16}, {U.MOREFX8}, <<"effects", 1>>, "u16")
  \o Row({U.MOREFX8}, {U.MOREFX16}, <<"effects", 1>>, "u8")
  \o On(U.ALPHA, "alpha", "u8") \o On(U.SCALE, "scale", "u8")
Q2proEntityOut(c) == ExtendedEntityOut(CoordType(c), OldCoordType(c), Extended(c))

\* What is written: coordinates with the previous ones, the sound with its flags
EntityValues(c, d) ==
  With(IF ExtendedV2(c) THEN WithPrevious(d, Vec("origin", 3)) ELSE d.val, "sound_word", SoundWord(c, d))

Q2proWriteEntity(c, entnum, d) ==
  IF Q2proEntityRefused(c, d) THEN Refused
  ELSE LET bits == Q2proEntityBits(c, d)
       IN  Then(EntityBits(bits, entnum),
                WriteRows(Q2proEntityOut(c), bits \cup SoundBits(c, d), EntityValues(c, d)))

ExtendedEntityIn(coord, oldCoord, extended) ==
  LET model16 == IF extended THEN "u16" ELSE "u8" IN
  Wide(U.MODEL, U.MODEL16, "modelindex", 0, "u8", model16)
  \o Wide(U.MODEL2, U.MODEL16, "modelindex2", 0, "u8", model16)
  \o Wide(U.MODEL3, U.MODEL16, "modelindex3", 0, "u8", model16)
  \o Wide(U.MODEL4, U.MODEL16, "modelindex4", 0, "u8", model16)
  \o On(U.FRAME8, "frame", "u8") \o OnElse(U.FRAME16, U.FRAME8, "frame", "u16")
  \o OnWidth(U.SKIN8, U.SKIN16, "skinnum") \o OnWidth(U.EFFECTS8, U.EFFECTS16, "effects")
  \o OnWidth(U.RENDERFX8, U.RENDERFX16, "renderfx")
  \o OnComp(U.ORIGIN1, "origin", 0, coord)
  \o OnComp(U.ORIGIN2, "origin", 1, coord)
  \o OnComp(U.ORIGIN3, "origin", 2, coord)
  \o Wide(U.ANGLE1, U.ANGLE16, "angles", 0, "angle8", "i16")
  \o Wide(U.ANGLE2, U.ANGLE16, "angles", 1, "angle8", "i16")
  \o Wide(U.ANGLE3, U.ANGLE16, "angles", 2, "angle8", "i16")
  \o OnVec(U.OLDORIGIN, "old_origin", 3, oldCoord)
  \o On(U.SOUND, "sound_word", IF extended THEN "u16" ELSE "u8")
Q2proEntityIn(c) == ExtendedEntityIn(CoordType(c), OldCoordType(c), Extended(c))
Q2proEntityEnd ==
  On(VOLUME, "loop_volume", "u8") \o On(ATTENUATION, "loop_attenuation", "u8")
  \o On(U.EVENT, "event", "u8") \o On(U.SOLID, "solid", "u32")
  \o Row({U.MOREFX8, U.MOREFX16}, {}, <<"effects", 1>>, "u32")
  \o Row({U.MOREFX16}, {U.MOREFX8}, <<"effects", 1>>, "u16")
  \o Row({U.MOREFX8}, {U.MOREFX16}, <<"effects", 1>>, "u8")
  \o On(U.ALPHA, "alpha", "u8") \o On(U.SCALE, "scale", "u8")

\* The word of the sound is read in the middle and decides on what follows
ReadAfterSound(r, bits, rows, extended) ==
  LET word == IF Has(r, "sound_word") THEN r.got[F("sound_word")] ELSE 0
      sound == IF Has(r, "sound_word") THEN Decoded(r, "sound", word % 2^14) ELSE r
  IN  ReadRows(sound, rows, bits \cup IF extended THEN WordBits(word) ELSE {})
ReadWithSound(r, bits, upToSound, afterSound, extended) ==
  ReadAfterSound(ReadRows(r, upToSound, bits), bits, afterSound, extended)

Q2proReadEntity(c, wire) ==
  LET h == ReadEntityBits(wire)
  IN  [bits |-> h.bits,
       r |-> ReadWithSound(h.r, h.bits, Q2proEntityIn(c), Q2proEntityEnd, Extended(c))]

Q2proReadBaseline(c, wire) == Q2proReadEntity(c, wire).r
-----------------------------------------------------------------------------
(* Fog: one flag for a colour, and one for density and sky factor together *)
FOG == [COLOR |-> 0, DENSITY |-> 1, HEIGHT_DENSITY |-> 2, HEIGHT_FALLOFF |-> 3,
        HEIGHT_START_COLOR |-> 4, HEIGHT_END_COLOR |-> 5, HEIGHT_START_DIST |-> 6,
        HEIGHT_END_DIST |-> 7]
FogBits(d) ==
  {p[2] : p \in {q \in {<<Vec("fog_color", 3), FOG.COLOR>>,
                        <<{F("fog_density"), F("fog_skyfactor")}, FOG.DENSITY>>,
                        <<{F("heightfog_density")}, FOG.HEIGHT_DENSITY>>,
                        <<{F("heightfog_falloff")}, FOG.HEIGHT_FALLOFF>>,
                        <<Vec("heightfog_start_color", 3), FOG.HEIGHT_START_COLOR>>,
                        <<Vec("heightfog_end_color", 3), FOG.HEIGHT_END_COLOR>>,
                        <<{F("heightfog_start_dist")}, FOG.HEIGHT_START_DIST>>,
                        <<{F("heightfog_end_dist")}, FOG.HEIGHT_END_DIST>>} :
                   Changed(d, q[1])}}
\* density and sky factor are the halves of one 32 bit item, taken as two of 16
FogOut ==
  OnVec(FOG.COLOR, "fog_color", 3, "u8") \o On(FOG.DENSITY, "fog_density", "u16")
  \o On(FOG.DENSITY, "fog_skyfactor", "u16") \o On(FOG.HEIGHT_DENSITY, "heightfog_density", "u16")
  \o On(FOG.HEIGHT_FALLOFF, "heightfog_falloff", "u16")
  \o OnVec(FOG.HEIGHT_START_COLOR, "heightfog_start_color", 3, "u8")
  \o OnVec(FOG.HEIGHT_END_COLOR, "heightfog_end_color", 3, "u8")
  \o On(FOG.HEIGHT_START_DIST, "heightfog_start_dist", "i23abs")
  \o On(FOG.HEIGHT_END_DIST, "heightfog_end_dist", "i23abs")
WriteFog(d) == Then(Byte(FogBits(d)), WriteRows(FogOut, FogBits(d), d.val))
FogIn ==
  OnVec(FOG.COLOR, "fog_color", 3, "u8") \o On(FOG.DENSITY, "fog_density", "u16")
  \o On(FOG.DENSITY, "fog_skyfactor", "u16") \o On(FOG.HEIGHT_DENSITY, "heightfog_density", "u16")
  \o On(FOG.HEIGHT_FALLOFF, "heightfog_falloff", "u16")
  \o OnVec(FOG.HEIGHT_START_COLOR, "heightfog_start_color", 3, "u8")
  \o OnVec(FOG.HEIGHT_END_COLOR, "heightfog_end_color", 3, "u8")
  \o On(FOG.HEIGHT_START_DIST, "heightfog_start_dist", "i23abs")
  \o On(FOG.HEIGHT_END_DIST, "heightfog_end_dist", "i23abs")
ReadFog(r) ==
  LET b == Get(r, "fog_bits", "u8") IN ReadRows(b, FogIn, Flags(b, "fog_bits"))
-----------------------------------------------------------------------------
(* Blends of the second extended API: one byte says which of the 8         *)
(* components follow, so that unchanged ones are not sent.                 *)
BlendComps == [k \in 1 .. 8 |-> <<IF k <= 4 THEN "blend" ELSE "damage_blend", (k - 1) % 4>>]
BlendRows == [k \in 1 .. 8 |-> Row({k - 1}, {}, BlendComps[k], "u8")[1]]
WriteBlends(d) ==
  LET bits == {k - 1 : k \in {j \in 1 .. 8 : BlendComps[j] \in d.set}}
  IN  Then(Byte(bits), WriteRows(BlendRows, bits, d.val))
ReadBlends(r) ==
  LET b == Get(r, "blend_bits", "u8") IN ReadRows(b, BlendRows, Flags(b, "blend_bits"))

\* Stats: up to 64 with a bit set of variable length, or up to 32
WriteStats64(d) ==
  Then(Written(<<[w |-> 990, v |-> StatsIn(d, 64)]>>),
       WriteRows(StatRows(StatsIn(d, 64)), {}, d.val))
ReadStats64(r) ==
  LET bits == GetWide(r, "statbits", 990)
  IN  IF bits.ok THEN ReadRows(bits, StatRows(bits.got[F("statbits")]), {}) ELSE bits
-----------------------------------------------------------------------------
(* Players *)
Q2proPlayerBits(d) ==
  R1q2PlayerBits(d)
  \cup FlagIf(Changed(d, Vec("damage_blend", 4)), PS.BLEND)
  \cup FlagIf(Changed(d, {F("gunskin")}), PS.WEAPONINDEX)
  \cup FlagIf(Changed(d, FogFields), PS.Q2PRO_PLAYERFOG)
  \cup FlagIf(Changed(d, FogFields), PS.MOREBITS)

\* mutant: the flags of R1Q2
Q2proPlayerExtraOfR1q2(d) ==
  R1q2PlayerExtra(d) \cup FlagIf(F("clientnum") \in d.set, EPS.CLIENTNUM)
Q2proPlayerExtra(d) ==
  (R1q2PlayerExtra(d) \ {EPS.M_VELOCITY2})
  \cup FlagIf(Changed(d, {<<"pm_velocity", 2>>}), EPS.M_VELOCITY2)
  \cup FlagIf(F("clientnum") \in d.set, EPS.CLIENTNUM)

Q2proPlayerRefused(c, d) ==
  \/ Changed(d, {F("pm_viewheight"), F("gunrate")})
  \/ ~ExtendedV2(c) /\ \E f \in {F("pm_time"), F("pm_flags")} \cap d.set : d.val[f] > 255
  \/ ~ExtendedV2(c) /\ (Changed(d, Vec("damage_blend", 4)) \/ StatsIn(d, 64) # StatsIn(d, 32))
  \/ ~Extended(c) /\ F("gunskin") \in d.set
  \/ F("gunframe") \in d.set /\ d.val[F("gunframe")] > 255
  \/ Changed(d, FogFields) /\ c.version < PLAYERFOG

PmType(c) == IF ExtendedV2(c) THEN "u16" ELSE "u8"
ExtendedMotionRows(coord, pmType) ==
  On(PS.M_TYPE, "pm_type", "u8") \o OnVec(PS.M_ORIGIN, "pm_origin", 2, coord)
  \o OnComp(X("M_ORIGIN2"), "pm_origin", 2, coord)
  \o OnVec(PS.M_VELOCITY, "pm_velocity", 2, coord)
  \o OnComp(X("M_VELOCITY2"), "pm_velocity", 2, coord)
  \o On(PS.M_TIME, "pm_time", pmType) \o On(PS.M_FLAGS, "pm_flags", pmType)
  \o On(PS.M_GRAVITY, "pm_gravity", "i16")
Q2proMotionRows(c) == ExtendedMotionRows(CoordType(c), PmType(c))
Q2proViewRows(c) ==
  OnVec(PS.M_DELTA_ANGLES, "pm_delta_angles", 3, "i16")
  \o OnVec(PS.VIEWOFFSET, "viewoffset", 3, "i8")
  \o OnVec(PS.VIEWANGLES, "viewangles", 2, "i16")
  \o OnComp(X("VIEWANGLE2"), "viewangles", 2, "i16")
  \o OnVec(PS.KICKANGLES, "kick_angles", 3, "i8")
  \o On(PS.WEAPONINDEX, "gun_index_and_skin", IF Extended(c) THEN "u16" ELSE "u8")
  \o On(PS.WEAPONFRAME, "gunframe", "u8") \o OnVec(X("GUNOFFSET"), "gunoffset", 3, "i8")
  \o OnVec(X("GUNANGLES"), "gunangles", 3, "i8")
FovRows == On(PS.FOV, "fov", "u8") \o On(PS.RDFLAGS, "rdflags", "u8")

PlayerValues(c, d) ==
  With(IF ExtendedV2(c) THEN WithPrevious(d, Vec("pm_origin", 3) \cup Vec("pm_velocity", 3)) ELSE d.val,
       "gun_index_and_skin", d.val[F("gunindex")] + 2^13 * d.val[F("gunskin")])

If(cond, part) == IF cond THEN part ELSE Written(<<>>)

\* mutant: the old width, whatever the version
Q2proWriteClientnumByte(c, d) == WriteRows(Always("clientnum", "u8max"), {}, d.val)
Q2proWriteClientnum(c, d) ==
  WriteRows(Always("clientnum", IF c.version >= CLIENTNUM_SHORT THEN "i16" ELSE "u8max"), {}, d.val)

Q2proWritePlayer(c, d) ==
  IF Q2proPlayerRefused(c, d) THEN Refused
  ELSE LET bits == Q2proPlayerBits(d)
           extra == Q2proPlayerExtra(d)
           Rows(rows) == WriteRows(rows, All(bits \cap 0 .. 15, extra), PlayerValues(c, d))
       IN  InTurn(<<Put("u16", SumSet({2^b : b \in bits \cap 0 .. 15})),
                    If(PS.MOREBITS \in bits, Byte({b - 16 : b \in bits \ (0 .. 15)})),
                    Rows(Q2proMotionRows(c)), Rows(Q2proViewRows(c)),
                    If(PS.BLEND \in bits,
                       IF ExtendedV2(c) THEN WriteBlends(d)
                       ELSE WriteRows(AlwaysVec("blend", 4, "u8"), {}, d.val)),
                    If(PS.Q2PRO_PLAYERFOG \in bits, WriteFog(d)),
                    Rows(FovRows),
                    If(EPS.STATS \in extra,
                       IF ExtendedV2(c) THEN WriteStats64(d) ELSE WriteStats32(d)),
                    If(EPS.CLIENTNUM \in extra, Q2proWriteClientnum(c, d))>>)

ExtendedReadMotion(coord, pmType) ==
  On(PS.M_TYPE, "pm_type", "u8") \o OnVec(PS.M_ORIGIN, "pm_origin", 2, coord)
  \o OnComp(X("M_ORIGIN2"), "pm_origin", 2, coord)
  \o OnVec(PS.M_VELOCITY, "pm_velocity", 2, coord)
  \o OnComp(X("M_VELOCITY2"), "pm_velocity", 2, coord)
  \o On(PS.M_TIME, "pm_time", pmType) \o On(PS.M_FLAGS, "pm_flags", pmType)
  \o On(PS.M_GRAVITY, "pm_gravity", "i16")
Q2proReadMotion(c) == ExtendedReadMotion(CoordType(c), PmType(c))
Q2proReadView(c) ==
  OnVec(PS.M_DELTA_ANGLES, "pm_delta_angles", 3, "i16")
  \o OnVec(PS.VIEWOFFSET, "viewoffset", 3, "i8")
  \o OnVec(PS.VIEWANGLES, "viewangles", 2, "i16")
  \o OnComp(X("VIEWANGLE2"), "viewangles", 2, "i16")
  \o OnVec(PS.KICKANGLES, "kick_angles", 3, "i8")
  \o On(PS.WEAPONINDEX, "gun_index_and_skin", IF Extended(c) THEN "u16" ELSE "u8")
  \o On(PS.WEAPONFRAME, "gunframe", "u8") \o OnVec(X("GUNOFFSET"), "gunoffset", 3, "i8")
  \o OnVec(X("GUNANGLES"), "gunangles", 3, "i8")

\* index and skin share a word
SplitGun(c, r) ==
  IF ~Has(r, "gun_index_and_skin") THEN r
  ELSE LET word == r.got[F("gun_index_and_skin")]
           g == Decoded(r, "gunindex", word % 2^13)
       IN  IF Extended(c) THEN Decoded(g, "gunskin", word \div 2^13) ELSE g

\* The flags of a player, with those that may follow in a word of their own
HasMorebits(c) == c.version >= PLAYERFOG
ReadMoreFlags(r, more, type) ==
  IF more /\ PS.MOREBITS \in Flags(r, "flags") THEN Get(r, "more_flags", type) ELSE r
PlayerFlags(r) ==
  Flags(r, "flags")
  \cup IF Has(r, "more_flags") THEN {16 + b : b \in Flags(r, "more_flags")} ELSE {}

ReadPlayerBlend(c, r, bits) ==
  IF PS.BLEND \notin bits THEN r
  ELSE IF ExtendedV2(c) THEN ReadBlends(r)
  ELSE ReadRows(r, AlwaysVec("blend", 4, "u8"), {})
ReadPlayerFog(r, bits) == IF PS.Q2PRO_PLAYERFOG \in bits THEN ReadFog(r) ELSE r
ReadStats(c, r) == IF ExtendedV2(c) THEN ReadStats64(r) ELSE ReadStats32(r)
ReadClientnum(c, r, extra) ==
  IF EPS.CLIENTNUM \notin extra THEN r
  ELSE Get(r, "clientnum", IF c.version >= CLIENTNUM_SHORT THEN "i16" ELSE "u8")

Q2proReadFields(c, r, bits, extra) ==
  LET Rows(s, rows) == ReadRows(s, rows, All(bits \cap 0 .. 15, extra))
      view == SplitGun(c, Rows(Rows(r, Q2proReadMotion(c)), Q2proReadView(c)))
      fov == Rows(ReadPlayerFog(ReadPlayerBlend(c, view, bits), bits), FovRows)
  IN  ReadClientnum(c, IF EPS.STATS \in extra THEN ReadStats(c, fov) ELSE fov, extra)
Q2proReadPlayer(c, r, extra) ==
  LET flags == ReadMoreFlags(Get(r, "flags", "u16"), HasMorebits(c), "u8")
  IN  Q2proReadFields(c, flags, PlayerFlags(flags), extra)
-----------------------------------------------------------------------------
(* Frames: the lower half of R1Q2's suppress_count has flags of the frame  *)
Q2proWriteFrame(c, fr, d) ==
  LET extra == Q2proPlayerExtra(d)
  IN  InTurn(<<FrameCommand(extra), EncodedFrame(fr),
               FlaggedSuppressCount([fr EXCEPT ![F("suppress_count")] = @ % 16], extra),
               AreaBits(fr), Q2proWritePlayer(c, d)>>)

Q2proReadFrame(c, command, wire) ==
  LET head == ReadFlaggedCount(ReadEncodedFrame(Reader(wire)))
  IN  Q2proReadPlayer(c, ReadAreaBits(head), ExtraOf(command, head))
=============================================================================
