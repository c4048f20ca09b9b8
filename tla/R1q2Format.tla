----------------------------- MODULE R1q2Format -----------------------------
(***************************************************************************)
(* The R1Q2 protocol (35): as the original one, but flags of its own in    *)
(* unused bits of a frame's command and of suppress_count say which        *)
(* components of the player follow, and moves may be compressed.           *)
(***************************************************************************)
EXTENDS VanillaFormat

R1Q2_UCMD == 1904
R1Q2_LONG_SOLID == 1905

SolidType(version) == IF version >= R1Q2_LONG_SOLID THEN "u32" ELSE "u16"

R1q2WriteEntity(version, entnum, d) ==
  IF VanillaEntityRefused(d) THEN Refused
  ELSE LET bits == VanillaEntityBits(d)
           out == EntityOut \o On(U.SOLID, "solid", SolidType(version))
       IN  Then(EntityBits(bits, entnum), WriteRows(out, bits, d.val))

R1q2ReadEntity(version, wire) ==
  LET h == ReadEntityBits(wire)
      in == EntityIn \o On(U.SOLID, "solid", SolidType(version))
  IN  [bits |-> h.bits, r |-> ReadRows(h.r, in, h.bits)]

R1q2ReadBaseline(version, wire) ==
  LET e == R1q2ReadEntity(version, wire)
  IN  IF U.MOREBITS4 \in e.bits THEN OutOfStep(e.r) ELSE e.r
-----------------------------------------------------------------------------
(* Players: flags and extra flags.  Component 2 of a vector has its own.   *)
R1q2PlayerRefused(d) ==
  \/ Changed(d, {F("pm_viewheight"), F("gunskin"), F("gunrate"), F("clientnum")})
  \/ Changed(d, Vec("damage_blend", 4) \cup FogFields)
  \/ \E f \in {F("pm_time"), F("pm_flags"), F("gunframe")} \cap d.set : d.val[f] > 255
  \/ StatsIn(d, 64) # StatsIn(d, 32)

R1q2PlayerBits(d) ==
  CommonFlags(d)
  \cup FlagIf(Changed(d, Vec("pm_origin", 2)), PS.M_ORIGIN)
  \cup FlagIf(Changed(d, Vec("pm_velocity", 2)), PS.M_VELOCITY)
  \cup FlagIf(Changed(d, Vec("viewangles", 2)), PS.VIEWANGLES)
  \cup FlagIf(Changed(d, Vec("blend", 4)), PS.BLEND)
  \cup FlagIf(Changed(d, {F("gunindex")}), PS.WEAPONINDEX)
  \cup FlagIf(Changed(d, {F("gunframe")}), PS.WEAPONFRAME)

\* EPS_M_VELOCITY2 depends on the origin, not on the velocity, in the code
R1q2PlayerExtra(d) ==
  FlagIf(Changed(d, {<<"pm_origin", 2>>}), EPS.M_ORIGIN2)
  \cup FlagIf(Changed(d, {<<"pm_origin", 2>>}), EPS.M_VELOCITY2)
  \cup FlagIf(Changed(d, {<<"viewangles", 2>>}), EPS.VIEWANGLE2)
  \cup FlagIf(Changed(d, Vec("gunoffset", 3)), EPS.GUNOFFSET)
  \cup FlagIf(Changed(d, Vec("gunangles", 3)), EPS.GUNANGLES)
  \cup FlagIf(StatsIn(d, 64) # {}, EPS.STATS)

\* the extra flags follow the 16 flags in the numbering of the rows' bits
X(e) == 16 + EPS[e]
All(bits, extra) == bits \cup {16 + e : e \in extra}

R1q2PlayerOut ==
  On(PS.M_TYPE, "pm_type", "u8") \o OnVec(PS.M_ORIGIN, "pm_origin", 2, "u16")
  \o OnComp(X("M_ORIGIN2"), "pm_origin", 2, "u16")
  \o OnVec(PS.M_VELOCITY, "pm_velocity", 2, "u16")
  \o OnComp(X("M_VELOCITY2"), "pm_velocity", 2, "u16")
  \o On(PS.M_TIME, "pm_time", "u8") \o On(PS.M_FLAGS, "pm_flags", "u8")
  \o On(PS.M_GRAVITY, "pm_gravity", "i16")
  \o OnVec(PS.M_DELTA_ANGLES, "pm_delta_angles", 3, "i16")
  \o OnVec(PS.VIEWOFFSET, "viewoffset", 3, "i8")
  \o OnVec(PS.VIEWANGLES, "viewangles", 2, "i16")
  \o OnComp(X("VIEWANGLE2"), "viewangles", 2, "i16")
  \o OnVec(PS.KICKANGLES, "kick_angles", 3, "i8") \o On(PS.WEAPONINDEX, "gunindex", "u8max")
  \o On(PS.WEAPONFRAME, "gunframe", "u8") \o OnVec(X("GUNOFFSET"), "gunoffset", 3, "i8")
  \o OnVec(X("GUNANGLES"), "gunangles", 3, "i8") \o OnVec(PS.BLEND, "blend", 4, "u8")
  \o On(PS.FOV, "fov", "u8") \o On(PS.RDFLAGS, "rdflags", "u8")

R1q2WritePlayer(d) ==
  IF R1q2PlayerRefused(d) THEN Refused
  ELSE LET bits == R1q2PlayerBits(d) extra == R1q2PlayerExtra(d)
       IN  InTurn(<<Put("u16", SumSet({2^b : b \in bits})),
                    WriteRows(R1q2PlayerOut, All(bits, extra), d.val),
                    IF EPS.STATS \in extra THEN WriteStats32(d) ELSE Written(<<>>)>>)

R1q2PlayerIn ==
  On(PS.M_TYPE, "pm_type", "u8") \o OnVec(PS.M_ORIGIN, "pm_origin", 2, "i16")
  \o OnComp(X("M_ORIGIN2"), "pm_origin", 2, "i16")
  \o OnVec(PS.M_VELOCITY, "pm_velocity", 2, "i16")
  \o OnComp(X("M_VELOCITY2"), "pm_velocity", 2, "i16")
  \o On(PS.M_TIME, "pm_time", "u8") \o On(PS.M_FLAGS, "pm_flags", "u8")
  \o On(PS.M_GRAVITY, "pm_gravity", "i16")
  \o OnVec(PS.M_DELTA_ANGLES, "pm_delta_angles", 3, "i16")
  \o OnVec(PS.VIEWOFFSET, "viewoffset", 3, "i8")
  \o OnVec(PS.VIEWANGLES, "viewangles", 2, "i16")
  \o OnComp(X("VIEWANGLE2"), "viewangles", 2, "i16")
  \o OnVec(PS.KICKANGLES, "kick_angles", 3, "i8") \o On(PS.WEAPONINDEX, "gunindex", "u8")
  \o On(PS.WEAPONFRAME, "gunframe", "u8") \o OnVec(X("GUNOFFSET"), "gunoffset", 3, "i8")
  \o OnVec(X("GUNANGLES"), "gunangles", 3, "i8") \o OnVec(PS.BLEND, "blend", 4, "u8")
  \o On(PS.FOV, "fov", "u8") \o On(PS.RDFLAGS, "rdflags", "u8")

R1q2ReadPlayer(r, extra) ==
  LET flags == Get(r, "flags", "u16")
      rows == ReadRows(flags, R1q2PlayerIn, All(Flags(flags, "flags"), extra))
  IN  IF EPS.STATS \in extra THEN ReadStats32(rows) ELSE rows
-----------------------------------------------------------------------------
(* Frames: 27 bits of serverframe, 5 bits of how far back deltaframe is    *)
(* (31: no delta); the extra flags take the upper bits of the command byte *)
(* and of suppress_count.                                                  *)
OffsetOf(fr) ==
  IF fr[F("deltaframe")] = -1 THEN 31 ELSE fr[F("serverframe")] - fr[F("deltaframe")]
EncodedFrame(fr) ==
  Written(<<[w |-> 4, v |-> <<OffsetOf(fr) % 32, fr[F("serverframe")] % 2^27>>]>>)

FrameCommand(extra) == Put("u8", svc_frame + SumSet({2^(e + 1) : e \in extra \cap 4 .. 6}))
FlaggedSuppressCount(fr, extra) ==
  LET low == BitsOf(fr[F("suppress_count")])
  IN  Put("u8", SumSet({2^b : b \in low \cup {e + 4 : e \in extra \cap 0 .. 3}}))
AreaBits(fr) ==
  Then(Put("u8", fr[F("areabits_len")]), Written(<<RawItem(fr[F("areabits_len")])>>))

R1q2WriteFrame(fr, d) ==
  LET extra == R1q2PlayerExtra(d)
  IN  InTurn(<<FrameCommand(extra), EncodedFrame(fr), FlaggedSuppressCount(fr, extra),
               AreaBits(fr), R1q2WritePlayer(d)>>)

\* serverframe, deltaframe and suppress_count as the client gets them
\* mutant: no offset stands for no delta
ReadEncodedFrameAlways(r) ==
  LET e == GetWide(r, "encoded", 4)
      frame == e.got[F("encoded")][2]
  IN  IF ~e.ok THEN e
      ELSE Decoded(Decoded(e, "serverframe", frame), "deltaframe",
                   frame - e.got[F("encoded")][1])
ReadEncodedFrame(r) ==
  LET e == GetWide(r, "encoded", 4)
      offset == e.got[F("encoded")][1]
      frame == e.got[F("encoded")][2]
  IN  IF ~e.ok THEN e
      ELSE Decoded(Decoded(e, "serverframe", frame), "deltaframe",
                   IF offset = 31 THEN -1 ELSE frame - offset)
ReadFlaggedCount(r) ==
  LET c == Get(r, "count", "u8") IN
  IF c.ok THEN Decoded(c, "suppress_count", c.got[F("count")] % 16) ELSE c
ExtraOf(command, r) ==
  IF r.ok THEN {b - 1 : b \in BitsOf(command) \cap 5 .. 7}
                 \cup {b - 4 : b \in BitsOf(r.got[F("count")]) \cap 4 .. 7}
  ELSE {}
ReadAreaBits(r) == GetRaw(Get(r, "areabits_len", "u8"), "areabits", "areabits_len")

R1q2ReadFrame(command, wire) ==
  LET head == ReadFlaggedCount(ReadEncodedFrame(Reader(wire)))
  IN  R1q2ReadPlayer(ReadAreaBits(head), ExtraOf(command, head))
-----------------------------------------------------------------------------
(* Moves: with buttons, values that divide evenly may be sent in one byte. *)
\* The buttons of games leave the bits between them to the format, and a component
\* that is a multiple of five is one that, divided by five, fits a byte.
GameButtonValues == {0, 1, 2, 3, 128, 129, 130, 131}
FivesFit(d) ==
  \A f \in Vec("move", 3) : d.val[f] % 5 = 0 => -640 <= d.val[f] /\ d.val[f] < 640

DBL == [FORWARD |-> 2, SIDE |-> 3, UP |-> 4, ANGLE1 |-> 5, ANGLE2 |-> 6]

\* mutant: without the range of a byte
CompressedUnbounded(d, flags) ==
  {b \in Range(DBL) :
     \/ b \in {DBL.FORWARD, DBL.SIDE, DBL.UP} /\ b + 1 \in flags
          /\ d.val[<<"move", b - DBL.FORWARD>>] % 5 = 0
     \/ b = DBL.ANGLE1 /\ CM.ANGLE1 \in flags /\ d.val[<<"angles", 0>>] % 64 = 0
     \/ b = DBL.ANGLE2 /\ CM.ANGLE2 \in flags /\ d.val[<<"angles", 1>>] % 256 = 0}
\* the bits of the buttons that say so; the rows number them from 8 on
Compressed(d, flags) ==
  LET v(f) == d.val[f] IN
  FlagIf(CM.FORWARD \in flags /\ v(<<"move", 0>>) % 5 = 0, DBL.FORWARD)
  \cup FlagIf(CM.SIDE \in flags /\ v(<<"move", 1>>) % 5 = 0, DBL.SIDE)
  \cup FlagIf(CM.UP \in flags /\ v(<<"move", 2>>) % 5 = 0, DBL.UP)
  \cup FlagIf(CM.ANGLE1 \in flags /\ v(<<"angles", 0>>) % 64 = 0
                /\ Quot(v(<<"angles", 0>>), 64) \in -127 .. 127, DBL.ANGLE1)
  \cup FlagIf(CM.ANGLE2 \in flags /\ v(<<"angles", 1>>) % 256 = 0, DBL.ANGLE2)

D(e) == 8 + DBL[e]
Either(bit, dbl, name, i, small) == Wide(bit, dbl, name, i, "i16", small)

R1q2MoveRows ==
  Either(CM.ANGLE1, D("ANGLE1"), "angles", 0, "by64")
  \o Either(CM.ANGLE2, D("ANGLE2"), "angles", 1, "by256")
  \o OnComp(CM.ANGLE3, "angles", 2, "i16")
  \o Either(CM.FORWARD, D("FORWARD"), "move", 0, "by5")
  \o Either(CM.SIDE, D("SIDE"), "move", 1, "by5") \o Either(CM.UP, D("UP"), "move", 2, "by5")
R1q2MoveEnd ==
  On(CM.IMPULSE, "impulse", "u8") \o Always("msec", "u8") \o Always("lightlevel", "u8")

R1q2WriteMoveDelta(version, d) ==
  LET flags == MoveFlags(d)
      compressed == version >= R1Q2_UCMD /\ CM.BUTTONS \in flags
      buttons == (IF CM.BUTTONS \in flags THEN BitsOf(d.val[F("buttons")]) ELSE {})
                 \cup IF compressed THEN Compressed(d, flags) ELSE {}
      bits == flags \cup {8 + b : b \in buttons}
  IN  InTurn(<<Byte(flags),
               IF compressed THEN Byte(buttons) ELSE Written(<<>>),
               WriteRows(R1q2MoveRows, bits, d.val),
               IF compressed THEN Written(<<>>)
               ELSE WriteRows(On(CM.BUTTONS, "buttons", "u8"), flags, d.val),
               WriteRows(R1q2MoveEnd, flags, d.val)>>)

R1q2WriteMove(version, lastframe, moves) ==
  InTurn(<<Put("u8", clc_move), Put("i32", lastframe)>>
         \o [i \in 1 .. 3 |-> R1q2WriteMoveDelta(version, moves[i])])

\* the buttons come first in the version that has the bits of compression in them
ReadButtons(r, flags) == ReadRows(r, On(CM.BUTTONS, "buttons", "u8"), flags)
ReadCompressed(r, flags) ==
  LET dbl == IF Has(r, "buttons") THEN {8 + x : x \in BitsOf(r.got[F("buttons")])} ELSE {}
  IN  ReadRows(r, R1q2MoveRows, flags \cup dbl)
GameButtons(r) ==
  IF Has(r, "buttons")
  THEN Decoded(r, "buttons", SumSet({2^x : x \in BitsOf(r.got[F("buttons")]) \ (2 .. 6)}))
  ELSE r
R1q2ReadMoveFields(version, r, flags) ==
  LET fields == IF version >= R1Q2_UCMD THEN ReadCompressed(ReadButtons(r, flags), flags)
                ELSE ReadButtons(ReadCompressed(r, flags), flags)
  IN  GameButtons(ReadRows(fields, R1q2MoveEnd, flags))
R1q2ReadMoveDelta(version, r) ==
  LET b == Get([r EXCEPT !.got = [f \in {} |-> 0]], "bits", "u8")
  IN  R1q2ReadMoveFields(version, b, Flags(b, "bits"))

R1q2ReadMove(version, wire) ==
  LET m[i \in 0 .. 3] ==
        IF i = 0 THEN Get(Reader(wire), "lastframe", "i32") ELSE R1q2ReadMoveDelta(version, m[i - 1])
  IN  ReadMoves(m)
=============================================================================
