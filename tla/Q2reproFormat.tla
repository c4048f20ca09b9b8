--------------------------- MODULE Q2reproFormat ---------------------------
(***************************************************************************)
(* The Q2rePRO protocol (1038): Q2PRO's messages with coordinates as       *)
(* floats, wider view and gun fields, and all extra flags of the player in *)
(* one byte of the frame.  Its fields do not depend on a game API.         *)
(***************************************************************************)
EXTENDS Q2proMoves

Rerelease == [proto |-> "q2repro", version |-> 1026, api |-> "rerelease"]
-----------------------------------------------------------------------------
(* Deltas of its own: the fog is not part of the player state *)
Q2reproEntityDelta(from, to, writeOldOrigin) == EntityDelta(from, to, writeOldOrigin, TRUE)
Q2reproPlayerDelta(from, to) == PlayerDeltaOf(Valued, PlayerFields \ FogFields, from, to)
-----------------------------------------------------------------------------
(* Entities: an origin that stays within its eighth of a unit is not sent  *)
OriginFlags(d) ==
  LET sent == {i \in 0 .. 2 : Eighths(d.prev[<<"origin", i>>]) # Eighths(d.val[<<"origin", i>>])}
  IN  {<<U.ORIGIN1, U.ORIGIN2, U.ORIGIN3>>[i + 1] : i \in sent}

Q2reproEntityBits(d) ==
  (Q2proEntityBits(Rerelease, d) \ {U.ORIGIN1, U.ORIGIN2, U.ORIGIN3}) \cup OriginFlags(d)

Q2reproWriteEntity(entnum, d) ==
  LET bits == Q2reproEntityBits(d)
  IN  Then(EntityBits(bits, entnum),
           WriteRows(ExtendedEntityOut("float", "float", TRUE),
                     bits \cup SoundBits(Rerelease, d), EntityValues(Rerelease, d)))

Q2reproReadEntity(wire) ==
  LET h == ReadEntityBits(wire)
  IN  [bits |-> h.bits,
       r |-> ReadWithSound(h.r, h.bits, ExtendedEntityIn("float", "float", TRUE),
                           Q2proEntityEnd, TRUE)]

Q2reproReadBaseline(wire) == Q2reproReadEntity(wire).r
-----------------------------------------------------------------------------
(* Players *)
\* gunskin has no flag of its own, and that of gunindex does not stand for it
Q2reproPlayerBits(d) ==
  R1q2PlayerBits(d)
  \cup FlagIf(Changed(d, Vec("damage_blend", 4)), PS.BLEND)
  \cup FlagIf(F("pm_viewheight") \in d.set, PS.RR_VIEWHEIGHT)
Q2reproPlayerExtra(d) ==
  Q2proPlayerExtra(d) \cup FlagIf(F("gunrate") \in d.set, EPS.GUNRATE)

Q2reproViewRows ==
  OnVec(PS.M_DELTA_ANGLES, "pm_delta_angles", 3, "i16")
  \o OnVec(PS.VIEWOFFSET, "viewoffset", 3, "i16")
  \o OnVec(PS.VIEWANGLES, "viewangles", 2, "i16")
  \o OnComp(X("VIEWANGLE2"), "viewangles", 2, "i16")
  \o OnVec(PS.KICKANGLES, "kick_angles", 3, "i16")
  \o On(PS.WEAPONINDEX, "gun_index_and_skin", "u16") \o On(PS.WEAPONFRAME, "gunframe", "u16")
  \o OnVec(X("GUNOFFSET"), "gunoffset", 3, "i16") \o OnVec(X("GUNANGLES"), "gunangles", 3, "i16")
Q2reproEndRows ==
  On(X("GUNRATE"), "gunrate", "u8") \o On(PS.RR_VIEWHEIGHT, "pm_viewheight", "i8")
  \o On(X("CLIENTNUM"), "clientnum", "i16")

\* all of the 64 bits of the set of stats are written
AllStats(d) ==
  Then(Written(<<[w |-> 8, v |-> StatsIn(d, 64)]>>),
       WriteRows(StatRows(StatsIn(d, 64)), {}, d.val))
ReadAllStats(r) ==
  LET bits == GetWide(r, "statbits", 8)
  IN  IF bits.ok THEN ReadRows(bits, StatRows(bits.got[F("statbits")]), {}) ELSE bits

Q2reproWritePlayer(d) ==
  IF Changed(d, FogFields) THEN Refused
  ELSE LET bits == Q2reproPlayerBits(d)
           extra == Q2reproPlayerExtra(d)
           values == With(d.val, "gun_index_and_skin", d.val[F("gunindex")] + 2^13 * d.val[F("gunskin")])
           Rows(rows) == WriteRows(rows, All(bits, extra), values)
       IN  InTurn(<<Put("u16", SumSet({2^b : b \in bits})),
                    Rows(ExtendedMotionRows("float", "u16")), Rows(Q2reproViewRows),
                    If(PS.BLEND \in bits, WriteBlends(d)), Rows(FovRows),
                    If(EPS.STATS \in extra, AllStats(d)), Rows(Q2reproEndRows)>>)

Q2reproReadView ==
  OnVec(PS.M_DELTA_ANGLES, "pm_delta_angles", 3, "i16")
  \o OnVec(PS.VIEWOFFSET, "viewoffset", 3, "i16")
  \o OnVec(PS.VIEWANGLES, "viewangles", 2, "i16")
  \o OnComp(X("VIEWANGLE2"), "viewangles", 2, "i16")
  \o OnVec(PS.KICKANGLES, "kick_angles", 3, "i16")
  \o On(PS.WEAPONINDEX, "gun_index_and_skin", "u16") \o On(PS.WEAPONFRAME, "gunframe", "u16")
  \o OnVec(X("GUNOFFSET"), "gunoffset", 3, "i16") \o OnVec(X("GUNANGLES"), "gunangles", 3, "i16")

Q2reproReadFields(r, bits, extra) ==
  LET Rows(s, rows) == ReadRows(s, rows, All(bits, extra))
      view == SplitGun(Rerelease, Rows(Rows(r, ExtendedReadMotion("float", "u16")), Q2reproReadView))
      fov == Rows(IF PS.BLEND \in bits THEN ReadBlends(view) ELSE view, FovRows)
  IN  Rows(IF EPS.STATS \in extra THEN ReadAllStats(fov) ELSE fov, Q2reproEndRows)
Q2reproReadPlayer(r, extra) ==
  LET flags == Get(r, "flags", "u16") IN Q2reproReadFields(flags, Flags(flags, "flags"), extra)
-----------------------------------------------------------------------------
(* Frames: the flags of the frame are kept in suppress_count here *)
Q2reproWriteFrame(fr, d) ==
  InTurn(<<Put("u8", svc_frame), EncodedFrame(fr), Put("u8", fr[F("suppress_count")]),
           Byte(Q2reproPlayerExtra(d)), AreaBits(fr), Q2reproWritePlayer(d)>>)

Q2reproReadFrame(wire) ==
  LET flags == ReadFlaggedCount(ReadEncodedFrame(Reader(wire)))
      head == Get(flags, "extraflags", "u8")
  IN  Q2reproReadPlayer(ReadAreaBits(head), Flags(head, "extraflags"))
-----------------------------------------------------------------------------
(* Moves: there is no upward one *)
MovesUp(d) == <<"move", 2>> \in d.set

Q2reproWriteMoveDelta(d) ==
  IF MovesUp(d) THEN Refused
  ELSE Then(Byte(MoveFlags(d)), WriteRows(VanillaMoveOut, MoveFlags(d), d.val))
Q2reproWriteMove(lastframe, moves) ==
  InTurn(<<Put("u8", clc_move), Put("i32", lastframe)>>
         \o [i \in 1 .. 3 |-> Q2reproWriteMoveDelta(moves[i])])

Q2reproReadMoveDelta(r) ==
  LET bits == Get([r EXCEPT !.got = [f \in {} |-> 0]], "bits", "u8")
      flags == Flags(bits, "bits")
  IN  IF CM.UP \in flags THEN OutOfStep(bits) ELSE ReadRows(bits, VanillaMoveIn, flags)
Q2reproReadMove(wire) ==
  LET m[i \in 0 .. 3] ==
        IF i = 0 THEN Get(Reader(wire), "lastframe", "i32") ELSE Q2reproReadMoveDelta(m[i - 1])
  IN  ReadMoves(m)

\* Batches: the number of repeated frames has a byte of its own
Q2reproWriteBatch(lastframe, frames) ==
  IF \E i \in DOMAIN frames : \E j \in DOMAIN frames[i] : MovesUp(frames[i][j]) THEN Refused
  ELSE InTurn(<<Put("u8", BatchCommand(lastframe)), BatchLast(lastframe),
                Put("u8", Len(frames) - 1), BatchBody(TRUE, frames)>>)
Q2reproReadBatch(wire) ==
  LET dups == Get(BatchHead(wire[1].v, Tail(wire)), "num_dups", "u8")
  IN  ReadBatchFrames(TRUE, dups, IF dups.ok THEN dups.got[F("num_dups")] ELSE 0)
=============================================================================
