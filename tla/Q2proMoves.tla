----------------------------- MODULE Q2proMoves -----------------------------
(***************************************************************************)
(* Moves of the Q2PRO client: one by one, or in a batch that repeats the   *)
(* frames before it, packed bit by bit.  Each move of a batch is written   *)
(* against the last values sent, and read against the previous move.       *)
(***************************************************************************)
EXTENDS Q2proFormat

clc_q2pro_move_nodelta == 10
clc_q2pro_move_batched == 11
MAX_CLC_BATCH_MOVE_FRAMES == 4

Q2proWriteMoveDelta(d) ==
  Then(Byte(MoveFlags(d)), WriteRows(VanillaMoveOut, MoveFlags(d), d.val))
Q2proWriteMove(lastframe, moves) ==
  InTurn(<<Put("u8", clc_move), Put("i32", lastframe)>>
         \o [i \in 1 .. 3 |-> Q2proWriteMoveDelta(moves[i])])

Q2proReadMoveDelta(r) ==
  LET bits == Get([r EXCEPT !.got = [f \in {} |-> 0]], "bits", "u8")
  IN  ReadRows(bits, VanillaMoveIn, Flags(bits, "bits"))
Q2proReadMove(wire) ==
  LET m[i \in 0 .. 3] ==
        IF i = 0 THEN Get(Reader(wire), "lastframe", "i32") ELSE Q2proReadMoveDelta(m[i - 1])
  IN  ReadMoves(m)
-----------------------------------------------------------------------------
(* Batches: items of bits are wider than 2000                              *)
Bits(n, v) == <<[w |-> 2000 + n, v |-> v % 2^n]>>
MoveVal(d, name, i) == d.val[<<name, i>>]

\* What is kept of the moves written so far
NoMove == [angles |-> [i \in 0 .. 2 |-> 0], msec |-> 0]
\* mutant: the msec of the first move for all
BaseAfterAngles(base, d) ==
  [angles |-> [i \in 0 .. 2 |-> IF <<"angles", i>> \in d.set THEN MoveVal(d, "angles", i)
                                ELSE base.angles[i]],
   msec   |-> base.msec]
BaseAfter(base, d) ==
  [angles |-> [i \in 0 .. 2 |-> IF <<"angles", i>> \in d.set THEN MoveVal(d, "angles", i)
                                ELSE base.angles[i]],
   msec   |-> d.val[F("msec")]]

\* The bit of impulse stands for a new msec
BatchFlags(base, d) ==
  (MoveFlags(d) \ {CM.IMPULSE}) \cup FlagIf(d.val[F("msec")] # base.msec, CM.IMPULSE)

AngleBits(base, d, i) ==
  LET angle == MoveVal(d, "angles", i)
      delta == angle - base.angles[i]
  IN  IF delta \in -128 .. 127 THEN Bits(1, 1) \o Bits(8, delta)
      ELSE Bits(1, 0) \o Bits(16, angle)

ButtonBits(buttons) ==
  SumSet({2^b : b \in (BitsOf(buttons) \cap {0, 1}) \cup {x - 5 : x \in BitsOf(buttons) \cap 5 .. 7}})

\* Q2rePRO sends all buttons
ButtonItem(wide, buttons) == IF wide THEN Bits(8, buttons) ELSE Bits(3, ButtonBits(buttons))

MoveBits(wide, base, d) ==
  LET bits == BatchFlags(base, d)
      When(flag, part) == IF flag \in bits THEN part ELSE <<>>
  IN  IF bits = {} THEN Bits(1, 0)
      ELSE Bits(1, 1) \o Bits(8, SumSet({2^b : b \in bits}))
           \o When(CM.ANGLE1, AngleBits(base, d, 0)) \o When(CM.ANGLE2, AngleBits(base, d, 1))
           \o When(CM.ANGLE3, Bits(16, MoveVal(d, "angles", 2)))
           \o When(CM.FORWARD, Bits(10, MoveVal(d, "move", 0)))
           \o When(CM.SIDE, Bits(10, MoveVal(d, "move", 1)))
           \o When(CM.UP, Bits(10, MoveVal(d, "move", 2)))
           \o When(CM.BUTTONS, ButtonItem(wide, d.val[F("buttons")]))
           \o When(CM.IMPULSE, Bits(8, d.val[F("msec")]))

\* A frame: how many moves, and each against what was sent before
FrameBits(wide, acc, frame) ==
  FoldLeft(LAMBDA a, d : [wire |-> a.wire \o MoveBits(wide, a.base, d), base |-> BaseAfter(a.base, d)],
           [acc EXCEPT !.wire = @ \o Bits(5, Len(frame))], frame)

BatchCommand(lastframe) ==
  IF lastframe = -1 THEN clc_q2pro_move_nodelta ELSE clc_q2pro_move_batched
BatchLast(lastframe) == If(lastframe # -1, Put("i32", lastframe))
\* the light level of the last command of all
BatchBody(wide, frames) ==
  LET Frame(acc, frame) == FrameBits(wide, acc, frame)
  IN  Then(Put("u8", Last(Last(frames)).val[F("lightlevel")]),
           Written(FoldLeft(Frame, [wire |-> <<>>, base |-> NoMove], frames).wire))

Q2proWriteBatch(lastframe, frames) ==
  InTurn(<<Put("u8", BatchCommand(lastframe) + 32 * (Len(frames) - 1)),
           BatchLast(lastframe), BatchBody(FALSE, frames)>>)
-----------------------------------------------------------------------------
(* Reading them: a move is [set, angles, move, buttons, msec, lightlevel]  *)
GetBits(r, name, n) == GetWide(r, name, 2000 + n)
NoBatchMove == [set |-> {}, angles |-> [i \in 0 .. 2 |-> 0], move |-> [i \in 0 .. 2 |-> 0],
                buttons |-> 0, msec |-> 0]

\* a difference from the angle that the move before had, or the angle itself
AngleRead(v, name, delta, prev) ==
  IF ~v.ok THEN v
  ELSE Decoded(v, name, Signed((Signed(v.got[F(name)], IF delta THEN 8 ELSE 16)
                                + IF delta THEN prev ELSE 0) % 2^16, 16))
ReadAngleDelta(flag, name, delta, prev) ==
  AngleRead(GetBits(flag, name, IF delta THEN 8 ELSE 16), name, delta, prev)
ReadAngleBits(r, name, prev) ==
  LET flag == GetBits(r, "delta_flag", 1)
  IN  ReadAngleDelta(flag, name, flag.ok /\ flag.got[F("delta_flag")] = 1, prev)

\* What a move may hold, in its order; the first two angles may be differences.
\* Q2rePRO sends all buttons, and knows no upward move.
BatchFields(wide) ==
  LET Field(flag, name, n) == [flag |-> flag, name |-> name, n |-> n]
  IN  <<Field(CM.ANGLE1, "angle0", 0), Field(CM.ANGLE2, "angle1", 0),
        Field(CM.ANGLE3, "angle2", 16), Field(CM.FORWARD, "move0", 10),
        Field(CM.SIDE, "move1", 10), Field(CM.UP, "move2", 10),
        Field(CM.BUTTONS, "buttons", IF wide THEN 8 ELSE 3), Field(CM.IMPULSE, "msec", 8)>>
ReadBatchField(wide, prev, r, f) ==
  CASE f.n = 0 -> ReadAngleBits(r, f.name, prev.angles[f.flag])
    [] wide /\ f.flag = CM.UP -> OutOfStep(r)
    [] OTHER -> GetBits(r, f.name, f.n)
ReadMoveFields(wide, prev, r, bits) ==
  FoldLeft(LAMBDA q, f : ReadBatchField(wide, prev, q, f), r,
           SelectSeq(BatchFields(wide), LAMBDA f : f.flag \in bits))

MoveOf(wide, prev, got, bits) ==
  LET G(name, otherwise) == IF F(name) \in DOMAIN got THEN got[F(name)] ELSE otherwise
      angles == <<G("angle0", prev.angles[0]), G("angle1", prev.angles[1]),
                  Signed(G("angle2", prev.angles[2] % 2^16), 16)>>
      move == <<G("move0", 0), G("move1", 0), G("move2", 0)>>
  IN  [set     |-> bits \ {CM.IMPULSE},
       angles  |-> [i \in 0 .. 2 |-> angles[i + 1]],
       move    |-> [i \in 0 .. 2 |-> Signed(move[i + 1], 10)],
       buttons |-> IF wide THEN G("buttons", 0)
                   ELSE (G("buttons", 0) % 4) + IF G("buttons", 0) >= 4 THEN 128 ELSE 0,
       msec    |-> G("msec", prev.msec)]

\* The reader after one move, which it adds to those read
WithMove(a, r, move) == [r |-> r, prev |-> move, moves |-> Append(a.moves, move)]
ReadMoveContents(wide, a, flags, bits) ==
  LET r == ReadMoveFields(wide, a.prev, flags, bits)
  IN  WithMove(a, r, MoveOf(wide, a.prev, r.got, bits))
ReadMoveBits(wide, a) ==
  LET contents == GetBits([a.r EXCEPT !.got = [f \in {} |-> 0]], "has_contents", 1)
      some == contents.ok /\ contents.got[F("has_contents")] = 1
      flags == IF some THEN GetBits(contents, "bits", 8) ELSE contents
  IN  ReadMoveContents(wide, a, flags, IF Has(flags, "bits") THEN Flags(flags, "bits") ELSE {})

WithFrame(a, last) ==
  [r |-> last.r, prev |-> last.prev, frames |-> Append(a.frames, last.moves)]
ReadFrameBits(wide, a) ==
  LET n == GetBits(a.r, "num_cmds", 5)
      upTo[i \in 0 .. 31] ==
        IF i = 0 THEN [r |-> n, prev |-> a.prev, moves |-> <<>>] ELSE ReadMoveBits(wide, upTo[i - 1])
  IN  WithFrame(a, upTo[IF n.ok THEN n.got[F("num_cmds")] ELSE 0])

\* The frames, if there are not as many as fit into MAX_CLC_BATCH_MOVE_FRAMES:
\* such a batch is refused
ReadBatchFrames(wide, r, dups) ==
  LET light == Get(r, "lightlevel", "u8")
      upTo[i \in 0 .. MAX_CLC_BATCH_MOVE_FRAMES] ==
        IF i = 0 THEN [r |-> light, prev |-> NoBatchMove, frames |-> <<>>]
        ELSE ReadFrameBits(wide, upTo[i - 1])
  IN  IF ~r.ok \/ dups >= MAX_CLC_BATCH_MOVE_FRAMES - 1
      THEN [r |-> OutOfStep(r), frames |-> <<>>]
      ELSE upTo[dups + 1]

BatchHead(command, wire) ==
  IF command = clc_q2pro_move_nodelta THEN Decoded(Reader(wire), "lastframe", -1)
  ELSE Get(Reader(wire), "lastframe", "i32")

\* the upper bits of the command say how many frames are repeated
Q2proReadBatch(wire) ==
  ReadBatchFrames(FALSE, BatchHead(wire[1].v % 32, Tail(wire)), wire[1].v \div 32)
=============================================================================
