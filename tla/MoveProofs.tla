----------------------------- MODULE MoveProofs -----------------------------
(***************************************************************************)
(* The moves of a message arrive, for every move: those of the protocols   *)
(* that write components as they are, and those that R1Q2 compresses.      *)
(***************************************************************************)
EXTENDS MessageFormats, WireProofs

\* Lists of items put together from the end, with the rest of the message after them
JoinedAhead(a, x, rest) == a \o x \in Seq(Items) /\ (a \o x) \o rest = a \o (x \o rest)
FourAhead(a, b, c, d, rest) ==
  /\ a \o (b \o (c \o d)) \in Seq(Items) /\ b \o (c \o d) \in Seq(Items)
  /\ (a \o (b \o (c \o d))) \o rest = a \o ((b \o (c \o d)) \o rest)
  /\ (b \o (c \o d)) \o rest = b \o (c \o (d \o rest))

LEMMA TwoJoin ==
  ASSUME NEW a \in Seq(Items), NEW x \in Seq(Items), NEW rest \in Seq(Items)
  PROVE  JoinedAhead(a, x, rest)
  BY DEF JoinedAhead

LEMMA FourJoin ==
  ASSUME NEW a \in Seq(Items), NEW b \in Seq(Items), NEW c \in Seq(Items), NEW d \in Seq(Items),
         NEW rest \in Seq(Items)
  PROVE  FourAhead(a, b, c, d, rest)
<1>1. JoinedAhead(c, d, rest)
  BY TwoJoin, Zenon
<1>2. PICK x \in Seq(Items) : x = c \o d
  BY ONLY <1>1, Zenon DEF JoinedAhead
<1>3. JoinedAhead(b, x, rest)
  BY TwoJoin, Zenon
<1>4. PICK y \in Seq(Items) : y = b \o x
  BY ONLY <1>3, Zenon DEF JoinedAhead
<1>5. JoinedAhead(a, y, rest)
  BY TwoJoin, Zenon
<1> QED BY ONLY <1>1, <1>2, <1>3, <1>4, <1>5, Zenon DEF JoinedAhead, FourAhead

\* Rows written one after the other
LEMMA OneMore ==
  ASSUME NEW R, NEW t \in Seq(R), NEW n \in Nat, NEW k, k = n + 1, k <= Len(t)
  PROVE  SubSeq(t, 1, n) \o <<t[k]>> = SubSeq(t, 1, k)
  OBVIOUS

\* A list of one is its first element.
LEMMA OnlyOne ==
  ASSUME NEW R, NEW s \in Seq(R), Len(s) = 1 PROVE s = <<s[1]>>
  OBVIOUS

\* The first parts of a list, and the whole of it.
LEMMA FirstAndAll ==
  ASSUME NEW R, NEW t \in Seq(R), Len(t) > 1
  PROVE  /\ SubSeq(t, 1, 1) = <<t[1]>> /\ SubSeq(t, 1, Len(t)) = t
         /\ SubSeq(t, 1, 2) = <<t[1]>> \o <<t[2]>>
<1>1. SubSeq(t, 1, 1) = <<t[1]>>
  <2>1. SubSeq(t, 1, 1) \in Seq(R) /\ Len(SubSeq(t, 1, 1)) = 1 /\ SubSeq(t, 1, 1)[1] = t[1]
    OBVIOUS
  <2> QED BY <2>1, OnlyOne
<1>2. SubSeq(t, 1, Len(t)) = t
  OBVIOUS
<1>3. SubSeq(t, 1, 1) \o <<t[2]>> = SubSeq(t, 1, 2)
  <2>1. 2 = 1 + 1 /\ 2 <= Len(t) /\ 1 \in Nat
    OBVIOUS
  <2> QED BY <2>1, OneMore
<1> QED BY <1>1, <1>2, <1>3

\* The rows of a move, each with its place
MoveRow(all, none, field, type) == [all |-> all, none |-> none, field |-> field, type |-> type]
PlainMoveRows ==
  <<MoveRow({0}, {}, <<"angles", 0>>, "i16"), MoveRow({1}, {}, <<"angles", 1>>, "i16"),
    MoveRow({2}, {}, <<"angles", 2>>, "i16"), MoveRow({3}, {}, <<"move", 0>>, "i16"),
    MoveRow({4}, {}, <<"move", 1>>, "i16"), MoveRow({5}, {}, <<"move", 2>>, "i16"),
    MoveRow({6}, {}, <<"buttons", 0>>, "u8"), MoveRow({7}, {}, <<"impulse", 0>>, "u8"),
    MoveRow({}, {}, <<"msec", 0>>, "u8"), MoveRow({}, {}, <<"lightlevel", 0>>, "u8")>>

\* There are ten rows of a plain move.
LEMMA PlainMoveTable ==
  LET t == PlainMoveRows
  IN  Len(t) = 10 /\ \E R : t \in Seq(R)
<1> DEFINE t == PlainMoveRows
<1>1. Len(t) = 10 /\ t = [i \in 1 .. 10 |-> t[i]]
  BY DEF PlainMoveRows
<1> HIDE DEF t
<1>2. t \in Seq({t[i] : i \in 1 .. 10})
  BY <1>1
<1> QED BY <1>1, <1>2, Zenon DEF t

\* They are the rows the plain writer has.
LEMMA PlainMoveOut == VanillaMoveOut = PlainMoveRows
<1> DEFINE t == PlainMoveRows
           p(n) == SubSeq(t, 1, n)
<1>1. /\ OnComp(CM.ANGLE1, "angles", 0, "i16") = <<t[1]>>
      /\ OnComp(CM.ANGLE2, "angles", 1, "i16") = <<t[2]>>
      /\ OnComp(CM.ANGLE3, "angles", 2, "i16") = <<t[3]>>
      /\ OnComp(CM.FORWARD, "move", 0, "i16") = <<t[4]>>
      /\ OnComp(CM.SIDE, "move", 1, "i16") = <<t[5]>>
      /\ OnComp(CM.UP, "move", 2, "i16") = <<t[6]>>
      /\ On(CM.BUTTONS, "buttons", "u8") = <<t[7]>>
      /\ On(CM.IMPULSE, "impulse", "u8") = <<t[8]>>
      /\ Always("msec", "u8") = <<t[9]>>
      /\ Always("lightlevel", "u8") = <<t[10]>>
  BY DEF PlainMoveRows, OnComp, On, Always, Row, MoveRow, CM, F
<1>2. PICK R : t \in Seq(R) /\ Len(t) = 10
  BY PlainMoveTable
<1> HIDE DEF t
<1>3. p(1) = <<t[1]>> /\ p(10) = t
  <2>1. t \in Seq(R) /\ Len(t) > 1 /\ Len(t) = 10
    BY <1>2
  <2>2. SubSeq(t, 1, 1) = <<t[1]>> /\ SubSeq(t, 1, Len(t)) = t
    BY ONLY <2>1, FirstAndAll
  <2> QED BY <2>1, <2>2
<1>4. p(1) \o <<t[2]>> = p(2)
  BY <1>2
<1>5. p(2) \o <<t[3]>> = p(3)
  BY <1>2
<1>6. p(3) \o <<t[4]>> = p(4)
  BY <1>2
<1>7. p(4) \o <<t[5]>> = p(5)
  BY <1>2
<1>8. p(5) \o <<t[6]>> = p(6)
  BY <1>2
<1>9. p(6) \o <<t[7]>> = p(7)
  BY <1>2
<1>10. p(7) \o <<t[8]>> = p(8)
  BY <1>2
<1>11. p(8) \o <<t[9]>> = p(9)
  BY <1>2
<1>12. p(9) \o <<t[10]>> = p(10)
  BY <1>2
<1> HIDE DEF p
<1>13. VanillaMoveOut = t
  BY <1>1, <1>3, <1>4, <1>5, <1>6, <1>7, <1>8, <1>9, <1>10, <1>11, <1>12, Zenon
     DEF VanillaMoveOut, MoveAngles
<1> QED BY <1>13 DEF t

\* No field of a plain move is in two rows that can both be present.
LEMMA PlainMoveAlone == Alone(PlainMoveRows)
<1>1. \A i, j \in 1 .. 10 : i # j => PlainMoveRows[i].field # PlainMoveRows[j].field
  BY DEF PlainMoveRows, MoveRow
<1> QED BY <1>1, PlainMoveTable DEF Alone

\* R1Q2 may send five of the components in one byte
PackedMoveRows ==
  <<MoveRow({0, 13}, {}, <<"angles", 0>>, "by64"), MoveRow({0}, {13}, <<"angles", 0>>, "i16"),
    MoveRow({1, 14}, {}, <<"angles", 1>>, "by256"), MoveRow({1}, {14}, <<"angles", 1>>, "i16"),
    MoveRow({2}, {}, <<"angles", 2>>, "i16"),
    MoveRow({3, 10}, {}, <<"move", 0>>, "by5"), MoveRow({3}, {10}, <<"move", 0>>, "i16"),
    MoveRow({4, 11}, {}, <<"move", 1>>, "by5"), MoveRow({4}, {11}, <<"move", 1>>, "i16"),
    MoveRow({5, 12}, {}, <<"move", 2>>, "by5"), MoveRow({5}, {12}, <<"move", 2>>, "i16")>>

\* There are eleven rows of a packed move.
LEMMA PackedMoveTable ==
  LET t == PackedMoveRows
  IN  Len(t) = 11 /\ \E R : t \in Seq(R)
<1> DEFINE t == PackedMoveRows
<1>1. Len(t) = 11 /\ t = [i \in 1 .. 11 |-> t[i]]
  BY DEF PackedMoveRows
<1> HIDE DEF t
<1>2. t \in Seq({t[i] : i \in 1 .. 11})
  BY <1>1
<1> QED BY <1>1, <1>2, Zenon DEF t

\* They are the rows of R1Q2.
LEMMA PackedMove == R1q2MoveRows = PackedMoveRows
<1> DEFINE t == PackedMoveRows
           p(n) == SubSeq(t, 1, n)
<1>1. /\ D("ANGLE1") = 13 /\ D("ANGLE2") = 14 /\ D("FORWARD") = 10 /\ D("SIDE") = 11
      /\ D("UP") = 12
  BY DEF D, DBL
<1>2. /\ Either(CM.ANGLE1, 13, "angles", 0, "by64") = <<t[1]>> \o <<t[2]>>
      /\ Either(CM.ANGLE2, 14, "angles", 1, "by256") = <<t[3]>> \o <<t[4]>>
      /\ OnComp(CM.ANGLE3, "angles", 2, "i16") = <<t[5]>>
      /\ Either(CM.FORWARD, 10, "move", 0, "by5") = <<t[6]>> \o <<t[7]>>
      /\ Either(CM.SIDE, 11, "move", 1, "by5") = <<t[8]>> \o <<t[9]>>
      /\ Either(CM.UP, 12, "move", 2, "by5") = <<t[10]>> \o <<t[11]>>
  BY DEF PackedMoveRows, OnComp, Either, Wide, Row, MoveRow, CM
<1>3. PICK R : t \in Seq(R) /\ Len(t) = 11
  BY PackedMoveTable
<1> HIDE DEF t
<1>4. p(2) = <<t[1]>> \o <<t[2]>> /\ p(11) = t
  <2>1. t \in Seq(R) /\ Len(t) > 1 /\ Len(t) = 11
    BY <1>3
  <2>2. SubSeq(t, 1, 2) = <<t[1]>> \o <<t[2]>> /\ SubSeq(t, 1, Len(t)) = t
    BY ONLY <2>1, FirstAndAll
  <2> QED BY <2>1, <2>2
<1>5. p(2) \o (<<t[3]>> \o <<t[4]>>) = p(4)
  BY <1>3
<1>6. p(4) \o <<t[5]>> = p(5)
  BY <1>3
<1>7. p(5) \o (<<t[6]>> \o <<t[7]>>) = p(7)
  BY <1>3
<1>8. p(7) \o (<<t[8]>> \o <<t[9]>>) = p(9)
  BY <1>3
<1>9. p(9) \o (<<t[10]>> \o <<t[11]>>) = p(11)
  BY <1>3
<1> HIDE DEF p
<1>10. R1q2MoveRows = t
  BY <1>1, <1>2, <1>4, <1>5, <1>6, <1>7, <1>8, <1>9, Zenon DEF R1q2MoveRows
<1> QED BY <1>10 DEF t

\* No field of a packed move is in two rows that can both be present.
LEMMA PackedMoveAlone == Alone(PackedMoveRows)
<1>1. \A i, j \in 1 .. 11 :
        i # j /\ PackedMoveRows[i].field = PackedMoveRows[j].field =>
          Apart(PackedMoveRows[i], PackedMoveRows[j])
  BY DEF PackedMoveRows, MoveRow, Apart
<1> QED BY <1>1, PackedMoveTable DEF Alone

EndMoveRows ==
  <<MoveRow({7}, {}, <<"impulse", 0>>, "u8"), MoveRow({}, {}, <<"msec", 0>>, "u8"),
    MoveRow({}, {}, <<"lightlevel", 0>>, "u8")>>
ButtonsRows == <<MoveRow({6}, {}, <<"buttons", 0>>, "u8")>>

\* The rows at the end of a packed move, impulse, time and light.
LEMMA EndMove ==
  /\ R1q2MoveEnd = EndMoveRows /\ Len(EndMoveRows) = 3 /\ (\E R : EndMoveRows \in Seq(R))
  /\ Alone(EndMoveRows)
<1> DEFINE t == EndMoveRows
           p(n) == SubSeq(t, 1, n)
<1>1. Len(t) = 3 /\ t = [i \in 1 .. 3 |-> t[i]]
  BY DEF EndMoveRows
<1>2. /\ On(CM.IMPULSE, "impulse", "u8") = <<t[1]>> /\ Always("msec", "u8") = <<t[2]>>
      /\ Always("lightlevel", "u8") = <<t[3]>>
  BY DEF EndMoveRows, On, Always, Row, MoveRow, CM, F
<1>3. \A i, j \in 1 .. 3 : i # j => t[i].field # t[j].field
  BY DEF EndMoveRows, MoveRow
<1> HIDE DEF t
<1>4. PICK R : t \in Seq(R)
  <2>1. t \in Seq({t[i] : i \in 1 .. 3})
    BY <1>1
  <2> QED BY <2>1, Zenon
<1>5. p(1) = <<t[1]>> /\ p(3) = t
  <2>1. t \in Seq(R) /\ Len(t) > 1 /\ Len(t) = 3
    BY <1>1, <1>4
  <2>2. SubSeq(t, 1, 1) = <<t[1]>> /\ SubSeq(t, 1, Len(t)) = t
    BY ONLY <2>1, FirstAndAll
  <2> QED BY <2>1, <2>2
<1>6. p(1) \o <<t[2]>> = p(2)
  BY <1>1, <1>4
<1>7. p(2) \o <<t[3]>> = p(3)
  BY <1>1, <1>4
<1> HIDE DEF p
<1>8. R1q2MoveEnd = t
  BY <1>2, <1>5, <1>6, <1>7, Zenon DEF R1q2MoveEnd
<1>9. Alone(t)
  BY <1>1, <1>3 DEF Alone
<1> QED BY <1>1, <1>4, <1>8, <1>9 DEF t

\* The row of the buttons, which R1Q2 sends first where it compresses.
LEMMA ButtonsMove ==
  /\ On(CM.BUTTONS, "buttons", "u8") = ButtonsRows /\ Len(ButtonsRows) = 1
  /\ (\E R : ButtonsRows \in Seq(R)) /\ Alone(ButtonsRows)
<1>1. On(CM.BUTTONS, "buttons", "u8") = ButtonsRows /\ Len(ButtonsRows) = 1
  BY DEF ButtonsRows, On, Row, MoveRow, CM, F
<1>2. ButtonsRows \in Seq({ButtonsRows[1]})
  BY DEF ButtonsRows
<1>3. Alone(ButtonsRows)
  BY <1>1 DEF Alone
<1> QED BY <1>1, <1>2, <1>3, Zenon
-----------------------------------------------------------------------------

\* The numbers each type holds.
LEMMA InRange ==
  /\ \A n \in Int : -32768 <= n /\ n < 32768 => n \in Values("i16")
  /\ \A n \in 0 .. 255 : n \in Values("u8")
  /\ \A n \in Int : n \in Values("i32")
<1>1. Width("i16") = 2 /\ Width("u8") = 1 /\ Width("i32") = 4
  BY SMT DEF Width, ByteTypes
<1>2. Scale("i16") = 1 /\ Scale("u8") = 1 /\ Scale("i32") = 1
  BY DEF Scale
<1>3. \A n \in Int : 1 * n = n
  OBVIOUS
<1>4. ASSUME NEW n \in Int, -32768 <= n, n < 32768 PROVE n \in Values("i16")
  <2>1. n \in Units("i16")
    BY <1>1, <1>4 DEF Units, SignedTypes
  <2> QED BY <2>1, <1>2, <1>3 DEF Values
<1>5. ASSUME NEW n \in 0 .. 255 PROVE n \in Values("u8")
  <2>1. n \in Units("u8") /\ n \in Int
    BY <1>1 DEF Units, SignedTypes
  <2> QED BY <2>1, <1>2, <1>3 DEF Values
<1>6. ASSUME NEW n \in Int PROVE n \in Values("i32")
  <2>1. n \in Units("i32")
    BY <1>1 DEF Units
  <2> QED BY <2>1, <1>2, <1>3 DEF Values
<1> QED BY <1>4, <1>5, <1>6

\* What is written as a plain or packed type is read as the same type.
LEMMA Alike ==
  \A t \in {"u8", "u16", "i16", "i32", "by5", "by64", "by256"} : GoesWith(t, t)
  BY DEF GoesWith, PlainTypes

\* A reader that was at r got one value more, under a name of its own
GotOne(now, r, rest, name, v) ==
  /\ Reading(now) /\ now.in = rest
  /\ DOMAIN now.got = DOMAIN r.got \cup {F(name)}
  /\ now.got[F(name)] = v
  /\ \A f \in DOMAIN r.got : f # F(name) => now.got[f] = r.got[f]

\* One item that is first in the wire is what a row for it takes.
LEMMA OneArrives ==
  ASSUME NEW in, NEW type, GoesWith(in, type), NEW v \in Values(in), NEW S, NEW rest \in Seq(S),
         NEW r, Reading(r), r.in = <<Item(type, v)>> \o rest, NEW name,
         NEW row, row.field = F(name), row.type = in
  PROVE  GotOne(TakeRows(r, <<row>>), r, rest, name, v)
<1>1. Fits(in, Item(type, v)) /\ Taken(in, Item(type, v)) = v
  BY ValueArrives
<1>2. PICK item : item = Item(type, v)
  OBVIOUS
<1>5. PICK got : got = r.got
  OBVIOUS
<1>6. r = [in |-> <<item>> \o rest, got |-> got, ok |-> TRUE]
  BY <1>2, <1>5 DEF Reading
<1>7. PICK wire : wire = <<item>> \o rest
  OBVIOUS
<1>8. /\ Len(wire) \in Nat /\ Len(wire) >= 1 /\ wire[1] = item
      /\ SubSeq(wire, 1 + 1, Len(wire)) = rest
  <2>1. <<item>> \in Seq(S \cup {item}) /\ rest \in Seq(S \cup {item})
    OBVIOUS
  <2> QED BY <1>7, <2>1
<1>9. DOMAIN <<row>> = {1} /\ Len(<<row>>) = 1 /\ <<row>>[1] = row
  OBVIOUS
<1> DEFINE taken == [f \in DOMAIN got \cup {F(name)} |-> IF f = F(name) THEN v ELSE got[f]]
<1>11. TakeRows(r, <<row>>) = [in |-> rest, got |-> taken, ok |-> TRUE]
  <2> DEFINE rows == <<row>>
             all == [f \in DOMAIN got \cup {rows[i].field : i \in DOMAIN rows} |->
                       IF \E i \in DOMAIN rows : rows[i].field = f
                       THEN LET i == CHOOSE j \in DOMAIN rows : rows[j].field = f
                            IN  Taken(rows[i].type, wire[i])
                       ELSE got[f]]
  <2>1. r.ok /\ r.in = wire /\ r.got = got /\ r = [in |-> wire, got |-> got, ok |-> TRUE]
    BY <1>6, <1>7
  <2>2. Fits(rows[1].type, wire[1]) /\ Taken(rows[1].type, wire[1]) = v
    BY <1>1, <1>2, <1>8, <1>9
  <2> HIDE DEF rows
  <2>3. DOMAIN rows = {1} /\ Len(rows) = 1 /\ rows[1].field = F(name)
    BY <1>9 DEF rows
  <2>4. TakeRows(r, rows) = [in |-> rest, got |-> all, ok |-> TRUE]
    BY <1>8, <2>1, <2>2, <2>3 DEF TakeRows
  <2>5. all = taken
    BY <2>2, <2>3
  <2> QED BY <2>4, <2>5 DEF rows
<1> HIDE DEF taken
<1>12. /\ DOMAIN taken = DOMAIN got \cup {F(name)} /\ taken[F(name)] = v
       /\ \A f \in DOMAIN got : f # F(name) => taken[f] = got[f]
  BY DEF taken
<1>13. PICK now : now = TakeRows(r, <<row>>)
  OBVIOUS
<1>14. now = [in |-> rest, got |-> taken, ok |-> TRUE]
  BY <1>11, <1>13
<1>15. Reading(now) /\ now.in = rest /\ now.got = taken
  BY <1>14 DEF Reading
<1> QED BY <1>5, <1>12, <1>13, <1>15 DEF GotOne

\* And what a single read of it gets.
LEMMA GetArrives ==
  ASSUME NEW in, NEW type, GoesWith(in, type), NEW v \in Values(in), NEW S, NEW rest \in Seq(S),
         NEW r, Reading(r), r.in = <<Item(type, v)>> \o rest, NEW name
  PROVE  GotOne(Get(r, name, in), r, rest, name, v)
<1>1. PICK row : row = [all |-> {}, none |-> {}, field |-> F(name), type |-> in]
  OBVIOUS
<1>2. row.field = F(name) /\ row.type = in
  BY <1>1
<1>3. GotOne(TakeRows(r, <<row>>), r, rest, name, v)
  BY <1>2, OneArrives
<1>4. Get(r, name, in) = TakeRows(r, <<row>>)
  BY <1>1 DEF Get, Always, Row
<1> QED BY <1>3, <1>4

\* A byte of flags
LEMMA FlagByte ==
  ASSUME NEW B \in SUBSET (0 .. 7)
  PROVE  \E n \in 0 .. 255 :
           /\ Byte(B) = Written(<<Item("u8", n)>>) /\ BitsOf(n) = B
           /\ n = SumSet({2^b : b \in B})
<1>1. PICK n : n = SumSet({2^b : b \in B})
  OBVIOUS
<1>2. n \in Nat /\ n < 256 /\ BitsOf(n) = B
  <2>1. B \in SUBSET (0 .. 15) /\ B \subseteq 0 .. 7
    OBVIOUS
  <2>2. LET m == SumSet({2^b : b \in B})
        IN  /\ m \in Nat /\ m < 65536 /\ (B \subseteq 0 .. 7 => m < 256)
            /\ BitsOf(m) = B
    BY ONLY <2>1, FlagsArrive
  <2>3. SumSet({2^b : b \in B}) < 256 /\ BitsOf(SumSet({2^b : b \in B})) = B
        /\ SumSet({2^b : b \in B}) \in Nat
    BY ONLY <2>1, <2>2
  <2> QED BY ONLY <1>1, <2>3
<1>3. n \in 0 .. 255
  BY <1>2
<1>4. Byte(B) = Written(<<Item("u8", n)>>)
  BY <1>1 DEF Byte, Put
<1> QED BY <1>1, <1>2, <1>3, <1>4

\* The bits of the flags of a move, one for each field that can be left out.
LEMMA MoveFlagsAre ==
  ASSUME NEW d
  PROVE  /\ MoveFlags(d) \in SUBSET (0 .. 7)
         /\ 0 \in MoveFlags(d) <=> <<"angles", 0>> \in d.set
         /\ 1 \in MoveFlags(d) <=> <<"angles", 1>> \in d.set
         /\ 2 \in MoveFlags(d) <=> <<"angles", 2>> \in d.set
         /\ 3 \in MoveFlags(d) <=> <<"move", 0>> \in d.set
         /\ 4 \in MoveFlags(d) <=> <<"move", 1>> \in d.set
         /\ 5 \in MoveFlags(d) <=> <<"move", 2>> \in d.set
         /\ 6 \in MoveFlags(d) <=> <<"buttons", 0>> \in d.set
         /\ 7 \in MoveFlags(d) <=> <<"impulse", 0>> \in d.set
<1> DEFINE pairs == {<<<<"angles", 0>>, 0>>, <<<<"angles", 1>>, 1>>, <<<<"angles", 2>>, 2>>,
                    <<<<"move", 0>>, 3>>, <<<<"move", 1>>, 4>>, <<<<"move", 2>>, 5>>,
                    <<<<"buttons", 0>>, 6>>, <<<<"impulse", 0>>, 7>>}
<1>1. \A q \in pairs :
        /\ q[2] \in 0 .. 7
        /\ (q[2] = 0 => q[1] = <<"angles", 0>>) /\ (q[2] = 1 => q[1] = <<"angles", 1>>)
        /\ (q[2] = 2 => q[1] = <<"angles", 2>>) /\ (q[2] = 3 => q[1] = <<"move", 0>>)
        /\ (q[2] = 4 => q[1] = <<"move", 1>>) /\ (q[2] = 5 => q[1] = <<"move", 2>>)
        /\ (q[2] = 6 => q[1] = <<"buttons", 0>>) /\ (q[2] = 7 => q[1] = <<"impulse", 0>>)
  OBVIOUS
<1>2. /\ \E q \in pairs : q[1] = <<"angles", 0>> /\ q[2] = 0
      /\ \E q \in pairs : q[1] = <<"angles", 1>> /\ q[2] = 1
      /\ \E q \in pairs : q[1] = <<"angles", 2>> /\ q[2] = 2
      /\ \E q \in pairs : q[1] = <<"move", 0>> /\ q[2] = 3
      /\ \E q \in pairs : q[1] = <<"move", 1>> /\ q[2] = 4
      /\ \E q \in pairs : q[1] = <<"move", 2>> /\ q[2] = 5
      /\ \E q \in pairs : q[1] = <<"buttons", 0>> /\ q[2] = 6
      /\ \E q \in pairs : q[1] = <<"impulse", 0>> /\ q[2] = 7
  OBVIOUS
<1>3. MoveFlags(d) = {p[2] : p \in {q \in pairs : q[1] \in d.set}}
  BY DEF MoveFlags, CM, F
<1> HIDE DEF pairs
<1>4. \A b : b \in MoveFlags(d) <=> \E q \in pairs : q[1] \in d.set /\ q[2] = b
  BY <1>3
<1>5. MoveFlags(d) \in SUBSET (0 .. 7)
  BY <1>1, <1>4
<1> QED BY <1>1, <1>2, <1>4, <1>5, SMTT(30)
-----------------------------------------------------------------------------
\* The fields of a move.
LEMMA MoveWholeIs ==
  /\ MoveWhole = {<<"angles", 0>>, <<"angles", 1>>, <<"angles", 2>>, <<"move", 0>>, <<"move", 1>>,
                  <<"move", 2>>, <<"buttons", 0>>, <<"impulse", 0>>, <<"msec", 0>>,
                  <<"lightlevel", 0>>}
  /\ F("msec") = <<"msec", 0>> /\ F("lightlevel") = <<"lightlevel", 0>>
  /\ F("buttons") = <<"buttons", 0>>
<1>1. 0 .. 3 - 1 = {0, 1, 2}
  OBVIOUS
<1>2. /\ Vec("angles", 3) = {<<"angles", 0>>, <<"angles", 1>>, <<"angles", 2>>}
      /\ Vec("move", 3) = {<<"move", 0>>, <<"move", 1>>, <<"move", 2>>}
  BY <1>1 DEF Vec
<1> QED BY <1>2 DEF MoveWhole, MoveFields, F

\* The values of a move are of the types they are sent as.
LEMMA MoveValues ==
  ASSUME NEW d, IsMove(d)
  PROVE  /\ \A f \in {<<"angles", 0>>, <<"angles", 1>>, <<"angles", 2>>, <<"move", 0>>,
                     <<"move", 1>>, <<"move", 2>>} :
              d.val[f] \in Int /\ -32768 <= d.val[f] /\ d.val[f] < 32768
              /\ d.val[f] \in Values("i16")
         /\ \A f \in {<<"buttons", 0>>, <<"impulse", 0>>, <<"msec", 0>>, <<"lightlevel", 0>>} :
              d.val[f] \in 0 .. 255 /\ d.val[f] \in Values("u8")
<1>1. ASSUME NEW f \in {<<"angles", 0>>, <<"angles", 1>>, <<"angles", 2>>, <<"move", 0>>,
                        <<"move", 1>>, <<"move", 2>>}
      PROVE  d.val[f] \in Int /\ -32768 <= d.val[f] /\ d.val[f] < 32768
             /\ d.val[f] \in Values("i16")
  <2>1. f \in MoveWhole /\ f[1] \in {"angles", "move"}
    BY MoveWholeIs
  <2>2. d.val[f] \in MoveRange(f)
    BY <2>1 DEF IsMove
  <2>3. d.val[f] \in Int /\ -32768 <= d.val[f] /\ d.val[f] < 32768
    BY <2>1, <2>2 DEF MoveRange
  <2> QED BY <2>3, InRange
<1>2. ASSUME NEW f \in {<<"buttons", 0>>, <<"impulse", 0>>, <<"msec", 0>>, <<"lightlevel", 0>>}
      PROVE  d.val[f] \in 0 .. 255 /\ d.val[f] \in Values("u8")
  <2>1. f \in MoveWhole /\ f[1] \notin {"angles", "move"}
    BY MoveWholeIs
  <2>2. d.val[f] \in MoveRange(f)
    BY <2>1 DEF IsMove
  <2>3. d.val[f] \in 0 .. 255
    BY <2>1, <2>2 DEF MoveRange
  <2> QED BY <2>3, InRange
<1> QED BY <1>1, <1>2, SMTT(30)

\* A move was read: the values that were sent, and nothing of what follows
MoveRead(now, d, rest) ==
  /\ Reading(now) /\ now.in = rest
  /\ \A f \in MoveWhole : f \in d.set \cup {F("msec"), F("lightlevel")} =>
       f \in DOMAIN now.got /\ now.got[f] = d.val[f]

\* Every move suits the plain rows.
LEMMA PlainRowsSuit ==
  ASSUME NEW d, IsMove(d), NEW bits
  PROVE  Suitable(PlainMoveRows, PlainMoveRows, bits, d.val)
<1>1. \A i \in 1 .. 6 : PlainMoveRows[i].type = "i16" /\ PlainMoveRows[i].field \in
        {<<"angles", 0>>, <<"angles", 1>>, <<"angles", 2>>, <<"move", 0>>, <<"move", 1>>,
            <<"move", 2>>}
  BY DEF PlainMoveRows, MoveRow
<1>2. \A i \in 7 .. 10 : PlainMoveRows[i].type = "u8" /\ PlainMoveRows[i].field \in
        {<<"buttons", 0>>, <<"impulse", 0>>, <<"msec", 0>>, <<"lightlevel", 0>>}
  BY DEF PlainMoveRows, MoveRow
<1>3. Len(PlainMoveRows) = 10 /\ \A i \in 1 .. 10 : i \in 1 .. 6 \/ i \in 7 .. 10
  BY PlainMoveTable
<1>4. GoesWith("i16", "i16") /\ GoesWith("u8", "u8")
  BY Alike
<1>5. ASSUME NEW i \in 1 .. 10
      PROVE  /\ GoesWith(PlainMoveRows[i].type, PlainMoveRows[i].type)
             /\ d.val[PlainMoveRows[i].field] \in Values(PlainMoveRows[i].type)
  <2>1. CASE i \in 1 .. 6
    <3>1. d.val[PlainMoveRows[i].field] \in Values("i16")
      <4>1. PICK f \in {<<"angles", 0>>, <<"angles", 1>>, <<"angles", 2>>, <<"move", 0>>,
                       <<"move", 1>>, <<"move", 2>>} : f = PlainMoveRows[i].field
        BY <1>1, <2>1
      <4>2. d.val[f] \in Values("i16")
        BY MoveValues
      <4> QED BY <4>1, <4>2
    <3> QED BY <1>1, <1>4, <2>1, <3>1
  <2>2. CASE i \in 7 .. 10
    <3>1. d.val[PlainMoveRows[i].field] \in Values("u8")
      <4>1. PICK f \in {<<"buttons", 0>>, <<"impulse", 0>>, <<"msec", 0>>, <<"lightlevel", 0>>} :
              f = PlainMoveRows[i].field
        BY <1>2, <2>2
      <4>2. d.val[f] \in Values("u8")
        BY MoveValues
      <4> QED BY <4>1, <4>2
    <3> QED BY <1>2, <1>4, <2>2, <3>1
  <2> QED BY <1>3, <2>1, <2>2
<1> QED BY <1>3, <1>5 DEF Suitable

\* The rows of a move, after its flags
LEMMA PlainRowsArrive ==
  ASSUME NEW d, IsMove(d), NEW rest \in Seq(Items), NEW got
  PROVE  LET w   == WriteRows(PlainMoveRows, MoveFlags(d), d.val)
             now == ReadRows([in |-> w.wire \o rest, got |-> got, ok |-> TRUE],
                             PlainMoveRows, MoveFlags(d))
         IN  ~w.err /\ w.wire \in Seq(Items) /\ MoveRead(now, d, rest)
<1> DEFINE w   == WriteRows(PlainMoveRows, MoveFlags(d), d.val)
           now == ReadRows([in |-> w.wire \o rest, got |-> got, ok |-> TRUE],
                           PlainMoveRows, MoveFlags(d))
<1>1. PICK t : t = PlainMoveRows
  OBVIOUS
<1>2. PICK R : t \in Seq(R)
  BY <1>1, PlainMoveTable
<1>3. Matched(t, t) /\ Alone(t) /\ Suitable(t, t, MoveFlags(d), d.val)
  BY <1>1, PlainMoveAlone, PlainRowsSuit DEF Matched
<1>4. PICK bits : bits = MoveFlags(d)
  OBVIOUS
<1>5. PICK val : val = d.val
  OBVIOUS
<1>6. LET v   == WriteRows(t, bits, val)
          new == ReadRows([in |-> v.wire \o rest, got |-> got, ok |-> TRUE], t, bits)
      IN  ~v.err /\ v.wire \in Seq(Items) /\ HasRead(new, got, rest, t, bits, val)
  <2>1. t \in Seq(R) /\ Matched(t, t) /\ Alone(t) /\ Suitable(t, t, bits, val)
        /\ rest \in Seq(Items)
    BY <1>2, <1>3, <1>4, <1>5
  <2> QED BY ONLY <2>1, AgreeingRowsArrive, Zenon
<1>7. ~w.err /\ w.wire \in Seq(Items) /\ HasRead(now, got, rest, t, bits, val)
  BY <1>1, <1>4, <1>5, <1>6
<1> HIDE DEF w, now
<1>8. ASSUME NEW i \in 1 .. 10, IsPresent(PlainMoveRows[i], MoveFlags(d))
      PROVE  /\ PlainMoveRows[i].field \in DOMAIN now.got
             /\ now.got[PlainMoveRows[i].field] = d.val[PlainMoveRows[i].field]
  <2>1. Len(t) = 10 /\ IsPresent(t[i], bits)
    BY <1>1, <1>4, <1>8, PlainMoveTable
  <2>2. t[i].field \in DOMAIN now.got /\ now.got[t[i].field] = val[t[i].field]
    BY <1>7, <2>1 DEF HasRead
  <2> QED BY <1>1, <1>5, <2>2
<1>9. ASSUME NEW f \in MoveWhole, f \in d.set \cup {F("msec"), F("lightlevel")}
      PROVE  \E i \in 1 .. 10 : PlainMoveRows[i].field = f
             /\ IsPresent(PlainMoveRows[i], MoveFlags(d))
  <2> DEFINE there(i) == PlainMoveRows[i].field = f /\ IsPresent(PlainMoveRows[i], MoveFlags(d))
  <2>1. /\ PlainMoveRows[1] = MoveRow({0}, {}, <<"angles", 0>>, "i16")
        /\ PlainMoveRows[2] = MoveRow({1}, {}, <<"angles", 1>>, "i16")
        /\ PlainMoveRows[3] = MoveRow({2}, {}, <<"angles", 2>>, "i16")
        /\ PlainMoveRows[4] = MoveRow({3}, {}, <<"move", 0>>, "i16")
        /\ PlainMoveRows[5] = MoveRow({4}, {}, <<"move", 1>>, "i16")
        /\ PlainMoveRows[6] = MoveRow({5}, {}, <<"move", 2>>, "i16")
        /\ PlainMoveRows[7] = MoveRow({6}, {}, <<"buttons", 0>>, "u8")
        /\ PlainMoveRows[8] = MoveRow({7}, {}, <<"impulse", 0>>, "u8")
        /\ PlainMoveRows[9] = MoveRow({}, {}, <<"msec", 0>>, "u8")
        /\ PlainMoveRows[10] = MoveRow({}, {}, <<"lightlevel", 0>>, "u8")
    BY DEF PlainMoveRows
  <2>2. \A b, field, type : /\ MoveRow({b}, {}, field, type).field = field
                            /\ b \in MoveFlags(d)
                               => IsPresent(MoveRow({b}, {}, field, type), MoveFlags(d))
    BY DEF MoveRow, IsPresent
  <2>3. \A field, type : /\ MoveRow({}, {}, field, type).field = field
                         /\ IsPresent(MoveRow({}, {}, field, type), MoveFlags(d))
    BY DEF MoveRow, IsPresent
  <2>4. CASE f = <<"angles", 0>>
    <3>1. f \in d.set
      BY <1>9, <2>4, MoveWholeIs
    <3>2. 0 \in MoveFlags(d)
      BY <3>1, <2>4, MoveFlagsAre
    <3>3. there(1)
      BY <2>1, <3>2, <2>4 DEF MoveRow, IsPresent
    <3> QED BY <3>3
  <2>5. CASE f = <<"angles", 1>>
    <3>1. f \in d.set
      BY <1>9, <2>5, MoveWholeIs
    <3>2. 1 \in MoveFlags(d)
      BY <3>1, <2>5, MoveFlagsAre
    <3>3. there(2)
      BY <2>1, <3>2, <2>5 DEF MoveRow, IsPresent
    <3> QED BY <3>3
  <2>6. CASE f = <<"angles", 2>>
    <3>1. f \in d.set
      BY <1>9, <2>6, MoveWholeIs
    <3>2. 2 \in MoveFlags(d)
      BY <3>1, <2>6, MoveFlagsAre
    <3>3. there(3)
      BY <2>1, <3>2, <2>6 DEF MoveRow, IsPresent
    <3> QED BY <3>3
  <2>7. CASE f = <<"move", 0>>
    <3>1. f \in d.set
      BY <1>9, <2>7, MoveWholeIs
    <3>2. 3 \in MoveFlags(d)
      BY <3>1, <2>7, MoveFlagsAre
    <3>3. there(4)
      BY <2>1, <3>2, <2>7 DEF MoveRow, IsPresent
    <3> QED BY <3>3
  <2>8. CASE f = <<"move", 1>>
    <3>1. f \in d.set
      BY <1>9, <2>8, MoveWholeIs
    <3>2. 4 \in MoveFlags(d)
      BY <3>1, <2>8, MoveFlagsAre
    <3>3. there(5)
      BY <2>1, <3>2, <2>8 DEF MoveRow, IsPresent
    <3> QED BY <3>3
  <2>9. CASE f = <<"move", 2>>
    <3>1. f \in d.set
      BY <1>9, <2>9, MoveWholeIs
    <3>2. 5 \in MoveFlags(d)
      BY <3>1, <2>9, MoveFlagsAre
    <3>3. there(6)
      BY <2>1, <3>2, <2>9 DEF MoveRow, IsPresent
    <3> QED BY <3>3
  <2>10. CASE f = <<"buttons", 0>>
    <3>1. f \in d.set
      BY <1>9, <2>10, MoveWholeIs
    <3>2. 6 \in MoveFlags(d)
      BY <3>1, <2>10, MoveFlagsAre
    <3>3. there(7)
      BY <2>1, <3>2, <2>10 DEF MoveRow, IsPresent
    <3> QED BY <3>3
  <2>11. CASE f = <<"impulse", 0>>
    <3>1. f \in d.set
      BY <1>9, <2>11, MoveWholeIs
    <3>2. 7 \in MoveFlags(d)
      BY <3>1, <2>11, MoveFlagsAre
    <3>3. there(8)
      BY <2>1, <3>2, <2>11 DEF MoveRow, IsPresent
    <3> QED BY <3>3
  <2>12. CASE f = <<"msec", 0>>
    <3>1. there(9) BY <2>1, <2>3, <2>12
    <3> QED BY <3>1
  <2>13. CASE f = <<"lightlevel", 0>>
    <3>1. there(10) BY <2>1, <2>3, <2>13
    <3> QED BY <3>1
  <2> QED BY <2>4, <2>5, <2>6, <2>7, <2>8, <2>9, <2>10, <2>11, <2>12, <2>13, MoveWholeIs
<1>10. MoveRead(now, d, rest)
  <2>1. Reading(now) /\ now.in = rest
    BY <1>7 DEF HasRead
  <2> QED BY <1>8, <1>9, <2>1 DEF MoveRead
<1> QED BY <1>7, <1>10 DEF w, now
-----------------------------------------------------------------------------
\* A byte can be written and read.
LEMMA ByteIsItem ==
  ASSUME NEW n \in 0 .. 255 PROVE Item("u8", n) \in Items /\ n \in Values("u8")
         /\ GoesWith("u8", "u8")
<1>1. n \in Values("u8") /\ GoesWith("u8", "u8")
  BY InRange, Alike
<1> QED BY <1>1, NumberSent

\* A byte of flags is read as those flags, under a name of its own
GotFlags(now, r, rest, name, B) ==
  /\ Reading(now) /\ now.in = rest /\ Flags(now, name) = B
  /\ DOMAIN now.got = DOMAIN r.got \cup {F(name)}
  /\ now.got[F(name)] \in 0 .. 255 /\ BitsOf(now.got[F(name)]) = B
  /\ \A f \in DOMAIN r.got : f # F(name) => now.got[f] = r.got[f]

\* Flags that are first in the wire are read as the flags that were written.
LEMMA FlagsRead ==
  ASSUME NEW B \in SUBSET (0 .. 7), NEW rest \in Seq(Items), NEW r, Reading(r), NEW name,
         r.in = Byte(B).wire \o rest
  PROVE  /\ Byte(B) = Written(Byte(B).wire) /\ Byte(B).wire \in Seq(Items)
         /\ GotFlags(Get(r, name, "u8"), r, rest, name, B)
<1>1. PICK n \in 0 .. 255 : Byte(B) = Written(<<Item("u8", n)>>) /\ BitsOf(n) = B
  BY FlagByte
<1>2. Item("u8", n) \in Items /\ n \in Values("u8") /\ GoesWith("u8", "u8")
  BY ByteIsItem
<1>3. PICK item \in Items : item = Item("u8", n)
  BY <1>2
<1>4. Byte(B).wire = <<item>> /\ Byte(B) = Written(<<item>>) /\ <<item>> \in Seq(Items)
  BY <1>1, <1>3 DEF Written
<1>5. r.in = <<Item("u8", n)>> \o rest
  BY <1>3, <1>4
<1>6. PICK now : now = Get(r, name, "u8")
  OBVIOUS
<1>7. GotOne(now, r, rest, name, n)
  <2>1. GoesWith("u8", "u8") /\ n \in Values("u8") /\ rest \in Seq(Items) /\ Reading(r)
        /\ r.in = <<Item("u8", n)>> \o rest
    BY <1>2, <1>5
  <2>2. GotOne(Get(r, name, "u8"), r, rest, name, n)
    BY ONLY <2>1, GetArrives, Zenon
  <2> QED BY <1>6, <2>2
<1>8. now = [in |-> rest, got |-> now.got, ok |-> TRUE]
  BY <1>7 DEF GotOne, Reading
<1>9. Flags(now, name) = B
  <2>1. now.ok /\ now.got[F(name)] = n
    BY <1>7, <1>8 DEF GotOne
  <2> QED BY <1>1, <2>1 DEF Flags
<1>10. GotFlags(now, r, rest, name, B)
  BY <1>1, <1>7, <1>9 DEF GotOne, GotFlags
<1> QED BY <1>4, <1>6, <1>10

\* The reader before a move forgets the one before
LEMMA Forgets ==
  ASSUME NEW r, Reading(r)
  PROVE  [r EXCEPT !.got = [f \in {} |-> 0]] = [in |-> r.in, got |-> [f \in {} |-> 0], ok |-> TRUE]
<1>1. PICK in : in = r.in
  OBVIOUS
<1>2. PICK got : got = r.got
  OBVIOUS
<1>3. r = [in |-> in, got |-> got, ok |-> TRUE]
  BY <1>1, <1>2 DEF Reading
<1>4. PICK none : none = [f \in {} |-> 0]
  OBVIOUS
<1>5. PICK q : q = [r EXCEPT !.got = none]
  OBVIOUS
<1>6. q = [in |-> in, got |-> none, ok |-> TRUE]
  BY <1>3, <1>5
<1> QED BY <1>1, <1>4, <1>5, <1>6

\* A plain move arrives, and if it does not move upward the reader of Q2rePRO
\* takes it for the same.
LEMMA PlainMoveArrives ==
  ASSUME NEW d, IsMove(d), NEW rest \in Seq(Items), NEW r, Reading(r),
         r.in = VanillaWriteMoveDelta(d).wire \o rest
  PROVE  /\ VanillaWriteMoveDelta(d) = Written(VanillaWriteMoveDelta(d).wire)
         /\ VanillaWriteMoveDelta(d).wire \in Seq(Items)
         /\ MoveRead(VanillaReadMoveDelta(r), d, rest)
         /\ 5 \notin MoveFlags(d) => Q2reproReadMoveDelta(r) = VanillaReadMoveDelta(r)
<1> DEFINE B == MoveFlags(d)
           w == WriteRows(PlainMoveRows, B, d.val)
<1>1. B \in SUBSET (0 .. 7)
  BY MoveFlagsAre
<1>2. VanillaMoveOut = PlainMoveRows /\ VanillaMoveIn = PlainMoveRows
  BY PlainMoveOut DEF VanillaMoveIn, VanillaMoveOut
<1>3. ~w.err /\ w.wire \in Seq(Items)
  BY PlainRowsArrive
<1>4. PICK body \in Seq(Items) : body = w.wire
  BY <1>3
<1> HIDE DEF B
<1>5. PICK head : head = Byte(B).wire
  OBVIOUS
<1>6. Byte(B) = Written(head) /\ head \in Seq(Items)
  <2>1. PICK q : q = [in |-> head \o <<>>, got |-> 0, ok |-> TRUE]
    OBVIOUS
  <2>2. Reading(q) /\ q.in = Byte(B).wire \o <<>> /\ <<>> \in Seq(Items)
    BY <1>5, <2>1 DEF Reading
  <2> QED BY <1>1, <1>5, <2>2, FlagsRead
<1>7. VanillaWriteMoveDelta(d) = [err |-> FALSE, wire |-> head \o body]
  <2>1. VanillaWriteMoveDelta(d) = Then(Written(head), w)
    BY <1>2, <1>6 DEF VanillaWriteMoveDelta, B
  <2>2. w.err = FALSE
    BY <1>3 DEF w, WriteRows
  <2> QED BY <1>4, <2>1, <2>2 DEF Then, Written
<1>8. (head \o body) \o rest = head \o (body \o rest) /\ body \o rest \in Seq(Items)
      /\ head \o body \in Seq(Items)
  BY <1>6
<1> DEFINE q == [r EXCEPT !.got = [f \in {} |-> 0]]
           flags == Get(q, "bits", "u8")
<1>9. q = [in |-> head \o (body \o rest), got |-> [f \in {} |-> 0], ok |-> TRUE]
  <2>1. q = [in |-> r.in, got |-> [f \in {} |-> 0], ok |-> TRUE]
    BY Forgets
  <2>2. r.in = head \o (body \o rest)
    BY <1>7, <1>8
  <2> QED BY ONLY <2>1, <2>2
<1> HIDE DEF q
<1>10. PICK got : flags = [in |-> body \o rest, got |-> got, ok |-> TRUE]
                  /\ Flags(flags, "bits") = B
  <2>1. Reading(q) /\ q.in = Byte(B).wire \o (body \o rest)
    BY <1>5, <1>9 DEF Reading
  <2>2. B \in SUBSET (0 .. 7) /\ body \o rest \in Seq(Items)
    BY <1>1, <1>8
  <2>3. GotFlags(Get(q, "bits", "u8"), q, body \o rest, "bits", B)
    BY ONLY <2>1, <2>2, FlagsRead, Zenon
  <2>4. Reading(flags) /\ flags.in = body \o rest /\ Flags(flags, "bits") = B
    BY <2>3 DEF GotFlags
  <2> HIDE DEF flags
  <2> QED BY <2>4, Zenon DEF Reading
<1>11. VanillaReadMoveDelta(r) = ReadRows(flags, PlainMoveRows, B)
  <2>1. VanillaReadMoveDelta(r) = ReadRows(flags, VanillaMoveIn, Flags(flags, "bits"))
    BY DEF VanillaReadMoveDelta, q
  <2> QED BY <1>2, <1>10, <2>1
<1>12. MoveRead(ReadRows([in |-> body \o rest, got |-> got, ok |-> TRUE], PlainMoveRows, B), d,
       rest)
  BY <1>4, PlainRowsArrive DEF B
<1>15. 5 \notin B => Q2reproReadMoveDelta(r) = ReadRows(flags, PlainMoveRows, B)
  <2>1. CM.UP = 5
    BY DEF CM
  <2>2. Q2reproReadMoveDelta(r)
          = IF 5 \in Flags(flags, "bits") THEN OutOfStep(flags)
            ELSE ReadRows(flags, VanillaMoveIn, Flags(flags, "bits"))
    BY <2>1 DEF Q2reproReadMoveDelta, q
  <2> HIDE DEF flags
  <2> QED BY <1>2, <1>10, <2>2
<1> HIDE DEF flags
<1>13. MoveRead(VanillaReadMoveDelta(r), d, rest)
  BY <1>10, <1>11, <1>12, Zenon
<1>14. /\ VanillaWriteMoveDelta(d) = Written(head \o body)
       /\ VanillaWriteMoveDelta(d).wire = head \o body
  BY ONLY <1>7 DEF Written
<1> QED BY <1>8, <1>11, <1>13, <1>14, <1>15 DEF B
-----------------------------------------------------------------------------

\* The buttons of a game are a byte of three bits, and the byte is the sum of them.
LEMMA ButtonsBack ==
  ASSUME NEW v \in GameButtonValues
  PROVE  \E B \in SUBSET {0, 1, 7} : BitsOf(v) = B /\ SumSet({2^b : b \in B}) = v
<1> DEFINE B == {b \in {0, 1, 7} : \/ b = 0 /\ v \in {1, 3, 129, 131}
                                   \/ b = 1 /\ v \in {2, 3, 130, 131}
                                   \/ b = 7 /\ v \in {128, 129, 130, 131}}
<1>1. B \in SUBSET {0, 1, 7} /\ B \in SUBSET (0 .. 15)
  OBVIOUS
<1>6. /\ 0 \in B <=> v \in {1, 3, 129, 131}
      /\ 1 \in B <=> v \in {2, 3, 130, 131}
      /\ 7 \in B <=> v \in {128, 129, 130, 131}
  OBVIOUS
<1> HIDE DEF B
<1>2. PICK S : S = {2^b : b \in B}
  OBVIOUS
<1>3. S \in SUBSET Powers
  BY <1>1, <1>2, PowerOf
<1>4. 2^0 = 1 /\ 2^1 = 2 /\ 2^7 = 128
  BY SMT
<1>5. \A x : x \in S <=> (x = 1 /\ 0 \in B) \/ (x = 2 /\ 1 \in B) \/ (x = 128 /\ 7 \in B)
  <2>1. \A x : x \in S <=> \E b \in B : x = 2^b
    BY <1>2
  <2>2. ASSUME NEW b \in B
        PROVE  (b = 0 /\ 2^b = 1) \/ (b = 1 /\ 2^b = 2) \/ (b = 7 /\ 2^b = 128)
    <3>1. b = 0 \/ b = 1 \/ b = 7
      BY <1>1
    <3>2. CASE b = 0 BY <1>4, <3>2
    <3>3. CASE b = 1 BY <1>4, <3>3
    <3>4. CASE b = 7 BY <1>4, <3>4
    <3> QED BY <3>1, <3>2, <3>3, <3>4
  <2>3. (0 \in B => 2^0 \in S) /\ (1 \in B => 2^1 \in S) /\ (7 \in B => 2^7 \in S)
    BY <1>2
  <2>4. (0 \in B => 1 \in S) /\ (1 \in B => 2 \in S) /\ (7 \in B => 128 \in S)
    BY <1>4, <2>3
  <2>5. \A x \in S : (x = 1 /\ 0 \in B) \/ (x = 2 /\ 1 \in B) \/ (x = 128 /\ 7 \in B)
    BY <2>1, <2>2
  <2> QED BY <2>4, <2>5
<1>7. SumSet(S) = Low(S) + High(S)
  BY <1>3, SumOfPowers
<1>8. Low(S) = (IF 0 \in B THEN 1 ELSE 0) + (IF 1 \in B THEN 2 ELSE 0) + (IF 7 \in B THEN 128 ELSE 0)
  BY <1>5 DEF Low, Term
<1>9. High(S) = 0
  BY <1>5 DEF High, Term
<1>10. SumSet(S) = v
  BY <1>6, <1>7, <1>8, <1>9 DEF GameButtonValues
<1>11. BitsOf(SumSet({2^b : b \in B})) = B
  <2>1. LET m == SumSet({2^b : b \in B})
        IN  /\ m \in Nat /\ m < 65536 /\ (B \subseteq 0 .. 7 => m < 256)
            /\ BitsOf(m) = B
    BY ONLY <1>1, FlagsArrive
  <2> QED BY <2>1
<1> QED BY <1>1, <1>2, <1>10, <1>11

\* Flags that have the same rows present have the same list of rows.
LEMMA PresentSame ==
  ASSUME NEW rows, Len(rows) \in Nat, NEW a, NEW b,
         \A i \in 1 .. Len(rows) : IsPresent(rows[i], a) <=> IsPresent(rows[i], b)
  PROVE  Present(rows, a) = Present(rows, b)
<1>1. PICK f : /\ Present(rows, a) = f[Len(rows)] /\ f[0] = <<>>
               /\ \A i \in 1 .. Len(rows) :
                    f[i] = IF IsPresent(rows[i], a) THEN Append(f[i - 1], rows[i]) ELSE f[i - 1]
  BY PresentSteps
<1>2. PICK g : /\ Present(rows, b) = g[Len(rows)] /\ g[0] = <<>>
               /\ \A i \in 1 .. Len(rows) :
                    g[i] = IF IsPresent(rows[i], b) THEN Append(g[i - 1], rows[i]) ELSE g[i - 1]
  BY PresentSteps
<1>3. PICK S : S = {i \in 0 .. Len(rows) : f[i] # g[i]}
  OBVIOUS
<1>4. S = {}
  <2> SUFFICES ASSUME S # {} PROVE FALSE
    OBVIOUS
  <2>1. S \in SUBSET Nat
    BY <1>3
  <2>2. PICK i \in S : \A k \in S : i <= k
    BY <2>1, LeastElement
  <2>3. i \in 0 .. Len(rows) /\ f[i] # g[i]
    BY <1>3
  <2>4. CASE i = 0
    BY <1>1, <1>2, <2>3, <2>4
  <2>5. CASE i # 0
    <3>1. i \in 1 .. Len(rows) /\ i - 1 \in 0 .. Len(rows) /\ ~(i <= i - 1)
      BY <2>3, <2>5
    <3>2. f[i - 1] = g[i - 1]
      BY <1>3, <2>2, <3>1
    <3> QED BY <1>1, <1>2, <2>3, <3>1, <3>2
  <2> QED BY <2>4, <2>5
<1> QED BY <1>1, <1>2, <1>3, <1>4

Components == {<<"angles", 0>>, <<"angles", 1>>, <<"angles", 2>>, <<"move", 0>>, <<"move", 1>>,
               <<"move", 2>>}
\* The rows of a packed move, one by one.
LEMMA PackedRowsAre ==
  /\ PackedMoveRows[1] = MoveRow({0, 13}, {}, <<"angles", 0>>, "by64")
  /\ PackedMoveRows[2] = MoveRow({0}, {13}, <<"angles", 0>>, "i16")
  /\ PackedMoveRows[3] = MoveRow({1, 14}, {}, <<"angles", 1>>, "by256")
  /\ PackedMoveRows[4] = MoveRow({1}, {14}, <<"angles", 1>>, "i16")
  /\ PackedMoveRows[5] = MoveRow({2}, {}, <<"angles", 2>>, "i16")
  /\ PackedMoveRows[6] = MoveRow({3, 10}, {}, <<"move", 0>>, "by5")
  /\ PackedMoveRows[7] = MoveRow({3}, {10}, <<"move", 0>>, "i16")
  /\ PackedMoveRows[8] = MoveRow({4, 11}, {}, <<"move", 1>>, "by5")
  /\ PackedMoveRows[9] = MoveRow({4}, {11}, <<"move", 1>>, "i16")
  /\ PackedMoveRows[10] = MoveRow({5, 12}, {}, <<"move", 2>>, "by5")
  /\ PackedMoveRows[11] = MoveRow({5}, {12}, <<"move", 2>>, "i16")
  BY DEF PackedMoveRows

PackedSuits(bits, val) ==
  /\ 13 \in bits => val[<<"angles", 0>>] \in Values("by64")
  /\ 14 \in bits => val[<<"angles", 1>>] \in Values("by256")
  /\ 10 \in bits => val[<<"move", 0>>] \in Values("by5")
  /\ 11 \in bits => val[<<"move", 1>>] \in Values("by5")
  /\ 12 \in bits => val[<<"move", 2>>] \in Values("by5")

\* A move that can be divided as its flags say suits the packed rows.
LEMMA PackedRowsSuit ==
  ASSUME NEW d, IsMove(d), NEW bits, PackedSuits(bits, d.val)
  PROVE  Suitable(PackedMoveRows, PackedMoveRows, bits, d.val)
<1>1. \A f \in Components : d.val[f] \in Values("i16")
  BY MoveValues DEF Components
<1>2. ASSUME NEW i \in 1 .. 11, IsPresent(PackedMoveRows[i], bits)
      PROVE  /\ PackedMoveRows[i].type \in {"i16", "by5", "by64", "by256"}
             /\ d.val[PackedMoveRows[i].field] \in Values(PackedMoveRows[i].type)
  <2>1. CASE i \in {2, 4, 5, 7, 9, 11}
    <3>1. PackedMoveRows[i].type = "i16" /\ PackedMoveRows[i].field \in Components
      BY <2>1, PackedRowsAre DEF MoveRow, Components
    <3> QED BY <1>1, <3>1
  <2>2. CASE i = 1
    BY <1>2, <2>2, PackedRowsAre DEF MoveRow, IsPresent, PackedSuits
  <2>3. CASE i = 3
    BY <1>2, <2>3, PackedRowsAre DEF MoveRow, IsPresent, PackedSuits
  <2>4. CASE i = 6
    BY <1>2, <2>4, PackedRowsAre DEF MoveRow, IsPresent, PackedSuits
  <2>5. CASE i = 8
    BY <1>2, <2>5, PackedRowsAre DEF MoveRow, IsPresent, PackedSuits
  <2>6. CASE i = 10
    BY <1>2, <2>6, PackedRowsAre DEF MoveRow, IsPresent, PackedSuits
  <2> QED BY <2>1, <2>2, <2>3, <2>4, <2>5, <2>6
<1>3. Len(PackedMoveRows) = 11
  BY PackedMoveTable
<1> QED BY <1>2, <1>3, Alike DEF Suitable

\* So its components arrive.
LEMMA PackedRowsArrive ==
  ASSUME NEW d, IsMove(d), NEW bits, PackedSuits(bits, d.val), NEW rest \in Seq(Items), NEW got
  PROVE  LET w   == WriteRows(PackedMoveRows, bits, d.val)
             now == ReadRows([in |-> w.wire \o rest, got |-> got, ok |-> TRUE], PackedMoveRows,
                 bits)
         IN  /\ ~w.err /\ w.wire \in Seq(Items)
             /\ HasRead(now, got, rest, PackedMoveRows, bits, d.val)
<1>1. PICK t : t = PackedMoveRows
  OBVIOUS
<1>2. PICK R : t \in Seq(R)
  BY <1>1, PackedMoveTable
<1>3. PICK val : val = d.val
  OBVIOUS
<1>4. Matched(t, t) /\ Alone(t) /\ Suitable(t, t, bits, val)
  BY <1>1, <1>3, PackedMoveAlone, PackedRowsSuit DEF Matched
<1>5. LET v   == WriteRows(t, bits, val)
          new == ReadRows([in |-> v.wire \o rest, got |-> got, ok |-> TRUE], t, bits)
      IN  ~v.err /\ v.wire \in Seq(Items) /\ HasRead(new, got, rest, t, bits, val)
  <2>1. t \in Seq(R) /\ Matched(t, t) /\ Alone(t) /\ Suitable(t, t, bits, val)
        /\ rest \in Seq(Items)
    BY <1>2, <1>4
  <2> QED BY ONLY <2>1, AgreeingRowsArrive, Zenon
<1> QED BY <1>1, <1>3, <1>5

\* What was read of the rows: the components that were sent, and no others
LEMMA PackedComponents ==
  ASSUME NEW d, NEW bits, \A b \in 0 .. 7 : b \in bits <=> b \in MoveFlags(d),
         NEW now, NEW got, NEW rest, HasRead(now, got, rest, PackedMoveRows, bits, d.val)
  PROVE  /\ Reading(now) /\ now.in = rest
         /\ \A f \in Components : f \in d.set => f \in DOMAIN now.got /\ now.got[f] = d.val[f]
         /\ \A f \in DOMAIN got : f \notin Components => f \in DOMAIN now.got /\ now.got[f] = got[f]
         /\ \A f \in DOMAIN now.got : f \in DOMAIN got \/ f \in Components
<1> DEFINE there(i) == IsPresent(PackedMoveRows[i], bits)
<1>1. Len(PackedMoveRows) = 11
  BY PackedMoveTable
<1>2. \A i \in 1 .. 11 : PackedMoveRows[i].field \in Components
  BY PackedRowsAre DEF MoveRow, Components
<1>3. \A i \in 1 .. 11 : there(i) =>
        /\ PackedMoveRows[i].field \in DOMAIN now.got
        /\ now.got[PackedMoveRows[i].field] = d.val[PackedMoveRows[i].field]
  BY <1>1 DEF HasRead
<1>4. ASSUME NEW f \in Components, f \in d.set
      PROVE  \E i \in 1 .. 11 : there(i) /\ PackedMoveRows[i].field = f
  <2>1. CASE f = <<"angles", 0>>
    <3>1. 0 \in bits
      BY <1>4, <2>1, MoveFlagsAre
    <3>2. there(1) \/ there(2)
      BY <3>1, PackedRowsAre DEF MoveRow, IsPresent
    <3>3. PackedMoveRows[1].field = f /\ PackedMoveRows[2].field = f
      BY <2>1, PackedRowsAre DEF MoveRow
    <3> QED BY <3>2, <3>3
  <2>2. CASE f = <<"angles", 1>>
    <3>1. 1 \in bits
      BY <1>4, <2>2, MoveFlagsAre
    <3>2. there(3) \/ there(4)
      BY <3>1, PackedRowsAre DEF MoveRow, IsPresent
    <3>3. PackedMoveRows[3].field = f /\ PackedMoveRows[4].field = f
      BY <2>2, PackedRowsAre DEF MoveRow
    <3> QED BY <3>2, <3>3
  <2>3. CASE f = <<"angles", 2>>
    <3>1. 2 \in bits
      BY <1>4, <2>3, MoveFlagsAre
    <3>2. there(5)
      BY <3>1, PackedRowsAre DEF MoveRow, IsPresent
    <3>3. PackedMoveRows[5].field = f
      BY <2>3, PackedRowsAre DEF MoveRow
    <3> QED BY <3>2, <3>3
  <2>4. CASE f = <<"move", 0>>
    <3>1. 3 \in bits
      BY <1>4, <2>4, MoveFlagsAre
    <3>2. there(6) \/ there(7)
      BY <3>1, PackedRowsAre DEF MoveRow, IsPresent
    <3>3. PackedMoveRows[6].field = f /\ PackedMoveRows[7].field = f
      BY <2>4, PackedRowsAre DEF MoveRow
    <3> QED BY <3>2, <3>3
  <2>5. CASE f = <<"move", 1>>
    <3>1. 4 \in bits
      BY <1>4, <2>5, MoveFlagsAre
    <3>2. there(8) \/ there(9)
      BY <3>1, PackedRowsAre DEF MoveRow, IsPresent
    <3>3. PackedMoveRows[8].field = f /\ PackedMoveRows[9].field = f
      BY <2>5, PackedRowsAre DEF MoveRow
    <3> QED BY <3>2, <3>3
  <2>6. CASE f = <<"move", 2>>
    <3>1. 5 \in bits
      BY <1>4, <2>6, MoveFlagsAre
    <3>2. there(10) \/ there(11)
      BY <3>1, PackedRowsAre DEF MoveRow, IsPresent
    <3>3. PackedMoveRows[10].field = f /\ PackedMoveRows[11].field = f
      BY <2>6, PackedRowsAre DEF MoveRow
    <3> QED BY <3>2, <3>3
  <2> QED BY <2>1, <2>2, <2>3, <2>4, <2>5, <2>6 DEF Components
<1>5. ASSUME NEW f \in DOMAIN got, f \notin Components
      PROVE  f \in DOMAIN now.got /\ now.got[f] = got[f]
  <2>1. \A i \in 1 .. 11 : PackedMoveRows[i].field # f
    BY <1>2, <1>5
  <2> QED BY <1>1, <2>1 DEF HasRead
<1>6. ASSUME NEW f \in DOMAIN now.got PROVE f \in DOMAIN got \/ f \in Components
  <2>1. f \in DOMAIN got \/ \E i \in 1 .. 11 : PackedMoveRows[i].field = f
    BY <1>1 DEF HasRead
  <2> QED BY <1>2, <2>1
<1>7. Reading(now) /\ now.in = rest
  BY DEF HasRead
<1> HIDE DEF there
<1>8. ASSUME NEW f \in Components, f \in d.set
      PROVE  f \in DOMAIN now.got /\ now.got[f] = d.val[f]
  <2>1. PICK i \in 1 .. 11 : there(i) /\ PackedMoveRows[i].field = f
    BY <1>4, <1>8
  <2> QED BY <1>3, <2>1
<1> QED BY <1>5, <1>6, <1>7, <1>8
-----------------------------------------------------------------------------
\* The parts of a move one after the other
LEMMA WholeRows ==
  ASSUME NEW rows, NEW bits, NEW val, ~WriteRows(rows, bits, val).err
  PROVE  WriteRows(rows, bits, val) = Written(WriteRows(rows, bits, val).wire)
  BY DEF WriteRows, Written

\* One part after the other writes what both write.
LEMMA PartAfter ==
  ASSUME NEW a, NEW b PROVE Then(Written(a), Written(b)) = Written(a \o b)
  BY DEF Then, Written

\* Five parts in turn write what all of them write.
LEMMA FiveParts ==
  ASSUME NEW a \in Seq(Items), NEW b \in Seq(Items), NEW c \in Seq(Items), NEW d \in Seq(Items),
         NEW e \in Seq(Items)
  PROVE  InTurn(<<Written(a), Written(b), Written(c), Written(d), Written(e)>>)
           = Written(a \o (b \o (c \o (d \o e))))
<1>1. PICK parts : parts = <<Written(a), Written(b), Written(c), Written(d), Written(e)>>
  OBVIOUS
<1>2. /\ Len(parts) = 5 /\ parts[1] = Written(a) /\ parts[2] = Written(b)
      /\ parts[3] = Written(c) /\ parts[4] = Written(d) /\ parts[5] = Written(e)
  BY <1>1
<1>3. PICK f : /\ InTurn(parts) = f[Len(parts)] /\ f[0] = Written(<<>>)
               /\ \A i \in 1 .. Len(parts) : f[i] = Then(f[i - 1], parts[i])
  <2>1. Len(parts) \in Nat
    BY <1>2
  <2> QED BY <2>1, InTurnSteps
<1>4. /\ f[1] = Then(f[0], parts[1]) /\ f[2] = Then(f[1], parts[2]) /\ f[3] = Then(f[2], parts[3])
      /\ f[4] = Then(f[3], parts[4]) /\ f[5] = Then(f[4], parts[5])
  BY <1>2, <1>3
<1>5. PICK cd \in Seq(Items) : cd = c \o d
  <2>1. c \o d \in Seq(Items)
    OBVIOUS
  <2> QED BY <2>1, Zenon
<1>6. PICK bcd \in Seq(Items) : bcd = b \o cd
  <2>1. b \o cd \in Seq(Items)
    OBVIOUS
  <2> QED BY <2>1, Zenon
<1>7. <<>> \o a = a
  OBVIOUS
<1>8. ((a \o b) \o c) \o d = a \o bcd
  <2>1. (a \o b) \o c = a \o (b \o c)
    OBVIOUS
  <2>2. PICK bc \in Seq(Items) : bc = b \o c
    <3>1. b \o c \in Seq(Items)
      OBVIOUS
    <3> QED BY <3>1, Zenon
  <2>3. (a \o bc) \o d = a \o (bc \o d)
    OBVIOUS
  <2>4. (b \o c) \o d = b \o cd
    <3>1. (b \o c) \o d = b \o (c \o d)
      BY SMTT(30)
    <3> QED BY <1>5, <3>1
  <2> QED BY ONLY <1>6, <2>1, <2>2, <2>3, <2>4
<1>9. (a \o bcd) \o e = a \o (b \o (c \o (d \o e)))
  <2>1. (a \o bcd) \o e = a \o (bcd \o e)
    BY SMTT(30)
  <2>2. (b \o cd) \o e = b \o (cd \o e)
    BY SMTT(30)
  <2>3. (c \o d) \o e = c \o (d \o e)
    BY SMTT(30)
  <2> QED BY ONLY <1>5, <1>6, <2>1, <2>2, <2>3
<1>10. f[1] = Written(a)
  <2>1. f[1] = Then(Written(<<>>), Written(a))
    BY <1>2, <1>3, <1>4
  <2>2. Then(Written(<<>>), Written(a)) = Written(<<>> \o a)
    BY PartAfter
  <2> QED BY ONLY <1>7, <2>1, <2>2
<1>11. f[2] = Written(a \o b)
  BY <1>2, <1>4, <1>10, PartAfter
<1>12. f[3] = Written((a \o b) \o c)
  BY <1>2, <1>4, <1>11, PartAfter
<1>13. f[4] = Written(((a \o b) \o c) \o d)
  BY <1>2, <1>4, <1>12, PartAfter
<1>14. f[5] = Written((((a \o b) \o c) \o d) \o e)
  BY <1>2, <1>4, <1>13, PartAfter
<1> QED BY ONLY <1>1, <1>2, <1>3, <1>8, <1>9, <1>14

\* A reader that had got some fields took some more of those named, and no others
Took(now, got, rest, sent, fields, val) ==
  /\ Reading(now) /\ now.in = rest
  /\ \A f \in sent : f \in DOMAIN now.got /\ now.got[f] = val[f]
  /\ \A f \in DOMAIN got : f \notin fields => f \in DOMAIN now.got /\ now.got[f] = got[f]
  /\ \A f \in DOMAIN now.got : f \in DOMAIN got \/ f \in fields

\* A reader that takes some fields and then others has taken both.
LEMMA TookBoth ==
  ASSUME NEW a, NEW b, NEW got, NEW ra, NEW rb, NEW sa, NEW fa, NEW sb, NEW fb, NEW val,
         sa \subseteq fa, sb \subseteq fb, fa \cap fb = {},
         Took(a, got, ra, sa, fa, val), Took(b, a.got, rb, sb, fb, val)
  PROVE  Took(b, got, rb, sa \cup sb, fa \cup fb, val)
  BY DEF Took

\* The buttons arrive, if they are sent.
LEMMA ButtonsArrive ==
  ASSUME NEW B, NEW val, val[F("buttons")] \in 0 .. 255, NEW rest \in Seq(Items), NEW got
  PROVE  LET w    == WriteRows(ButtonsRows, B, val)
             now  == ReadRows([in |-> w.wire \o rest, got |-> got, ok |-> TRUE], ButtonsRows, B)
             sent == IF 6 \in B THEN {F("buttons")} ELSE {}
         IN  /\ ~w.err /\ w.wire \in Seq(Items)
             /\ w.wire = IF 6 \in B THEN <<Item("u8", val[F("buttons")])>> ELSE <<>>
             /\ Took(now, got, rest, sent, sent, val)
<1>1. PICK t : t = ButtonsRows
  OBVIOUS
<1>2. PICK R : t \in Seq(R)
  BY <1>1, ButtonsMove
<1>3. Len(t) = 1 /\ t[1].field = F("buttons") /\ t[1].type = "u8"
      /\ t[1] = MoveRow({6}, {}, F("buttons"), "u8")
      /\ Alone(t)
  BY <1>1, ButtonsMove DEF ButtonsRows, MoveRow, F
<1>4. IsPresent(t[1], B) <=> 6 \in B
  BY <1>3 DEF IsPresent, MoveRow
<1>5. Matched(t, t) /\ Suitable(t, t, B, val)
  <2>1. GoesWith("u8", "u8") /\ val[F("buttons")] \in Values("u8")
    BY ByteIsItem
  <2>2. \A i \in 1 .. Len(t) : i = 1
    BY <1>3
  <2> QED BY <1>3, <2>1, <2>2 DEF Matched, Suitable
<1> DEFINE w   == WriteRows(t, B, val)
           now == ReadRows([in |-> w.wire \o rest, got |-> got, ok |-> TRUE], t, B)
           sent == IF 6 \in B THEN {F("buttons")} ELSE {}
<1>6. ~w.err /\ w.wire \in Seq(Items) /\ HasRead(now, got, rest, t, B, val)
  <2>1. t \in Seq(R) /\ Matched(t, t) /\ Alone(t) /\ Suitable(t, t, B, val) /\ rest \in Seq(Items)
    BY <1>2, <1>3, <1>5
  <2> QED BY ONLY <2>1, AgreeingRowsArrive, Zenon
<1>7. Present(t, B) = IF 6 \in B THEN <<t[1]>> ELSE <<>>
  <2>1. PICK f : /\ Present(t, B) = f[Len(t)] /\ f[0] = <<>>
                 /\ \A i \in 1 .. Len(t) :
                      f[i] = IF IsPresent(t[i], B) THEN Append(f[i - 1], t[i]) ELSE f[i - 1]
    <3>1. Len(t) \in Nat
      BY <1>3
    <3> QED BY ONLY <3>1, PresentSteps
  <2>2. f[1] = IF IsPresent(t[1], B) THEN Append(f[0], t[1]) ELSE f[0]
    <3>1. 1 \in 1 .. Len(t) /\ 1 - 1 = 0
      BY <1>3
    <3> QED BY <2>1, <3>1
  <2> QED BY <1>3, <1>4, <2>1, <2>2
<1>8. w.wire = IF 6 \in B THEN <<Item("u8", val[F("buttons")])>> ELSE <<>>
  <2>1. CASE 6 \in B
    <3>1. PICK x : x = t[1]
      OBVIOUS
    <3>2. Present(t, B) = <<x>> /\ x.type = "u8" /\ x.field = F("buttons")
      BY <1>3, <1>7, <2>1, <3>1
    <3>3. {i \in DOMAIN <<x>> : <<x>>[i].type = "u8max" /\ val[<<x>>[i].field] > 255} = {}
      BY <3>2
    <3>4. w.wire = [i \in 1 .. 1 |-> Item(<<x>>[i].type, val[<<x>>[i].field])]
      BY <3>2, <3>3 DEF WriteRows
    <3>5. <<x>>[1] = x
      OBVIOUS
    <3>6. w.wire = [i \in 1 .. 1 |-> Item("u8", val[F("buttons")])]
      BY <3>2, <3>4, <3>5
    <3> QED BY <2>1, <3>6
  <2>2. CASE 6 \notin B
    <3>1. Present(t, B) = <<>>
      BY <1>7, <2>2
    <3>2. w.wire = <<>>
      BY <3>1 DEF WriteRows
    <3> QED BY <2>2, <3>2
  <2> QED BY <2>1, <2>2
<1> HIDE DEF w, now
<1>9. Took(now, got, rest, sent, sent, val)
  <2>1. 6 \in B => F("buttons") \in DOMAIN now.got /\ now.got[F("buttons")] = val[F("buttons")]
    BY <1>3, <1>4, <1>6 DEF HasRead
  <2>2. \A f \in DOMAIN got : f \notin sent => f \in DOMAIN now.got /\ now.got[f] = got[f]
    BY <1>3, <1>4, <1>6 DEF HasRead
  <2>3. \A f \in DOMAIN now.got : f \in DOMAIN got \/ f \in sent
    BY <1>3, <1>4, <1>6 DEF HasRead
  <2>4. Reading(now) /\ now.in = rest
    BY <1>6 DEF HasRead
  <2> QED BY <2>1, <2>2, <2>3, <2>4 DEF Took
<1> QED BY <1>1, <1>6, <1>8, <1>9 DEF w, now
-----------------------------------------------------------------------------
EndFields == {<<"impulse", 0>>, <<"msec", 0>>, <<"lightlevel", 0>>}

\* The fields at the end arrive.
LEMMA EndArrives ==
  ASSUME NEW d, NEW val, \A f \in EndFields : val[f] \in 0 .. 255, NEW rest \in Seq(Items), NEW got
  PROVE  LET w   == WriteRows(EndMoveRows, MoveFlags(d), val)
             now == ReadRows([in |-> w.wire \o rest, got |-> got, ok |-> TRUE], EndMoveRows,
                             MoveFlags(d))
         IN  /\ ~w.err /\ w.wire \in Seq(Items)
             /\ Took(now, got, rest, {f \in EndFields : f[1] = "impulse" => f \in d.set},
                EndFields, val)
<1>1. PICK t : t = EndMoveRows
  OBVIOUS
<1>2. PICK R : t \in Seq(R)
  BY <1>1, EndMove
<1>3. /\ Len(t) = 3 /\ t[1] = MoveRow({7}, {}, <<"impulse", 0>>, "u8")
      /\ t[2] = MoveRow({}, {}, <<"msec", 0>>, "u8")
      /\ t[3] = MoveRow({}, {}, <<"lightlevel", 0>>, "u8")
      /\ Alone(t)
  BY <1>1, EndMove DEF EndMoveRows
<1>4. PICK B : B = MoveFlags(d)
  OBVIOUS
<1>5. /\ 7 \in B => IsPresent(t[1], B)
      /\ IsPresent(t[2], B) /\ IsPresent(t[3], B)
      /\ t[1].field = <<"impulse", 0>> /\ t[2].field = <<"msec", 0>>
      /\ t[3].field = <<"lightlevel", 0>>
  BY <1>3 DEF IsPresent, MoveRow
<1>6. Matched(t, t) /\ Suitable(t, t, B, val)
  <2>1. \A i \in 1 .. Len(t) : t[i].type = "u8" /\ t[i].field \in EndFields
    BY <1>3 DEF MoveRow, EndFields
  <2>2. ASSUME NEW i \in 1 .. Len(t)
        PROVE  GoesWith(t[i].type, t[i].type) /\ val[t[i].field] \in Values(t[i].type)
    <3>1. PICK v \in 0 .. 255 : v = val[t[i].field]
      BY <2>1
    <3>2. v \in Values("u8") /\ GoesWith("u8", "u8")
      BY ByteIsItem
    <3> QED BY <2>1, <3>1, <3>2
  <2> QED BY <2>2 DEF Matched, Suitable
<1> DEFINE w   == WriteRows(t, B, val)
           now == ReadRows([in |-> w.wire \o rest, got |-> got, ok |-> TRUE], t, B)
           sent == {f \in EndFields : f[1] = "impulse" => f \in d.set}
<1>7. ~w.err /\ w.wire \in Seq(Items) /\ HasRead(now, got, rest, t, B, val)
  <2>1. t \in Seq(R) /\ Matched(t, t) /\ Alone(t) /\ Suitable(t, t, B, val) /\ rest \in Seq(Items)
    BY <1>2, <1>3, <1>6
  <2> QED BY ONLY <2>1, AgreeingRowsArrive, Zenon
<1> HIDE DEF w, now
<1>8. \A i \in 1 .. 3 : t[i].field \in EndFields
  BY <1>3 DEF MoveRow, EndFields
<1>9. Took(now, got, rest, sent, EndFields, val)
  <2>1. ASSUME NEW i \in 1 .. 3, IsPresent(t[i], B)
        PROVE  t[i].field \in DOMAIN now.got /\ now.got[t[i].field] = val[t[i].field]
    BY <1>3, <1>7, <2>1 DEF HasRead
  <2>2. ASSUME NEW f \in sent PROVE f \in DOMAIN now.got /\ now.got[f] = val[f]
    <3>1. CASE f = <<"impulse", 0>>
      <4>1. 7 \in B
        BY <1>4, <3>1, MoveFlagsAre
      <4> QED BY <1>5, <2>1, <3>1, <4>1
    <3>2. CASE f = <<"msec", 0>>
      BY <1>5, <2>1, <3>2
    <3>3. CASE f = <<"lightlevel", 0>>
      BY <1>5, <2>1, <3>3
    <3> QED BY <3>1, <3>2, <3>3 DEF EndFields
  <2>3. \A f \in DOMAIN got : f \notin EndFields => f \in DOMAIN now.got /\ now.got[f] = got[f]
    BY <1>3, <1>7, <1>8 DEF HasRead
  <2>4. \A f \in DOMAIN now.got : f \in DOMAIN got \/ f \in EndFields
    BY <1>3, <1>7, <1>8 DEF HasRead
  <2>5. Reading(now) /\ now.in = rest
    BY <1>7 DEF HasRead
  <2> HIDE DEF sent
  <2> QED BY <2>2, <2>3, <2>4, <2>5 DEF Took
<1> QED BY <1>1, <1>4, <1>7, <1>9 DEF w, now

\* With the bits of compression, whatever they are, the components arrive.
LEMMA ComponentsArrive ==
  ASSUME NEW d, IsMove(d), NEW bits, \A b \in 0 .. 7 : b \in bits <=> b \in MoveFlags(d),
         PackedSuits(bits, d.val), NEW rest \in Seq(Items), NEW got
  PROVE  LET w   == WriteRows(PackedMoveRows, bits, d.val)
             now == ReadRows([in |-> w.wire \o rest, got |-> got, ok |-> TRUE], PackedMoveRows,
                 bits)
         IN  /\ ~w.err /\ w.wire \in Seq(Items)
             /\ Took(now, got, rest, Components \cap d.set, Components, d.val)
<1> DEFINE w   == WriteRows(PackedMoveRows, bits, d.val)
           now == ReadRows([in |-> w.wire \o rest, got |-> got, ok |-> TRUE], PackedMoveRows, bits)
<1>1. ~w.err /\ w.wire \in Seq(Items) /\ HasRead(now, got, rest, PackedMoveRows, bits, d.val)
  BY PackedRowsArrive
<1> HIDE DEF w, now
<1>2. /\ Reading(now) /\ now.in = rest
      /\ \A f \in Components : f \in d.set => f \in DOMAIN now.got /\ now.got[f] = d.val[f]
      /\ \A f \in DOMAIN got : f \notin Components => f \in DOMAIN now.got /\ now.got[f] = got[f]
      /\ \A f \in DOMAIN now.got : f \in DOMAIN got \/ f \in Components
  BY <1>1, PackedComponents
<1>3. Took(now, got, rest, Components \cap d.set, Components, d.val)
  BY <1>2 DEF Took
<1> QED BY <1>1, <1>3 DEF w, now

\* The bits of compression share a byte with the buttons, and each is set only for a value
\* that its row carries.
LEMMA CompressionSuits ==
  ASSUME NEW d, IsMove(d), FivesFit(d), NEW V \in SUBSET {0, 1, 7}
  PROVE  LET B == MoveFlags(d)
             Pressed == V \cup Compressed(d, B)
             bits == B \cup {8 + b : b \in Pressed}
         IN  /\ Pressed \in SUBSET (0 .. 7) /\ Pressed \ (2 .. 6) = V
             /\ \A b \in 0 .. 7 : b \in bits <=> b \in B
             /\ PackedSuits(bits, d.val)
<1> DEFINE B == MoveFlags(d)
           C == Compressed(d, B)
           Pressed == V \cup C
           bits == B \cup {8 + b : b \in Pressed}
<1>1. B \in SUBSET (0 .. 7)
  BY MoveFlagsAre
<1> HIDE DEF B
<1>2. DBL.FORWARD = 2 /\ DBL.SIDE = 3 /\ DBL.UP = 4 /\ DBL.ANGLE1 = 5 /\ DBL.ANGLE2 = 6
  BY DEF DBL
<1>3. C \in SUBSET {2, 3, 4, 5, 6}
  BY <1>2 DEF Compressed, FlagIf
<1>4. /\ 2 \in C => d.val[<<"move", 0>>] % 5 = 0
      /\ 3 \in C => d.val[<<"move", 1>>] % 5 = 0
      /\ 4 \in C => d.val[<<"move", 2>>] % 5 = 0
  BY <1>2 DEF Compressed, FlagIf
<1>5. /\ Component(2) = <<"move", 0>> /\ Component(3) = <<"move", 1>>
         /\ Component(4) = <<"move", 2>>
      /\ Component(5) = <<"angles", 0>> /\ Component(6) = <<"angles", 1>>
      /\ Small(2) = "by5" /\ Small(3) = "by5" /\ Small(4) = "by5" /\ Small(5) = "by64"
      /\ Small(6) = "by256"
  BY <1>2 DEF Component, Small
<1> HIDE DEF C
<1>6. \A b \in Pressed : b \in 0 .. 7
  BY <1>3
<1>7. Pressed \ (2 .. 6) = V
  <2>1. \A x \in {2, 3, 4, 5, 6} : x \in 2 .. 6
    OBVIOUS
  <2>2. \A x \in {0, 1, 7} : x \notin 2 .. 6
    OBVIOUS
  <2> QED BY <1>3, <2>1, <2>2
<1> HIDE DEF Pressed
<1>8. \A b \in 0 .. 7 : b \in bits <=> b \in B
  BY <1>6
<1>9. /\ 13 \in bits => 5 \in C
      /\ 14 \in bits => 6 \in C
      /\ 10 \in bits => 2 \in C
      /\ 11 \in bits => 3 \in C
      /\ 12 \in bits => 4 \in C
  <2>1. \A x \in 8 .. 15 : x \in bits => x - 8 \in Pressed
    <3> SUFFICES ASSUME NEW x \in 8 .. 15, x \in bits PROVE x - 8 \in Pressed
      OBVIOUS
    <3>1. x \notin B
      BY <1>1
    <3>2. PICK b \in Pressed : x = 8 + b
      BY <3>1
    <3>3. x - 8 = b
      BY <1>6, <3>2
    <3> QED BY <3>3
  <2>2. \A x \in Pressed : x \in {2, 3, 4, 5, 6} => x \in C
    BY DEF Pressed
  <2> QED BY <2>1, <2>2
<1> HIDE DEF bits
<1>10. \A f \in Components : d.val[f] \in Int /\ -32768 <= d.val[f] /\ d.val[f] < 32768
  BY MoveValues, SMTT(30) DEF Components
<1>11. ASSUME NEW b \in C PROVE d.val[Component(b)] \in Values(Small(b))
  <2>1. b \in Compressed(d, B) /\ b \in {2, 3, 4, 5, 6}
    BY <1>3, <1>11 DEF C
  <2>2. d.val[Component(b)] \in Int
    BY <1>5, <1>10, <2>1 DEF Components
  <2>3. IF b \in {DBL.ANGLE1, DBL.ANGLE2}
        THEN -32768 <= d.val[Component(b)] /\ d.val[Component(b)] < 32768
        ELSE -640 <= d.val[Component(b)] /\ d.val[Component(b)] < 640
    <3>1. CASE b \in {DBL.ANGLE1, DBL.ANGLE2}
      BY <1>5, <1>10, <2>1, <3>1 DEF Components
    <3>2. CASE b \notin {DBL.ANGLE1, DBL.ANGLE2}
      BY <1>2, <1>4, <1>5, <1>10, <1>11, <2>1, <3>2 DEF Components, FivesFit, Vec
    <3> QED BY <3>1, <3>2
  <2> QED BY <2>1, <2>2, <2>3, CompressedHolds
<1>12. PackedSuits(bits, d.val)
  BY <1>5, <1>9, <1>11 DEF PackedSuits
<1> QED BY <1>6, <1>7, <1>8, <1>12 DEF Pressed, B, C, bits
-----------------------------------------------------------------------------
\* The values of a move, with the number in which the buttons are sent
SentAs(d, n) == [f \in MoveWhole |-> IF f = F("buttons") THEN n ELSE d.val[f]]
SentButtons(d) == IF 6 \in MoveFlags(d) THEN {F("buttons")} ELSE {}
SentComponents(d) == Components \cap d.set
SentEnd(d) == {f \in EndFields : f[1] = "impulse" => f \in d.set}

\* What is sent of a packed move is the move but for its buttons.
LEMMA SentAsIs ==
  ASSUME NEW d, NEW n
  PROVE  /\ SentAs(d, n)[F("buttons")] = n
         /\ \A f \in Components \cup EndFields : SentAs(d, n)[f] = d.val[f] /\ f # F("buttons")
         /\ \A f \in MoveWhole : f \in Components \/ f \in EndFields \/ f = F("buttons")
         /\ F("buttons") \notin Components /\ F("buttons") \notin EndFields
         /\ Components \cap EndFields = {}
  BY MoveWholeIs DEF SentAs, Components, EndFields

\* The fields at the end of a move are bytes.
LEMMA EndValues ==
  ASSUME NEW d, IsMove(d) PROVE \A f \in EndFields : d.val[f] \in 0 .. 255
<1> SUFFICES ASSUME NEW f \in EndFields PROVE d.val[f] \in 0 .. 255
  OBVIOUS
<1>1. f \in {<<"buttons", 0>>, <<"impulse", 0>>, <<"msec", 0>>, <<"lightlevel", 0>>}
  BY DEF EndFields
<1> QED BY <1>1, MoveValues

\* What was taken depends on the values of the fields sent only.
LEMMA TookSame ==
  ASSUME NEW now, NEW got, NEW rest, NEW fields, NEW sent, NEW v, NEW w,
         Took(now, got, rest, sent, fields, v), \A f \in sent : v[f] = w[f]
  PROVE  Took(now, got, rest, sent, fields, w)
  BY DEF Took

\* At the end the bits of compression are taken from the buttons
LEMMA PackedFinish ==
  ASSUME NEW d, IsMove(d), NEW n, NEW V, BitsOf(n) \ (2 .. 6) = V,
         SumSet({2^b : b \in V}) = d.val[F("buttons")],
         NEW q, NEW got, F("buttons") \notin DOMAIN got, NEW rest,
         Took(q, got, rest, (SentButtons(d) \cup SentComponents(d)) \cup SentEnd(d),
              (SentButtons(d) \cup Components) \cup EndFields, SentAs(d, n))
  PROVE  MoveRead(GameButtons(q), d, rest)
<1> DEFINE sent == (SentButtons(d) \cup SentComponents(d)) \cup SentEnd(d)
           fields == (SentButtons(d) \cup Components) \cup EndFields
<1>1. /\ Reading(q) /\ q.in = rest
      /\ \A f \in sent : f \in DOMAIN q.got /\ q.got[f] = SentAs(d, n)[f]
      /\ \A f \in DOMAIN q.got : f \in DOMAIN got \/ f \in fields
  BY DEF Took
<1>2. q.ok
  <2>1. PICK a : a = q.in
    OBVIOUS
  <2>2. PICK b : b = q.got
    OBVIOUS
  <2>3. q = [in |-> a, got |-> b, ok |-> TRUE]
    BY <1>1, <2>1, <2>2 DEF Reading
  <2> QED BY <2>3
<1>3. 6 \in MoveFlags(d) <=> F("buttons") \in d.set
  BY MoveFlagsAre DEF F
<1>4. ASSUME NEW f \in MoveWhole, f \in d.set \cup {F("msec"), F("lightlevel")}, f # F("buttons")
      PROVE  f \in DOMAIN q.got /\ q.got[f] = d.val[f]
  <2>1. f \in Components \cup EndFields /\ SentAs(d, n)[f] = d.val[f]
    BY <1>4, SentAsIs
  <2>2. f \in sent
    BY <1>4, <2>1, MoveWholeIs DEF SentComponents, SentEnd, EndFields
  <2> QED BY <1>1, <2>1, <2>2
<1>5. CASE 6 \in MoveFlags(d)
  <2>1. F("buttons") \in sent
    BY <1>5 DEF SentButtons
  <2>2. F("buttons") \in DOMAIN q.got /\ q.got[F("buttons")] = n
    BY <1>1, <2>1, SentAsIs
  <2> DEFINE v == d.val[F("buttons")]
             now == Decoded(q, "buttons", v)
  <2>3. GameButtons(q) = now
    <3>1. Has(q, "buttons")
      BY <1>2, <2>2 DEF Has
    <3> QED BY <2>2, <3>1 DEF GameButtons
  <2>4. /\ Reading(now) /\ now.in = q.in
        /\ DOMAIN now.got = DOMAIN q.got \cup {F("buttons")}
        /\ now.got[F("buttons")] = v
        /\ \A f \in DOMAIN q.got : f # F("buttons") => now.got[f] = q.got[f]
    <3> HIDE DEF v
    <3> QED BY <1>1, DecodedField
  <2> HIDE DEF now
  <2>5. MoveRead(now, d, rest)
    BY <1>1, <1>4, <2>4 DEF MoveRead
  <2> QED BY <2>3, <2>5
<1>6. CASE 6 \notin MoveFlags(d)
  <2>1. F("buttons") \notin fields
    BY <1>6, SentAsIs DEF SentButtons
  <2>2. GameButtons(q) = q
    BY <1>1, <2>1 DEF GameButtons, Has
  <2>3. \A f \in d.set \cup {F("msec"), F("lightlevel")} : f # F("buttons")
    BY <1>3, <1>6, MoveWholeIs
  <2>4. MoveRead(q, d, rest)
    BY <1>1, <1>4, <2>3 DEF MoveRead
  <2> QED BY <2>2, <2>4
<1> QED BY <1>5, <1>6

\* The parts of a move as its reader takes them, from wherever it is
LEMMA ReadsButtons ==
  ASSUME NEW d, NEW n \in 0 .. 255, NEW rest \in Seq(Items), NEW q, Reading(q),
         q.in = (IF 6 \in MoveFlags(d) THEN <<Item("u8", n)>> ELSE <<>>) \o rest
  PROVE  Took(ReadButtons(q, MoveFlags(d)), q.got, rest, SentButtons(d), SentButtons(d), SentAs(d, n))
<1>1. PICK B : B = MoveFlags(d)
  OBVIOUS
<1>2. PICK val : val = SentAs(d, n)
  OBVIOUS
<1>3. val[F("buttons")] = n
  BY <1>2, SentAsIs
<1>4. PICK got : got = q.got
  OBVIOUS
<1> DEFINE w    == WriteRows(ButtonsRows, B, val)
           now  == ReadRows([in |-> w.wire \o rest, got |-> got, ok |-> TRUE], ButtonsRows, B)
           sent == IF 6 \in B THEN {F("buttons")} ELSE {}
<1>5. /\ w.wire = IF 6 \in B THEN <<Item("u8", val[F("buttons")])>> ELSE <<>>
      /\ Took(now, got, rest, sent, sent, val)
  <2>1. val[F("buttons")] \in 0 .. 255
    BY <1>3
  <2> QED BY ONLY <2>1, rest \in Seq(Items), ButtonsArrive, Zenon
<1>6. q = [in |-> w.wire \o rest, got |-> got, ok |-> TRUE]
  <2>1. w.wire \o rest = q.in
    BY <1>1, <1>3, <1>5
  <2>2. PICK a : a = q.in
    OBVIOUS
  <2> HIDE DEF w
  <2> QED BY <1>4, <2>1, <2>2 DEF Reading
<1>7. ReadButtons(q, B) = now
  <2>1. ReadButtons(q, B) = ReadRows(q, ButtonsRows, B)
    BY ButtonsMove DEF ReadButtons
  <2> HIDE DEF w
  <2> QED BY <1>6, <2>1
<1> HIDE DEF now
<1> QED BY <1>1, <1>2, <1>4, <1>5, <1>7 DEF SentButtons

SameFlags(bits, d) == \A b \in 0 .. 7 : b \in bits <=> b \in MoveFlags(d)

\* A reader that is at the components of a packed move takes them.
LEMMA ReadsComponents ==
  ASSUME NEW d, IsMove(d), NEW n, NEW bits, SameFlags(bits, d),
         PackedSuits(bits, d.val), NEW rest \in Seq(Items), NEW q, Reading(q),
         q.in = WriteRows(PackedMoveRows, bits, d.val).wire \o rest
  PROVE  Took(ReadRows(q, PackedMoveRows, bits), q.got, rest, SentComponents(d), Components, SentAs(d, n))
<1> DEFINE w   == WriteRows(PackedMoveRows, bits, d.val)
<1>1. PICK got : got = q.got
  OBVIOUS
<1> DEFINE now == ReadRows([in |-> w.wire \o rest, got |-> got, ok |-> TRUE], PackedMoveRows, bits)
<1>2. Took(now, got, rest, Components \cap d.set, Components, d.val)
  BY ComponentsArrive DEF SameFlags
<1> HIDE DEF w
<1>3. q = [in |-> w.wire \o rest, got |-> got, ok |-> TRUE]
  <2>1. q.in = w.wire \o rest
    BY DEF w
  <2> QED BY <1>1, <2>1 DEF Reading
<1>4. ReadRows(q, PackedMoveRows, bits) = now
  BY <1>3
<1> HIDE DEF now
<1>5. Took(now, got, rest, SentComponents(d), Components, SentAs(d, n))
  <2>1. \A f \in SentComponents(d) : d.val[f] = SentAs(d, n)[f]
    BY SentAsIs DEF SentComponents
  <2> QED BY <1>2, <2>1, TookSame DEF SentComponents
<1> QED BY <1>1, <1>4, <1>5

\* A reader that is at the end of a packed move takes that.
LEMMA ReadsEnd ==
  ASSUME NEW d, IsMove(d), NEW n, NEW rest \in Seq(Items), NEW q, Reading(q),
         q.in = WriteRows(EndMoveRows, MoveFlags(d), d.val).wire \o rest
  PROVE  Took(ReadRows(q, EndMoveRows, MoveFlags(d)), q.got, rest, SentEnd(d), EndFields, SentAs(d, n))
<1>1. PICK val : val = d.val
  OBVIOUS
<1> DEFINE w   == WriteRows(EndMoveRows, MoveFlags(d), val)
<1>2. PICK got : got = q.got
  OBVIOUS
<1> DEFINE now == ReadRows([in |-> w.wire \o rest, got |-> got, ok |-> TRUE], EndMoveRows,
    MoveFlags(d))
<1>3. Took(now, got, rest, {f \in EndFields : f[1] = "impulse" => f \in d.set}, EndFields, val)
  <2>1. \A f \in EndFields : val[f] \in 0 .. 255
    BY <1>1, EndValues
  <2> QED BY <2>1, EndArrives
<1> HIDE DEF w
<1>4. q = [in |-> w.wire \o rest, got |-> got, ok |-> TRUE]
  <2>1. q.in = w.wire \o rest
    BY <1>1 DEF w
  <2> QED BY <1>2, <2>1 DEF Reading
<1>5. ReadRows(q, EndMoveRows, MoveFlags(d)) = now
  BY <1>4
<1> HIDE DEF now
<1>6. Took(now, got, rest, SentEnd(d), EndFields, SentAs(d, n))
  <2>1. \A f \in SentEnd(d) : val[f] = SentAs(d, n)[f]
    BY <1>1, SentAsIs DEF SentEnd
  <2> QED BY <1>3, <2>1, TookSame DEF SentEnd
<1> QED BY <1>2, <1>5, <1>6
-----------------------------------------------------------------------------
\* The bits of compression are none of the flags.
LEMMA NotFlags == \A b \in {10, 11, 12, 13, 14} : b \notin 0 .. 7
  OBVIOUS

\* A reader that took something is at what follows
LEMMA TookAt ==
  ASSUME NEW now, NEW got, NEW rest, NEW sent, NEW fields, NEW val,
         Took(now, got, rest, sent, fields, val)
  PROVE  Reading(now) /\ now.in = rest
  BY DEF Took

\* A number that stands for the buttons of a move
StandsFor(n, V, d) ==
  /\ n \in 0 .. 255 /\ BitsOf(n) \ (2 .. 6) = V
  /\ SumSet({2^b : b \in V}) = d.val[F("buttons")]
ButtonItems(d, n) == IF 6 \in MoveFlags(d) THEN <<Item("u8", n)>> ELSE <<>>
\* A reader that has the flags of a move has the rest of it before it, with the buttons
\* first or last
AtMove(q, d, n, bits, rest, first) ==
  /\ Reading(q) /\ F("buttons") \notin DOMAIN q.got
  /\ \E rows, ends, btn \in Seq(Items) :
       /\ rows = WriteRows(PackedMoveRows, bits, d.val).wire
       /\ ends = WriteRows(EndMoveRows, MoveFlags(d), d.val).wire
       /\ btn = ButtonItems(d, n)
       /\ q.in = IF first THEN btn \o (rows \o (ends \o rest)) ELSE rows \o (btn \o (ends \o rest))
BitsOfMove(bits, d, n) ==
  /\ bits = MoveFlags(d) \cup (IF 6 \in MoveFlags(d) THEN {8 + x : x \in BitsOf(n)} ELSE {})
  /\ SameFlags(bits, d)
  /\ PackedSuits(bits, d.val)

\* With the buttons before the components, whose bits of compression they have.
LEMMA ButtonsFirst ==
  ASSUME NEW d, IsMove(d), NEW n, NEW V, StandsFor(n, V, d), NEW bits, BitsOfMove(bits, d, n),
         NEW rest \in Seq(Items), NEW q, AtMove(q, d, n, bits, rest, TRUE),
         NEW version, version >= R1Q2_UCMD
  PROVE  MoveRead(R1q2ReadMoveFields(version, q, MoveFlags(d)), d, rest)
<1>1. /\ n \in 0 .. 255 /\ BitsOf(n) \ (2 .. 6) = V
        /\ SumSet({2^b : b \in V}) = d.val[F("buttons")]
  BY DEF StandsFor
<1>2. PICK rows, ends, btn \in Seq(Items) :
          /\ rows = WriteRows(PackedMoveRows, bits, d.val).wire
          /\ ends = WriteRows(EndMoveRows, MoveFlags(d), d.val).wire
          /\ btn = IF 6 \in MoveFlags(d) THEN <<Item("u8", n)>> ELSE <<>>
          /\ q.in = btn \o (rows \o (ends \o rest))
          /\ Reading(q) /\ F("buttons") \notin DOMAIN q.got
  BY Zenon DEF AtMove, ButtonItems
<1>3. /\ bits = MoveFlags(d) \cup (IF 6 \in MoveFlags(d) THEN {8 + x : x \in BitsOf(n)} ELSE {})
        /\ SameFlags(bits, d)
        /\ PackedSuits(bits, d.val)
  BY DEF BitsOfMove
<1> DEFINE B == MoveFlags(d)
           a == ReadButtons(q, B)
           b == ReadCompressed(a, B)
           c == ReadRows(b, EndMoveRows, B)
           got == q.got
           W == SentAs(d, n)
<1>4. ends \o rest \in Seq(Items) /\ rows \o (ends \o rest) \in Seq(Items)
  OBVIOUS
<1>5. Took(a, got, rows \o (ends \o rest), SentButtons(d), SentButtons(d), W)
  <2>1. PICK after \in Seq(Items) : after = rows \o (ends \o rest)
    BY <1>4
  <2>2. q.in = (IF 6 \in MoveFlags(d) THEN <<Item("u8", n)>> ELSE <<>>) \o after /\ Reading(q)
    BY <1>2, <2>1
  <2>3. Took(ReadButtons(q, MoveFlags(d)), q.got, after, SentButtons(d), SentButtons(d), SentAs(d, n))
    BY ONLY <1>1, <2>2, after \in Seq(Items), ReadsButtons, Zenon
  <2> QED BY <2>1, <2>3
<1> HIDE DEF a
<1>6. b = ReadRows(a, PackedMoveRows, bits)
  <2>1. Has(a, "buttons") <=> 6 \in B
    <3>1. F("buttons") \in DOMAIN a.got <=> 6 \in B
      BY <1>5, <1>2 DEF Took, SentButtons
    <3>2. a.ok
      <4>1. PICK x : x = a.in
        OBVIOUS
      <4>2. PICK y : y = a.got
        OBVIOUS
      <4>3. a = [in |-> x, got |-> y, ok |-> TRUE]
        BY <1>5, <4>1, <4>2 DEF Took, Reading
      <4> QED BY <4>3
    <3> QED BY <3>1, <3>2 DEF Has
  <2>2. 6 \in B => a.got[F("buttons")] = n
    BY <1>5, SentAsIs DEF Took, SentButtons
  <2>3. bits = B \cup (IF Has(a, "buttons")
                        THEN {8 + x : x \in BitsOf(a.got[F("buttons")])} ELSE {})
    BY <1>3, <2>1, <2>2
  <2>4. ReadCompressed(a, B) = ReadRows(a, PackedMoveRows, bits)
    BY ONLY <2>3, PackedMove DEF ReadCompressed
  <2> QED BY <2>4
<1> HIDE DEF b
<1>7. Took(b, a.got, ends \o rest, SentComponents(d), Components, W)
  <2>1. PICK after \in Seq(Items) : after = ends \o rest
    BY <1>4
  <2>2. Reading(a) /\ a.in = WriteRows(PackedMoveRows, bits, d.val).wire \o after
    BY <1>5, <1>2, <2>1, TookAt
  <2>3. Took(ReadRows(a, PackedMoveRows, bits), a.got, after, SentComponents(d), Components, SentAs(d, n))
    BY ONLY IsMove(d), after \in Seq(Items), <1>3, <2>2, ReadsComponents, Zenon
  <2> QED BY <1>6, <2>1, <2>3
<1> HIDE DEF c
<1>8. Took(c, b.got, rest, SentEnd(d), EndFields, W)
  <2>1. Reading(b) /\ b.in = WriteRows(EndMoveRows, MoveFlags(d), d.val).wire \o rest
    BY <1>7, <1>2, TookAt
  <2>2. Took(ReadRows(b, EndMoveRows, MoveFlags(d)), b.got, rest, SentEnd(d), EndFields, SentAs(d, n))
    BY <2>1, ReadsEnd
  <2> QED BY <2>2 DEF c
<1>9. /\ SentButtons(d) \subseteq SentButtons(d) /\ SentComponents(d) \subseteq Components
      /\ SentEnd(d) \subseteq EndFields /\ SentButtons(d) \cap Components = {}
      /\ SentButtons(d) \cup SentComponents(d) \subseteq SentButtons(d) \cup Components
      /\ (SentButtons(d) \cup Components) \cap EndFields = {}
  BY SentAsIs DEF SentButtons, SentComponents, SentEnd
<1>10. Took(b, got, ends \o rest, SentButtons(d) \cup SentComponents(d),
       SentButtons(d) \cup Components, W)
  BY ONLY <1>5, <1>7, <1>9, TookBoth, Zenon
<1>11. Took(c, got, rest, (SentButtons(d) \cup SentComponents(d)) \cup SentEnd(d),
           (SentButtons(d) \cup Components) \cup EndFields, W)
  BY ONLY <1>8, <1>9, <1>10, TookBoth, Zenon
<1>12. MoveRead(GameButtons(c), d, rest)
  BY <1>11, <1>1, <1>2, PackedFinish
<1>13. R1q2ReadMoveFields(version, q, B) = GameButtons(c)
  BY EndMove DEF R1q2ReadMoveFields, a, b, c
<1> QED BY <1>12, <1>13

\* With the buttons after the components, none of which is compressed.
LEMMA ButtonsLast ==
  ASSUME NEW d, IsMove(d), NEW n, NEW V, StandsFor(n, V, d),
         NEW rest \in Seq(Items), NEW q, AtMove(q, d, n, MoveFlags(d), rest, FALSE),
         NEW version, ~(version >= R1Q2_UCMD)
  PROVE  MoveRead(R1q2ReadMoveFields(version, q, MoveFlags(d)), d, rest)
<1>1. /\ n \in 0 .. 255 /\ BitsOf(n) \ (2 .. 6) = V
        /\ SumSet({2^b : b \in V}) = d.val[F("buttons")]
  BY DEF StandsFor
<1>2. PICK rows, ends, btn \in Seq(Items) :
          /\ rows = WriteRows(PackedMoveRows, MoveFlags(d), d.val).wire
          /\ ends = WriteRows(EndMoveRows, MoveFlags(d), d.val).wire
          /\ btn = IF 6 \in MoveFlags(d) THEN <<Item("u8", n)>> ELSE <<>>
          /\ q.in = rows \o (btn \o (ends \o rest))
          /\ Reading(q) /\ F("buttons") \notin DOMAIN q.got
  BY Zenon DEF AtMove, ButtonItems
<1> DEFINE B == MoveFlags(d)
           a == ReadCompressed(q, B)
           b == ReadButtons(a, B)
           c == ReadRows(b, EndMoveRows, B)
           got == q.got
           W == SentAs(d, n)
<1>3. ends \o rest \in Seq(Items) /\ btn \o (ends \o rest) \in Seq(Items)
  OBVIOUS
<1>4. a = ReadRows(q, PackedMoveRows, B)
  <2>1. ~Has(q, "buttons")
    BY <1>2 DEF Has
  <2>2. B \cup {} = B
    OBVIOUS
  <2>3. ReadCompressed(q, B) = ReadRows(q, PackedMoveRows, B)
    BY ONLY <2>1, <2>2, PackedMove DEF ReadCompressed
  <2> QED BY <2>3
<1> HIDE DEF a
<1>5. Took(a, got, btn \o (ends \o rest), SentComponents(d), Components, W)
  <2>1. PICK after \in Seq(Items) : after = btn \o (ends \o rest)
    BY <1>3
  <2>2. PackedSuits(MoveFlags(d), d.val) /\ SameFlags(MoveFlags(d), d)
    <3>1. MoveFlags(d) \in SUBSET (0 .. 7)
      BY MoveFlagsAre
    <3>2. \A x \in {10, 11, 12, 13, 14} : x \notin MoveFlags(d)
      BY <3>1, NotFlags
    <3> QED BY <3>2 DEF PackedSuits, SameFlags
  <2>3. Reading(q) /\ q.in = WriteRows(PackedMoveRows, MoveFlags(d), d.val).wire \o after
    BY <1>2, <2>1
  <2>4. Took(ReadRows(q, PackedMoveRows, MoveFlags(d)), q.got, after, SentComponents(d),
             Components, SentAs(d, n))
    BY <2>2, <2>3, ReadsComponents
  <2> QED BY <1>4, <2>1, <2>4
<1>6. Took(b, a.got, ends \o rest, SentButtons(d), SentButtons(d), W)
  <2>1. PICK after \in Seq(Items) : after = ends \o rest
    BY <1>3
  <2>2. Reading(a) /\ a.in = (IF 6 \in MoveFlags(d) THEN <<Item("u8", n)>> ELSE <<>>) \o after
    BY <1>5, <1>2, <2>1, TookAt
  <2>3. Took(ReadButtons(a, MoveFlags(d)), a.got, after, SentButtons(d), SentButtons(d), SentAs(d, n))
    BY ONLY <1>1, <2>2, after \in Seq(Items), ReadsButtons, Zenon
  <2> QED BY <2>1, <2>3
<1> HIDE DEF b, c
<1>7. Took(c, b.got, rest, SentEnd(d), EndFields, W)
  <2>1. Reading(b) /\ b.in = WriteRows(EndMoveRows, MoveFlags(d), d.val).wire \o rest
    BY <1>6, <1>2, TookAt
  <2>2. Took(ReadRows(b, EndMoveRows, MoveFlags(d)), b.got, rest, SentEnd(d), EndFields, SentAs(d, n))
    BY <2>1, ReadsEnd
  <2> QED BY <2>2 DEF c
<1>8. /\ SentButtons(d) \subseteq SentButtons(d) /\ SentComponents(d) \subseteq Components
      /\ SentEnd(d) \subseteq EndFields /\ Components \cap SentButtons(d) = {}
      /\ SentComponents(d) \cup SentButtons(d) \subseteq Components \cup SentButtons(d)
      /\ (Components \cup SentButtons(d)) \cap EndFields = {}
      /\ Components \cup SentButtons(d) = SentButtons(d) \cup Components
      /\ SentComponents(d) \cup SentButtons(d) = SentButtons(d) \cup SentComponents(d)
  BY SentAsIs DEF SentButtons, SentComponents, SentEnd
<1>9. Took(b, got, ends \o rest, SentComponents(d) \cup SentButtons(d),
      Components \cup SentButtons(d), W)
  <2>1. /\ SentButtons(d) \subseteq SentButtons(d) /\ SentComponents(d) \subseteq Components
        /\ Components \cap SentButtons(d) = {}
    BY <1>8
  <2> QED BY ONLY <1>5, <1>6, <2>1, TookBoth, Zenon
<1>10. Took(c, got, rest, (SentComponents(d) \cup SentButtons(d)) \cup SentEnd(d),
           (Components \cup SentButtons(d)) \cup EndFields, W)
  <2>1. /\ SentComponents(d) \cup SentButtons(d) \subseteq Components \cup SentButtons(d)
        /\ SentEnd(d) \subseteq EndFields /\ (Components \cup SentButtons(d)) \cap EndFields = {}
    BY <1>8
  <2> QED BY ONLY <1>7, <1>9, <2>1, TookBoth, Zenon
<1>11. MoveRead(GameButtons(c), d, rest)
  BY <1>8, <1>10, <1>1, <1>2, PackedFinish
<1>12. R1q2ReadMoveFields(version, q, B) = GameButtons(c)
  BY EndMove DEF R1q2ReadMoveFields, a, b, c
<1> QED BY <1>11, <1>12
-----------------------------------------------------------------------------
BitNumbers == {0, 1, 2, 3, 4, 5, 10, 11, 12, 13, 14}
\* The rows of a packed move ask for bits there are.
LEMMA PackedBits ==
  \A i \in 1 .. 11 : PackedMoveRows[i].all \subseteq BitNumbers
      /\ PackedMoveRows[i].none \subseteq BitNumbers
<1> SUFFICES ASSUME NEW i \in 1 .. 11
             PROVE  PackedMoveRows[i].all \subseteq BitNumbers
                    /\ PackedMoveRows[i].none \subseteq BitNumbers
  OBVIOUS
<1>1. CASE i \in {1, 2, 3}
  BY <1>1, PackedRowsAre DEF MoveRow, BitNumbers
<1>2. CASE i \in {4, 5, 6, 7}
  BY <1>2, PackedRowsAre DEF MoveRow, BitNumbers
<1>3. CASE i \in {8, 9, 10, 11}
  BY <1>3, PackedRowsAre DEF MoveRow, BitNumbers
<1> QED BY <1>1, <1>2, <1>3

\* The empty wire is one.
LEMMA NoItems == <<>> \in Seq(Items)
  OBVIOUS

\* How the parts of a move are written, and that the reader takes them so
LEMMA PackedParts ==
  ASSUME NEW d, IsMove(d), NEW bits, \A b \in 0 .. 7 : b \in bits <=> b \in MoveFlags(d),
         PackedSuits(bits, d.val)
  PROVE  \E rows \in Seq(Items) : \E ends \in Seq(Items) :
           /\ rows = WriteRows(PackedMoveRows, bits, d.val).wire
           /\ WriteRows(PackedMoveRows, bits, d.val) = Written(rows)
           /\ ends = WriteRows(EndMoveRows, MoveFlags(d), d.val).wire
           /\ WriteRows(EndMoveRows, MoveFlags(d), d.val) = Written(ends)
<1>1. PICK none \in Seq(Items) : none = <<>>
  BY NoItems, Zenon
<1>2. PICK got : got = 0
  OBVIOUS
<1>3. ~WriteRows(PackedMoveRows, bits, d.val).err
      /\ WriteRows(PackedMoveRows, bits, d.val).wire \in Seq(Items)
  BY ComponentsArrive, <1>1
<1>4. PICK val : val = d.val
  OBVIOUS
<1>5. ~WriteRows(EndMoveRows, MoveFlags(d), val).err
      /\ WriteRows(EndMoveRows, MoveFlags(d), val).wire \in Seq(Items)
  <2>1. \A f \in EndFields : val[f] \in 0 .. 255
    BY <1>4, EndValues
  <2> QED BY <1>1, <2>1, EndArrives
<1> QED BY <1>3, <1>4, <1>5, WholeRows

\* A packed move arrives, if its buttons are of a game and, where it is
\* compressed, its components divided by five fit in a byte.
LEMMA PackedMoveArrives ==
  ASSUME NEW version, NEW d, IsMove(d), d.val[F("buttons")] \in GameButtonValues,
         version >= R1Q2_UCMD => FivesFit(d),
         NEW rest \in Seq(Items), NEW r, Reading(r),
         r.in = R1q2WriteMoveDelta(version, d).wire \o rest
  PROVE  /\ R1q2WriteMoveDelta(version, d) = Written(R1q2WriteMoveDelta(version, d).wire)
         /\ R1q2WriteMoveDelta(version, d).wire \in Seq(Items)
         /\ MoveRead(R1q2ReadMoveDelta(version, r), d, rest)
<1> DEFINE B == MoveFlags(d)
           v == d.val[F("buttons")]
<1>1. B \in SUBSET (0 .. 7)
  BY MoveFlagsAre
<1>2. PICK V \in SUBSET {0, 1, 7} : BitsOf(v) = V /\ SumSet({2^b : b \in V}) = v
  BY ButtonsBack
<1>3. v \in 0 .. 255 /\ V \ (2 .. 6) = V /\ V \in SUBSET (0 .. 7)
  <2>1. \A x \in {0, 1, 7} : x \notin 2 .. 6 /\ x \in 0 .. 7
    OBVIOUS
  <2> QED BY <2>1 DEF GameButtonValues
<1>4. PICK none \in Seq(Items) : none = <<>> /\ Written(<<>>) = Written(none)
  BY NoItems, Zenon
<1>5. PICK head \in Seq(Items) : Byte(B) = Written(head) /\ head = Byte(B).wire
  <2>1. PICK q : q = [in |-> Byte(B).wire \o none, got |-> 0, ok |-> TRUE]
    OBVIOUS
  <2>2. Reading(q) /\ q.in = Byte(B).wire \o none
    BY <2>1 DEF Reading
  <2> QED BY <1>1, <2>2, FlagsRead
<1> DEFINE compressed == version >= R1Q2_UCMD /\ 6 \in B
           Pressed == (IF 6 \in B THEN V ELSE {}) \cup (IF compressed THEN Compressed(d, B) ELSE {})
           bits == B \cup {8 + b : b \in Pressed}
<1>6. R1q2WriteMoveDelta(version, d) =
        InTurn(<<Byte(B),
                 IF compressed THEN Byte(Pressed) ELSE Written(<<>>),
                 WriteRows(PackedMoveRows, bits, d.val),
                 IF compressed THEN Written(<<>>) ELSE WriteRows(ButtonsRows, B, d.val),
                 WriteRows(EndMoveRows, B, d.val)>>)
  BY <1>2, PackedMove, EndMove, ButtonsMove, Zenon DEF R1q2WriteMoveDelta, CM
<1> DEFINE q == Get([r EXCEPT !.got = [f \in {} |-> 0]], "bits", "u8")
<1>7. R1q2ReadMoveDelta(version, r) = R1q2ReadMoveFields(version, q, Flags(q, "bits"))
  BY DEF R1q2ReadMoveDelta
<1>8. ASSUME NEW body \in Seq(Items), r.in = head \o (body \o rest)
      PROVE  /\ Reading(q) /\ q.in = body \o rest /\ Flags(q, "bits") = B
             /\ F("buttons") \notin DOMAIN q.got
  <2> DEFINE p == [r EXCEPT !.got = [f \in {} |-> 0]]
  <2>1. p = [in |-> r.in, got |-> [f \in {} |-> 0], ok |-> TRUE]
    BY Forgets
  <2> HIDE DEF p, B
  <2>2. Reading(p) /\ p.in = Byte(B).wire \o (body \o rest) /\ DOMAIN p.got = {}
    BY <1>5, <1>8, <2>1 DEF Reading
  <2>3. body \o rest \in Seq(Items)
    OBVIOUS
  <2>4. GotFlags(Get(p, "bits", "u8"), p, body \o rest, "bits", B)
    BY ONLY <1>1, <2>2, <2>3, FlagsRead, Zenon
  <2>5. F("buttons") # F("bits")
    BY DEF F
  <2> QED BY <2>2, <2>4, <2>5 DEF GotFlags, p
<1>9. CASE compressed
  <2> DEFINE Pressed2 == V \cup Compressed(d, B)
             bits2 == B \cup {8 + b : b \in Pressed2}
  <2>1. Pressed = Pressed2 /\ bits = bits2
    BY <1>9
  <2>2. /\ Pressed2 \in SUBSET (0 .. 7) /\ Pressed2 \ (2 .. 6) = V
        /\ \A b \in 0 .. 7 : b \in bits2 <=> b \in B
        /\ PackedSuits(bits2, d.val)
    BY <1>9, CompressionSuits
  <2> HIDE DEF Pressed, bits, Pressed2
  <2>3. PICK n \in 0 .. 255 : Byte(Pressed2) = Written(<<Item("u8", n)>>) /\ BitsOf(n) = Pressed2
    BY <2>2, FlagByte
  <2>4. bits2 = B \cup (IF 6 \in B THEN {8 + x : x \in BitsOf(n)} ELSE {})
    BY <1>9, <2>3
  <2> HIDE DEF bits2
  <2>5. PICK btn \in Seq(Items) : btn = <<Item("u8", n)>>
    <3>1. PICK x \in Items : x = Item("u8", n)
      BY ByteIsItem
    <3>2. <<x>> \in Seq(Items)
      OBVIOUS
    <3> QED BY ONLY <3>1, <3>2, Zenon
  <2>6. PICK rows \in Seq(Items), ends \in Seq(Items) :
          /\ rows = WriteRows(PackedMoveRows, bits2, d.val).wire
          /\ WriteRows(PackedMoveRows, bits2, d.val) = Written(rows)
          /\ ends = WriteRows(EndMoveRows, B, d.val).wire
          /\ WriteRows(EndMoveRows, B, d.val) = Written(ends)
    BY <2>2, PackedParts
  <2> HIDE DEF B
  <2>7. R1q2WriteMoveDelta(version, d)
          = InTurn(<<Written(head), Written(btn), Written(rows), Written(none), Written(ends)>>)
    BY ONLY <1>4, <1>5, <1>6, <1>9, <2>1, <2>3, <2>5, <2>6
  <2>8. R1q2WriteMoveDelta(version, d) = Written(head \o (btn \o (rows \o ends)))
    <3>1. none \o ends = ends
      BY <1>4
    <3>2. InTurn(<<Written(head), Written(btn), Written(rows), Written(none), Written(ends)>>)
            = Written(head \o (btn \o (rows \o (none \o ends))))
      BY FiveParts
    <3> QED BY ONLY <2>7, <3>1, <3>2
  <2>13. R1q2WriteMoveDelta(version, d).wire = head \o (btn \o (rows \o ends))
    <3>1. PICK w : w = head \o (btn \o (rows \o ends))
      OBVIOUS
    <3>2. Written(w).wire = w
      BY ONLY TRUE DEF Written
    <3> QED BY ONLY <2>8, <3>1, <3>2
  <2>9. /\ head \o (btn \o (rows \o ends)) \in Seq(Items) /\ btn \o (rows \o ends) \in Seq(Items)
        /\ (head \o (btn \o (rows \o ends))) \o rest = head \o ((btn \o (rows \o ends)) \o rest)
        /\ (btn \o (rows \o ends)) \o rest = btn \o (rows \o (ends \o rest))
    <3>1. FourAhead(head, btn, rows, ends, rest)
      BY FourJoin, Zenon
    <3> QED BY ONLY <3>1, Zenon DEF FourAhead
  <2>10. /\ Reading(q) /\ q.in = btn \o (rows \o (ends \o rest)) /\ Flags(q, "bits") = B
         /\ F("buttons") \notin DOMAIN q.got
    <3>1. r.in = head \o ((btn \o (rows \o ends)) \o rest)
      BY <2>9, <2>13
    <3> HIDE DEF q
    <3> QED BY <1>8, <2>9, <3>1
  <2> HIDE DEF q
  <2>11. MoveRead(R1q2ReadMoveFields(version, q, B), d, rest)
    <3>1. btn = IF 6 \in B THEN <<Item("u8", n)>> ELSE <<>>
      BY <1>9, <2>5
    <3>2. BitsOf(n) \ (2 .. 6) = V
      BY <2>2, <2>3
    <3>3. StandsFor(n, V, d)
      BY <1>2, <3>2 DEF StandsFor
    <3>4. BitsOfMove(bits2, d, n)
      BY <2>2, <2>4 DEF BitsOfMove, SameFlags, B
    <3>5. AtMove(q, d, n, bits2, rest, TRUE)
      BY <2>6, <2>10, <3>1 DEF AtMove, ButtonItems, B
    <3> QED BY <1>9, <3>3, <3>4, <3>5, ButtonsFirst DEF B
  <2>12. MoveRead(R1q2ReadMoveDelta(version, r), d, rest)
    BY <1>7, <2>10, <2>11
  <2> QED BY <2>8, <2>9, <2>12, <2>13
<1>10. CASE ~compressed
  <2>1. Pressed = IF 6 \in B THEN V ELSE {}
    BY <1>10
  <2> HIDE DEF Pressed
  <2>2. Present(PackedMoveRows, bits) = Present(PackedMoveRows, B)
    <3>1. \A b \in BitNumbers : b \in bits <=> b \in B
      <4>1. \A b \in Pressed : b \in {0, 1, 7}
        BY <2>1
      <4> QED BY <4>1 DEF BitNumbers
    <3> HIDE DEF bits, B
    <3>2. Len(PackedMoveRows) = 11
      BY PackedMoveTable
    <3>3. \A i \in 1 .. 11 : IsPresent(PackedMoveRows[i], bits) <=> IsPresent(PackedMoveRows[i], B)
      BY <3>1, PackedBits DEF IsPresent
    <3>4. /\ Len(PackedMoveRows) \in Nat
          /\ \A i \in 1 .. Len(PackedMoveRows) :
               IsPresent(PackedMoveRows[i], bits) <=> IsPresent(PackedMoveRows[i], B)
      BY <3>2, <3>3
    <3> QED BY ONLY <3>4, PresentSame, Zenon
  <2>3. WriteRows(PackedMoveRows, bits, d.val) = WriteRows(PackedMoveRows, B, d.val)
    <3> HIDE DEF bits, B
    <3> QED BY <2>2 DEF WriteRows
  <2> HIDE DEF bits
  <2>4. PackedSuits(B, d.val)
    <3>2. \A b \in {10, 11, 12, 13, 14} : b \notin B
      BY <1>1, NotFlags
    <3> QED BY <3>2 DEF PackedSuits
  <2>5. PICK btn \in Seq(Items) :
          /\ btn = IF 6 \in B THEN <<Item("u8", v)>> ELSE <<>>
          /\ WriteRows(ButtonsRows, B, d.val) = Written(btn)
    <3>1. PICK val : val = d.val
      OBVIOUS
    <3> DEFINE w == WriteRows(ButtonsRows, B, val)
    <3>2. ~w.err /\ w.wire \in Seq(Items)
          /\ w.wire = IF 6 \in B THEN <<Item("u8", val[F("buttons")])>> ELSE <<>>
      <4>1. val[F("buttons")] \in 0 .. 255
        BY <1>3, <3>1
      <4> QED BY <1>4, <4>1, ButtonsArrive
    <3>3. w = Written(w.wire)
      BY <3>2, WholeRows
    <3> QED BY <3>1, <3>2, <3>3
  <2>6. PICK rows \in Seq(Items), ends \in Seq(Items) :
          /\ rows = WriteRows(PackedMoveRows, B, d.val).wire
          /\ WriteRows(PackedMoveRows, B, d.val) = Written(rows)
          /\ ends = WriteRows(EndMoveRows, B, d.val).wire
          /\ WriteRows(EndMoveRows, B, d.val) = Written(ends)
    BY <2>4, PackedParts
  <2> HIDE DEF B, v
  <2>7. R1q2WriteMoveDelta(version, d)
          = InTurn(<<Written(head), Written(none), Written(rows), Written(btn), Written(ends)>>)
    BY ONLY <1>4, <1>5, <1>6, <1>10, <2>3, <2>5, <2>6
  <2>8. R1q2WriteMoveDelta(version, d) = Written(head \o (rows \o (btn \o ends)))
    <3>1. none \o (rows \o (btn \o ends)) = rows \o (btn \o ends)
      <4>1. rows \o (btn \o ends) \in Seq(Items)
        <5>1. PICK x : x = btn \o ends
          OBVIOUS
        <5>2. x \in Seq(Items)
          BY <5>1
        <5>3. rows \o x \in Seq(Items)
          BY <5>2
        <5> QED BY <5>1, <5>3
      <4>2. \A s \in Seq(Items) : <<>> \o s = s
        OBVIOUS
      <4> QED BY <1>4, <4>1, <4>2
    <3>2. InTurn(<<Written(head), Written(none), Written(rows), Written(btn), Written(ends)>>)
            = Written(head \o (none \o (rows \o (btn \o ends))))
      BY FiveParts
    <3> QED BY ONLY <2>7, <3>1, <3>2
  <2>13. R1q2WriteMoveDelta(version, d).wire = head \o (rows \o (btn \o ends))
    <3>1. PICK w : w = head \o (rows \o (btn \o ends))
      OBVIOUS
    <3>2. Written(w).wire = w
      BY ONLY TRUE DEF Written
    <3> QED BY ONLY <2>8, <3>1, <3>2
  <2>9. /\ head \o (rows \o (btn \o ends)) \in Seq(Items) /\ rows \o (btn \o ends) \in Seq(Items)
        /\ (head \o (rows \o (btn \o ends))) \o rest = head \o ((rows \o (btn \o ends)) \o rest)
        /\ (rows \o (btn \o ends)) \o rest = rows \o (btn \o (ends \o rest))
    <3>1. FourAhead(head, rows, btn, ends, rest)
      BY FourJoin, Zenon
    <3> QED BY ONLY <3>1, Zenon DEF FourAhead
  <2>10. /\ Reading(q) /\ q.in = rows \o (btn \o (ends \o rest)) /\ Flags(q, "bits") = B
         /\ F("buttons") \notin DOMAIN q.got
    <3>1. r.in = head \o ((rows \o (btn \o ends)) \o rest)
      BY <2>9, <2>13
    <3> HIDE DEF q
    <3> QED BY <1>8, <2>9, <3>1
  <2> HIDE DEF q
  <2>11. MoveRead(R1q2ReadMoveFields(version, q, B), d, rest)
    <3>1. BitsOf(v) \ (2 .. 6) = V
      BY <1>2, <1>3
    <3>4. StandsFor(v, V, d)
      BY <1>2, <1>3, <3>1 DEF StandsFor, v
    <3>2. CASE ~(version >= R1Q2_UCMD)
      <4>1. AtMove(q, d, v, B, rest, FALSE)
        BY <2>5, <2>6, <2>10 DEF AtMove, ButtonItems, B
      <4> QED BY <3>2, <3>4, <4>1, ButtonsLast DEF B
    <3>3. CASE version >= R1Q2_UCMD
      <4>1. 6 \notin B
        BY <1>10, <3>3
      <4>2. btn = <<>> /\ B = B \cup (IF 6 \in B THEN {8 + x : x \in BitsOf(v)} ELSE {})
        BY <2>5, <4>1
      <4>3. q.in = btn \o (rows \o (ends \o rest))
        <5>1. PICK x : x = ends \o rest
          OBVIOUS
        <5>2. x \in Seq(Items)
          BY <5>1
        <5>3. PICK y : y = rows \o x
          OBVIOUS
        <5>4. y \in Seq(Items)
          BY <5>2, <5>3
        <5>5. <<>> \o x = x /\ <<>> \o y = y
          BY <5>2, <5>4
        <5> QED BY <2>10, <4>2, <5>1, <5>3, <5>5
      <4>4. BitsOfMove(B, d, v)
        BY <2>4, <4>2 DEF BitsOfMove, SameFlags, B
      <4>5. AtMove(q, d, v, B, rest, TRUE)
        BY <2>5, <2>6, <2>10, <4>3 DEF AtMove, ButtonItems, B
      <4> QED BY <3>3, <3>4, <4>4, <4>5, ButtonsFirst DEF B
    <3> QED BY <3>2, <3>3
  <2>12. MoveRead(R1q2ReadMoveDelta(version, r), d, rest)
    BY <1>7, <2>10, <2>11
  <2> QED BY <2>8, <2>9, <2>12, <2>13
<1> QED BY <1>9, <1>10
-----------------------------------------------------------------------------
\* One delta of a move, as the protocols write and read it
LEMMA PlainMovesAgree ==
  /\ \A d : Q2proWriteMoveDelta(d) = VanillaWriteMoveDelta(d)
  /\ \A r : Q2proReadMoveDelta(r) = VanillaReadMoveDelta(r)
  BY DEF Q2proWriteMoveDelta, VanillaWriteMoveDelta, Q2proReadMoveDelta, VanillaReadMoveDelta

\* Joining lists in either order is the same.
LEMMA Associate ==
  ASSUME NEW a \in Seq(Items), NEW b \in Seq(Items), NEW c \in Seq(Items)
  PROVE  (a \o b) \o c = a \o (b \o c)
  OBVIOUS

\* Two wires joined are a wire.
LEMMA Joined ==
  ASSUME NEW a \in Seq(Items), NEW b \in Seq(Items) PROVE a \o b \in Seq(Items)
  OBVIOUS

\* Six parts in turn: what they write, one after the other
SixLists(g, a, b, c, d, e) ==
  /\ g \in Seq(Items) /\ a \in Seq(Items) /\ b \in Seq(Items)
  /\ c \in Seq(Items) /\ d \in Seq(Items) /\ e \in Seq(Items)
SixInTurn(g, a, b, c, d, e) ==
  InTurn(<<Written(g), Written(a), Written(b), Written(c), Written(d), Written(e)>>)
    = Written(g \o (a \o (b \o (c \o (d \o e)))))

\* Six parts in turn write what all of them write.
LEMMA SixParts ==
  ASSUME NEW g, NEW a, NEW b, NEW c, NEW d, NEW e, SixLists(g, a, b, c, d, e)
  PROVE  SixInTurn(g, a, b, c, d, e)
<1>0. /\ g \in Seq(Items) /\ a \in Seq(Items) /\ b \in Seq(Items)
      /\ c \in Seq(Items) /\ d \in Seq(Items) /\ e \in Seq(Items)
  BY DEF SixLists
<1>1. PICK parts : parts = <<Written(g), Written(a), Written(b), Written(c), Written(d),
                   Written(e)>>
  OBVIOUS
<1>2. /\ Len(parts) = 6 /\ parts[1] = Written(g) /\ parts[2] = Written(a) /\ parts[3] = Written(b)
      /\ parts[4] = Written(c) /\ parts[5] = Written(d) /\ parts[6] = Written(e)
  BY <1>1
<1>3. PICK f : /\ InTurn(parts) = f[Len(parts)] /\ f[0] = Written(<<>>)
               /\ \A i \in 1 .. Len(parts) : f[i] = Then(f[i - 1], parts[i])
  <2>1. Len(parts) \in Nat
    BY <1>2
  <2> QED BY <2>1, InTurnSteps
<1>4. /\ f[1] = Then(f[0], parts[1]) /\ f[2] = Then(f[1], parts[2]) /\ f[3] = Then(f[2], parts[3])
      /\ f[4] = Then(f[3], parts[4]) /\ f[5] = Then(f[4], parts[5]) /\ f[6] = Then(f[5], parts[6])
  BY <1>2, <1>3
<1>5. PICK de : de = d \o e
  OBVIOUS
<1>6. PICK cde : cde = c \o de
  OBVIOUS
<1>7. <<>> \o g = g
  BY ONLY <1>0
<1>8. PICK ga : ga = g \o a
  OBVIOUS
<1>9. PICK gab : gab = ga \o b
  OBVIOUS
<1>20. /\ de \in Seq(Items) /\ ga \in Seq(Items)
  BY ONLY <1>5, <1>8, <1>0, Joined
<1>21. /\ cde \in Seq(Items) /\ gab \in Seq(Items)
  BY ONLY <1>6, <1>9, <1>20, <1>0, Joined
<1>11. ((gab \o c) \o d) \o e = gab \o cde
  <2>1. PICK cd : cd = c \o d
    OBVIOUS
  <2>2. cd \in Seq(Items)
    BY ONLY <2>1, <1>0, Joined
  <2>3. (gab \o cd) \o e = gab \o (cd \o e)
    <3>1. gab \in Seq(Items) /\ e \in Seq(Items)
      BY ONLY <1>0, <1>21
    <3> QED BY ONLY <2>2, <3>1, Associate
  <2>4. (gab \o c) \o d = gab \o (c \o d)
    BY ONLY <1>21, <1>0, Associate, ZenonT(60)
  <2>5. (c \o d) \o e = c \o (d \o e)
    BY ONLY <1>0, Associate, ZenonT(60)
  <2> QED BY ONLY <1>5, <1>6, <2>1, <2>3, <2>4, <2>5
<1>12. gab \o cde = g \o (a \o (b \o cde))
  <2>1. (ga \o b) \o cde = ga \o (b \o cde)
    <3>1. ga \in Seq(Items) /\ b \in Seq(Items) /\ cde \in Seq(Items)
      BY ONLY <1>0, <1>20, <1>21
    <3> QED BY ONLY <3>1, Associate
  <2>2. PICK after : after = b \o cde
    OBVIOUS
  <2>3. after \in Seq(Items)
    BY ONLY <1>21, <2>2, <1>0, Joined
  <2>4. (g \o a) \o after = g \o (a \o after)
    <3>1. g \in Seq(Items) /\ a \in Seq(Items)
      BY ONLY <1>0
    <3> QED BY ONLY <2>3, <3>1, Associate
  <2> QED BY ONLY <1>8, <1>9, <2>1, <2>2, <2>4
<1>13. f[1] = Written(g)
  <2>1. f[1] = Then(Written(<<>>), Written(g))
    BY <1>2, <1>3, <1>4
  <2>2. Then(Written(<<>>), Written(g)) = Written(<<>> \o g)
    BY PartAfter
  <2> QED BY ONLY <1>7, <2>1, <2>2
<1>14. f[2] = Written(ga)
  BY <1>2, <1>4, <1>8, <1>13, PartAfter
<1>15. f[3] = Written(gab)
  BY <1>2, <1>4, <1>9, <1>14, PartAfter
<1>16. f[4] = Written(gab \o c)
  BY <1>2, <1>4, <1>15, PartAfter
<1>17. f[5] = Written((gab \o c) \o d)
  BY <1>2, <1>4, <1>16, PartAfter
<1>18. f[6] = Written(((gab \o c) \o d) \o e)
  BY <1>2, <1>4, <1>17, PartAfter
<1> QED BY ONLY <1>1, <1>2, <1>3, <1>5, <1>6, <1>11, <1>12, <1>18 DEF SixInTurn

\* The reader after the head of a message
VanillaOpening(wire) == Get(GetWide(Reader(wire), "checksum", 1001), "lastframe", "i32")
PlainOpening(wire) == Get(Reader(wire), "lastframe", "i32")

VanillaChain(m, head) ==
  /\ m[0] = head /\ m[1] = VanillaReadMoveDelta(m[0]) /\ m[2] = VanillaReadMoveDelta(m[1])
  /\ m[3] = VanillaReadMoveDelta(m[2])

\* The reader of vanilla reads three moves, each where the one before it ended.
LEMMA VanillaChained ==
  ASSUME NEW wire
  PROVE  \E m : /\ VanillaReadMove(wire) = ReadMoves(m)
                /\ VanillaChain(m, VanillaOpening(wire))
<1> DEFINE head == Get(GetWide(Reader(wire), "checksum", 1001), "lastframe", "i32")
           m[i \in 0 .. 3] == IF i = 0 THEN head ELSE VanillaReadMoveDelta(m[i - 1])
<1>1. VanillaReadMove(wire) = ReadMoves(m)
  BY DEF VanillaReadMove
<1> HIDE DEF head
<1>2. PICK a, b, c : /\ a = VanillaReadMoveDelta(head) /\ b = VanillaReadMoveDelta(a)
                     /\ c = VanillaReadMoveDelta(b)
  OBVIOUS
<1>3. PICK g : g = [i \in 0 .. 3 |-> IF i = 0 THEN head ELSE IF i = 1 THEN a ELSE IF i = 2 THEN b ELSE c]
  OBVIOUS
<1>4. g[0] = head /\ g[1] = a /\ g[2] = b /\ g[3] = c /\ g = [i \in 0 .. 3 |-> g[i]]
  BY <1>3
<1>5. g = [i \in 0 .. 3 |-> IF i = 0 THEN head ELSE VanillaReadMoveDelta(g[i - 1])]
  <2>1. ASSUME NEW i \in 0 .. 3
        PROVE  g[i] = IF i = 0 THEN head ELSE VanillaReadMoveDelta(g[i - 1])
    <3>1. CASE i = 0 BY <1>4, <3>1
    <3>2. CASE i = 1 BY <1>2, <1>4, <3>2
    <3>3. CASE i = 2 BY <1>2, <1>4, <3>3
    <3>4. CASE i = 3 BY <1>2, <1>4, <3>4
    <3> QED BY <3>1, <3>2, <3>3, <3>4
  <2> QED BY <1>4, <2>1
<1>6. m = [i \in 0 .. 3 |-> IF i = 0 THEN head ELSE VanillaReadMoveDelta(m[i - 1])]
  BY <1>5, Zenon
<1> HIDE DEF m
<1>7. \A i \in 0 .. 3 : m[i] = IF i = 0 THEN head ELSE VanillaReadMoveDelta(m[i - 1])
  BY <1>6, Zenon
<1>8. VanillaChain(m, head)
  BY <1>7 DEF VanillaChain
<1> QED BY <1>1, <1>8 DEF head, VanillaOpening, PlainOpening
-----------------------------------------------------------------------------
Q2proChain(m, head) ==
  /\ m[0] = head /\ m[1] = Q2proReadMoveDelta(m[0]) /\ m[2] = Q2proReadMoveDelta(m[1])
  /\ m[3] = Q2proReadMoveDelta(m[2])

\* So does the reader of Q2PRO.
LEMMA Q2proChained ==
  ASSUME NEW wire
  PROVE  \E m : /\ Q2proReadMove(wire) = ReadMoves(m)
                /\ Q2proChain(m, PlainOpening(wire))
<1> DEFINE head == Get(Reader(wire), "lastframe", "i32")
           m[i \in 0 .. 3] ==
             IF i = 0 THEN Get(Reader(wire), "lastframe", "i32") ELSE Q2proReadMoveDelta(m[i - 1])
<1>1. Q2proReadMove(wire) = ReadMoves(m)
  BY DEF Q2proReadMove
<1> HIDE DEF head
<1>2. PICK a, b, c : /\ a = Q2proReadMoveDelta(head) /\ b = Q2proReadMoveDelta(a)
                     /\ c = Q2proReadMoveDelta(b)
  OBVIOUS
<1>3. PICK g : g = [i \in 0 .. 3 |-> IF i = 0 THEN head ELSE IF i = 1 THEN a ELSE IF i = 2 THEN b ELSE c]
  OBVIOUS
<1>4. g[0] = head /\ g[1] = a /\ g[2] = b /\ g[3] = c /\ g = [i \in 0 .. 3 |-> g[i]]
  BY <1>3
<1>5. g = [i \in 0 .. 3 |-> IF i = 0 THEN head ELSE Q2proReadMoveDelta(g[i - 1])]
  <2>1. ASSUME NEW i \in 0 .. 3
        PROVE  g[i] = IF i = 0 THEN head ELSE Q2proReadMoveDelta(g[i - 1])
    <3>1. CASE i = 0 BY <1>4, <3>1
    <3>2. CASE i = 1 BY <1>2, <1>4, <3>2
    <3>3. CASE i = 2 BY <1>2, <1>4, <3>3
    <3>4. CASE i = 3 BY <1>2, <1>4, <3>4
    <3> QED BY <3>1, <3>2, <3>3, <3>4
  <2> QED BY <1>4, <2>1
<1>6. m = [i \in 0 .. 3 |-> IF i = 0 THEN head ELSE Q2proReadMoveDelta(m[i - 1])]
  BY <1>5, Zenon DEF head
<1> HIDE DEF m
<1>7. \A i \in 0 .. 3 : m[i] = IF i = 0 THEN head ELSE Q2proReadMoveDelta(m[i - 1])
  BY <1>6, Zenon
<1>8. Q2proChain(m, head)
  BY <1>7 DEF Q2proChain
<1> QED BY <1>1, <1>8 DEF head, VanillaOpening, PlainOpening

R1q2Chain(m, head, version) ==
  /\ m[0] = head /\ m[1] = R1q2ReadMoveDelta(version, m[0])
     /\ m[2] = R1q2ReadMoveDelta(version, m[1])
  /\ m[3] = R1q2ReadMoveDelta(version, m[2])

\* And the reader of R1Q2.
LEMMA R1q2Chained ==
  ASSUME NEW wire, NEW version
  PROVE  \E m : /\ R1q2ReadMove(version, wire) = ReadMoves(m)
                /\ R1q2Chain(m, PlainOpening(wire), version)
<1> DEFINE head == Get(Reader(wire), "lastframe", "i32")
           m[i \in 0 .. 3] ==
             IF i = 0 THEN Get(Reader(wire), "lastframe", "i32")
             ELSE R1q2ReadMoveDelta(version, m[i - 1])
<1>1. R1q2ReadMove(version, wire) = ReadMoves(m)
  BY DEF R1q2ReadMove
<1> HIDE DEF head
<1>2. PICK a, b, c : /\ a = R1q2ReadMoveDelta(version, head) /\ b = R1q2ReadMoveDelta(version, a)
                     /\ c = R1q2ReadMoveDelta(version, b)
  OBVIOUS
<1>3. PICK g : g = [i \in 0 .. 3 |-> IF i = 0 THEN head ELSE IF i = 1 THEN a ELSE IF i = 2 THEN b ELSE c]
  OBVIOUS
<1>4. g[0] = head /\ g[1] = a /\ g[2] = b /\ g[3] = c /\ g = [i \in 0 .. 3 |-> g[i]]
  BY <1>3
<1>5. g = [i \in 0 .. 3 |-> IF i = 0 THEN head ELSE R1q2ReadMoveDelta(version, g[i - 1])]
  <2>1. ASSUME NEW i \in 0 .. 3
        PROVE  g[i] = IF i = 0 THEN head ELSE R1q2ReadMoveDelta(version, g[i - 1])
    <3>1. CASE i = 0 BY <1>4, <3>1
    <3>2. CASE i = 1 BY <1>2, <1>4, <3>2
    <3>3. CASE i = 2 BY <1>2, <1>4, <3>3
    <3>4. CASE i = 3 BY <1>2, <1>4, <3>4
    <3> QED BY <3>1, <3>2, <3>3, <3>4
  <2> QED BY <1>4, <2>1
<1>6. m = [i \in 0 .. 3 |-> IF i = 0 THEN head ELSE R1q2ReadMoveDelta(version, m[i - 1])]
  BY <1>5, Zenon DEF head
<1> HIDE DEF m
<1>7. \A i \in 0 .. 3 : m[i] = IF i = 0 THEN head ELSE R1q2ReadMoveDelta(version, m[i - 1])
  BY <1>6, Zenon
<1>8. R1q2Chain(m, head, version)
  BY <1>7 DEF R1q2Chain
<1> QED BY <1>1, <1>8 DEF head, VanillaOpening, PlainOpening

\* A delta as a protocol without batches, or with them, writes and reads it
DeltaOut(c, d) ==
  IF c.proto = "r1q2" THEN R1q2WriteMoveDelta(c.version, d)
  ELSE IF c.proto = "q2repro" THEN Q2reproWriteMoveDelta(d)
  ELSE VanillaWriteMoveDelta(d)
DeltaIn(c, r) ==
  IF c.proto = "r1q2" THEN R1q2ReadMoveDelta(c.version, r)
  ELSE IF c.proto = "q2repro" THEN Q2reproReadMoveDelta(r)
  ELSE VanillaReadMoveDelta(r)
CanSend(c, d) ==
  /\ IsMove(d)
  /\ c.proto = "r1q2" => SuitsR1q2(c, d)
  /\ c.proto = "q2repro" => ~MovesUp(d)

\* A move the context can send arrives, whatever follows it.
LEMMA DeltaArrives ==
  ASSUME NEW c, NEW d, CanSend(c, d), NEW rest \in Seq(Items), NEW r, Reading(r),
         r.in = DeltaOut(c, d).wire \o rest
  PROVE  /\ DeltaOut(c, d) = Written(DeltaOut(c, d).wire) /\ DeltaOut(c, d).wire \in Seq(Items)
         /\ MoveRead(DeltaIn(c, r), d, rest)
<1>1. CASE c.proto = "r1q2"
  <2>1. PICK version : version = c.version
    OBVIOUS
  <2>2. /\ IsMove(d) /\ d.val[F("buttons")] \in GameButtonValues
        /\ version >= R1Q2_UCMD => FivesFit(d)
        /\ r.in = R1q2WriteMoveDelta(version, d).wire \o rest
    BY <1>1, <2>1 DEF CanSend, SuitsR1q2, DeltaOut
  <2>3. /\ R1q2WriteMoveDelta(version, d) = Written(R1q2WriteMoveDelta(version, d).wire)
        /\ R1q2WriteMoveDelta(version, d).wire \in Seq(Items)
        /\ MoveRead(R1q2ReadMoveDelta(version, r), d, rest)
    BY <2>2, PackedMoveArrives
  <2> QED BY <1>1, <2>1, <2>3 DEF DeltaOut, DeltaIn
<1>2. CASE c.proto = "q2repro"
  <2>1. 5 \notin MoveFlags(d) /\ Q2reproWriteMoveDelta(d) = VanillaWriteMoveDelta(d)
    BY <1>2, MoveFlagsAre DEF CanSend, MovesUp, Q2reproWriteMoveDelta, VanillaWriteMoveDelta
  <2>2. IsMove(d) /\ r.in = VanillaWriteMoveDelta(d).wire \o rest
    BY <1>2, <2>1 DEF CanSend, DeltaOut
  <2> QED BY <1>2, <2>1, <2>2, PlainMoveArrives DEF DeltaOut, DeltaIn
<1>3. CASE c.proto \notin {"r1q2", "q2repro"}
  <2>1. IsMove(d) /\ r.in = VanillaWriteMoveDelta(d).wire \o rest
    BY <1>3 DEF CanSend, DeltaOut
  <2> QED BY <1>3, <2>1, PlainMoveArrives DEF DeltaOut, DeltaIn
<1> QED BY <1>1, <1>2, <1>3

\* Writing it is no error.
LEMMA DeltaWritten ==
  ASSUME NEW c, NEW d, CanSend(c, d)
  PROVE  \E w : w \in Seq(Items) /\ w = DeltaOut(c, d).wire /\ DeltaOut(c, d) = Written(w)
<1>1. PICK rest : rest = <<>> /\ rest \in Seq(Items)
  BY NoItems
<1>2. PICK r : r = [in |-> DeltaOut(c, d).wire \o rest, got |-> 0, ok |-> TRUE]
  OBVIOUS
<1>3. Reading(r) /\ r.in = DeltaOut(c, d).wire \o rest
  BY <1>2 DEF Reading
<1> QED BY <1>1, <1>3, DeltaArrives

\* Three moves, each read where the one before left the reader
LEMMA ThreeArrive ==
  ASSUME NEW c, NEW d1, NEW d2, NEW d3, CanSend(c, d1), CanSend(c, d2), CanSend(c, d3),
         NEW w1 \in Seq(Items), NEW w2 \in Seq(Items), NEW w3 \in Seq(Items),
         w1 = DeltaOut(c, d1).wire, w2 = DeltaOut(c, d2).wire, w3 = DeltaOut(c, d3).wire,
         NEW m, Reading(m[0]), m[0].in = w1 \o (w2 \o w3),
         m[1] = DeltaIn(c, m[0]), m[2] = DeltaIn(c, m[1]), m[3] = DeltaIn(c, m[2])
  PROVE  MoveRead(m[1], d1, w2 \o w3) /\ MoveRead(m[2], d2, w3) /\ MoveRead(m[3], d3, <<>>)
<1>1. PICK rest \in Seq(Items) : rest = w2 \o w3
  BY Joined
<1>2. MoveRead(m[1], d1, rest)
  <2>1. m[0].in = DeltaOut(c, d1).wire \o rest
    BY <1>1
  <2> QED BY <2>1, DeltaArrives
<1>3. MoveRead(m[2], d2, w3)
  <2>1. Reading(m[1]) /\ m[1].in = DeltaOut(c, d2).wire \o w3
    BY <1>1, <1>2 DEF MoveRead
  <2> QED BY <2>1, DeltaArrives
<1>4. PICK none \in Seq(Items) : none = <<>>
  BY NoItems, Zenon
<1>5. MoveRead(m[3], d3, none)
  <2>1. w3 \o none = w3
    BY <1>4
  <2>2. Reading(m[2]) /\ m[2].in = DeltaOut(c, d3).wire \o none
    BY <1>3, <2>1 DEF MoveRead
  <2> QED BY <2>2, DeltaArrives
<1> QED BY <1>1, <1>2, <1>3, <1>4, <1>5
-----------------------------------------------------------------------------
\* The three moves of a message, and what is read of them
MoveArrived(c, s, d) ==
  /\ s.r.ok /\ s.r.in = <<>>
  /\ \A i \in 1 .. 3 : \A f \in Moves(c, d)[i].set \cup {F("msec"), F("lightlevel")} :
       f \in DOMAIN s.moves[i] /\ s.moves[i][f] = d.val[f]
Sendable(c, d) == CanSend(c, d) /\ d.set \subseteq MoveFields

\* The middle one is e
MessageOf(c, d, e) ==
  /\ Moves(c, d) = <<d, e, d>> /\ CanSend(c, d) /\ CanSend(c, e) /\ e.val = d.val
  /\ e.set \subseteq MoveWhole /\ d.set \subseteq MoveWhole

\* The three moves of a message are the move, another one and the move again.
LEMMA MovesAre ==
  ASSUME NEW c, NEW d, Sendable(c, d)
  PROVE  \E e : MessageOf(c, d, e)
<1>1. PICK e : e = MiddleMove(c, d)
  OBVIOUS
<1>2. /\ e.val = d.val /\ e.set \subseteq MoveWhole
      /\ c.proto = "q2repro" => ~MovesUp(e)
  BY <1>1 DEF MiddleMove, MovesUp
<1>3. CanSend(c, d) /\ d.set \subseteq MoveWhole
  BY DEF Sendable, MoveWhole
<1>4. CanSend(c, e)
  <2>1. IsMove(e)
    BY ONLY <1>2, <1>3 DEF CanSend, IsMove
  <2>2. c.proto = "r1q2" => SuitsR1q2(c, e)
    BY ONLY <1>2, <1>3 DEF CanSend, SuitsR1q2, FivesFit
  <2> QED BY ONLY <1>2, <2>1, <2>2 DEF CanSend
<1>5. Moves(c, d) = <<d, e, d>>
  BY <1>1 DEF Moves
<1> QED BY ONLY <1>2, <1>3, <1>4, <1>5 DEF MessageOf

\* If each of the three arrives, the message has.
LEMMA AllArrived ==
  ASSUME NEW c, NEW d, Sendable(c, d), NEW e, MessageOf(c, d, e),
         NEW m, NEW r1, NEW r2, MoveRead(m[1], d, r1), MoveRead(m[2], e, r2),
             MoveRead(m[3], d, <<>>)
  PROVE  MoveArrived(c, ReadMoves(m), d)
<1>0. /\ Moves(c, d)[1] = d /\ Moves(c, d)[2] = e /\ Moves(c, d)[3] = d /\ e.val = d.val
      /\ e.set \subseteq MoveWhole /\ d.set \subseteq MoveWhole
  BY DEF MessageOf
<1>1. PICK s : s = ReadMoves(m)
  OBVIOUS
<1>2. s.r = m[3] /\ s.moves[1] = m[1].got /\ s.moves[2] = m[2].got /\ s.moves[3] = m[3].got
  BY <1>1 DEF ReadMoves
<1>3. F("msec") \in MoveWhole /\ F("lightlevel") \in MoveWhole
  BY DEF MoveWhole
<1>4. s.r.ok /\ s.r.in = <<>>
  <2>1. PICK a : a = m[3].in
    OBVIOUS
  <2>2. PICK b : b = m[3].got
    OBVIOUS
  <2>3. m[3] = [in |-> a, got |-> b, ok |-> TRUE] /\ a = <<>>
    BY <2>1, <2>2 DEF MoveRead, Reading
  <2> QED BY <1>2, <2>3
<1>5. ASSUME NEW i \in 1 .. 3, NEW f \in Moves(c, d)[i].set \cup {F("msec"), F("lightlevel")}
      PROVE  f \in DOMAIN s.moves[i] /\ s.moves[i][f] = d.val[f]
  <2>1. CASE i = 1
    <3>1. f \in MoveWhole /\ f \in d.set \cup {F("msec"), F("lightlevel")}
      BY <1>0, <1>3, <1>5, <2>1
    <3> QED BY <1>0, <1>2, <2>1, <3>1 DEF MoveRead
  <2>2. CASE i = 2
    <3>1. f \in MoveWhole /\ f \in e.set \cup {F("msec"), F("lightlevel")}
      BY <1>0, <1>3, <1>5, <2>2
    <3> QED BY <1>0, <1>2, <2>2, <3>1 DEF MoveRead
  <2>3. CASE i = 3
    <3>1. f \in MoveWhole /\ f \in d.set \cup {F("msec"), F("lightlevel")}
      BY <1>0, <1>3, <1>5, <2>3
    <3> QED BY <1>0, <1>2, <2>3, <3>1 DEF MoveRead
  <2> QED BY <2>1, <2>2, <2>3
<1> QED BY <1>1, <1>4, <1>5 DEF MoveArrived

\* Two items and three are a list of five.
LEMMA FiveInList ==
  ASSUME NEW a, NEW b, NEW x, NEW y, NEW z
  PROVE  <<a, b>> \o <<x, y, z>> = <<a, b, x, y, z>>
<1>1. PICK s : s = <<a, b>>
  OBVIOUS
<1>2. PICK t : t = <<x, y, z>>
  OBVIOUS
<1>3. PICK S : S = {a, b, x, y, z}
  OBVIOUS
<1>4. s \in Seq(S) /\ t \in Seq(S) /\ Len(s) = 2 /\ Len(t) = 3
  BY <1>1, <1>2, <1>3
<1>5. s \o t = [i \in 1 .. 5 |-> IF i <= 2 THEN s[i] ELSE t[i - 2]]
  <2>1. PICK st : st = s \o t
    OBVIOUS
  <2>2. /\ st \in Seq(S) /\ Len(st) = Len(s) + Len(t)
        /\ \A i \in 1 .. Len(s) + Len(t) : st[i] = IF i <= Len(s) THEN s[i] ELSE t[i - Len(s)]
    BY ONLY <1>4, <2>1, ConcatProperties
  <2>3. st \in [1 .. Len(st) -> S]
    BY <2>2, LenProperties
  <2>4. /\ st \in [1 .. 5 -> S]
        /\ \A i \in 1 .. 5 : st[i] = IF i <= 2 THEN s[i] ELSE t[i - 2]
    BY ONLY <1>4, <2>2, <2>3
  <2>5. st = [i \in 1 .. 5 |-> st[i]]
    BY ONLY <2>4
  <2>6. st = [i \in 1 .. 5 |-> IF i <= 2 THEN s[i] ELSE t[i - 2]]
    BY ONLY <2>4, <2>5
  <2> QED BY ONLY <2>1, <2>6
<1>6. PICK u : u = <<a, b, x, y, z>>
  OBVIOUS
<1>7. u = [i \in 1 .. 5 |-> u[i]]
  BY <1>6
<1>8. ASSUME NEW i \in 1 .. 5 PROVE u[i] = IF i <= 2 THEN s[i] ELSE t[i - 2]
  BY <1>1, <1>2, <1>6
<1> QED BY <1>1, <1>2, <1>5, <1>6, <1>7, <1>8

\* Three items and three are a list of six.
LEMMA SixInList ==
  ASSUME NEW a, NEW b, NEW g, NEW x, NEW y, NEW z
  PROVE  <<a, b, g>> \o <<x, y, z>> = <<a, b, g, x, y, z>>
<1>1. PICK s : s = <<a, b, g>>
  OBVIOUS
<1>2. PICK t : t = <<x, y, z>>
  OBVIOUS
<1>3. PICK S : S = {a, b, g, x, y, z}
  OBVIOUS
<1>4. s \in Seq(S) /\ t \in Seq(S) /\ Len(s) = 3 /\ Len(t) = 3
  BY <1>1, <1>2, <1>3
<1>5. s \o t = [i \in 1 .. 6 |-> IF i <= 3 THEN s[i] ELSE t[i - 3]]
  <2>1. PICK st : st = s \o t
    OBVIOUS
  <2>2. /\ st \in Seq(S) /\ Len(st) = Len(s) + Len(t)
        /\ \A i \in 1 .. Len(s) + Len(t) : st[i] = IF i <= Len(s) THEN s[i] ELSE t[i - Len(s)]
    BY ONLY <1>4, <2>1, ConcatProperties
  <2>3. st \in [1 .. Len(st) -> S]
    BY <2>2, LenProperties
  <2>4. /\ st \in [1 .. 6 -> S]
        /\ \A i \in 1 .. 6 : st[i] = IF i <= 3 THEN s[i] ELSE t[i - 3]
    BY ONLY <1>4, <2>2, <2>3
  <2>5. st = [i \in 1 .. 6 |-> st[i]]
    BY ONLY <2>4
  <2>6. st = [i \in 1 .. 6 |-> IF i <= 3 THEN s[i] ELSE t[i - 3]]
    BY ONLY <2>4, <2>5
  <2> QED BY ONLY <2>1, <2>6
<1>6. PICK u : u = <<a, b, g, x, y, z>>
  OBVIOUS
<1>7. u = [i \in 1 .. 6 |-> u[i]]
  BY <1>6
<1>8. ASSUME NEW i \in 1 .. 6 PROVE u[i] = IF i <= 3 THEN s[i] ELSE t[i - 3]
  BY <1>1, <1>2, <1>6
<1> QED BY <1>1, <1>2, <1>5, <1>6, <1>7, <1>8

\* What a protocol writes of three moves is what it writes of each.
LEMMA ThreeInList ==
  ASSUME NEW c, NEW x, NEW y
  PROVE  /\ [i \in 1 .. 3 |-> DeltaOut(c, <<x, y, x>>[i])]
              = <<DeltaOut(c, x), DeltaOut(c, y), DeltaOut(c, x)>>
         /\ [i \in 1 .. 3 |-> VanillaWriteMoveDelta(<<x, y, x>>[i])]
              = <<VanillaWriteMoveDelta(x), VanillaWriteMoveDelta(y), VanillaWriteMoveDelta(x)>>
         /\ [i \in 1 .. 3 |-> R1q2WriteMoveDelta(c.version, <<x, y, x>>[i])]
              = <<R1q2WriteMoveDelta(c.version, x), R1q2WriteMoveDelta(c.version, y),
                  R1q2WriteMoveDelta(c.version, x)>>
         /\ [i \in 1 .. 3 |-> Q2proWriteMoveDelta(<<x, y, x>>[i])]
              = <<Q2proWriteMoveDelta(x), Q2proWriteMoveDelta(y), Q2proWriteMoveDelta(x)>>
         /\ [i \in 1 .. 3 |-> Q2reproWriteMoveDelta(<<x, y, x>>[i])]
              = <<Q2reproWriteMoveDelta(x), Q2reproWriteMoveDelta(y), Q2reproWriteMoveDelta(x)>>
  OBVIOUS

\* The head of a message of moves
LEMMA HeadItems ==
  \E a, b, g \in Items :
    /\ Put("u8", clc_move) = Written(<<a>>) /\ Put("i32", 7) = Written(<<b>>) /\ b = Item("i32", 7)
    /\ g = RawItem(1) /\ g.w = 1001
<1>1. Item("u8", 2) \in Items
  BY ByteIsItem
<1>2. Item("i32", 7) \in Items
  <2>1. 7 \in Values("i32") /\ GoesWith("i32", "i32")
    BY InRange, Alike
  <2> QED BY <2>1, NumberSent
<1>3. RawItem(1) \in Items /\ RawItem(1).w = 1001
  BY DEF RawItem, Items
<1> QED BY <1>1, <1>2, <1>3 DEF Put, clc_move

\* What the readers of R1Q2 and Q2PRO have before the moves
LEMMA PlainHead ==
  ASSUME NEW rest \in Seq(Items), NEW r, r = PlainOpening(<<Item("i32", 7)>> \o rest)
  PROVE  Reading(r) /\ r.in = rest
<1>1. 7 \in Values("i32") /\ GoesWith("i32", "i32")
  BY InRange, Alike
<1>2. PICK q : q = Reader(<<Item("i32", 7)>> \o rest)
  OBVIOUS
<1>3. Reading(q) /\ q.in = <<Item("i32", 7)>> \o rest
  BY <1>2 DEF Reading, Reader
<1>4. GotOne(Get(q, "lastframe", "i32"), q, rest, "lastframe", 7)
  BY <1>1, <1>3, GetArrives
<1> QED BY <1>2, <1>4 DEF GotOne, PlainOpening

\* Vanilla has a checksum before it
LEMMA VanillaHead ==
  ASSUME NEW rest \in Seq(Items), NEW g \in Items, g.w = 1001, NEW b \in Items, b = Item("i32", 7),
         NEW r, r = VanillaOpening(<<g>> \o (<<b>> \o rest))
  PROVE  Reading(r) /\ r.in = rest
<1>1. 7 \in Values("i32") /\ GoesWith("i32", "i32")
  BY InRange, Alike
<1>2. PICK after : after = <<b>> \o rest
  OBVIOUS
<1>3. after \in Seq(Items)
  BY <1>2
<1>4. PICK wire : wire = <<g>> \o after
  OBVIOUS
<1>5. wire # <<>> /\ wire[1] = g /\ Tail(wire) = after
  BY <1>3, <1>4
<1>6. PICK q : q = GetWide(Reader(wire), "checksum", 1001)
  OBVIOUS
<1>7. Reading(q) /\ q.in = after
  <2>1. PICK p : p = Reader(wire)
    OBVIOUS
  <2>2. p = [in |-> wire, got |-> [f \in {} |-> 0], ok |-> TRUE] /\ p.ok /\ p.in = wire
    BY <2>1 DEF Reader
  <2>3. p.ok /\ p.in # <<>> /\ p.in[1].w = 1001
    BY <1>5, <2>2
  <2>4. q = GetWide(p, "checksum", 1001)
    BY <1>6, <2>1
  <2> DEFINE got == [f \in DOMAIN p.got \cup {F("checksum")} |->
                       IF f = F("checksum") THEN p.in[1].v ELSE p.got[f]]
  <2>5. q = [p EXCEPT !.in = Tail(p.in), !.got = got]
    BY ONLY <2>3, <2>4 DEF GetWide
  <2> HIDE DEF got
  <2>6. q = [in |-> after, got |-> got, ok |-> TRUE]
    <3>1. Tail(p.in) = after
      BY <1>5, <2>2
    <3> QED BY ONLY <2>2, <2>5, <3>1
  <2> QED BY <2>6 DEF Reading
<1>8. GotOne(Get(q, "lastframe", "i32"), q, rest, "lastframe", 7)
  <2>1. rest \in Seq(Items) /\ q.in = <<Item("i32", 7)>> \o rest
    BY <1>2, <1>7
  <2> QED BY ONLY <1>1, <1>7, <2>1, GetArrives
<1> QED BY <1>2, <1>4, <1>6, <1>8 DEF GotOne, VanillaOpening
-----------------------------------------------------------------------------
\* The first item is the command, which the parser has taken
LEMMA CommandOff ==
  ASSUME NEW a \in Items, NEW rest \in Seq(Items) PROVE Tail(<<a>> \o rest) = rest
<1>1. PICK wire : wire = <<a>> \o rest
  OBVIOUS
<1>2. wire \in Seq(Items) /\ Len(wire) = 1 + Len(rest)
      /\ \A i \in 1 .. Len(rest) : wire[i + 1] = rest[i]
  BY <1>1
<1> QED BY <1>1, <1>2

\* The reader that has the head of a message reads its three moves
LEMMA MovesRead ==
  ASSUME NEW c, NEW d, Sendable(c, d), NEW e, MessageOf(c, d, e),
         NEW x \in Seq(Items), NEW y \in Seq(Items), x = DeltaOut(c, d).wire,
             y = DeltaOut(c, e).wire,
         NEW m, Reading(m[0]), m[0].in = x \o (y \o x),
         m[1] = DeltaIn(c, m[0]), m[2] = DeltaIn(c, m[1]), m[3] = DeltaIn(c, m[2])
  PROVE  MoveArrived(c, ReadMoves(m), d)
<1>0. CanSend(c, d) /\ CanSend(c, e)
  BY DEF MessageOf
<1>1. MoveRead(m[1], d, y \o x) /\ MoveRead(m[2], e, x) /\ MoveRead(m[3], d, <<>>)
  BY ONLY <1>0, x \in Seq(Items), y \in Seq(Items), Reading(m[0]),
          x = DeltaOut(c, d).wire, y = DeltaOut(c, e).wire, m[0].in = x \o (y \o x),
          m[1] = DeltaIn(c, m[0]), m[2] = DeltaIn(c, m[1]), m[3] = DeltaIn(c, m[2]), ThreeArrive,
              Zenon
<1> QED BY <1>1, AllArrived

\* A message of moves arrives in the vanilla protocol.
LEMMA VanillaMessage ==
  ASSUME NEW c, c.proto = "vanilla", NEW d, Sendable(c, d)
  PROVE  /\ ~WriteMove(c, 7, Moves(c, d)).err
         /\ MoveArrived(c, ReadMove(c, WriteMove(c, 7, Moves(c, d)).wire), d)
<1>0. PICK e : MessageOf(c, d, e)
  BY MovesAre
<1>1. Moves(c, d) = <<d, e, d>> /\ CanSend(c, d) /\ CanSend(c, e)
  BY <1>0 DEF MessageOf
<1>2. PICK x : x \in Seq(Items) /\ x = DeltaOut(c, d).wire /\ DeltaOut(c, d) = Written(x)
  BY <1>1, DeltaWritten
<1>3. PICK y : y \in Seq(Items) /\ y = DeltaOut(c, e).wire /\ DeltaOut(c, e) = Written(y)
  BY <1>1, DeltaWritten
<1>4. PICK a, b, g \in Items :
        /\ Put("u8", clc_move) = Written(<<a>>) /\ Put("i32", 7) = Written(<<b>>)
           /\ b = Item("i32", 7)
        /\ g = RawItem(1) /\ g.w = 1001
  BY HeadItems
<1>5. PICK moves : moves = x \o (y \o x)
  OBVIOUS
<1>6. y \o x \in Seq(Items) /\ moves \in Seq(Items)
  BY <1>2, <1>3, <1>5, Joined
<1>7. PICK wire : wire = <<a>> \o (<<g>> \o (<<b>> \o moves))
  OBVIOUS
<1>8. \A z : DeltaOut(c, z) = VanillaWriteMoveDelta(z) /\ DeltaIn(c, z) = VanillaReadMoveDelta(z)
  BY DEF DeltaOut, DeltaIn
<1>9. WriteMove(c, 7, Moves(c, d)) = VanillaWriteMove(7, <<d, e, d>>)
  <2>1. WriteMove(c, 7, Moves(c, d)) = VanillaWriteMove(7, Moves(c, d))
    BY Zenon DEF WriteMove
  <2> QED BY <1>1, <2>1
<1>10. [i \in 1 .. 3 |-> VanillaWriteMoveDelta(<<d, e, d>>[i])]
       = <<Written(x), Written(y), Written(x)>>
  <2>1. [i \in 1 .. 3 |-> VanillaWriteMoveDelta(<<d, e, d>>[i])]
          = <<VanillaWriteMoveDelta(d), VanillaWriteMoveDelta(e), VanillaWriteMoveDelta(d)>>
    BY ONLY ThreeInList, Zenon
  <2> QED BY ONLY <1>2, <1>3, <1>8, <2>1
<1>11. VanillaWriteMove(7, <<d, e, d>>) = Written(wire)
  <2>1. VanillaWriteMove(7, <<d, e, d>>)
          = InTurn(<<Written(<<a>>), Written(<<g>>), Written(<<b>>)>>
                   \o <<Written(x), Written(y), Written(x)>>)
    BY ONLY <1>4, <1>10, Zenon DEF VanillaWriteMove
  <2>2. <<Written(<<a>>), Written(<<g>>), Written(<<b>>)>> \o <<Written(x), Written(y), Written(x)>>
          = <<Written(<<a>>), Written(<<g>>), Written(<<b>>), Written(x), Written(y), Written(x)>>
    BY SixInList
  <2>3. PICK as, gs, bs : as = <<a>> /\ gs = <<g>> /\ bs = <<b>>
    OBVIOUS
  <2>4. SixLists(as, gs, bs, x, y, x)
    BY <1>2, <1>3, <1>4, <2>3 DEF SixLists
  <2>5. SixInTurn(as, gs, bs, x, y, x)
    BY ONLY <2>4, SixParts
  <2> QED BY ONLY <1>5, <1>7, <2>1, <2>2, <2>3, <2>5 DEF SixInTurn
<1>12. PICK after : after = <<b>> \o moves
  OBVIOUS
<1>13. after \in Seq(Items) /\ <<g>> \o after \in Seq(Items)
  BY <1>4, <1>6, <1>12
<1>14. Tail(wire) = <<g>> \o (<<b>> \o moves)
  BY ONLY <1>4, <1>7, <1>12, <1>13, CommandOff
<1>15. ReadMove(c, wire) = VanillaReadMove(Tail(wire))
  BY Zenon DEF ReadMove
<1>16. PICK m : /\ VanillaReadMove(Tail(wire)) = ReadMoves(m)
                /\ VanillaChain(m, VanillaOpening(Tail(wire)))
  BY ONLY VanillaChained, Zenon
<1>17. Reading(m[0]) /\ m[0].in = moves
  <2>1. m[0] = VanillaOpening(<<g>> \o (<<b>> \o moves))
    BY ONLY <1>14, <1>16 DEF VanillaChain
  <2> QED BY ONLY <1>4, <1>6, <2>1, VanillaHead
<1>18. m[1] = DeltaIn(c, m[0]) /\ m[2] = DeltaIn(c, m[1]) /\ m[3] = DeltaIn(c, m[2])
  BY ONLY <1>8, <1>16 DEF VanillaChain
<1>19. MoveArrived(c, ReadMoves(m), d)
  BY ONLY <1>0, <1>2, <1>3, <1>5, <1>17, <1>18, Sendable(c, d), MovesRead
<1>20. WriteMove(c, 7, Moves(c, d)).wire = wire /\ ~WriteMove(c, 7, Moves(c, d)).err
  BY <1>9, <1>11 DEF Written
<1> QED BY <1>15, <1>16, <1>19, <1>20

\* Five parts in turn: what they write, one after the other
FiveLists(a, b, c, d, e) ==
  /\ a \in Seq(Items) /\ b \in Seq(Items) /\ c \in Seq(Items) /\ d \in Seq(Items)
     /\ e \in Seq(Items)
FiveInTurn(a, b, c, d, e) ==
  InTurn(<<Written(a), Written(b), Written(c), Written(d), Written(e)>>)
    = Written(a \o (b \o (c \o (d \o e))))
\* Five lists joined are what five parts in turn write.
LEMMA FiveTogether ==
  ASSUME NEW a, NEW b, NEW c, NEW d, NEW e, FiveLists(a, b, c, d, e) PROVE FiveInTurn(a, b, c, d, e)
<1>1. /\ a \in Seq(Items) /\ b \in Seq(Items) /\ c \in Seq(Items) /\ d \in Seq(Items)
         /\ e \in Seq(Items)
  BY DEF FiveLists
<1>2. InTurn(<<Written(a), Written(b), Written(c), Written(d), Written(e)>>)
        = Written(a \o (b \o (c \o (d \o e))))
  BY ONLY <1>1, FiveParts
<1> QED BY ONLY <1>2 DEF FiveInTurn

\* R1Q2 and Q2PRO: the head has no checksum
Chained(c, m, head) ==
  /\ m[0] = head /\ m[1] = DeltaIn(c, m[0]) /\ m[2] = DeltaIn(c, m[1]) /\ m[3] = DeltaIn(c, m[2])

\* A message that opens with the frame only arrives if its moves are read in a chain.
LEMMA PlainMessage ==
  ASSUME NEW c, NEW d, Sendable(c, d), NEW e, MessageOf(c, d, e),
         NEW o, o = InTurn(<<Put("u8", clc_move), Put("i32", 7)>>
                           \o <<DeltaOut(c, d), DeltaOut(c, e), DeltaOut(c, d)>>)
  PROVE  /\ ~o.err
         /\ \A m : Chained(c, m, PlainOpening(Tail(o.wire))) => MoveArrived(c, ReadMoves(m), d)
<1>1. CanSend(c, d) /\ CanSend(c, e)
  BY DEF MessageOf
<1>2. PICK x : x \in Seq(Items) /\ x = DeltaOut(c, d).wire /\ DeltaOut(c, d) = Written(x)
  BY <1>1, DeltaWritten
<1>3. PICK y : y \in Seq(Items) /\ y = DeltaOut(c, e).wire /\ DeltaOut(c, e) = Written(y)
  BY <1>1, DeltaWritten
<1>4. PICK a, b, g \in Items :
        /\ Put("u8", clc_move) = Written(<<a>>) /\ Put("i32", 7) = Written(<<b>>)
           /\ b = Item("i32", 7)
        /\ g = RawItem(1) /\ g.w = 1001
  BY HeadItems
<1>5. PICK moves : moves = x \o (y \o x)
  OBVIOUS
<1>6. y \o x \in Seq(Items) /\ moves \in Seq(Items)
  BY <1>2, <1>3, <1>5, Joined
<1>7. PICK wire : wire = <<a>> \o (<<b>> \o moves)
  OBVIOUS
<1>11. o = Written(wire)
  <2>1. o = InTurn(<<Written(<<a>>), Written(<<b>>)>> \o <<Written(x), Written(y), Written(x)>>)
    BY <1>2, <1>3, <1>4
  <2>2. <<Written(<<a>>), Written(<<b>>)>> \o <<Written(x), Written(y), Written(x)>>
          = <<Written(<<a>>), Written(<<b>>), Written(x), Written(y), Written(x)>>
    BY FiveInList
  <2>3. PICK as, bs : as = <<a>> /\ bs = <<b>>
    OBVIOUS
  <2>4. FiveLists(as, bs, x, y, x)
    BY <1>2, <1>3, <1>4, <2>3 DEF FiveLists
  <2>5. FiveInTurn(as, bs, x, y, x)
    BY ONLY <2>4, FiveTogether
  <2> QED BY ONLY <1>5, <1>7, <2>1, <2>2, <2>3, <2>5 DEF FiveInTurn
<1>12. <<b>> \o moves \in Seq(Items)
  BY <1>4, <1>6
<1>13. Tail(wire) = <<Item("i32", 7)>> \o moves
  BY ONLY <1>4, <1>7, <1>12, CommandOff
<1>14. o.wire = wire /\ ~o.err
  BY <1>11 DEF Written
<1>15. ASSUME NEW m, Chained(c, m, PlainOpening(Tail(o.wire))) PROVE MoveArrived(c, ReadMoves(m), d)
  <2>1. m[0] = PlainOpening(<<Item("i32", 7)>> \o moves)
    BY ONLY <1>13, <1>14, <1>15 DEF Chained
  <2>2. Reading(m[0]) /\ m[0].in = moves
    BY ONLY <1>6, <2>1, PlainHead
  <2>3. m[1] = DeltaIn(c, m[0]) /\ m[2] = DeltaIn(c, m[1]) /\ m[3] = DeltaIn(c, m[2])
    BY ONLY <1>15 DEF Chained
  <2> QED BY <1>2, <1>3, <1>5, <2>2, <2>3, MovesRead
<1> QED BY <1>14, <1>15

\* A message of moves arrives in Q2PRO.
LEMMA Q2proMessage ==
  ASSUME NEW c, c.proto = "q2pro", NEW d, Sendable(c, d)
  PROVE  /\ ~WriteMove(c, 7, Moves(c, d)).err
         /\ MoveArrived(c, ReadMove(c, WriteMove(c, 7, Moves(c, d)).wire), d)
<1>0. PICK e : MessageOf(c, d, e)
  BY MovesAre
<1>1. Moves(c, d) = <<d, e, d>> /\ CanSend(c, d) /\ CanSend(c, e)
  BY <1>0 DEF MessageOf
<1>2. PICK o : o = WriteMove(c, 7, Moves(c, d))
  OBVIOUS
<1>3. \A z : DeltaOut(c, z) = Q2proWriteMoveDelta(z) /\ DeltaIn(c, z) = Q2proReadMoveDelta(z)
  BY PlainMovesAgree DEF DeltaOut, DeltaIn
<1>4. o = InTurn(<<Put("u8", clc_move), Put("i32", 7)>>
                 \o <<DeltaOut(c, d), DeltaOut(c, e), DeltaOut(c, d)>>)
  <2>1. o = Q2proWriteMove(7, Moves(c, d))
    BY <1>2, Zenon DEF WriteMove
  <2>2. o = Q2proWriteMove(7, <<d, e, d>>)
    BY ONLY <1>1, <2>1
  <2>3. [i \in 1 .. 3 |-> Q2proWriteMoveDelta(<<d, e, d>>[i])]
          = <<Q2proWriteMoveDelta(d), Q2proWriteMoveDelta(e), Q2proWriteMoveDelta(d)>>
    BY ONLY ThreeInList, Zenon
  <2>4. o = InTurn(<<Put("u8", clc_move), Put("i32", 7)>>
                   \o <<Q2proWriteMoveDelta(d), Q2proWriteMoveDelta(e), Q2proWriteMoveDelta(d)>>)
    BY ONLY <2>2, <2>3, Zenon DEF Q2proWriteMove
  <2> QED BY ONLY <1>3, <2>4
<1>5. ~o.err /\ \A m : Chained(c, m, PlainOpening(Tail(o.wire))) => MoveArrived(c, ReadMoves(m), d)
  BY ONLY Sendable(c, d), <1>0, <1>4, PlainMessage
<1>6. PICK m : Q2proReadMove(Tail(o.wire)) = ReadMoves(m)
               /\ Q2proChain(m, PlainOpening(Tail(o.wire)))
  BY ONLY Q2proChained, Zenon
<1>7. Chained(c, m, PlainOpening(Tail(o.wire)))
  BY ONLY <1>3, <1>6 DEF Q2proChain, Chained
<1>8. ReadMove(c, o.wire) = Q2proReadMove(Tail(o.wire))
  BY Zenon DEF ReadMove
<1> QED BY <1>2, <1>5, <1>6, <1>7, <1>8

\* A message of moves arrives in R1Q2, in each version.
LEMMA R1q2Message ==
  ASSUME NEW c, c.proto = "r1q2", NEW d, Sendable(c, d)
  PROVE  /\ ~WriteMove(c, 7, Moves(c, d)).err
         /\ MoveArrived(c, ReadMove(c, WriteMove(c, 7, Moves(c, d)).wire), d)
<1>0. PICK e : MessageOf(c, d, e)
  BY MovesAre
<1>1. Moves(c, d) = <<d, e, d>> /\ CanSend(c, d) /\ CanSend(c, e)
  BY <1>0 DEF MessageOf
<1>2. PICK o : o = WriteMove(c, 7, Moves(c, d))
  OBVIOUS
<1>3. \A z : /\ DeltaOut(c, z) = R1q2WriteMoveDelta(c.version, z)
             /\ DeltaIn(c, z) = R1q2ReadMoveDelta(c.version, z)
  BY DEF DeltaOut, DeltaIn
<1>4. o = InTurn(<<Put("u8", clc_move), Put("i32", 7)>>
                 \o <<DeltaOut(c, d), DeltaOut(c, e), DeltaOut(c, d)>>)
  <2>1. o = R1q2WriteMove(c.version, 7, Moves(c, d))
    BY <1>2, Zenon DEF WriteMove
  <2>2. o = R1q2WriteMove(c.version, 7, <<d, e, d>>)
    BY ONLY <1>1, <2>1
  <2>3. [i \in 1 .. 3 |-> R1q2WriteMoveDelta(c.version, <<d, e, d>>[i])]
          = <<R1q2WriteMoveDelta(c.version, d), R1q2WriteMoveDelta(c.version, e),
              R1q2WriteMoveDelta(c.version, d)>>
    BY ONLY ThreeInList
  <2>4. o = InTurn(<<Put("u8", clc_move), Put("i32", 7)>>
                   \o <<R1q2WriteMoveDelta(c.version, d), R1q2WriteMoveDelta(c.version, e),
                        R1q2WriteMoveDelta(c.version, d)>>)
    BY ONLY <2>2, <2>3, Zenon DEF R1q2WriteMove
  <2> QED BY ONLY <1>3, <2>4
<1>5. ~o.err /\ \A m : Chained(c, m, PlainOpening(Tail(o.wire))) => MoveArrived(c, ReadMoves(m), d)
  BY ONLY Sendable(c, d), <1>0, <1>4, PlainMessage
<1>6. PICK m : /\ R1q2ReadMove(c.version, Tail(o.wire)) = ReadMoves(m)
               /\ R1q2Chain(m, PlainOpening(Tail(o.wire)), c.version)
  BY ONLY R1q2Chained, Zenon
<1>7. Chained(c, m, PlainOpening(Tail(o.wire)))
  BY ONLY <1>3, <1>6 DEF R1q2Chain, Chained
<1>8. ReadMove(c, o.wire) = R1q2ReadMove(c.version, Tail(o.wire))
  BY Zenon DEF ReadMove
<1> QED BY <1>2, <1>5, <1>6, <1>7, <1>8
Q2reproChain(m, head) ==
  /\ m[0] = head /\ m[1] = Q2reproReadMoveDelta(m[0]) /\ m[2] = Q2reproReadMoveDelta(m[1])
  /\ m[3] = Q2reproReadMoveDelta(m[2])

\* The reader of Q2rePRO reads three moves in a chain.
LEMMA Q2reproChained ==
  ASSUME NEW wire
  PROVE  \E m : /\ Q2reproReadMove(wire) = ReadMoves(m)
                /\ Q2reproChain(m, PlainOpening(wire))
<1> DEFINE head == Get(Reader(wire), "lastframe", "i32")
           m[i \in 0 .. 3] ==
             IF i = 0 THEN Get(Reader(wire), "lastframe", "i32") ELSE Q2reproReadMoveDelta(m[i - 1])
<1>1. Q2reproReadMove(wire) = ReadMoves(m)
  BY DEF Q2reproReadMove
<1> HIDE DEF head
<1>2. PICK a, b, c : /\ a = Q2reproReadMoveDelta(head) /\ b = Q2reproReadMoveDelta(a)
                     /\ c = Q2reproReadMoveDelta(b)
  OBVIOUS
<1>3. PICK g : g = [i \in 0 .. 3 |-> IF i = 0 THEN head ELSE IF i = 1 THEN a ELSE IF i = 2 THEN b ELSE c]
  OBVIOUS
<1>4. g[0] = head /\ g[1] = a /\ g[2] = b /\ g[3] = c /\ g = [i \in 0 .. 3 |-> g[i]]
  BY <1>3
<1>5. g = [i \in 0 .. 3 |-> IF i = 0 THEN head ELSE Q2reproReadMoveDelta(g[i - 1])]
  <2>1. ASSUME NEW i \in 0 .. 3
        PROVE  g[i] = IF i = 0 THEN head ELSE Q2reproReadMoveDelta(g[i - 1])
    <3>1. CASE i = 0 BY <1>4, <3>1
    <3>2. CASE i = 1 BY <1>2, <1>4, <3>2
    <3>3. CASE i = 2 BY <1>2, <1>4, <3>3
    <3>4. CASE i = 3 BY <1>2, <1>4, <3>4
    <3> QED BY <3>1, <3>2, <3>3, <3>4
  <2> QED BY <1>4, <2>1
<1>6. m = [i \in 0 .. 3 |-> IF i = 0 THEN head ELSE Q2reproReadMoveDelta(m[i - 1])]
  BY <1>5, Zenon DEF head
<1> HIDE DEF m
<1>7. \A i \in 0 .. 3 : m[i] = IF i = 0 THEN head ELSE Q2reproReadMoveDelta(m[i - 1])
  BY <1>6, Zenon
<1>8. Q2reproChain(m, head)
  BY <1>7 DEF Q2reproChain
<1> QED BY <1>1, <1>8 DEF head, VanillaOpening, PlainOpening

\* A message of moves that do not go upward arrives in Q2rePRO.
LEMMA Q2reproMessage ==
  ASSUME NEW c, c.proto = "q2repro", NEW d, Sendable(c, d)
  PROVE  /\ ~WriteMove(c, 7, Moves(c, d)).err
         /\ MoveArrived(c, ReadMove(c, WriteMove(c, 7, Moves(c, d)).wire), d)
<1>0. PICK e : MessageOf(c, d, e)
  BY MovesAre
<1>1. Moves(c, d) = <<d, e, d>> /\ CanSend(c, d) /\ CanSend(c, e)
  BY <1>0 DEF MessageOf
<1>2. PICK o : o = WriteMove(c, 7, Moves(c, d))
  OBVIOUS
<1>3. \A z : DeltaOut(c, z) = Q2reproWriteMoveDelta(z) /\ DeltaIn(c, z) = Q2reproReadMoveDelta(z)
  BY DEF DeltaOut, DeltaIn
<1>4. o = InTurn(<<Put("u8", clc_move), Put("i32", 7)>>
                 \o <<DeltaOut(c, d), DeltaOut(c, e), DeltaOut(c, d)>>)
  <2>1. o = Q2reproWriteMove(7, Moves(c, d))
    BY <1>2, Zenon DEF WriteMove
  <2>2. o = Q2reproWriteMove(7, <<d, e, d>>)
    BY ONLY <1>1, <2>1
  <2>3. [i \in 1 .. 3 |-> Q2reproWriteMoveDelta(<<d, e, d>>[i])]
          = <<Q2reproWriteMoveDelta(d), Q2reproWriteMoveDelta(e), Q2reproWriteMoveDelta(d)>>
    BY ONLY ThreeInList, Zenon
  <2>4. o = InTurn(<<Put("u8", clc_move), Put("i32", 7)>>
                   \o <<Q2reproWriteMoveDelta(d), Q2reproWriteMoveDelta(e),
                       Q2reproWriteMoveDelta(d)>>)
    BY ONLY <2>2, <2>3, Zenon DEF Q2reproWriteMove
  <2> QED BY ONLY <1>3, <2>4
<1>5. ~o.err /\ \A m : Chained(c, m, PlainOpening(Tail(o.wire))) => MoveArrived(c, ReadMoves(m), d)
  BY ONLY Sendable(c, d), <1>0, <1>4, PlainMessage
<1>6. PICK m : Q2reproReadMove(Tail(o.wire)) = ReadMoves(m)
               /\ Q2reproChain(m, PlainOpening(Tail(o.wire)))
  BY ONLY Q2reproChained, Zenon
<1>7. Chained(c, m, PlainOpening(Tail(o.wire)))
  BY ONLY <1>3, <1>6 DEF Q2reproChain, Chained
<1>8. ReadMove(c, o.wire) = Q2reproReadMove(Tail(o.wire))
  BY Zenon DEF ReadMove
<1> QED BY <1>2, <1>5, <1>6, <1>7, <1>8

\* A move upward in the first of the moves is enough for Q2rePRO to refuse them all
LEMMA Q2reproRefuses ==
  ASSUME NEW c, c.proto = "q2repro", NEW d, MovesUp(d)
  PROVE  WriteMove(c, 7, Moves(c, d)).err
<1>1. PICK e : Moves(c, d) = <<d, e, d>>
  BY DEF Moves
<1>2. PICK x, y : x = Q2reproWriteMoveDelta(d) /\ y = Q2reproWriteMoveDelta(e)
  OBVIOUS
<1>3. x.err = TRUE
  BY <1>2 DEF Q2reproWriteMoveDelta, Refused
<1>4. PICK p, q : p = Put("u8", clc_move) /\ q = Put("i32", 7)
  OBVIOUS
<1>5. PICK o : o = WriteMove(c, 7, Moves(c, d))
  OBVIOUS
<1>6. o = InTurn(<<p, q, x, y, x>>)
  <2>1. o = Q2reproWriteMove(7, Moves(c, d))
    BY <1>5, Zenon DEF WriteMove
  <2>2. o = Q2reproWriteMove(7, <<d, e, d>>)
    BY ONLY <1>1, <2>1
  <2>3. [i \in 1 .. 3 |-> Q2reproWriteMoveDelta(<<d, e, d>>[i])] = <<x, y, x>>
    <3>1. [i \in 1 .. 3 |-> Q2reproWriteMoveDelta(<<d, e, d>>[i])]
            = <<Q2reproWriteMoveDelta(d), Q2reproWriteMoveDelta(e), Q2reproWriteMoveDelta(d)>>
      BY ONLY ThreeInList, Zenon
    <3> QED BY ONLY <1>2, <3>1
  <2>4. o = InTurn(<<p, q>> \o <<x, y, x>>)
    BY ONLY <1>4, <2>2, <2>3, Zenon DEF Q2reproWriteMove
  <2>5. <<p, q>> \o <<x, y, x>> = <<p, q, x, y, x>>
    BY FiveInList
  <2> QED BY ONLY <2>4, <2>5
<1>7. PICK parts : parts = <<p, q, x, y, x>>
  OBVIOUS
<1>8. Len(parts) = 5 /\ parts[3] = x /\ parts[4] = y /\ parts[5] = x
  BY <1>7
<1>9. PICK f : /\ InTurn(parts) = f[Len(parts)] /\ f[0] = Written(<<>>)
               /\ \A i \in 1 .. Len(parts) : f[i] = Then(f[i - 1], parts[i])
  <2>1. Len(parts) \in Nat
    BY <1>8
  <2> QED BY ONLY <2>1, InTurnSteps
<1>10. f[3] = Then(f[2], x) /\ f[4] = Then(f[3], y) /\ f[5] = Then(f[4], x)
  BY <1>8, <1>9
<1>11. \A a, b : (b.err = TRUE \/ a.err) => Then(a, b).err
  BY DEF Then
<1>12. f[3].err /\ f[4].err /\ f[5].err
  BY ONLY <1>3, <1>10, <1>11
<1> QED BY <1>5, <1>6, <1>7, <1>8, <1>9, <1>12
-----------------------------------------------------------------------------
(* The messages of moves of a context *)
MovesSuit ==
  \A c \in Contexts : \A d \in MoveCases :
    HasMoves(c) => /\ c.proto \in {"vanilla", "r1q2", "q2pro", "q2repro"}
                   /\ (c.proto = "q2repro" => ~MovesUp(d)) => Sendable(c, d)

\* The moves of the constant are such as the contexts can send.
LEMMA CasesSuit == MovesSuit
<1> SUFFICES ASSUME NEW c \in Contexts, NEW d \in MoveCases, HasMoves(c)
             PROVE  /\ c.proto \in {"vanilla", "r1q2", "q2pro", "q2repro"}
                    /\ (c.proto = "q2repro" => ~MovesUp(d)) => Sendable(c, d)
  BY DEF MovesSuit
<1>1. c.proto \in {"vanilla", "r1q2", "q2pro", "q2repro"}
  <2>1. c.api \in {"vanilla", "ext", "v2", "rerelease"} /\ c.proto \in GameProtocols[c.api]
    BY ContextAssumption DEF GameProtocols
  <2>2. c.proto \in {"vanilla", "r1q2", "q2pro", "extdemo", "q2repro", "kex", "kexdemo"}
    BY <2>1 DEF GameProtocols
  <2> QED BY <2>2 DEF HasMoves, IsKex
<1>2. d.set \subseteq MoveFields /\ IsMove(d) /\ (c.proto = "r1q2" => SuitsR1q2(c, d))
  BY MoveAssumption
<1> QED BY <1>1, <1>2 DEF Sendable, CanSend

\* Whatever the protocol: the message is refused, for a reason, or its moves arrive
LEMMA MessageArrives ==
  ASSUME NEW c \in Contexts, HasMoves(c), NEW d \in MoveCases
  PROVE  LET o == WriteMove(c, 7, Moves(c, d))
         IN  \/ o.err /\ c.proto = "q2repro" /\ MovesUp(d)
             \/ ~o.err /\ MoveArrived(c, ReadMove(c, o.wire), d)
<1>1. c.proto \in {"vanilla", "r1q2", "q2pro", "q2repro"}
      /\ ((c.proto = "q2repro" => ~MovesUp(d)) => Sendable(c, d))
  BY CasesSuit DEF MovesSuit
<1>2. CASE c.proto = "q2repro" /\ MovesUp(d)
  BY <1>2, Q2reproRefuses
<1>3. CASE Sendable(c, d)
  <2>1. CASE c.proto = "vanilla" BY <1>3, <2>1, VanillaMessage
  <2>2. CASE c.proto = "r1q2" BY <1>3, <2>2, R1q2Message
  <2>3. CASE c.proto = "q2pro" BY <1>3, <2>3, Q2proMessage
  <2>4. CASE c.proto = "q2repro" BY <1>3, <2>4, Q2reproMessage
  <2> QED BY <1>1, <2>1, <2>2, <2>3, <2>4
<1> QED BY <1>1, <1>2, <1>3

\* What is written of a message of moves, and what is read of that, is what the
\* context's writer and reader make of it.
MoveInv ==
  /\ ctx \in Contexts
  /\ phase \in {"made", "written", "read"}
  /\ phase = "made" => out = Written(<<>>)
  /\ msg.kind = "move" =>
       /\ HasMoves(ctx) /\ msg.delta \in MoveCases
       /\ phase # "made" => out = WriteMove(ctx, 7, Moves(ctx, msg.delta))
       /\ phase = "read" => ~out.err /\ seen = ReadMove(ctx, out.wire)

\* It holds at first ...
LEMMA MoveInvInit == Init => MoveInv
<1> SUFFICES ASSUME Init PROVE MoveInv
  OBVIOUS
<1>1. ctx \in Contexts /\ phase = "made" /\ out = Written(<<>>)
  BY DEF Init
<1>2. ASSUME msg.kind = "move" PROVE HasMoves(ctx) /\ msg.delta \in MoveCases
  <2>1. CASE \E e \in EntityCases :
               msg = [kind |-> "entity", from |-> e.from, to |-> e.to, entnum |-> e.entnum,
                      old |-> e.old, remove |-> e.remove]
    BY <1>2, <2>1
  <2>2. CASE \E p \in FrameCases :
               msg = [kind |-> "frame", from |-> p.from, to |-> p.to, header |-> p.header]
    BY <1>2, <2>2
  <2>3. CASE HasMoves(ctx) /\ \E d \in MoveCases : msg = [kind |-> "move", delta |-> d]
    BY <2>3
  <2>4. CASE \E b \in BatchCases : msg = [kind |-> "batch", frames |-> b]
    BY <1>2, <2>4
  <2> QED BY <2>1, <2>2, <2>3, <2>4 DEF Init
<1> QED BY <1>1, <1>2 DEF MoveInv

\* ... and every step keeps it.
LEMMA MoveInvNext == MoveInv /\ [Next]_vars => MoveInv'
<1> SUFFICES ASSUME MoveInv, [Next]_vars PROVE MoveInv'
  OBVIOUS
<1>1. CASE Write
  <2>1. /\ phase = "made" /\ phase' = "written" /\ ctx' = ctx /\ msg' = msg /\ seen' = seen
    BY <1>1 DEF Write
  <2>2. msg.kind = "move" => out' = WriteMove(ctx, 7, Moves(ctx, msg.delta))
    <3> SUFFICES ASSUME msg.kind = "move" PROVE out' = WriteMove(ctx, 7, Moves(ctx, msg.delta))
      OBVIOUS
    <3> QED BY <1>1, Zenon DEF Write
  <2>3. MoveInv' = (/\ ctx \in Contexts
                    /\ msg.kind = "move" =>
                         /\ HasMoves(ctx) /\ msg.delta \in MoveCases
                         /\ out' = WriteMove(ctx, 7, Moves(ctx, msg.delta)))
    BY <2>1 DEF MoveInv, HasMoves, IsKex, Moves, MiddleMove
  <2> QED BY <2>2, <2>3 DEF MoveInv
<1>2. CASE Read
  <2>1. /\ phase = "written" /\ phase' = "read" /\ ctx' = ctx /\ msg' = msg /\ out' = out
           /\ ~out.err
    BY <1>2 DEF Read
  <2>2. msg.kind = "move" => seen' = ReadMove(ctx, out.wire)
    <3> SUFFICES ASSUME msg.kind = "move" PROVE seen' = ReadMove(ctx, out.wire)
      OBVIOUS
    <3> QED BY <1>2, Zenon DEF Read
  <2> QED BY <2>1, <2>2 DEF MoveInv
<1>3. CASE UNCHANGED vars
  BY <1>3 DEF MoveInv, vars
<1> QED BY <1>1, <1>2, <1>3 DEF Next

\* ... and what was read of a message that satisfies it has arrived.
LEMMA MoveInvHolds == MoveInv => MoveArrives
<1> SUFFICES ASSUME MoveInv, phase = "read", msg.kind = "move"
             PROVE  \A i \in 1 .. 3 :
                      \A f \in Moves(ctx, msg.delta)[i].set \cup {F("msec"), F("lightlevel")} :
                        f \in DOMAIN seen.moves[i] /\ seen.moves[i][f] = msg.delta.val[f]
  BY DEF MoveArrives
<1>1. /\ ctx \in Contexts /\ HasMoves(ctx) /\ msg.delta \in MoveCases /\ ~out.err
      /\ out = WriteMove(ctx, 7, Moves(ctx, msg.delta)) /\ seen = ReadMove(ctx, out.wire)
  BY DEF MoveInv
<1>2. MoveArrived(ctx, seen, msg.delta)
  BY <1>1, MessageArrives
<1> QED BY <1>2 DEF MoveArrived

\* Of every move, with every set of fields and every value of them, the three that
\* are sent arrive, whatever the protocol and its version, compressed or not.
THEOREM MovesArrive == Spec => []MoveArrives
<1>1. Spec => []MoveInv
  BY MoveInvInit, MoveInvNext, PTL DEF Spec
<1> QED BY <1>1, MoveInvHolds, PTL

\* The reader of a message of moves stays in step, and none is refused but one that
\* moves upward in Q2rePRO.
MovesInOrder ==
  msg.kind = "move" => InStep /\ RefusedForAReason

LEMMA MoveInvInOrder == MoveInv => MovesInOrder
<1> SUFFICES ASSUME MoveInv, msg.kind = "move" PROVE InStep /\ RefusedForAReason
  BY DEF MovesInOrder
<1>1. ctx \in Contexts /\ HasMoves(ctx) /\ msg.delta \in MoveCases
  BY DEF MoveInv
<1>2. PICK o : o = WriteMove(ctx, 7, Moves(ctx, msg.delta))
  OBVIOUS
<1>3. \/ o.err /\ ctx.proto = "q2repro" /\ MovesUp(msg.delta)
      \/ ~o.err /\ MoveArrived(ctx, ReadMove(ctx, o.wire), msg.delta)
  BY <1>1, <1>2, MessageArrives
<1>4. InStep
  BY <1>2, <1>3 DEF MoveInv, InStep, MoveArrived
<1>5. RefusedForAReason
  <2> SUFFICES ASSUME out.err PROVE ctx.proto = "q2repro" /\ MovesUp(msg.delta)
    BY Zenon DEF RefusedForAReason
  <2>1. phase # "made"
    BY DEF MoveInv, Written
  <2> QED BY <1>2, <1>3, <2>1 DEF MoveInv
<1> QED BY <1>4, <1>5

\* Every reader of moves ends where their writer did, and a move is written in every
\* protocol but for an upward one in Q2rePRO.
THEOREM MovesStayInStep == Spec => []MovesInOrder
<1>1. Spec => []MoveInv
  BY MoveInvInit, MoveInvNext, PTL DEF Spec
<1> QED BY <1>1, MoveInvInOrder, PTL
=============================================================================
