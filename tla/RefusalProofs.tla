--------------------------- MODULE RefusalProofs ---------------------------
(***************************************************************************)
(* A writer refuses a message only for a reason that the message shows,    *)
(* in every protocol, for every entity, player, frame and batch of moves:  *)
(* a new value that the protocol has no place for or that is too wide for  *)
(* its place, a client number, or an upward move in Q2rePRO.               *)
(***************************************************************************)
EXTENDS MoveProofs

\* The parts of a message: it is an error if one of them is.
LEMMA ErrOfThen ==
  ASSUME NEW a, NEW b, ~a.err, ~b.err PROVE ~Then(a, b).err
  BY DEF Then

LEMMA ErrOfTurn ==
  ASSUME NEW parts, Len(parts) \in Nat, \A i \in 1 .. Len(parts) : ~parts[i].err
  PROVE  ~InTurn(parts).err
<1>1. PICK f : /\ InTurn(parts) = f[Len(parts)] /\ f[0] = Written(<<>>)
               /\ \A i \in 1 .. Len(parts) : f[i] = Then(f[i - 1], parts[i])
  BY InTurnSteps
<1>2. SUFFICES ASSUME f[Len(parts)].err PROVE FALSE
  BY <1>1
<1> DEFINE E == {i \in 0 .. Len(parts) : f[i].err}
<1>3. PICK n \in E : \A i \in E : n <= i
  <2>1. E \in SUBSET Nat /\ Len(parts) \in E
    BY <1>2
  <2> QED BY <2>1, LeastElement
<1>4. n # 0
  BY <1>1 DEF Written
<1>5. n \in 1 .. Len(parts) /\ n - 1 \in 0 .. Len(parts) /\ ~f[n - 1].err
  BY <1>3, <1>4
<1>6. ~Then(f[n - 1], parts[n]).err
  BY <1>5, ErrOfThen
<1> QED BY <1>1, <1>3, <1>5, <1>6

\* A row that is refused is present and too wide.
LEMMA PresentAre ==
  ASSUME NEW R, NEW rows \in Seq(R), NEW bits
  PROVE  Present(rows, bits) \in Seq({r \in R : (\E i \in 1 .. Len(rows) : rows[i] = r) /\ IsPresent(r, bits)})
<1> DEFINE I == {r \in R : (\E i \in 1 .. Len(rows) : rows[i] = r) /\ IsPresent(r, bits)}
<1>1. PICK f : /\ Present(rows, bits) = f[Len(rows)] /\ f[0] = <<>>
               /\ \A i \in 1 .. Len(rows) :
                    f[i] = IF IsPresent(rows[i], bits) THEN Append(f[i - 1], rows[i]) ELSE f[i - 1]
  BY PresentSteps
<1>2. SUFFICES ASSUME f[Len(rows)] \notin Seq(I) PROVE FALSE
  BY <1>1
<1> DEFINE E == {i \in 0 .. Len(rows) : f[i] \notin Seq(I)}
<1>3. PICK n \in E : \A i \in E : n <= i
  <2>1. E \in SUBSET Nat /\ Len(rows) \in E
    BY <1>2
  <2> QED BY <2>1, LeastElement
<1>4. n # 0
  <2>1. <<>> \in Seq(I)
    OBVIOUS
  <2> HIDE DEF I
  <2> QED BY <1>1, <1>3, <2>1
<1>5. n \in 1 .. Len(rows) /\ n - 1 \in 0 .. Len(rows) /\ f[n - 1] \in Seq(I)
  BY <1>3, <1>4
<1>6. f[n] = IF IsPresent(rows[n], bits) THEN Append(f[n - 1], rows[n]) ELSE f[n - 1]
  BY <1>1, <1>5
<1>7. IsPresent(rows[n], bits) => rows[n] \in I
  BY <1>5
<1>8. IsPresent(rows[n], bits) => Append(f[n - 1], rows[n]) \in Seq(I)
  BY <1>5, <1>7
<1> QED BY <1>3, <1>5, <1>6, <1>8

LEMMA ErrOfRows ==
  ASSUME NEW R, NEW rows \in Seq(R), NEW bits, NEW val, WriteRows(rows, bits, val).err
  PROVE  \E i \in 1 .. Len(rows) : /\ IsPresent(rows[i], bits) /\ rows[i].type = "u8max"
                                   /\ val[rows[i].field] > 255
<1> DEFINE I == {r \in R : (\E i \in 1 .. Len(rows) : rows[i] = r) /\ IsPresent(r, bits)}
<1>1. PICK there : there = Present(rows, bits)
  OBVIOUS
<1>2. there \in Seq(I)
  BY <1>1, PresentAre
<1>3. {i \in DOMAIN there : there[i].type = "u8max" /\ val[there[i].field] > 255} # {}
  BY <1>1 DEF WriteRows
<1>4. PICK i \in DOMAIN there : there[i].type = "u8max" /\ val[there[i].field] > 255
  BY <1>3
<1>5. there[i] \in I
  BY <1>2, <1>4
<1> QED BY <1>4, <1>5

\* Rows of which only some may be refused: those for a bit and a field that are named.
Caps(rows, S) ==
  /\ \E R : rows \in Seq(R)
  /\ \A i \in 1 .. Len(rows) :
       rows[i].type = "u8max" => \E p \in S : p[1] \in rows[i].all /\ rows[i].field = p[2]

LEMMA CapsBoth ==
  ASSUME NEW a, NEW b, NEW S, Caps(a, S), Caps(b, S) PROVE Caps(a \o b, S)
<1>1. PICK Q : a \in Seq(Q)
  BY DEF Caps
<1>2. PICK R : b \in Seq(R)
  BY DEF Caps
<1>3. a \in Seq(Q \cup R) /\ b \in Seq(Q \cup R)
  BY <1>1, <1>2
<1>4. a \o b \in Seq(Q \cup R) /\ Len(a \o b) = Len(a) + Len(b)
  BY <1>3
<1>5. ASSUME NEW i \in 1 .. Len(a \o b), (a \o b)[i].type = "u8max"
      PROVE  \E p \in S : p[1] \in (a \o b)[i].all /\ (a \o b)[i].field = p[2]
  <2>1. CASE i \in 1 .. Len(a)
    <3>1. (a \o b)[i] = a[i]
      BY <1>3, <2>1
    <3> QED BY <3>1, <2>1, <1>5 DEF Caps
  <2>2. CASE i \notin 1 .. Len(a)
    <3>1. i - Len(a) \in 1 .. Len(b) /\ (a \o b)[i] = b[i - Len(a)]
      BY <1>3, <1>4, <1>5, <2>2
    <3> QED BY <3>1, <1>5 DEF Caps
  <2> QED BY <2>1, <2>2
<1> QED BY <1>4, <1>5 DEF Caps

LEMMA CapsRow ==
  ASSUME NEW all, NEW none, NEW field, NEW type, NEW S,
         type # "u8max" \/ \E p \in S : p[1] \in all /\ field = p[2]
  PROVE  Caps(Row(all, none, field, type), S)
<1>1. Row(all, none, field, type) \in Seq({[all |-> all, none |-> none, field |-> field, type |-> type]})
  BY DEF Row
<1>2. ASSUME NEW i \in 1 .. Len(Row(all, none, field, type)) 
      PROVE Row(all, none, field, type)[i] = [all |-> all, none |-> none, field |-> field, type |-> type]
  BY <1>2 DEF Row
<1> QED BY <1>1, <1>2 DEF Caps

LEMMA CapsRows ==
  ASSUME NEW n \in Nat, NEW g, \A k \in 1 .. n : g[k].type # "u8max", NEW S
  PROVE  Caps([k \in 1 .. n |-> g[k]], S)
<1>1. [k \in 1 .. n |-> g[k]] \in Seq({g[k] : k \in 1 .. n})
  OBVIOUS
<1>2. Len([k \in 1 .. n |-> g[k]]) = n
  OBVIOUS
<1> QED BY <1>1, <1>2 DEF Caps

\* Types of rows that are never refused
Narrow == {"u8", "i8", "u16", "i16", "u32", "i32", "float", "angle8", "eighths", "i23", "i23abs"}
LEMMA CapsOn ==
  /\ \A S, bit, name : \A type \in Narrow : Caps(On(bit, name, type), S)
  /\ \A S, bit, name : <<bit, F(name)>> \in S => Caps(On(bit, name, "u8max"), S)
  /\ \A S, bit, no, name : \A type \in Narrow : Caps(OnElse(bit, no, name, type), S)
  /\ \A S, bit, name, i : \A type \in Narrow : Caps(OnComp(bit, name, i, type), S)
  /\ \A S, name : \A type \in Narrow : Caps(Always(name, type), S)
  /\ \A S, b8, b16, name : Caps(OnWidth(b8, b16, name), S)
  /\ \A S, bit, wide, name, i : \A t, u \in Narrow : Caps(Wide(bit, wide, name, i, t, u), S)
<1>1. \A S, all, none, field : \A type \in Narrow : Caps(Row(all, none, field, type), S)
  BY CapsRow DEF Narrow
<1>2. \A S, bit, name : <<bit, F(name)>> \in S => Caps(On(bit, name, "u8max"), S)
  <2> SUFFICES ASSUME NEW S, NEW bit, NEW name, <<bit, F(name)>> \in S PROVE Caps(On(bit, name, "u8max"), S)
    OBVIOUS
  <2>1. \E p \in S : p[1] \in {bit} /\ F(name) = p[2]
    OBVIOUS
  <2> QED BY <2>1, CapsRow DEF On
<1>3. \A S, b8, b16, name : Caps(OnWidth(b8, b16, name), S)
  <2> SUFFICES ASSUME NEW S, NEW b8, NEW b16, NEW name PROVE Caps(OnWidth(b8, b16, name), S)
    OBVIOUS
  <2>1. "u8" \in Narrow /\ "u16" \in Narrow /\ "u32" \in Narrow
    BY DEF Narrow
  <2>2. /\ Caps(Row({b8, b16}, {}, F(name), "u32"), S) /\ Caps(Row({b16}, {b8}, F(name), "u16"), S)
        /\ Caps(Row({b8}, {b16}, F(name), "u8"), S)
    BY <1>1, <2>1, Zenon
  <2>3. Caps(Row({b8, b16}, {}, F(name), "u32") \o Row({b16}, {b8}, F(name), "u16"), S)
    BY <2>2, CapsBoth, Zenon
  <2>4. Caps(Row({b8, b16}, {}, F(name), "u32") \o Row({b16}, {b8}, F(name), "u16")
             \o Row({b8}, {b16}, F(name), "u8"), S)
    BY <2>2, <2>3, CapsBoth, Zenon
  <2> QED BY <2>4 DEF OnWidth, OnElse
<1>4. \A S, bit, wide, name, i : \A t, u \in Narrow : Caps(Wide(bit, wide, name, i, t, u), S)
  <2> SUFFICES ASSUME NEW S, NEW bit, NEW wide, NEW name, NEW i, NEW t \in Narrow, NEW u \in Narrow
               PROVE  Caps(Wide(bit, wide, name, i, t, u), S)
    OBVIOUS
  <2>1. Caps(Row({bit, wide}, {}, <<name, i>>, u), S) /\ Caps(Row({bit}, {wide}, <<name, i>>, t), S)
    BY <1>1, Zenon
  <2>2. Caps(Row({bit, wide}, {}, <<name, i>>, u) \o Row({bit}, {wide}, <<name, i>>, t), S)
    BY <2>1, CapsBoth, Zenon
  <2> QED BY <2>2 DEF Wide
<1> QED BY <1>1, <1>2, <1>3, <1>4, Zenon DEF On, OnElse, OnComp, Always

LEMMA CapsVec ==
  /\ \A S, bit, name : \A n \in Nat : \A type \in Narrow : Caps(OnVec(bit, name, n, type), S)
  /\ \A S, name : \A n \in Nat : \A type \in Narrow : Caps(AlwaysVec(name, n, type), S)
<1>1. ASSUME NEW S, NEW bit, NEW name, NEW n \in Nat, NEW type \in Narrow
      PROVE  Caps(OnVec(bit, name, n, type), S)
  <2>1. \A k \in 1 .. n : Row({bit}, {}, <<name, k - 1>>, type)[1].type # "u8max"
    BY DEF Row, Narrow
  <2> DEFINE g == [k \in 1 .. n |-> Row({bit}, {}, <<name, k - 1>>, type)[1]]
  <2>2. \A k \in 1 .. n : g[k].type # "u8max"
    BY <2>1
  <2>3. [k \in 1 .. n |-> g[k]] = g
    OBVIOUS
  <2> HIDE DEF g
  <2>4. Caps(g, S)
    BY <2>2, <2>3, CapsRows
  <2> QED BY <2>4 DEF g, OnVec
<1>2. ASSUME NEW S, NEW name, NEW n \in Nat, NEW type \in Narrow
      PROVE  Caps(AlwaysVec(name, n, type), S)
  <2>1. \A k \in 1 .. n : Row({}, {}, <<name, k - 1>>, type)[1].type # "u8max"
    BY DEF Row, Narrow
  <2> DEFINE g == [k \in 1 .. n |-> Row({}, {}, <<name, k - 1>>, type)[1]]
  <2>2. \A k \in 1 .. n : g[k].type # "u8max"
    BY <2>1
  <2>3. [k \in 1 .. n |-> g[k]] = g
    OBVIOUS
  <2> HIDE DEF g
  <2>4. Caps(g, S)
    BY <2>2, <2>3, CapsRows
  <2> QED BY <2>4 DEF g, AlwaysVec
<1> QED BY <1>1, <1>2

LEMMA CapsJoin == \A a, b, S : Caps(a, S) /\ Caps(b, S) => Caps(a \o b, S)
  BY CapsBoth

\* None of the types but u8max is refused.
LEMMA PartsUncapped ==
  /\ \A S, bit, name : /\ Caps(On(bit, name, "u8"), S) /\ Caps(On(bit, name, "u16"), S)
                       /\ Caps(On(bit, name, "u32"), S) /\ Caps(On(bit, name, "i8"), S)
                       /\ Caps(On(bit, name, "i16"), S) /\ Caps(On(bit, name, "i23abs"), S)
  /\ \A S, bit, no, name : /\ Caps(OnElse(bit, no, name, "u8"), S)
                           /\ Caps(OnElse(bit, no, name, "u16"), S)
  /\ \A S, bit, name, i : /\ Caps(OnComp(bit, name, i, "u16"), S)
                          /\ Caps(OnComp(bit, name, i, "i16"), S)
                          /\ Caps(OnComp(bit, name, i, "float"), S)
                          /\ Caps(OnComp(bit, name, i, "angle8"), S)
  /\ \A S, bit, wide, name, i : /\ Caps(Wide(bit, wide, name, i, "u8", "u16"), S)
                                /\ Caps(Wide(bit, wide, name, i, "angle8", "i16"), S)
  /\ \A S, name : Caps(Always(name, "i32"), S)
  /\ \A S, b8, b16, name : Caps(OnWidth(b8, b16, name), S)
<1>1. /\ "u8" \in Narrow /\ "u16" \in Narrow /\ "u32" \in Narrow /\ "i8" \in Narrow
      /\ "i16" \in Narrow /\ "i32" \in Narrow /\ "i23abs" \in Narrow /\ "float" \in Narrow
      /\ "angle8" \in Narrow
  BY DEF Narrow
<1> QED BY <1>1, CapsOn, Zenon

LEMMA VectorsUncapped ==
  /\ \A S, bit, name : /\ Caps(OnVec(bit, name, 2, "u16"), S) /\ Caps(OnVec(bit, name, 3, "u16"), S)
                       /\ Caps(OnVec(bit, name, 3, "u8"), S) /\ Caps(OnVec(bit, name, 4, "u8"), S)
                       /\ Caps(OnVec(bit, name, 3, "i8"), S) /\ Caps(OnVec(bit, name, 2, "i16"), S)
                       /\ Caps(OnVec(bit, name, 3, "i16"), S) /\ Caps(OnVec(bit, name, 3, "float"), S)
  /\ \A S, name : Caps(AlwaysVec(name, 4, "u8"), S)
<1>1. /\ "u8" \in Narrow /\ "u16" \in Narrow /\ "i8" \in Narrow /\ "i16" \in Narrow
      /\ "float" \in Narrow /\ 2 \in Nat /\ 3 \in Nat /\ 4 \in Nat
  BY DEF Narrow
<1> QED BY <1>1, CapsVec, Zenon

\* Rows of an entity, of a sound and of a player that may be refused
EntityCaps ==
  {<<U.MODEL, F("modelindex")>>, <<U.MODEL2, F("modelindex2")>>, <<U.MODEL3, F("modelindex3")>>,
   <<U.MODEL4, F("modelindex4")>>, <<U.SOUND, F("sound")>>}
SoundCaps == {<<U.SOUND, F("sound_word")>>}

\* The tables: only the models and the sound of the old protocols, and their gunindex,
\* may be refused.
LEMMA EntityOutCaps ==
  \A version : Caps(VanillaEntityOut, EntityCaps)
               /\ Caps(EntityOut \o On(U.SOLID, "solid", SolidType(version)), EntityCaps)
<1>1. /\ <<U.MODEL, F("modelindex")>> \in EntityCaps /\ <<U.MODEL2, F("modelindex2")>> \in EntityCaps
      /\ <<U.MODEL3, F("modelindex3")>> \in EntityCaps /\ <<U.MODEL4, F("modelindex4")>> \in EntityCaps
      /\ <<U.SOUND, F("sound")>> \in EntityCaps
  BY Zenon DEF EntityCaps
<1>2. /\ Caps(On(U.MODEL, "modelindex", "u8max"), EntityCaps)
      /\ Caps(On(U.MODEL2, "modelindex2", "u8max"), EntityCaps)
      /\ Caps(On(U.MODEL3, "modelindex3", "u8max"), EntityCaps)
      /\ Caps(On(U.MODEL4, "modelindex4", "u8max"), EntityCaps)
      /\ Caps(On(U.SOUND, "sound", "u8max"), EntityCaps)
  BY <1>1, CapsOn, Zenon
<1>3. Caps(EntityOut, EntityCaps)
  BY <1>2, CapsJoin, PartsUncapped, VectorsUncapped, SMT DEF EntityOut
<1>4. \A version : Caps(On(U.SOLID, "solid", SolidType(version)), EntityCaps)
  BY PartsUncapped DEF SolidType
<1> QED BY <1>3, <1>4, CapsJoin, PartsUncapped DEF VanillaEntityOut

LEMMA ExtendedEntityCaps ==
  \A coord, oldCoord \in Narrow :
    /\ \A S : Caps(ExtendedEntityOut(coord, oldCoord, TRUE), S)
    /\ Caps(ExtendedEntityOut(coord, oldCoord, FALSE), SoundCaps)
<1> SUFFICES ASSUME NEW coord \in Narrow, NEW oldCoord \in Narrow
             PROVE  /\ \A S : Caps(ExtendedEntityOut(coord, oldCoord, TRUE), S)
                    /\ Caps(ExtendedEntityOut(coord, oldCoord, FALSE), SoundCaps)
  OBVIOUS
<1>1. \A S, bit, name, i : Caps(OnComp(bit, name, i, coord), S)
  BY CapsOn, Zenon
<1>2. \A S, bit, name : Caps(OnVec(bit, name, 3, oldCoord), S)
  <2>1. 3 \in Nat
    OBVIOUS
  <2> QED BY <2>1, CapsVec, Zenon
<1>3. \A S, a, n, f : \A t \in Narrow : Caps(Row(a, n, f, t), S)
  BY CapsRow DEF Narrow
<1>4. \A S, a, n, f : /\ Caps(Row(a, n, f, "u8"), S) /\ Caps(Row(a, n, f, "u16"), S)
                      /\ Caps(Row(a, n, f, "u32"), S)
  <2>1. "u8" \in Narrow /\ "u16" \in Narrow /\ "u32" \in Narrow
    BY DEF Narrow
  <2> QED BY <1>3, <2>1, Zenon
<1>5. Caps(On(U.SOUND, "sound_word", "u8max"), SoundCaps)
  <2>1. <<U.SOUND, F("sound_word")>> \in SoundCaps
    BY Zenon DEF SoundCaps
  <2> QED BY <2>1, CapsOn, Zenon
<1>6. \A S : Caps(ExtendedEntityOut(coord, oldCoord, TRUE), S)
  <2>1. \A S : Caps(On(U.SOUND, "sound_word", IF TRUE THEN "u16" ELSE "u8max"), S)
    BY PartsUncapped
  <2> QED BY <1>1, <1>2, <1>4, <2>1, CapsJoin, PartsUncapped, VectorsUncapped, SMT
          DEF ExtendedEntityOut
<1>7. Caps(ExtendedEntityOut(coord, oldCoord, FALSE), SoundCaps)
  BY <1>1, <1>2, <1>4, <1>5, CapsJoin, PartsUncapped, VectorsUncapped, SMT DEF ExtendedEntityOut
<1> QED BY <1>6, <1>7

LEMMA KexEntityCaps == \A c, solid : Caps(KexEntityOut(KexCoord(c, solid)), {})
<1> SUFFICES ASSUME NEW coord \in {"float", "eighths"} PROVE Caps(KexEntityOut(coord), {})
  BY DEF KexCoord
<1>1. coord \in Narrow /\ 3 \in Nat
  BY DEF Narrow
<1>2. \A S, bit, name, i : Caps(OnComp(bit, name, i, coord), S)
  BY <1>1, CapsOn, Zenon
<1>3. \A S, bit, name : Caps(OnVec(bit, name, 3, coord), S)
  BY <1>1, CapsVec, Zenon
<1>4. Caps(KexFirstRows, {}) /\ Caps(KexEffectsRows, {}) /\ Caps(KexAngleRows, {}) /\ Caps(KexLastRows, {})
  BY CapsJoin, PartsUncapped, SMT DEF KexFirstRows, KexEffectsRows, KexAngleRows, KexLastRows
<1>5. Caps(KexOriginRows(coord), {})
  BY <1>2, <1>3, CapsJoin, SMT DEF KexOriginRows
<1> QED BY <1>4, <1>5, CapsJoin, PartsUncapped, SMT DEF KexEntityOut

PlayerCaps == {<<PS.WEAPONINDEX, F("gunindex")>>}

LEMMA OldPlayerCaps == Caps(VanillaPlayerOut, PlayerCaps) /\ Caps(R1q2PlayerOut, PlayerCaps)
<1>1. Caps(On(PS.WEAPONINDEX, "gunindex", "u8max"), PlayerCaps)
  <2>1. <<PS.WEAPONINDEX, F("gunindex")>> \in PlayerCaps
    BY Zenon DEF PlayerCaps
  <2> QED BY <2>1, CapsOn, Zenon
<1>2. Caps(VanillaPlayerOut, PlayerCaps)
  BY <1>1, CapsJoin, PartsUncapped, VectorsUncapped, SMT DEF VanillaPlayerOut
<1>3. Caps(R1q2PlayerOut, PlayerCaps)
  BY <1>1, CapsJoin, PartsUncapped, VectorsUncapped, SMT DEF R1q2PlayerOut
<1> QED BY <1>2, <1>3

LEMMA CoordsNarrow ==
  \A c : /\ CoordType(c) \in Narrow /\ OldCoordType(c) \in Narrow /\ PmType(c) \in {"u8", "u16"}
         /\ "float" \in Narrow
  BY DEF CoordType, OldCoordType, PmType, Narrow

LEMMA PlayerRowsUncapped ==
  \A S : /\ \A coord \in Narrow : \A pmType \in {"u8", "u16"} : Caps(ExtendedMotionRows(coord, pmType), S)
         /\ \A c : Caps(Q2proViewRows(c), S) /\ Caps(ExtdemoPlayerOut(c), S)
         /\ Caps(Q2reproViewRows, S) /\ Caps(Q2reproEndRows, S) /\ Caps(FovRows, S) /\ Caps(FogOut, S)
<1>1. ASSUME NEW S, NEW coord \in Narrow, NEW pmType \in {"u8", "u16"}
      PROVE  Caps(ExtendedMotionRows(coord, pmType), S)
  <2>1. \A bit, name, i : Caps(OnComp(bit, name, i, coord), S)
    BY CapsOn, Zenon
  <2>2. \A bit, name : Caps(OnVec(bit, name, 2, coord), S)
    <3>1. 2 \in Nat
      OBVIOUS
    <3> QED BY <3>1, CapsVec, Zenon
  <2>3. \A bit, name : Caps(On(bit, name, pmType), S)
    BY PartsUncapped
  <2> QED BY <2>1, <2>2, <2>3, CapsJoin, PartsUncapped, SMT DEF ExtendedMotionRows
<1>2. ASSUME NEW S, NEW c PROVE Caps(Q2proViewRows(c), S)
  <2>1. Caps(On(PS.WEAPONINDEX, "gun_index_and_skin", IF Extended(c) THEN "u16" ELSE "u8"), S)
    BY PartsUncapped
  <2> QED BY <2>1, CapsJoin, PartsUncapped, VectorsUncapped, SMT DEF Q2proViewRows
<1>3. ASSUME NEW S, NEW c PROVE Caps(ExtdemoPlayerOut(c), S)
  <2>1. PICK coord : coord = CoordType(c)
    OBVIOUS
  <2>2. PICK pmType : pmType = PmType(c)
    OBVIOUS
  <2>3. \A bit, name : Caps(OnVec(bit, name, 3, coord), S)
    <3>1. 3 \in Nat /\ coord \in Narrow
      BY <2>1, CoordsNarrow
    <3> QED BY <3>1, CapsVec, Zenon
  <2>4. \A bit, name : Caps(On(bit, name, pmType), S)
    BY <2>2, CoordsNarrow, PartsUncapped
  <2> QED BY <2>1, <2>2, <2>3, <2>4, CapsJoin, PartsUncapped, VectorsUncapped, SMT DEF ExtdemoPlayerOut
<1>4. ASSUME NEW S
      PROVE  Caps(Q2reproViewRows, S) /\ Caps(Q2reproEndRows, S) /\ Caps(FovRows, S) /\ Caps(FogOut, S)
  <2>1. Caps(Q2reproViewRows, S)
    BY CapsJoin, PartsUncapped, VectorsUncapped, SMT DEF Q2reproViewRows
  <2>2. Caps(Q2reproEndRows, S) /\ Caps(FovRows, S)
    BY CapsJoin, PartsUncapped, SMT DEF Q2reproEndRows, FovRows
  <2>3. Caps(FogOut, S)
    BY CapsJoin, PartsUncapped, VectorsUncapped, SMT DEF FogOut
  <2> QED BY <2>1, <2>2, <2>3
<1> QED BY <1>1, <1>2, <1>3, <1>4, Zenon

LEMMA KexRowsUncapped ==
  \A S : /\ Caps(KexMotionRows, S) /\ Caps(KexGunRows, S) /\ Caps(KexBlendRows, S)
         /\ Caps(VanillaFrameHeader, S)
<1> SUFFICES ASSUME NEW S
             PROVE  /\ Caps(KexMotionRows, S) /\ Caps(KexGunRows, S) /\ Caps(KexBlendRows, S)
                    /\ Caps(VanillaFrameHeader, S)
  OBVIOUS
<1>1. Caps(KexMotionRows, S)
  BY CapsJoin, PartsUncapped, VectorsUncapped, SMT DEF KexMotionRows
<1>2. Caps(KexGunRows, S)
  <2> DEFINE g == [i \in 1 .. 6 |-> Row({109 + i - 1}, {},
                     <<IF i <= 3 THEN "gunoffset" ELSE "gunangles", (i - 1) % 3>>, "float")[1]]
  <2>1. \A i \in 1 .. 6 : g[i].type # "u8max"
    BY DEF Row
  <2>2. [i \in 1 .. 6 |-> g[i]] = g
    OBVIOUS
  <2> HIDE DEF g
  <2>3. 6 \in Nat
    OBVIOUS
  <2>4. Caps([i \in 1 .. 6 |-> g[i]], S)
    BY <2>1, <2>3, CapsRows
  <2>5. Caps(g \o On(115, "gunrate", "u8"), S)
    BY <2>2, <2>4, CapsJoin, PartsUncapped
  <2> QED BY <2>5 DEF KexGunRows, g
<1>3. Caps(KexBlendRows, S)
  BY CapsJoin, PlayerRowsUncapped, VectorsUncapped, SMT DEF KexBlendRows
<1>4. Caps(VanillaFrameHeader, S)
  BY CapsJoin, PartsUncapped, SMT DEF VanillaFrameHeader
<1> QED BY <1>1, <1>2, <1>3, <1>4

LEMMA OtherRowsUncapped ==
  \A S : /\ Caps(BlendRows, S)
         /\ \A numbers \in SUBSET StatNumbers : Caps(StatRows(numbers), S)
<1>1. ASSUME NEW S PROVE Caps(BlendRows, S)
  <2>1. \A k \in 1 .. 8 : BlendRows[k].type # "u8max"
    BY DEF BlendRows, Row
  <2>2. [k \in 1 .. 8 |-> BlendRows[k]] = BlendRows
    BY DEF BlendRows
  <2>3. 8 \in Nat
    OBVIOUS
  <2>4. Caps([k \in 1 .. 8 |-> BlendRows[k]], S)
    BY <2>1, <2>3, CapsRows
  <2> QED BY <2>2, <2>4
<1>2. ASSUME NEW S, NEW numbers \in SUBSET StatNumbers PROVE Caps(StatRows(numbers), S)
  <2>1. Cardinality(numbers) \in Nat
    <3>1. IsFiniteSet(StatNumbers)
      BY FewAreFinite DEF StatNumbers
    <3>2. IsFiniteSet(numbers)
      BY <3>1, FS_Subset
    <3> QED BY <3>2, FS_CardinalityType
  <2> DEFINE g == StatRows(numbers)
  <2>2. \A k \in 1 .. Cardinality(numbers) : g[k].type # "u8max"
    BY DEF StatRows, Row
  <2>3. [k \in 1 .. Cardinality(numbers) |-> g[k]] = g
    BY DEF StatRows
  <2> HIDE DEF g
  <2>4. Caps(g, S)
    BY <2>1, <2>2, <2>3, CapsRows
  <2> QED BY <2>4 DEF g
<1> QED BY <1>1, <1>2
-----------------------------------------------------------------------------
(* Entities *)

\* What a delta announces has changed, but for the event and the old origin, and has
\* the value of the new state; without extensions it announces none of their fields.
LEMMA EntityDeltaIs ==
  ASSUME NEW from, NEW to, NEW old, NEW extended, NEW d, d = EntityDelta(from, to, old, extended)
  PROVE  /\ \A f \in d.set : \/ f[1] \in {"event", "old_origin"}
                             \/ f \in EntityFields /\ from[f] # to[f] /\ d.val[f] = to[f]
         /\ ~extended => d.set \cap ExtendedFields = {}
<1> DEFINE differs == {f \in EntityFields : from[f] # to[f]}
           set == (differs \ ({F("event")} \cup Vec("old_origin", 3)
                               \cup IF extended THEN {} ELSE ExtendedFields))
                  \cup (IF to[F("event")] # 0 THEN {F("event")} ELSE {})
                  \cup (IF old THEN Vec("old_origin", 3) ELSE {})
           valued == set \cup Vec("origin", 3)
                     \cup IF set \cap Vec("effects", 2) # {} THEN Vec("effects", 2) ELSE {}
<1>1. d.set = set /\ d.val = [f \in EntityFields |-> IF f \in valued THEN to[f] ELSE 0]
  BY DEF EntityDelta
<1>2. \A f \in set : \/ f[1] \in {"event", "old_origin"}
                     \/ f \in differs /\ (extended \/ f \notin ExtendedFields)
  BY DEF F, Vec
<1>3. \A f \in ExtendedFields : f[1] \notin {"event", "old_origin"}
  BY DEF ExtendedFields, F
<1>4. \A f \in set : f \in valued
  OBVIOUS
<1> HIDE DEF set, valued
<1>5. \A f \in differs : f \in EntityFields /\ from[f] # to[f]
  OBVIOUS
<1> HIDE DEF differs
<1> QED BY <1>1, <1>2, <1>3, <1>4, <1>5

LEMMA EntityNumbers ==
  /\ U.MODEL = 11 /\ U.MODEL2 = 20 /\ U.MODEL3 = 21 /\ U.MODEL4 = 22 /\ U.SOUND = 26
  /\ U.MODEL16 = 28 /\ U.FRAME8 = 4 /\ U.FRAME16 = 17 /\ U.SKIN8 = 16 /\ U.SKIN16 = 25
  /\ U.EFFECTS8 = 14 /\ U.EFFECTS16 = 19 /\ U.RENDERFX8 = 12 /\ U.RENDERFX16 = 18
  /\ U.MOREFX8 = 29 /\ U.MOREFX16 = 33 /\ U.ANGLE16 = 13 /\ U.ALPHA = 30 /\ U.SCALE = 32
  /\ U.OLDORIGIN = 24 /\ U.EVENT = 5 /\ U.SOLID = 27 /\ U.ORIGIN1 = 0 /\ U.ORIGIN2 = 1
  /\ U.ORIGIN3 = 9 /\ U.ANGLE1 = 10 /\ U.ANGLE2 = 2 /\ U.ANGLE3 = 3
  BY DEF U

\* The rows of an entity that an old protocol may refuse, by the place of their bit
Heads == {<<11, F("modelindex")>>, <<20, F("modelindex2")>>, <<21, F("modelindex3")>>,
          <<22, F("modelindex4")>>, <<26, F("sound")>>}

\* The flags of the models and the sound are those of their fields.
LEMMA FieldFlagsAre ==
  ASSUME NEW d
  PROVE  /\ \A h \in Heads : h[1] \in FieldFlags(d) => h[2] \in d.set
         /\ 28 \notin FieldFlags(d)
<1> DEFINE sets == {<<Vec("old_origin", 3), U.OLDORIGIN>>, <<{F("event")}, U.EVENT>>,
               <<{F("solid")}, U.SOLID>>, <<{F("sound")}, U.SOUND>>,
               <<{F("modelindex")}, U.MODEL>>, <<{F("modelindex2")}, U.MODEL2>>,
               <<{F("modelindex3")}, U.MODEL3>>, <<{F("modelindex4")}, U.MODEL4>>,
               <<{<<"origin", 0>>}, U.ORIGIN1>>, <<{<<"origin", 1>>}, U.ORIGIN2>>,
               <<{<<"origin", 2>>}, U.ORIGIN3>>, <<{<<"angles", 0>>}, U.ANGLE1>>,
               <<{<<"angles", 1>>}, U.ANGLE2>>, <<{<<"angles", 2>>}, U.ANGLE3>>}
<1>1. FieldFlags(d) = {p[2] : p \in {q \in sets : Changed(d, q[1])}}
  BY DEF FieldFlags
<1>2. \A q \in sets : /\ q[2] # 28
                      /\ q[2] = 11 => q[1] = {F("modelindex")}
                      /\ q[2] = 20 => q[1] = {F("modelindex2")}
                      /\ q[2] = 21 => q[1] = {F("modelindex3")}
                      /\ q[2] = 22 => q[1] = {F("modelindex4")}
                      /\ q[2] = 26 => q[1] = {F("sound")}
  BY EntityNumbers
<1> HIDE DEF sets
<1>3. \A n : n \in FieldFlags(d) => \E q \in sets : q[2] = n /\ Changed(d, q[1])
  BY <1>1
<1>4. \A f : Changed(d, {f}) => f \in d.set
  BY DEF Changed
<1>6. \A q \in sets : \A h \in Heads : q[2] = h[1] => q[1] = {h[2]}
  BY <1>2 DEF Heads
<1>7. 28 \notin FieldFlags(d)
  BY <1>2, <1>3
<1>5. ASSUME NEW h \in Heads, h[1] \in FieldFlags(d) PROVE h[2] \in d.set
  <2>1. PICK q \in sets : q[2] = h[1] /\ Changed(d, q[1])
    BY <1>3, <1>5
  <2>2. q[1] = {h[2]}
    BY <1>6, <2>1
  <2> QED BY <1>4, <2>1, <2>2
<1> QED BY <1>5, <1>7

\* The flags of widths are others.
LEMMA EntityBitsAre ==
  ASSUME NEW d
  PROVE  /\ \A h \in Heads : h[1] \in VanillaEntityBits(d) => h[2] \in d.set
         /\ \A c : /\ 26 \in Q2proEntityBits(c, d) => F("sound") \in d.set
                   /\ 28 \in Q2proEntityBits(c, d) => \E f \in Models \cap d.set : d.val[f] > 255
<1> DEFINE n == {11, 20, 21, 22, 26, 28}
<1>1. \A f, a, b, safe : \A x \in WidthFlagsOf(d, f, a, b, safe) : x = a \/ x = b
  BY DEF WidthFlagsOf, WidthFlags
<1>2. \A x \in FrameFlag(d) : x \notin n
  BY EntityNumbers DEF FrameFlag
<1>3. /\ U.SKIN8 \notin n /\ U.SKIN16 \notin n /\ U.EFFECTS8 \notin n /\ U.EFFECTS16 \notin n
      /\ U.RENDERFX8 \notin n /\ U.RENDERFX16 \notin n /\ U.MOREFX8 \notin n /\ U.MOREFX16 \notin n
      /\ U.ANGLE16 \notin n /\ U.ALPHA \notin n /\ U.SCALE \notin n /\ 26 \in n /\ 28 \in n
  BY EntityNumbers
<1>5. \A h \in Heads : h[1] \in n
  BY DEF Heads
<1> HIDE DEF n
<1>4. \A f, a, b, safe : a \notin n /\ b \notin n => \A x \in WidthFlagsOf(d, f, a, b, safe) : x \notin n
  BY <1>1
<1>6. \A x \in n : x \in VanillaEntityBits(d) => x \in FieldFlags(d)
  BY <1>2, <1>3, <1>4 DEF VanillaEntityBits
<1>7. \A c : \A x \in n : x \in Q2proEntityBits(c, d) =>
        \/ x \in FieldFlags(d)
        \/ x = U.MODEL16 /\ \E f \in Models \cap d.set : d.val[f] > 255
  BY <1>2, <1>3, <1>4 DEF Q2proEntityBits, FlagIf
<1>8. <<26, F("sound")>> \in Heads
  BY DEF Heads
<1>9. \A c : 26 \in Q2proEntityBits(c, d) => F("sound") \in d.set
  <2>1. 26 \in FieldFlags(d) => F("sound") \in d.set
    BY <1>8, FieldFlagsAre
  <2> QED BY <1>3, <1>7, <2>1, EntityNumbers
<1>10. \A c : 28 \in Q2proEntityBits(c, d) => \E f \in Models \cap d.set : d.val[f] > 255
  <2>1. 28 \notin FieldFlags(d)
    BY FieldFlagsAre
  <2> QED BY <1>3, <1>7, <2>1
<1>11. \A h \in Heads : h[1] \in VanillaEntityBits(d) => h[2] \in d.set
  BY <1>5, <1>6, FieldFlagsAre
<1> QED BY <1>9, <1>10, <1>11

\* A byte has no bit beyond its eight.
LEMMA NoBitsInByte ==
  ASSUME NEW n \in 0 .. 255, NEW b \in 8 .. 15 PROVE ~Odd(n, 2^b)
<1>1. /\ n \div 256 = 0 /\ n \div 512 = 0 /\ n \div 1024 = 0 /\ n \div 2048 = 0
      /\ n \div 4096 = 0 /\ n \div 8192 = 0 /\ n \div 16384 = 0 /\ n \div 32768 = 0
  BY SMT
<1>2. <<b, 2^b>> \in Table
  BY PowerOf
<1>3. 2^b \in {256, 512, 1024, 2048, 4096, 8192, 16384, 32768}
  BY <1>2 DEF Table
<1>4. n \div 2^b = 0
  BY <1>1, <1>3
<1>5. 0 % 2 # 1
  BY SMT
<1> QED BY <1>4, <1>5 DEF Odd

\* The bits of a byte add up to a byte.
LEMMA ByteStays ==
  ASSUME NEW n \in 0 .. 255
  PROVE  LET m == SumSet({2^b : b \in BitsOf(n)}) IN m \in Nat /\ m < 256
<1>1. PICK B : B = BitsOf(n)
  OBVIOUS
<1>2. \A b \in B : b \in 0 .. 30 /\ Odd(n, 2^b)
  BY <1>1 DEF BitsOf, Odd
<1>3. \A b \in 8 .. 15 : b \notin B
  BY <1>2, NoBitsInByte
<1>4. \A b \in 16 .. 30 : b \notin B
  <2>1. n \in Short
    BY DEF Short
  <2> QED BY <1>2, <2>1, NoBitsBeyond DEF Beyond
<1>5. B \subseteq 0 .. 7 /\ B \in SUBSET (0 .. 15)
  BY <1>2, <1>3, <1>4
<1>6. LET m == SumSet({2^b : b \in B})
      IN  m \in Nat /\ m < 65536 /\ (B \subseteq 0 .. 7 => m < 256) /\ BitsOf(m) = B
  BY ONLY <1>5, FlagsArrive
<1> QED BY <1>1, <1>5, <1>6

LEMMA CapsRefuse ==
  ASSUME NEW rows, NEW S, Caps(rows, S), NEW bits, NEW val, WriteRows(rows, bits, val).err
  PROVE  \E p \in S : p[1] \in bits /\ val[p[2]] > 255
<1>1. PICK R : rows \in Seq(R)
  BY DEF Caps
<1>2. PICK i \in 1 .. Len(rows) : /\ IsPresent(rows[i], bits) /\ rows[i].type = "u8max"
                                  /\ val[rows[i].field] > 255
  BY <1>1, ErrOfRows
<1>3. PICK p \in S : p[1] \in rows[i].all /\ rows[i].field = p[2]
  BY <1>2 DEF Caps
<1> QED BY <1>2, <1>3 DEF IsPresent

LEMMA NoneRefused ==
  ASSUME NEW rows, Caps(rows, {}), NEW bits, NEW val PROVE ~WriteRows(rows, bits, val).err
  BY CapsRefuse

LEMMA NumberNotRefused == \A bits, entnum : ~EntityBits(bits, entnum).err
  BY DEF EntityBits, Written

\* An entity of an old protocol that is refused has a new model or sound that is too wide.
WideModel(from, to) ==
  \E f \in Models \cup {F("sound")} : from[f] # to[f] /\ to[f] > 255

LEMMA HeadsAre ==
  \A h \in Heads : h[2] \in Models \cup {F("sound")} /\ h[2][1] \notin {"event", "old_origin"}
  BY DEF Heads, Models, F

LEMMA CapsAreHeads ==
  \A p \in EntityCaps : p \in Heads
  BY EntityNumbers DEF EntityCaps, Heads

LEMMA OldEntityRefused ==
  ASSUME NEW from, NEW to, NEW old, NEW entnum, NEW c, ~Extended(c), NEW d,
         d = EntityDelta(from, to, old, Extended(c)), NEW version,
         VanillaWriteEntity(entnum, d).err \/ R1q2WriteEntity(version, entnum, d).err
  PROVE  WideModel(from, to)
<1>1. ~VanillaEntityRefused(d)
  BY EntityDeltaIs DEF VanillaEntityRefused, Changed
<1>2. PICK rows : /\ Caps(rows, EntityCaps)
                  /\ Then(EntityBits(VanillaEntityBits(d), entnum),
                          WriteRows(rows, VanillaEntityBits(d), d.val)).err
  BY <1>1, EntityOutCaps DEF VanillaWriteEntity, R1q2WriteEntity
<1>3. WriteRows(rows, VanillaEntityBits(d), d.val).err
  BY <1>2, ErrOfThen, NumberNotRefused
<1>4. PICK p \in EntityCaps : p[1] \in VanillaEntityBits(d) /\ d.val[p[2]] > 255
  BY <1>2, <1>3, CapsRefuse
<1>5. p \in Heads /\ p[2] \in d.set
  BY <1>4, CapsAreHeads, EntityBitsAre
<1>6. from[p[2]] # to[p[2]] /\ d.val[p[2]] = to[p[2]]
  <2>1. PICK f : f = p[2]
    OBVIOUS
  <2>2. f[1] \notin {"event", "old_origin"} /\ f \in d.set
    BY <1>5, <2>1, HeadsAre
  <2>3. \A g \in d.set : \/ g[1] \in {"event", "old_origin"}
                         \/ g \in EntityFields /\ from[g] # to[g] /\ d.val[g] = to[g]
    BY EntityDeltaIs
  <2> QED BY <2>1, <2>2, <2>3
<1> QED BY <1>4, <1>5, <1>6, HeadsAre DEF WideModel

\* The word of the sound has the sound's bits, with flags only for an extended API.
LEMMA SoundWordIs ==
  ASSUME NEW c, ~Extended(c), NEW d, d.val[F("sound")] \in Nat, SoundWord(c, d) > 255
  PROVE  d.val[F("sound")] > 255
<1>1. PICK n \in Nat : n = d.val[F("sound")]
  OBVIOUS
<1>2. SoundWord(c, d) = SumSet({2^b : b \in BitsOf(n)})
  BY <1>1, Zenon DEF SoundWord
<1>3. CASE n \in 0 .. 255
  <2>1. PICK m : m = SumSet({2^b : b \in BitsOf(n)})
    OBVIOUS
  <2>2. m \in Nat /\ m < 256
    BY <1>3, <2>1, ByteStays
  <2> QED BY <1>2, <2>1, <2>2
<1>4. CASE n \notin 0 .. 255
  BY <1>1, <1>4
<1> QED BY <1>3, <1>4

LEMMA Q2proEntityRefuses ==
  ASSUME NEW from, NEW to, NEW old, NEW entnum, NEW c, NEW d, to[F("sound")] \in Nat,
         d = EntityDelta(from, to, old, Extended(c)), Q2proWriteEntity(c, entnum, d).err
  PROVE  ~Extended(c) /\ WideModel(from, to)
<1> DEFINE bits == Q2proEntityBits(c, d)
           values == EntityValues(c, d)
<1>1. \A f \in d.set : f[1] \notin {"event", "old_origin"} => from[f] # to[f] /\ d.val[f] = to[f]
  BY EntityDeltaIs
<1>2. \A f \in Models \cup {F("sound")} : f[1] \notin {"event", "old_origin"}
  BY DEF Models, F
<1>3. CASE Q2proEntityRefused(c, d)
  <2>1. ~Extended(c)
    BY <1>3 DEF Q2proEntityRefused
  <2>2. d.set \cap ExtendedFields = {}
    BY <2>1, EntityDeltaIs
  <2>3. U.MODEL16 \in bits
    BY <1>3, <2>2 DEF Q2proEntityRefused, Changed, ExtendedFields
  <2>4. PICK f \in Models \cap d.set : d.val[f] > 255
    BY <2>3, EntityBitsAre, EntityNumbers
  <2> QED BY <1>1, <1>2, <2>1, <2>4 DEF WideModel
<1>4. CASE ~Q2proEntityRefused(c, d)
  <2> DEFINE all == bits \cup SoundBits(c, d)
             rows == Q2proEntityOut(c)
  <2>1. WriteRows(rows, all, values).err
    <3>1. Then(EntityBits(bits, entnum), WriteRows(rows, all, values)).err
      BY <1>4 DEF Q2proWriteEntity
    <3> QED BY <3>1, ErrOfThen, NumberNotRefused
  <2>2. CoordType(c) \in Narrow /\ OldCoordType(c) \in Narrow
    BY CoordsNarrow
  <2>3. ~Extended(c)
    <3> SUFFICES ASSUME Extended(c) PROVE FALSE
      OBVIOUS
    <3>1. rows = ExtendedEntityOut(CoordType(c), OldCoordType(c), TRUE)
      BY DEF Q2proEntityOut
    <3>2. Caps(rows, {})
      BY <2>2, <3>1, ExtendedEntityCaps
    <3> QED BY <2>1, <3>2, NoneRefused
  <2>4. Caps(rows, SoundCaps)
    <3>1. Extended(c) = FALSE
      BY <2>3 DEF Extended
    <3>2. rows = ExtendedEntityOut(CoordType(c), OldCoordType(c), FALSE)
      BY <3>1 DEF Q2proEntityOut
    <3> QED BY <2>2, <3>2, ExtendedEntityCaps
  <2> HIDE DEF rows, bits, values
  <2>5. PICK p \in SoundCaps : p[1] \in all /\ values[p[2]] > 255
    BY <2>1, <2>4, CapsRefuse
  <2>6. U.SOUND \in bits /\ values[F("sound_word")] > 255
    BY <2>3, <2>5 DEF SoundBits, SoundCaps
  <2>7. values[F("sound_word")] = SoundWord(c, d)
    BY DEF values, EntityValues, With
  <2>8. F("sound") \in d.set
    BY <2>6, EntityNumbers, EntityBitsAre DEF bits
  <2>9. from[F("sound")] # to[F("sound")] /\ d.val[F("sound")] = to[F("sound")]
    BY <1>1, <1>2, <2>8
  <2>10. to[F("sound")] > 255
    BY <2>3, <2>6, <2>7, <2>9, SoundWordIs
  <2> QED BY <2>3, <2>9, <2>10 DEF WideModel
<1> QED BY <1>3, <1>4

LEMMA NewEntityNotRefused ==
  /\ \A entnum, d : ~Q2reproWriteEntity(entnum, d).err
  /\ \A c, entnum, d, solid : ~KexWriteEntity(c, entnum, d, solid).err
<1>1. ASSUME NEW entnum, NEW d PROVE ~Q2reproWriteEntity(entnum, d).err
  <2>1. Caps(ExtendedEntityOut("float", "float", TRUE), {})
    BY CoordsNarrow, ExtendedEntityCaps
  <2> QED BY <2>1, NoneRefused, ErrOfThen, NumberNotRefused DEF Q2reproWriteEntity
<1>2. ASSUME NEW c, NEW entnum, NEW d, NEW solid PROVE ~KexWriteEntity(c, entnum, d, solid).err
  BY KexEntityCaps, NoneRefused, ErrOfThen, NumberNotRefused DEF KexWriteEntity
<1> QED BY <1>1, <1>2

\* What the protocol of a context says of its game API
ContextIs(c) ==
  \/ c.proto \in {"vanilla", "r1q2"} /\ c.api = "vanilla"
  \/ c.proto = "q2pro" /\ c.api \in {"vanilla", "ext", "v2"}
  \/ c.proto = "extdemo" /\ c.api \in {"ext", "v2"}
  \/ c.proto \in {"q2repro", "kex", "kexdemo"} /\ c.api = "rerelease"

LEMMA ContextsAre == \A c \in Contexts : ContextIs(c)
<1> SUFFICES ASSUME NEW c \in Contexts PROVE ContextIs(c)
  OBVIOUS
<1>1. c.api \in {"vanilla", "ext", "v2", "rerelease"} /\ c.proto \in GameProtocols[c.api]
  BY ContextAssumption DEF GameProtocols
<1> QED BY <1>1 DEF ContextIs, GameProtocols

\* Only Q2PRO and its predecessors refuse an entity, without the extended APIs, and
\* only for a model or a sound that is too wide.
LEMMA EntityRefusedFor ==
  ASSUME NEW c, ContextIs(c), NEW from, NEW to, to[F("sound")] \in Nat, NEW old, NEW entnum, NEW remove,
         WriteFrameEntity(c, entnum, remove, MakeEntityDelta(c, from, to, old)).err
  PROVE  ~Extended(c) /\ WideModel(from, to)
<1>1. PICK d : d = MakeEntityDelta(c, from, to, old)
  OBVIOUS
<1>2. WriteEntity(c, entnum, d).err
  <2>1. ~WriteRemove(entnum).err /\ ~WriteTerminator.err
    BY NumberNotRefused DEF WriteRemove, WriteTerminator, Written
  <2> QED BY <1>1, <2>1 DEF WriteFrameEntity
<1>3. CASE c.proto \in {"vanilla", "r1q2"}
  <2>1. d = EntityDelta(from, to, old, Extended(c))
    <3>1. ~IsKex(c) /\ c.proto # "q2repro"
      BY <1>3 DEF IsKex
    <3> QED BY <1>1, <3>1, Zenon DEF MakeEntityDelta
  <2>2. ~Extended(c)
    BY <1>3 DEF ContextIs, Extended
  <2>3. VanillaWriteEntity(entnum, d).err \/ R1q2WriteEntity(c.version, entnum, d).err
    <3>1. CASE c.proto = "vanilla"
      <4>1. c.proto \notin {"q2pro", "extdemo"} /\ ~IsKex(c) /\ c.proto # "q2repro" /\ c.proto # "r1q2"
        BY <3>1 DEF IsKex
      <4>2. WriteEntity(c, entnum, d) = VanillaWriteEntity(entnum, d)
        BY <3>1, <4>1, Zenon DEF WriteEntity
      <4> QED BY <1>2, <4>2
    <3>2. CASE c.proto = "r1q2"
      <4>1. c.proto \notin {"q2pro", "extdemo"} /\ ~IsKex(c) /\ c.proto # "q2repro" /\ c.proto # "vanilla"
        BY <3>2 DEF IsKex
      <4>2. WriteEntity(c, entnum, d) = R1q2WriteEntity(c.version, entnum, d)
        BY <3>2, <4>1, Zenon DEF WriteEntity
      <4> QED BY <1>2, <4>2
    <3> QED BY <1>3, <3>1, <3>2
  <2> QED BY <2>1, <2>2, <2>3, OldEntityRefused
<1>4. CASE c.proto \in {"q2pro", "extdemo"}
  <2>1. ~IsKex(c) /\ c.proto # "q2repro" /\ c.proto # "vanilla" /\ c.proto # "r1q2"
    BY <1>4 DEF IsKex
  <2>2. d = EntityDelta(from, to, old, Extended(c))
    BY <1>1, <2>1, Zenon DEF MakeEntityDelta
  <2>3. WriteEntity(c, entnum, d) = Q2proWriteEntity(c, entnum, d)
    BY <1>4, <2>1, Zenon DEF WriteEntity
  <2> QED BY <1>2, <2>2, <2>3, Q2proEntityRefuses
<1>5. CASE c.proto = "q2repro"
  <2>1. c.proto \notin {"q2pro", "extdemo"} /\ ~IsKex(c) /\ c.proto # "vanilla" /\ c.proto # "r1q2"
    BY <1>5 DEF IsKex
  <2>2. WriteEntity(c, entnum, d) = Q2reproWriteEntity(entnum, d)
    BY <1>5, <2>1, Zenon DEF WriteEntity
  <2> QED BY <1>2, <2>2, NewEntityNotRefused
<1>6. CASE c.proto \in {"kex", "kexdemo"}
  <2>1. /\ c.proto \notin {"q2pro", "extdemo"} /\ IsKex(c) /\ c.proto # "vanilla" /\ c.proto # "r1q2"
        /\ c.proto # "q2repro"
    BY <1>6 DEF IsKex
  <2>2. WriteEntity(c, entnum, d) = KexWriteEntity(c, entnum, d, FALSE)
    BY <2>1, Zenon DEF WriteEntity
  <2> QED BY <1>2, <2>2, NewEntityNotRefused
<1> QED BY <1>3, <1>4, <1>5, <1>6 DEF ContextIs
-----------------------------------------------------------------------------
(* Players *)
AnnouncedNames == {"pm_delta_angles", "viewoffset", "kick_angles"}

\* What a delta of players announces has changed, but for the three vectors that are
\* announced as a whole, and it has the new values; a field of a group has its new value
\* if any of the group is announced.
Reflects(groups, fields, from, to, d) ==
  /\ \A f \in d.set : \/ f[1] \in AnnouncedNames
                      \/ f \in fields /\ from[f] # to[f] /\ d.val[f] = to[f]
  /\ DOMAIN d.val = PlayerFields
  /\ \A g \in groups : g \cap d.set # {} => \A f \in g \cap PlayerFields : d.val[f] = to[f]

LEMMA PlayerDeltaIs ==
  ASSUME NEW groups, NEW fields, fields \subseteq PlayerFields, NEW from, NEW to
  PROVE  Reflects(groups, fields, from, to, PlayerDeltaOf(groups, fields, from, to))
<1> DEFINE d == PlayerDeltaOf(groups, fields, from, to)
           differs == {f \in fields : from[f] # to[f]}
           set == Together(Announced, differs)
           valued == Together(groups, set) \cup Vec("pm_origin", 3) \cup Vec("pm_velocity", 3)
<1>1. d.set = set /\ d.val = [f \in PlayerFields |-> IF f \in valued THEN to[f] ELSE 0]
  BY DEF PlayerDeltaOf
<1>2. \A g \in Announced : \A f \in g : f[1] \in AnnouncedNames
  BY DEF Announced, AnnouncedNames, Vec
<1>3. \A f \in set : f \in differs \/ \E g \in Announced : f \in g
  BY DEF Together
<1>4. \A f \in set : f \in valued
  BY DEF Together
<1>5. \A g \in groups : g \cap set # {} => g \subseteq valued
  BY DEF Together
<1> HIDE DEF set, valued, d
<1>6. \A f \in set : f[1] \in AnnouncedNames \/ f \in differs
  BY <1>2, <1>3
<1>7. \A f \in valued \cap PlayerFields : d.val[f] = to[f]
  BY <1>1
<1>8. \A f \in differs : f \in fields /\ f \in PlayerFields /\ from[f] # to[f]
  OBVIOUS
<1> HIDE DEF differs
<1>9. \A f \in d.set : \/ f[1] \in AnnouncedNames
                       \/ f \in fields /\ from[f] # to[f] /\ d.val[f] = to[f]
  BY <1>1, <1>4, <1>6, <1>7, <1>8
<1>10. DOMAIN d.val = PlayerFields
  BY <1>1
<1>11. \A g \in groups : g \cap d.set # {} => \A f \in g \cap PlayerFields : d.val[f] = to[f]
  BY <1>1, <1>5, <1>7
<1> QED BY <1>9, <1>10, <1>11 DEF Reflects, d

\* What a delta says of a frame with the header fr
Announces(fields, from, to, fr, d) ==
  /\ \A f \in d.set : \/ f[1] \in AnnouncedNames
                      \/ f \in fields /\ from[f] # to[f] /\ d.val[f] = to[f]
                      \/ f = F("clientnum")
  /\ F("clientnum") \in d.set =>
       fr[F("clientnum")] # -1 /\ d.val[F("clientnum")] = fr[F("clientnum")]
  /\ GunFields \cap d.set # {} => d.val[F("gunframe")] = to[F("gunframe")]

LEMMA NoClientnum ==
  /\ F("clientnum") \notin PlayerFields /\ F("clientnum")[1] \notin AnnouncedNames
  /\ F("gunframe") \in PlayerFields /\ F("gunframe") \in GunFields /\ F("clientnum") \notin GunFields
<1> DEFINE singles == {F("pm_type"), F("pm_time"), F("pm_flags"), F("pm_gravity"), F("pm_viewheight"),
                       F("fov"), F("rdflags"), F("gunindex"), F("gunskin")}
           vectors == UNION {Vec(n, 3) : n \in {"pm_origin", "pm_velocity", "pm_delta_angles",
                                                "viewoffset", "viewangles", "kick_angles"}}
           gun == GunFields
           fog == FogFields
<1>0. PlayerFields = singles \cup vectors \cup gun \cup Vec("blend", 4) \cup Vec("damage_blend", 4)
                       \cup Stats \cup fog
  BY Zenon DEF PlayerFields
<1>1. \A f \in PlayerFields : f[1] # "clientnum"
  <2>1. \A f \in singles : f[1] # "clientnum"
    BY DEF F
  <2>2. \A n : n # "clientnum" => \A k : \A f \in Vec(n, k) : f[1] # "clientnum"
    BY DEF Vec
  <2>3. \A f \in vectors : f[1] # "clientnum"
    BY <2>2
  <2>4. \A f \in gun : f[1] # "clientnum"
    <3>1. \A f \in {F("gunframe"), F("gunrate")} : f[1] # "clientnum"
      BY DEF F
    <3> QED BY <2>2, <3>1 DEF GunFields
  <2>5. \A f \in Vec("blend", 4) \cup Vec("damage_blend", 4) : f[1] # "clientnum"
    BY <2>2
  <2>6. \A f \in Stats : f[1] # "clientnum"
    BY DEF Stats
  <2>7. \A f \in FogColors : f[1] # "clientnum"
    BY DEF FogColors
  <2>8. \A f \in fog : f[1] # "clientnum"
    BY <2>7 DEF FogFields, F
  <2> HIDE DEF singles, vectors, gun, fog
  <2> QED BY <1>0, <2>1, <2>3, <2>4, <2>5, <2>6, <2>8
<1>2. F("clientnum")[1] = "clientnum"
  BY DEF F
<1>3. "clientnum" \notin AnnouncedNames
  BY DEF AnnouncedNames
<1>4. F("gunframe") \in GunFields
  BY DEF GunFields
<1>5. GunFields \subseteq PlayerFields
  <2>1. gun \subseteq PlayerFields
    <3> HIDE DEF singles, vectors, gun, fog
    <3> QED BY <1>0
  <2> QED BY <2>1
<1> QED BY <1>1, <1>2, <1>3, <1>4, <1>5

LEMMA FrameAnnounces ==
  ASSUME NEW groups, GunFields \in groups, NEW fields, fields \subseteq PlayerFields, NEW from, NEW to, NEW fr
  PROVE  Announces(fields, from, to, fr, WithClientnum(fr, PlayerDeltaOf(groups, fields, from, to)))
<1>1. PICK d : d = PlayerDeltaOf(groups, fields, from, to)
  OBVIOUS
<1>2. PICK e : e = WithClientnum(fr, d)
  OBVIOUS
<1>0. Reflects(groups, fields, from, to, d)
  BY <1>1, PlayerDeltaIs
<1>3. /\ \A f \in d.set : \/ f[1] \in AnnouncedNames
                          \/ f \in fields /\ from[f] # to[f] /\ d.val[f] = to[f]
      /\ DOMAIN d.val = PlayerFields
      /\ \A g \in groups : g \cap d.set # {} => \A f \in g \cap PlayerFields : d.val[f] = to[f]
  BY <1>0 DEF Reflects
<1>4. F("clientnum") \notin d.set
  BY <1>3, NoClientnum
<1>5. GunFields \cap d.set # {} => d.val[F("gunframe")] = to[F("gunframe")]
  BY <1>3, NoClientnum
<1>6. CASE fr[F("clientnum")] = -1
  <2>1. e = d
    BY <1>2, <1>6 DEF WithClientnum
  <2> QED BY <1>1, <1>2, <1>3, <1>4, <1>5, <2>1 DEF Announces
<1>7. CASE fr[F("clientnum")] # -1
  <2>1. /\ e = [d EXCEPT !.set = d.set \cup {F("clientnum")},
                         !.val = With(d.val, "clientnum", fr[F("clientnum")])]
    BY <1>2, <1>7 DEF WithClientnum
  <2>2. DOMAIN d = {"set", "val", "prev"}
    BY <1>1 DEF PlayerDeltaOf
  <2>3. e.set = d.set \cup {F("clientnum")} /\ e.val = With(d.val, "clientnum", fr[F("clientnum")])
    BY <2>1, <2>2
  <2>4. e.val[F("clientnum")] = fr[F("clientnum")]
    BY <2>3 DEF With
  <2>5. \A f \in PlayerFields : e.val[f] = d.val[f]
    BY <1>3, <2>3, NoClientnum DEF With
  <2>6. \A f \in d.set : \/ f[1] \in AnnouncedNames
                         \/ f \in fields /\ from[f] # to[f] /\ e.val[f] = to[f]
    BY <1>3, <2>5
  <2>7. GunFields \cap e.set = GunFields \cap d.set
    BY <2>3, NoClientnum
  <2> QED BY <1>1, <1>2, <1>5, <1>7, <2>3, <2>4, <2>5, <2>6, <2>7, NoClientnum DEF Announces
<1> QED BY <1>6, <1>7
-----------------------------------------------------------------------------
(* The parts of a frame *)
LEMMA FewInTurn ==
  /\ \A a, b, c : ~a.err /\ ~b.err /\ ~c.err => ~InTurn(<<a, b, c>>).err
  /\ \A a, b, c, d : ~a.err /\ ~b.err /\ ~c.err /\ ~d.err => ~InTurn(<<a, b, c, d>>).err
  /\ \A a, b, c, d, e :
       ~a.err /\ ~b.err /\ ~c.err /\ ~d.err /\ ~e.err => ~InTurn(<<a, b, c, d, e>>).err
<1>1. ASSUME NEW a, NEW b, NEW c, ~a.err, ~b.err, ~c.err PROVE ~InTurn(<<a, b, c>>).err
  <2>1. PICK parts : parts = <<a, b, c>>
    OBVIOUS
  <2>2. Len(parts) = 3 /\ \A i \in 1 .. 3 : ~parts[i].err
    BY <1>1, <2>1
  <2>3. Len(parts) \in Nat /\ \A i \in 1 .. Len(parts) : ~parts[i].err
    BY <2>2
  <2> QED BY <2>1, <2>3, ErrOfTurn
<1>2. ASSUME NEW a, NEW b, NEW c, NEW d, ~a.err, ~b.err, ~c.err, ~d.err
      PROVE  ~InTurn(<<a, b, c, d>>).err
  <2>1. PICK parts : parts = <<a, b, c, d>>
    OBVIOUS
  <2>2. Len(parts) = 4 /\ \A i \in 1 .. 4 : ~parts[i].err
    BY <1>2, <2>1
  <2>3. Len(parts) \in Nat /\ \A i \in 1 .. Len(parts) : ~parts[i].err
    BY <2>2
  <2> QED BY <2>1, <2>3, ErrOfTurn
<1>3. ASSUME NEW a, NEW b, NEW c, NEW d, NEW e, ~a.err, ~b.err, ~c.err, ~d.err, ~e.err
      PROVE  ~InTurn(<<a, b, c, d, e>>).err
  <2>1. PICK parts : parts = <<a, b, c, d, e>>
    OBVIOUS
  <2>2. Len(parts) = 5 /\ \A i \in 1 .. 5 : ~parts[i].err
    BY <1>3, <2>1
  <2>3. Len(parts) \in Nat /\ \A i \in 1 .. Len(parts) : ~parts[i].err
    BY <2>2
  <2> QED BY <2>1, <2>3, ErrOfTurn
<1> QED BY <1>1, <1>2, <1>3

LEMMA ManyInTurn ==
  /\ \A a, b, c, d, e, f : ~a.err /\ ~b.err /\ ~c.err /\ ~d.err /\ ~e.err /\ ~f.err =>
       ~InTurn(<<a, b, c, d, e, f>>).err
  /\ \A a, b, c, d, e, f, g : ~a.err /\ ~b.err /\ ~c.err /\ ~d.err /\ ~e.err /\ ~f.err /\ ~g.err =>
       ~InTurn(<<a, b, c, d, e, f, g>>).err
  /\ \A a, b, c, d, e, f, g, h :
       ~a.err /\ ~b.err /\ ~c.err /\ ~d.err /\ ~e.err /\ ~f.err /\ ~g.err /\ ~h.err =>
         ~InTurn(<<a, b, c, d, e, f, g, h>>).err
  /\ \A a, b, c, d, e, f, g, h, i :
       ~a.err /\ ~b.err /\ ~c.err /\ ~d.err /\ ~e.err /\ ~f.err /\ ~g.err /\ ~h.err /\ ~i.err =>
         ~InTurn(<<a, b, c, d, e, f, g, h, i>>).err
<1>1. ASSUME NEW a, NEW b, NEW c, NEW d, NEW e, NEW f,
             ~a.err, ~b.err, ~c.err, ~d.err, ~e.err, ~f.err
      PROVE  ~InTurn(<<a, b, c, d, e, f>>).err
  <2>1. PICK parts : parts = <<a, b, c, d, e, f>>
    OBVIOUS
  <2>2. Len(parts) = 6 /\ \A j \in 1 .. 6 : ~parts[j].err
    BY <1>1, <2>1
  <2>3. Len(parts) \in Nat /\ \A j \in 1 .. Len(parts) : ~parts[j].err
    BY <2>2
  <2> QED BY <2>1, <2>3, ErrOfTurn
<1>2. ASSUME NEW a, NEW b, NEW c, NEW d, NEW e, NEW f, NEW g,
             ~a.err, ~b.err, ~c.err, ~d.err, ~e.err, ~f.err, ~g.err
      PROVE  ~InTurn(<<a, b, c, d, e, f, g>>).err
  <2>1. PICK parts : parts = <<a, b, c, d, e, f, g>>
    OBVIOUS
  <2>2. Len(parts) = 7 /\ \A j \in 1 .. 7 : ~parts[j].err
    BY <1>2, <2>1
  <2>3. Len(parts) \in Nat /\ \A j \in 1 .. Len(parts) : ~parts[j].err
    BY <2>2
  <2> QED BY <2>1, <2>3, ErrOfTurn
<1>3. ASSUME NEW a, NEW b, NEW c, NEW d, NEW e, NEW f, NEW g, NEW h,
             ~a.err, ~b.err, ~c.err, ~d.err, ~e.err, ~f.err, ~g.err, ~h.err
      PROVE  ~InTurn(<<a, b, c, d, e, f, g, h>>).err
  <2>1. PICK parts : parts = <<a, b, c, d, e, f, g, h>>
    OBVIOUS
  <2>2. Len(parts) = 8 /\ \A j \in 1 .. 8 : ~parts[j].err
    BY <1>3, <2>1
  <2>3. Len(parts) \in Nat /\ \A j \in 1 .. Len(parts) : ~parts[j].err
    BY <2>2
  <2> QED BY <2>1, <2>3, ErrOfTurn
<1>4. ASSUME NEW a, NEW b, NEW c, NEW d, NEW e, NEW f, NEW g, NEW h, NEW i,
             ~a.err, ~b.err, ~c.err, ~d.err, ~e.err, ~f.err, ~g.err, ~h.err, ~i.err
      PROVE  ~InTurn(<<a, b, c, d, e, f, g, h, i>>).err
  <2>1. PICK parts : parts = <<a, b, c, d, e, f, g, h, i>>
    OBVIOUS
  <2>2. Len(parts) = 9 /\ \A j \in 1 .. 9 : ~parts[j].err
    BY <1>4, <2>1
  <2>3. Len(parts) \in Nat /\ \A j \in 1 .. Len(parts) : ~parts[j].err
    BY <2>2
  <2> QED BY <2>1, <2>3, ErrOfTurn
<1> QED BY ONLY <1>1, <1>2, <1>3, <1>4

\* What has no row is never refused ...
LEMMA PlainNotRefused ==
  /\ \A items : ~Written(items).err
  /\ \A type, v : ~Put(type, v).err
  /\ \A bits : ~Byte(bits).err
  /\ \A fr : ~AreaBits(fr).err /\ ~EncodedFrame(fr).err
  /\ \A extra : ~FrameCommand(extra).err
  /\ \A fr, extra : ~FlaggedSuppressCount(fr, extra).err
  /\ \A cond, part : ~part.err => ~If(cond, part).err
<1>1. \A items : ~Written(items).err
  BY DEF Written
<1>2. \A type, v : ~Put(type, v).err
  BY <1>1, Zenon DEF Put
<1>3. \A bits : ~Byte(bits).err
  BY <1>2, Zenon DEF Byte
<1>4. \A fr : ~AreaBits(fr).err
  BY <1>1, <1>2, ErrOfThen, Zenon DEF AreaBits
<1>5. \A fr : ~EncodedFrame(fr).err
  BY <1>1, Zenon DEF EncodedFrame
<1>6. \A extra : ~FrameCommand(extra).err
  BY <1>2, Zenon DEF FrameCommand
<1>7. \A fr, extra : ~FlaggedSuppressCount(fr, extra).err
  BY <1>2, Zenon DEF FlaggedSuppressCount
<1>8. \A cond, part : ~part.err => ~If(cond, part).err
  BY <1>1, Zenon DEF If
<1> QED BY <1>1, <1>2, <1>3, <1>4, <1>5, <1>6, <1>7, <1>8, Zenon

\* ... nor is what has rows for stats, blends and fog.
LEMMA ExtrasNotRefused ==
  \A d : /\ ~WriteStats32(d).err /\ ~WriteStats64(d).err /\ ~AllStats(d).err
         /\ ~HalfStats(d, 0).err /\ ~HalfStats(d, 32).err
         /\ ~WriteBlends(d).err /\ ~WriteFog(d).err
         /\ \A val : ~WriteRows(AlwaysVec("blend", 4, "u8"), {}, val).err
<1> SUFFICES ASSUME NEW d
             PROVE  /\ ~WriteStats32(d).err /\ ~WriteStats64(d).err /\ ~AllStats(d).err
                    /\ ~HalfStats(d, 0).err /\ ~HalfStats(d, 32).err
                    /\ ~WriteBlends(d).err /\ ~WriteFog(d).err
                    /\ \A val : ~WriteRows(AlwaysVec("blend", 4, "u8"), {}, val).err
  OBVIOUS
<1>1. \A numbers \in SUBSET StatNumbers : \A bits, val : ~WriteRows(StatRows(numbers), bits, val).err
  <2> SUFFICES ASSUME NEW numbers \in SUBSET StatNumbers
               PROVE  \A bits, val : ~WriteRows(StatRows(numbers), bits, val).err
    OBVIOUS
  <2>1. Caps(StatRows(numbers), {})
    BY OtherRowsUncapped
  <2> QED BY <2>1, NoneRefused
<1>2. \A n : StatsIn(d, n) \in SUBSET StatNumbers /\ StatsFrom(d, n) \in SUBSET StatNumbers
  BY DEF StatsIn, StatsFrom
<1>3. \A numbers : ~StatBits32(numbers).err
  BY PlainNotRefused, Zenon DEF StatBits32
<1>4. ~WriteStats32(d).err
  BY <1>1, <1>2, <1>3, ErrOfThen, Zenon DEF WriteStats32
<1>5. ~WriteStats64(d).err /\ ~AllStats(d).err
  <2>1. \A items, bits, val : \A numbers \in SUBSET StatNumbers :
          ~Then(Written(items), WriteRows(StatRows(numbers), bits, val)).err
    BY <1>1, ErrOfThen, PlainNotRefused
  <2>2. ~WriteStats64(d).err
    BY <1>2, <2>1, SMT DEF WriteStats64
  <2>3. ~AllStats(d).err
    BY <1>2, <2>1, Zenon DEF AllStats
  <2> QED BY <2>2, <2>3
<1>6. ~HalfStats(d, 0).err /\ ~HalfStats(d, 32).err
  BY <1>1, <1>2, <1>3, ErrOfThen, Zenon DEF HalfStats
<1>7. ~WriteBlends(d).err
  <2>1. \A bits, val : ~WriteRows(BlendRows, bits, val).err
    BY OtherRowsUncapped, NoneRefused
  <2> QED BY <2>1, ErrOfThen, PlainNotRefused, Zenon DEF WriteBlends
<1>8. ~WriteFog(d).err
  <2>1. \A bits, val : ~WriteRows(FogOut, bits, val).err
    BY PlayerRowsUncapped, NoneRefused
  <2> QED BY <2>1, ErrOfThen, PlainNotRefused, Zenon DEF WriteFog
<1>9. \A val : ~WriteRows(AlwaysVec("blend", 4, "u8"), {}, val).err
  <2>1. Caps(AlwaysVec("blend", 4, "u8"), {})
    BY VectorsUncapped
  <2> QED BY <2>1, NoneRefused
<1> QED BY <1>4, <1>5, <1>6, <1>7, <1>8, <1>9

\* The flags of what may be refused in a row
LEMMA PlayerNumbers ==
  /\ PS.M_TYPE = 0 /\ PS.M_ORIGIN = 1 /\ PS.M_VELOCITY = 2 /\ PS.M_TIME = 3 /\ PS.M_FLAGS = 4
  /\ PS.M_GRAVITY = 5 /\ PS.M_DELTA_ANGLES = 6 /\ PS.VIEWOFFSET = 7 /\ PS.VIEWANGLES = 8
  /\ PS.KICKANGLES = 9 /\ PS.BLEND = 10 /\ PS.FOV = 11 /\ PS.WEAPONINDEX = 12
  /\ PS.WEAPONFRAME = 13 /\ PS.RDFLAGS = 14
  /\ EPS.GUNOFFSET = 0 /\ EPS.GUNANGLES = 1 /\ EPS.M_VELOCITY2 = 2 /\ EPS.M_ORIGIN2 = 3
  /\ EPS.VIEWANGLE2 = 4 /\ EPS.STATS = 5 /\ EPS.CLIENTNUM = 6
  BY DEF PS, EPS

LEMMA PlayerFlagsAre ==
  ASSUME NEW d
  PROVE  /\ 12 \in VanillaPlayerBits(d) => F("gunindex") \in d.set
         /\ 12 \in All(R1q2PlayerBits(d), R1q2PlayerExtra(d)) => F("gunindex") \in d.set
         /\ 6 \in Q2proPlayerExtra(d) => F("clientnum") \in d.set
<1>1. 12 \notin CommonFlags(d)
  <2> DEFINE sets == {<<{F("pm_type")}, PS.M_TYPE>>, <<{F("pm_time")}, PS.M_TIME>>,
               <<{F("pm_flags")}, PS.M_FLAGS>>, <<{F("pm_gravity")}, PS.M_GRAVITY>>,
               <<Vec("pm_delta_angles", 3), PS.M_DELTA_ANGLES>>,
               <<Vec("viewoffset", 3), PS.VIEWOFFSET>>,
               <<Vec("kick_angles", 3), PS.KICKANGLES>>,
               <<{F("fov")}, PS.FOV>>, <<{F("rdflags")}, PS.RDFLAGS>>}
  <2>1. CommonFlags(d) = {p[2] : p \in {q \in sets : Changed(d, q[1])}}
    BY DEF CommonFlags
  <2>2. \A q \in sets : q[2] # 12
    BY PlayerNumbers
  <2> HIDE DEF sets
  <2> QED BY <2>1, <2>2
<1>2. \A cond, x : \A y \in FlagIf(cond, x) : y = x /\ cond
  BY DEF FlagIf
<1>3. Changed(d, {F("gunindex")}) => F("gunindex") \in d.set
  BY DEF Changed
<1>4. 12 \in VanillaPlayerBits(d) => F("gunindex") \in d.set
  BY <1>1, <1>2, <1>3, PlayerNumbers DEF VanillaPlayerBits
<1>5. 12 \in R1q2PlayerBits(d) => F("gunindex") \in d.set
  BY <1>1, <1>2, <1>3, PlayerNumbers DEF R1q2PlayerBits
<1>6. \A x \in R1q2PlayerExtra(d) : x \in 0 .. 5
  BY <1>2, PlayerNumbers DEF R1q2PlayerExtra
<1>7. 12 \in All(R1q2PlayerBits(d), R1q2PlayerExtra(d)) => F("gunindex") \in d.set
  <2>1. \A x \in R1q2PlayerExtra(d) : 16 + x # 12
    BY <1>6
  <2> QED BY <1>5, <2>1 DEF All
<1>8. 6 \in Q2proPlayerExtra(d) => F("clientnum") \in d.set
  <2>1. PICK A : A = FlagIf(Changed(d, {<<"pm_velocity", 2>>}), EPS.M_VELOCITY2)
    OBVIOUS
  <2>2. PICK B : B = FlagIf(F("clientnum") \in d.set, EPS.CLIENTNUM)
    OBVIOUS
  <2>3. PICK R : R = R1q2PlayerExtra(d)
    OBVIOUS
  <2>4. Q2proPlayerExtra(d) = (R \ {EPS.M_VELOCITY2}) \cup A \cup B
    BY <2>1, <2>2, <2>3, Zenon DEF Q2proPlayerExtra
  <2>5. 6 \notin A
    BY <2>1, PlayerNumbers DEF FlagIf
  <2>6. 6 \in B => F("clientnum") \in d.set
    BY <2>2 DEF FlagIf
  <2>7. 6 \notin R
    BY <1>6, <2>3
  <2> QED BY <2>4, <2>5, <2>6, <2>7
<1> QED BY <1>4, <1>7, <1>8
-----------------------------------------------------------------------------
(* Why a player is refused *)
FieldReason ==
  \E f \in PlayerFields : msg.from[f] # msg.to[f] /\ (f \in Lacks \/ TooWide(f, msg.to[f]))
HeaderReason ==
  \/ msg.header[F("clientnum")] > 255
  \/ msg.header[F("clientnum")] # -1 /\ ~HasClientnum(ctx)
FrameReason == FieldReason \/ GunTooWide \/ HeaderReason

\* What the message's delta announces
Stated(fields, d) ==
  fields \subseteq PlayerFields /\ Announces(fields, msg.from, msg.to, msg.header, d)

\* These are announced only if they have changed.
ChangedOnly ==
  {F("pm_viewheight"), F("gunskin"), F("gunindex"), F("pm_time"), F("pm_flags")}
  \cup GunFields \cup Vec("damage_blend", 4) \cup FogFields \cup {<<"stats", 32>>, <<"stats", 63>>}

LEMMA ChangedOnlyAre == \A f \in ChangedOnly : f[1] \notin AnnouncedNames /\ f # F("clientnum")
<1> DEFINE singles == {F("pm_viewheight"), F("gunskin"), F("gunindex"), F("pm_time"), F("pm_flags")}
           good(f) == f[1] \notin AnnouncedNames /\ f # F("clientnum")
<1>1. \A f \in singles : good(f)
  BY DEF F, AnnouncedNames
<1>2. \A n : n \notin AnnouncedNames /\ n # "clientnum" => \A k : \A f \in Vec(n, k) : good(f)
  BY DEF Vec, F
<1>3. \A f \in GunFields : good(f)
  <2>1. good(F("gunframe")) /\ good(F("gunrate"))
    BY DEF F, AnnouncedNames
  <2>2. (\A f \in Vec("gunoffset", 3) : good(f)) /\ \A f \in Vec("gunangles", 3) : good(f)
    BY <1>2 DEF AnnouncedNames
  <2> HIDE DEF good
  <2> QED BY <2>1, <2>2 DEF GunFields
<1>4. \A f \in Vec("damage_blend", 4) : good(f)
  BY <1>2 DEF AnnouncedNames
<1>5. \A f \in FogFields : good(f)
  <2>1. \A f \in FogColors : good(f)
    BY DEF FogColors, AnnouncedNames, F
  <2>2. \A f \in {F("fog_density"), F("fog_skyfactor"), F("heightfog_density"),
                  F("heightfog_falloff"), F("heightfog_start_dist"), F("heightfog_end_dist")} : good(f)
    BY DEF F, AnnouncedNames
  <2> HIDE DEF good
  <2> QED BY <2>1, <2>2 DEF FogFields
<1>6. \A f \in {<<"stats", 32>>, <<"stats", 63>>} : good(f)
  BY DEF F, AnnouncedNames
<1>7. \A f \in ChangedOnly : good(f)
  <2> HIDE DEF good
  <2> QED BY <1>1, <1>3, <1>4, <1>5, <1>6 DEF ChangedOnly
<1> QED BY <1>7

LEMMA ChangedOnlyIfChanged ==
  ASSUME NEW fields, NEW d, Stated(fields, d), NEW f \in d.set, f \in ChangedOnly
  PROVE  f \in fields /\ f \in PlayerFields /\ msg.from[f] # msg.to[f] /\ d.val[f] = msg.to[f]
  BY ChangedOnlyAre DEF Stated, Announces

LEMMA LacksAre ==
  /\ ctx.proto \in {"vanilla", "r1q2", "q2pro"} => F("pm_viewheight") \in Lacks /\ F("gunrate") \in Lacks
  /\ ~Extended(ctx) => F("gunskin") \in Lacks
  /\ ~ExtendedV2(ctx) /\ ctx.api # "rerelease" =>
       Vec("damage_blend", 4) \subseteq Lacks /\ <<"stats", 32>> \in Lacks /\ <<"stats", 63>> \in Lacks
  /\ ctx.api # "rerelease" /\ ~(ctx.proto \in {"q2pro", "extdemo"} /\ ctx.version >= PLAYERFOG) =>
       FogFields \subseteq Lacks
<1> DEFINE a == IF ctx.proto \in {"vanilla", "r1q2", "q2pro"} THEN {F("pm_viewheight"), F("gunrate")} ELSE {}
           b == IF Extended(ctx) THEN {} ELSE ExtendedFields \cup {F("gunskin")}
           e == IF ExtendedV2(ctx) \/ ctx.api = "rerelease" THEN {}
                ELSE Vec("damage_blend", 4) \cup {<<"stats", i>> : i \in {32, 63}}
           g == IF ctx.api = "rerelease" \/ (ctx.proto \in {"q2pro", "extdemo"} /\ ctx.version >= PLAYERFOG)
                THEN {} ELSE FogFields
<1>1. Lacks = a \cup b \cup e \cup g
  BY Zenon DEF Lacks
<1>2. ctx.proto \in {"vanilla", "r1q2", "q2pro"} => F("pm_viewheight") \in a /\ F("gunrate") \in a
  OBVIOUS
<1>3. ~Extended(ctx) => F("gunskin") \in b
  OBVIOUS
<1>4. ~ExtendedV2(ctx) /\ ctx.api # "rerelease" =>
        Vec("damage_blend", 4) \subseteq e /\ <<"stats", 32>> \in e /\ <<"stats", 63>> \in e
  OBVIOUS
<1>5. ctx.api # "rerelease" /\ ~(ctx.proto \in {"q2pro", "extdemo"} /\ ctx.version >= PLAYERFOG) => g = FogFields
  OBVIOUS
<1> HIDE DEF a, b, e, g
<1> QED BY <1>1, <1>2, <1>3, <1>4, <1>5

\* A field that the delta announces and the protocol lacks, or has no place for, is
\* a reason.
LEMMA FieldIsReason ==
  ASSUME NEW fields, NEW d, Stated(fields, d), NEW f \in d.set, f \in ChangedOnly,
         f \in Lacks \/ TooWide(f, d.val[f])
  PROVE  FieldReason
<1>1. f \in PlayerFields /\ msg.from[f] # msg.to[f] /\ d.val[f] = msg.to[f]
  BY ChangedOnlyIfChanged
<1> QED BY <1>1 DEF FieldReason

LEMMA ClientnumIsReason ==
  ASSUME NEW fields, NEW d, Stated(fields, d), F("clientnum") \in d.set,
         ~HasClientnum(ctx) \/ d.val[F("clientnum")] > 255
  PROVE  HeaderReason
  BY DEF Stated, Announces, HeaderReason

LEMMA ChangedOnlyHas ==
  /\ F("pm_viewheight") \in ChangedOnly /\ F("gunskin") \in ChangedOnly /\ F("gunindex") \in ChangedOnly
  /\ F("pm_time") \in ChangedOnly /\ F("pm_flags") \in ChangedOnly /\ F("gunrate") \in ChangedOnly
  /\ F("gunframe") \in ChangedOnly /\ GunFields \subseteq ChangedOnly /\ Vec("damage_blend", 4) \subseteq ChangedOnly
  /\ FogFields \subseteq ChangedOnly /\ <<"stats", 32>> \in ChangedOnly /\ <<"stats", 63>> \in ChangedOnly
<1>1. F("gunframe") \in GunFields /\ F("gunrate") \in GunFields
  BY DEF GunFields
<1> QED BY <1>1 DEF ChangedOnly

\* A stat that only 64 have
LEMMA StatBeyond ==
  ASSUME NEW d, StatsIn(d, 64) # StatsIn(d, 32)
  PROVE  <<"stats", 32>> \in d.set \/ <<"stats", 63>> \in d.set
<1> SUFFICES ASSUME <<"stats", 32>> \notin d.set, <<"stats", 63>> \notin d.set
             PROVE  StatsIn(d, 64) = StatsIn(d, 32)
  OBVIOUS
<1>1. \A i \in StatNumbers : i < 64 /\ (<<"stats", i>> \in d.set => i < 32)
  BY DEF StatNumbers
<1>2. \A i \in StatNumbers : (i < 64 /\ <<"stats", i>> \in d.set) <=> (i < 32 /\ <<"stats", i>> \in d.set)
  BY <1>1
<1> QED BY <1>2, Zenon DEF StatsIn

\* Protocols with the fields of the old ones
LEMMA MotionIsReason ==
  ASSUME NEW fields, NEW d, Stated(fields, d), ctx.api # "rerelease", ~ExtendedV2(ctx),
         \/ \E f \in {F("pm_time"), F("pm_flags")} \cap d.set : d.val[f] > 255
         \/ Changed(d, Vec("damage_blend", 4))
         \/ StatsIn(d, 64) # StatsIn(d, 32)
  PROVE  FieldReason
<1>1. CASE \E f \in {F("pm_time"), F("pm_flags")} \cap d.set : d.val[f] > 255
  <2>1. PICK f \in {F("pm_time"), F("pm_flags")} \cap d.set : d.val[f] > 255
    BY <1>1
  <2>2. f \in ChangedOnly /\ TooWide(f, d.val[f])
    BY <2>1, ChangedOnlyHas DEF TooWide
  <2> QED BY <2>1, <2>2, FieldIsReason
<1>2. CASE Changed(d, Vec("damage_blend", 4))
  <2>1. PICK f \in d.set : f \in Vec("damage_blend", 4)
    BY <1>2 DEF Changed
  <2>2. f \in ChangedOnly /\ f \in Lacks
    BY <2>1, ChangedOnlyHas, LacksAre
  <2> QED BY <2>1, <2>2, FieldIsReason
<1>3. CASE StatsIn(d, 64) # StatsIn(d, 32)
  <2>1. PICK f \in d.set : f = <<"stats", 32>> \/ f = <<"stats", 63>>
    BY <1>3, StatBeyond
  <2>2. f \in ChangedOnly /\ f \in Lacks
    BY <2>1, ChangedOnlyHas, LacksAre
  <2> QED BY <2>1, <2>2, FieldIsReason
<1> QED BY <1>1, <1>2, <1>3

LEMMA FogIsReason ==
  ASSUME NEW fields, NEW d, Stated(fields, d), ctx.api # "rerelease",
         ~(ctx.proto \in {"q2pro", "extdemo"} /\ ctx.version >= PLAYERFOG), Changed(d, FogFields)
  PROVE  FieldReason
<1>1. PICK f \in d.set : f \in FogFields
  BY DEF Changed
<1>2. f \in ChangedOnly /\ f \in Lacks
  BY <1>1, ChangedOnlyHas, LacksAre
<1> QED BY <1>1, <1>2, FieldIsReason

LEMMA LackIsReason ==
  ASSUME NEW fields, NEW d, Stated(fields, d), NEW f \in {F("pm_viewheight"), F("gunrate"), F("gunskin")},
         f \in d.set, f \in Lacks
  PROVE  FieldReason
<1>1. f \in ChangedOnly
  BY ChangedOnlyHas
<1> QED BY <1>1, FieldIsReason

LEMMA WideGunIsReason ==
  ASSUME NEW fields, NEW d, Stated(fields, d), ctx.api # "rerelease",
         F("gunframe") \in d.set, d.val[F("gunframe")] > 255
  PROVE  FieldReason
<1>1. TooWide(F("gunframe"), d.val[F("gunframe")])
  BY DEF TooWide
<1> QED BY <1>1, ChangedOnlyHas, FieldIsReason

LEMMA GunindexIsReason ==
  ASSUME NEW fields, NEW d, Stated(fields, d), ctx.api = "vanilla",
         F("gunindex") \in d.set, d.val[F("gunindex")] > 255
  PROVE  FieldReason
<1>1. TooWide(F("gunindex"), d.val[F("gunindex")])
  BY DEF TooWide, Extended
<1> QED BY <1>1, ChangedOnlyHas, FieldIsReason

\* The original protocol and R1Q2
LEMMA OldFieldsRefused ==
  ASSUME NEW d, Stated(PlayerFields, d), ctx.proto \in {"vanilla", "r1q2"}, ctx.api = "vanilla",
         \/ Changed(d, {F("pm_viewheight"), F("gunskin"), F("gunrate"), F("clientnum")})
         \/ Changed(d, Vec("damage_blend", 4) \cup FogFields)
         \/ \E f \in {F("pm_time"), F("pm_flags")} \cap d.set : d.val[f] > 255
         \/ StatsIn(d, 64) # StatsIn(d, 32)
  PROVE  FrameReason
<1>1. /\ ctx.api # "rerelease" /\ ~Extended(ctx) /\ ~ExtendedV2(ctx) /\ ~HasClientnum(ctx)
      /\ ~(ctx.proto \in {"q2pro", "extdemo"} /\ ctx.version >= PLAYERFOG)
  BY DEF Extended, ExtendedV2, HasClientnum
<1>2. CASE Changed(d, {F("pm_viewheight"), F("gunskin"), F("gunrate"), F("clientnum")})
  <2>1. PICK f \in d.set : f \in {F("pm_viewheight"), F("gunskin"), F("gunrate"), F("clientnum")}
    BY <1>2 DEF Changed
  <2>2. CASE f = F("clientnum")
    <3>1. HeaderReason
      BY <1>1, <2>1, <2>2, ClientnumIsReason
    <3> QED BY <3>1 DEF FrameReason
  <2>3. CASE f \in {F("pm_viewheight"), F("gunskin"), F("gunrate")}
    <3>1. f \in Lacks
      BY <1>1, <2>3, LacksAre
    <3>2. FieldReason
      BY <2>1, <2>3, <3>1, LackIsReason
    <3> QED BY <3>2 DEF FrameReason
  <2> QED BY <2>1, <2>2, <2>3
<1>3. CASE Changed(d, Vec("damage_blend", 4) \cup FogFields)
  <2>1. Changed(d, Vec("damage_blend", 4)) \/ Changed(d, FogFields)
    BY <1>3 DEF Changed
  <2>2. FieldReason
    BY <1>1, <2>1, MotionIsReason, FogIsReason
  <2> QED BY <2>2 DEF FrameReason
<1>4. CASE (\E f \in {F("pm_time"), F("pm_flags")} \cap d.set : d.val[f] > 255)
           \/ StatsIn(d, 64) # StatsIn(d, 32)
  <2>1. FieldReason
    BY <1>1, <1>4, MotionIsReason
  <2> QED BY <2>1 DEF FrameReason
<1> QED BY <1>2, <1>3, <1>4

LEMMA VanillaRefusedFor ==
  ASSUME NEW d, Stated(PlayerFields, d), ctx.proto = "vanilla", ctx.api = "vanilla",
         VanillaWritePlayer(d).err
  PROVE  FrameReason
<1>1. CASE VanillaGun(d) /\ d.val[F("gunframe")] > 255
  <2>1. PICK f \in d.set : f \in GunFields
    BY <1>1 DEF VanillaGun, Changed
  <2>2. msg.from[f] # msg.to[f]
    BY <2>1, ChangedOnlyHas, ChangedOnlyIfChanged
  <2>3. msg.to[F("gunframe")] > 255
    BY <1>1, <2>1 DEF Stated, Announces
  <2> QED BY <2>1, <2>2, <2>3 DEF FrameReason, GunTooWide
<1>2. CASE VanillaPlayerRefused(d) /\ ~(VanillaGun(d) /\ d.val[F("gunframe")] > 255)
  BY <1>2, OldFieldsRefused DEF VanillaPlayerRefused
<1>3. CASE ~VanillaPlayerRefused(d)
  <2>1. PICK bits : bits = VanillaPlayerBits(d)
    OBVIOUS
  <2>2. InTurn(<<Put("u8", svc_playerinfo), Put("u16", SumSet({2^b : b \in bits})),
                 WriteRows(VanillaPlayerOut, bits, d.val), WriteStats32(d)>>).err
    BY <1>3, <2>1 DEF VanillaWritePlayer
  <2>3. WriteRows(VanillaPlayerOut, bits, d.val).err
    BY <2>2, FewInTurn, PlainNotRefused, ExtrasNotRefused
  <2>4. PICK p \in PlayerCaps : p[1] \in bits /\ d.val[p[2]] > 255
    BY <2>3, OldPlayerCaps, CapsRefuse
  <2>5. F("gunindex") \in d.set /\ d.val[F("gunindex")] > 255
    BY <2>1, <2>4, PlayerFlagsAre, PlayerNumbers DEF PlayerCaps
  <2> QED BY <2>5, GunindexIsReason DEF FrameReason
<1> QED BY <1>1, <1>2, <1>3

LEMMA R1q2RefusedFor ==
  ASSUME NEW d, Stated(PlayerFields, d), ctx.proto = "r1q2", ctx.api = "vanilla",
         R1q2WritePlayer(d).err
  PROVE  FrameReason
<1>1. CASE F("gunframe") \in d.set /\ d.val[F("gunframe")] > 255
  <2>1. FieldReason
    BY <1>1, WideGunIsReason
  <2> QED BY <2>1 DEF FrameReason
<1>2. CASE R1q2PlayerRefused(d) /\ ~(F("gunframe") \in d.set /\ d.val[F("gunframe")] > 255)
  BY <1>2, OldFieldsRefused DEF R1q2PlayerRefused
<1>3. CASE ~R1q2PlayerRefused(d)
  <2>1. PICK bits : bits = R1q2PlayerBits(d)
    OBVIOUS
  <2>2. PICK extra : extra = R1q2PlayerExtra(d)
    OBVIOUS
  <2>3. PICK stats : stats = IF EPS.STATS \in extra THEN WriteStats32(d) ELSE Written(<<>>)
    OBVIOUS
  <2>4. InTurn(<<Put("u16", SumSet({2^b : b \in bits})),
                 WriteRows(R1q2PlayerOut, All(bits, extra), d.val), stats>>).err
    BY <1>3, <2>1, <2>2, <2>3 DEF R1q2WritePlayer
  <2>5. ~stats.err
    BY <2>3, PlainNotRefused, ExtrasNotRefused
  <2>6. WriteRows(R1q2PlayerOut, All(bits, extra), d.val).err
    BY <2>4, <2>5, FewInTurn, PlainNotRefused
  <2>7. PICK p \in PlayerCaps : p[1] \in All(bits, extra) /\ d.val[p[2]] > 255
    BY <2>6, OldPlayerCaps, CapsRefuse
  <2>8. F("gunindex") \in d.set /\ d.val[F("gunindex")] > 255
    BY <2>1, <2>2, <2>7, PlayerFlagsAre, PlayerNumbers DEF PlayerCaps
  <2> QED BY <2>8, GunindexIsReason DEF FrameReason
<1> QED BY <1>1, <1>2, <1>3

\* Q2PRO and its demos
LEMMA Q2proRefusedFor ==
  ASSUME NEW d, Stated(PlayerFields, d), ctx.proto = "q2pro", ctx.api \in {"vanilla", "ext", "v2"},
         ctx.version \in Nat,
         Q2proWritePlayer(ctx, d).err
  PROVE  FrameReason
<1>1. ctx.api # "rerelease"
  OBVIOUS
<1>2. CASE Changed(d, {F("pm_viewheight"), F("gunrate")})
  <2>1. PICK f \in d.set : f \in {F("pm_viewheight"), F("gunrate")}
    BY <1>2 DEF Changed
  <2>2. f \in Lacks
    BY <2>1, LacksAre
  <2>3. FieldReason
    BY <2>1, <2>2, LackIsReason
  <2> QED BY <2>3 DEF FrameReason
<1>3. CASE /\ ~ExtendedV2(ctx)
           /\ \/ \E f \in {F("pm_time"), F("pm_flags")} \cap d.set : d.val[f] > 255
              \/ Changed(d, Vec("damage_blend", 4))
              \/ StatsIn(d, 64) # StatsIn(d, 32)
  <2>1. FieldReason
    BY <1>1, <1>3, MotionIsReason
  <2> QED BY <2>1 DEF FrameReason
<1>4. CASE ~Extended(ctx) /\ F("gunskin") \in d.set
  <2>1. F("gunskin") \in Lacks
    BY <1>4, LacksAre
  <2>2. FieldReason
    BY <1>4, <2>1, LackIsReason
  <2> QED BY <2>2 DEF FrameReason
<1>5. CASE F("gunframe") \in d.set /\ d.val[F("gunframe")] > 255
  <2>1. FieldReason
    BY <1>1, <1>5, WideGunIsReason
  <2> QED BY <2>1 DEF FrameReason
<1>6. CASE Changed(d, FogFields) /\ ctx.version < PLAYERFOG
  <2>1. ~(ctx.proto \in {"q2pro", "extdemo"} /\ ctx.version >= PLAYERFOG)
    BY <1>6 DEF PLAYERFOG
  <2>2. FieldReason
    BY <1>1, <1>6, <2>1, FogIsReason
  <2> QED BY <2>2 DEF FrameReason
<1>7. CASE ~Q2proPlayerRefused(ctx, d)
  <2>1. PICK bits : bits = Q2proPlayerBits(d)
    OBVIOUS
  <2>2. PICK extra : extra = Q2proPlayerExtra(d)
    OBVIOUS
  <2>3. PICK val : val = PlayerValues(ctx, d)
    OBVIOUS
  <2>4. PICK all : all = All(bits \cap 0 .. 15, extra)
    OBVIOUS
  <2>5. PICK blend : blend = IF ExtendedV2(ctx) THEN WriteBlends(d)
                             ELSE WriteRows(AlwaysVec("blend", 4, "u8"), {}, d.val)
    OBVIOUS
  <2>6. PICK stats : stats = IF ExtendedV2(ctx) THEN WriteStats64(d) ELSE WriteStats32(d)
    OBVIOUS
  <2>7. InTurn(<<Put("u16", SumSet({2^b : b \in bits \cap 0 .. 15})),
                 If(PS.MOREBITS \in bits, Byte({b - 16 : b \in bits \ (0 .. 15)})),
                 WriteRows(Q2proMotionRows(ctx), all, val), WriteRows(Q2proViewRows(ctx), all, val),
                 If(PS.BLEND \in bits, blend), If(PS.Q2PRO_PLAYERFOG \in bits, WriteFog(d)),
                 WriteRows(FovRows, all, val), If(EPS.STATS \in extra, stats),
                 If(EPS.CLIENTNUM \in extra, Q2proWriteClientnum(ctx, d))>>).err
    BY <1>7, <2>1, <2>2, <2>3, <2>4, <2>5, <2>6, Zenon DEF Q2proWritePlayer
  <2>8. ~blend.err /\ ~stats.err
    BY <2>5, <2>6, ExtrasNotRefused
  <2>9. /\ ~WriteRows(Q2proMotionRows(ctx), all, val).err /\ ~WriteRows(Q2proViewRows(ctx), all, val).err
        /\ ~WriteRows(FovRows, all, val).err
    <3>1. Caps(Q2proMotionRows(ctx), {})
      BY PlayerRowsUncapped, CoordsNarrow DEF Q2proMotionRows
    <3> QED BY <3>1, PlayerRowsUncapped, NoneRefused
  <2>10. If(EPS.CLIENTNUM \in extra, Q2proWriteClientnum(ctx, d)).err
    BY <2>7, <2>8, <2>9, ManyInTurn, PlainNotRefused, ExtrasNotRefused
  <2>11. EPS.CLIENTNUM \in extra /\ Q2proWriteClientnum(ctx, d).err
    BY <2>10, PlainNotRefused DEF If
  <2>12. F("clientnum") \in d.set
    BY <2>2, <2>11, PlayerFlagsAre, PlayerNumbers
  <2>13. d.val[F("clientnum")] > 255
    <3>1. PICK type : type = IF ctx.version >= CLIENTNUM_SHORT THEN "i16" ELSE "u8max"
      OBVIOUS
    <3>2. WriteRows(Always("clientnum", type), {}, d.val).err
      BY <2>11, <3>1 DEF Q2proWriteClientnum
    <3>3. PICK R : Always("clientnum", type) \in Seq(R)
      <4>1. Always("clientnum", type)
              \in Seq({[all |-> {}, none |-> {}, field |-> F("clientnum"), type |-> type]})
        BY DEF Always, Row
      <4> QED BY <4>1
    <3>4. PICK i \in 1 .. Len(Always("clientnum", type)) :
            d.val[Always("clientnum", type)[i].field] > 255
      BY <3>2, <3>3, ErrOfRows
    <3>5. Always("clientnum", type)[i].field = F("clientnum")
      BY DEF Always, Row
    <3> QED BY <3>4, <3>5
  <2> QED BY <2>12, <2>13, ClientnumIsReason DEF FrameReason, HeaderReason
<1> QED BY <1>2, <1>3, <1>4, <1>5, <1>6, <1>7 DEF Q2proPlayerRefused

LEMMA ExtdemoRefusedFor ==
  ASSUME NEW d, Stated(PlayerFields, d), ctx.proto = "extdemo", ctx.api \in {"ext", "v2"},
         ExtdemoWritePlayer(ctx, d).err
  PROVE  FrameReason
<1>1. ctx.api # "rerelease" /\ ~HasClientnum(ctx)
  BY DEF HasClientnum
<1>2. CASE /\ ~ExtendedV2(ctx)
           /\ \/ \E f \in {F("pm_time"), F("pm_flags")} \cap d.set : d.val[f] > 255
              \/ Changed(d, Vec("damage_blend", 4))
              \/ StatsIn(d, 64) # StatsIn(d, 32)
  <2>1. FieldReason
    BY <1>1, <1>2, MotionIsReason
  <2> QED BY <2>1 DEF FrameReason
<1>3. CASE F("clientnum") \in d.set
  <2>1. HeaderReason
    BY <1>1, <1>3, ClientnumIsReason
  <2> QED BY <2>1 DEF FrameReason
<1>4. CASE Changed(d, FogFields) /\ ~HasMorebits(ctx)
  <2>1. ~(ctx.proto \in {"q2pro", "extdemo"} /\ ctx.version >= PLAYERFOG)
    BY <1>4 DEF HasMorebits
  <2>2. FieldReason
    BY <1>1, <1>4, <2>1, FogIsReason
  <2> QED BY <2>2 DEF FrameReason
<1>5. CASE ~ExtdemoPlayerRefused(ctx, d)
  <2>1. PICK bits : bits = ExtdemoPlayerBits(d)
    OBVIOUS
  <2>2. PICK val : val = PlayerValues(ctx, d)
    OBVIOUS
  <2>3. PICK blend : blend = IF ExtendedV2(ctx) THEN WriteBlends(d)
                             ELSE WriteRows(AlwaysVec("blend", 4, "u8"), {}, d.val)
    OBVIOUS
  <2>4. PICK stats : stats = IF ExtendedV2(ctx) THEN WriteStats64(d) ELSE WriteStats32(d)
    OBVIOUS
  <2>5. InTurn(<<Put("u8", svc_playerinfo), Put("u16", SumSet({2^b : b \in bits \cap 0 .. 15})),
                 If(PS.MOREBITS \in bits, Byte({b - 16 : b \in bits \ (0 .. 15)})),
                 WriteRows(ExtdemoPlayerOut(ctx), bits, val), If(PS.BLEND \in bits, blend),
                 If(PS.Q2PRO_PLAYERFOG \in bits, WriteFog(d)), WriteRows(FovRows, bits, val), stats>>).err
    BY <1>5, <2>1, <2>2, <2>3, <2>4, Zenon DEF ExtdemoWritePlayer
  <2>6. ~blend.err /\ ~stats.err
    BY <2>3, <2>4, ExtrasNotRefused
  <2>7. ~WriteRows(ExtdemoPlayerOut(ctx), bits, val).err /\ ~WriteRows(FovRows, bits, val).err
    BY PlayerRowsUncapped, NoneRefused
  <2> QED BY <2>5, <2>6, <2>7, ManyInTurn, PlainNotRefused, ExtrasNotRefused
<1> QED BY <1>2, <1>3, <1>4, <1>5 DEF ExtdemoPlayerRefused

\* The delta of a protocol of the rerelease has no fog.
LEMMA NoFog ==
  ASSUME NEW d, Stated(PlayerFields \ FogFields, d) PROVE ~Changed(d, FogFields)
<1> SUFFICES ASSUME NEW f \in d.set, f \in FogFields PROVE FALSE
  BY DEF Changed
<1>1. PICK fields : fields = PlayerFields \ FogFields
  OBVIOUS
<1>2. f \in fields
  BY <1>1, ChangedOnlyHas, ChangedOnlyIfChanged
<1> QED BY <1>1, <1>2

LEMMA Q2reproNotRefused ==
  ASSUME NEW d, Stated(PlayerFields \ FogFields, d) PROVE ~Q2reproWritePlayer(d).err
<1>1. PICK bits : bits = Q2reproPlayerBits(d)
  OBVIOUS
<1>2. PICK extra : extra = Q2reproPlayerExtra(d)
  OBVIOUS
<1>3. PICK val : val = With(d.val, "gun_index_and_skin", d.val[F("gunindex")] + 2^13 * d.val[F("gunskin")])
  OBVIOUS
<1>4. PICK all : all = All(bits, extra)
  OBVIOUS
<1>5. Q2reproWritePlayer(d) =
        InTurn(<<Put("u16", SumSet({2^b : b \in bits})),
                 WriteRows(ExtendedMotionRows("float", "u16"), all, val),
                 WriteRows(Q2reproViewRows, all, val), If(PS.BLEND \in bits, WriteBlends(d)),
                 WriteRows(FovRows, all, val), If(EPS.STATS \in extra, AllStats(d)),
                 WriteRows(Q2reproEndRows, all, val)>>)
  BY <1>1, <1>2, <1>3, <1>4, NoFog, Zenon DEF Q2reproWritePlayer
<1>6. /\ ~WriteRows(Q2reproViewRows, all, val).err /\ ~WriteRows(FovRows, all, val).err
      /\ ~WriteRows(Q2reproEndRows, all, val).err
  BY PlayerRowsUncapped, NoneRefused
<1>7. ~WriteRows(ExtendedMotionRows("float", "u16"), all, val).err
  <2>1. Caps(ExtendedMotionRows("float", "u16"), {})
    BY PlayerRowsUncapped, CoordsNarrow
  <2> QED BY <2>1, NoneRefused
<1> QED BY <1>5, <1>6, <1>7, ManyInTurn, PlainNotRefused, ExtrasNotRefused

LEMMA KexRefusedFor ==
  ASSUME NEW d, Stated(PlayerFields \ FogFields, d), ~HasClientnum(ctx), KexWritePlayer(d).err
  PROVE  HeaderReason
<1>1. CASE F("clientnum") \in d.set
  <2>1. PICK fields : fields = PlayerFields \ FogFields
    OBVIOUS
  <2> QED BY <1>1, <2>1, ClientnumIsReason
<1>2. CASE F("clientnum") \notin d.set
  <2>1. ~Changed(d, FogFields \cup {F("clientnum")})
    BY <1>2, NoFog DEF Changed
  <2>2. PICK bits : bits = KexPlayerBits(d)
    OBVIOUS
  <2>3. PICK val : val = With(With(d.val, "gun_index_and_skin", d.val[F("gunindex")] + 2^13 * d.val[F("gunskin")]),
                              "gun_word", GunWord(d))
    OBVIOUS
  <2>4. PICK damage : damage = WriteRows(OnVec(PS.KEX_DAMAGE_BLEND, "damage_blend", 4, "u8"), bits, d.val)
    OBVIOUS
  <2>5. PICK gun : gun = WriteRows(KexGunRows, {109 + b : b \in GunBits(d)}, d.val)
    OBVIOUS
  <2>6. KexWritePlayer(d) =
          InTurn(<<Put("u8", svc_playerinfo), Put("u16", SumSet({2^b : b \in bits \cap 0 .. 15})),
                   If(PS.MOREBITS \in bits, Put("u16", SumSet({2^(b - 16) : b \in bits \ (0 .. 15)}))),
                   WriteRows(KexMotionRows, bits, val), If(PS.WEAPONFRAME \in bits, gun),
                   WriteRows(KexBlendRows, bits, d.val), HalfStats(d, 0), HalfStats(d, 32), damage>>)
    BY <2>1, <2>2, <2>3, <2>4, <2>5, Zenon DEF KexWritePlayer
  <2>7. /\ ~WriteRows(KexMotionRows, bits, val).err /\ ~gun.err
        /\ ~WriteRows(KexBlendRows, bits, d.val).err
    BY <2>5, KexRowsUncapped, NoneRefused
  <2>8. ~damage.err
    <3>1. Caps(OnVec(PS.KEX_DAMAGE_BLEND, "damage_blend", 4, "u8"), {})
      BY VectorsUncapped
    <3> QED BY <2>4, <3>1, NoneRefused
  <2> QED BY <2>6, <2>7, <2>8, ManyInTurn, PlainNotRefused, ExtrasNotRefused
<1> QED BY <1>1, <1>2
-----------------------------------------------------------------------------
(* Frames *)
HeaderPart(fr) == WriteRows(VanillaFrameHeader, {}, fr)

\* A frame is refused only if its player is.
LEMMA PlayerOfFrame ==
  ASSUME NEW fr, NEW d
  PROVE  /\ VanillaWriteFrame(fr, d).err => VanillaWritePlayer(d).err
         /\ R1q2WriteFrame(fr, d).err => R1q2WritePlayer(d).err
         /\ \A c : Q2proWriteFrame(c, fr, d).err => Q2proWritePlayer(c, d).err
         /\ \A c : ExtdemoWriteFrame(c, fr, d).err => ExtdemoWritePlayer(c, d).err
         /\ Q2reproWriteFrame(fr, d).err => Q2reproWritePlayer(d).err
         /\ KexWriteFrame(fr, d).err => KexWritePlayer(d).err
<1>1. ~HeaderPart(fr).err
  BY KexRowsUncapped, NoneRefused DEF HeaderPart
<1>2. VanillaWriteFrame(fr, d).err => VanillaWritePlayer(d).err
  <2>1. VanillaWriteFrame(fr, d) =
          InTurn(<<Put("u8", svc_frame), HeaderPart(fr), Put("u8", fr[F("suppress_count")]),
                   Put("u8", fr[F("areabits_len")]), Written(<<RawItem(fr[F("areabits_len")])>>),
                   VanillaWritePlayer(d), Put("u8", svc_packetentities)>>)
    BY Zenon DEF VanillaWriteFrame, HeaderPart
  <2> QED BY <1>1, <2>1, ManyInTurn, PlainNotRefused
<1>3. R1q2WriteFrame(fr, d).err => R1q2WritePlayer(d).err
  <2>1. PICK extra : extra = R1q2PlayerExtra(d)
    OBVIOUS
  <2>2. R1q2WriteFrame(fr, d) =
          InTurn(<<FrameCommand(extra), EncodedFrame(fr), FlaggedSuppressCount(fr, extra),
                   AreaBits(fr), R1q2WritePlayer(d)>>)
    BY <2>1, Zenon DEF R1q2WriteFrame
  <2> QED BY <2>2, FewInTurn, PlainNotRefused
<1>4. ASSUME NEW c PROVE Q2proWriteFrame(c, fr, d).err => Q2proWritePlayer(c, d).err
  <2>1. PICK extra : extra = Q2proPlayerExtra(d)
    OBVIOUS
  <2>2. PICK count : count = FlaggedSuppressCount([fr EXCEPT ![F("suppress_count")] = @ % 16], extra)
    OBVIOUS
  <2>3. Q2proWriteFrame(c, fr, d) =
          InTurn(<<FrameCommand(extra), EncodedFrame(fr), count, AreaBits(fr), Q2proWritePlayer(c, d)>>)
    BY <2>1, <2>2, Zenon DEF Q2proWriteFrame
  <2>4. ~count.err
    BY <2>2, PlainNotRefused
  <2> QED BY <2>3, <2>4, FewInTurn, PlainNotRefused
<1>5. ASSUME NEW c PROVE ExtdemoWriteFrame(c, fr, d).err => ExtdemoWritePlayer(c, d).err
  <2>1. ExtdemoWriteFrame(c, fr, d) =
          InTurn(<<Put("u8", svc_frame), HeaderPart(fr), Put("u8", fr[F("suppress_count")]),
                   AreaBits(fr), ExtdemoWritePlayer(c, d), Put("u8", svc_packetentities)>>)
    BY Zenon DEF ExtdemoWriteFrame, HeaderPart
  <2> QED BY <1>1, <2>1, ManyInTurn, PlainNotRefused
<1>6. Q2reproWriteFrame(fr, d).err => Q2reproWritePlayer(d).err
  <2>1. Q2reproWriteFrame(fr, d) =
          InTurn(<<Put("u8", svc_frame), EncodedFrame(fr), Put("u8", fr[F("suppress_count")]),
                   Byte(Q2reproPlayerExtra(d)), AreaBits(fr), Q2reproWritePlayer(d)>>)
    BY Zenon DEF Q2reproWriteFrame
  <2> QED BY <2>1, ManyInTurn, PlainNotRefused
<1>7. KexWriteFrame(fr, d).err => KexWritePlayer(d).err
  <2>1. KexWriteFrame(fr, d) =
          InTurn(<<Put("u8", svc_frame), HeaderPart(fr), Put("u8", fr[F("suppress_count")]),
                   AreaBits(fr), KexWritePlayer(d), Put("u8", svc_packetentities)>>)
    BY Zenon DEF KexWriteFrame, HeaderPart
  <2> QED BY <1>1, <2>1, ManyInTurn, PlainNotRefused
<1> QED BY <1>2, <1>3, <1>4, <1>5, <1>6, <1>7

\* The delta of a frame, of whatever protocol, says what has changed.
LEMMA FrameStates ==
  ASSUME NEW d, d = WithClientnum(msg.header, MakePlayerDelta(ctx, msg.from, msg.to))
  PROVE  /\ ctx.proto \in {"vanilla", "r1q2", "q2pro", "extdemo"} => Stated(PlayerFields, d)
         /\ ctx.proto \in {"q2repro", "kex", "kexdemo"} => Stated(PlayerFields \ FogFields, d)
<1>1. PICK rest : rest = PlayerFields \ FogFields
  OBVIOUS
<1>2. rest \subseteq PlayerFields
  BY <1>1
<1>3. GunFields \in Valued /\ GunFields \in KexValued
  <2>1. GunFields \in Valued
    BY Zenon DEF Valued
  <2> QED BY <2>1, Zenon DEF KexValued
<1>4. CASE ctx.proto \in {"vanilla", "r1q2", "q2pro", "extdemo"}
  <2>1. ~IsKex(ctx) /\ ctx.proto # "q2repro"
    BY <1>4 DEF IsKex
  <2>2. d = WithClientnum(msg.header, PlayerDeltaOf(Valued, PlayerFields, msg.from, msg.to))
    BY <2>1, Zenon DEF MakePlayerDelta, PlayerDelta
  <2>3. PICK whole : whole = PlayerFields
    OBVIOUS
  <2>4. whole \subseteq PlayerFields
    BY <2>3
  <2>5. d = WithClientnum(msg.header, PlayerDeltaOf(Valued, whole, msg.from, msg.to))
    BY <2>2, <2>3
  <2>6. Announces(whole, msg.from, msg.to, msg.header, d)
    BY <1>3, <2>4, <2>5, FrameAnnounces
  <2> QED BY <1>4, <2>3, <2>6 DEF Stated
<1>5. CASE ctx.proto = "q2repro"
  <2>1. ~IsKex(ctx)
    BY <1>5 DEF IsKex
  <2>2. d = WithClientnum(msg.header, PlayerDeltaOf(Valued, rest, msg.from, msg.to))
    BY <1>1, <1>5, <2>1, Zenon DEF MakePlayerDelta, Q2reproPlayerDelta
  <2>3. Announces(rest, msg.from, msg.to, msg.header, d)
    BY <1>2, <1>3, <2>2, FrameAnnounces
  <2> QED BY <1>1, <1>2, <1>5, <2>3 DEF Stated
<1>6. CASE ctx.proto \in {"kex", "kexdemo"}
  <2>1. IsKex(ctx) /\ ctx.proto # "q2repro"
    BY <1>6 DEF IsKex
  <2>2. d = WithClientnum(msg.header, PlayerDeltaOf(KexValued, rest, msg.from, msg.to))
    BY <1>1, <2>1, Zenon DEF MakePlayerDelta, KexPlayerDelta
  <2>3. Announces(rest, msg.from, msg.to, msg.header, d)
    BY <1>2, <1>3, <2>2, FrameAnnounces
  <2> QED BY <1>1, <1>2, <1>6, <2>3 DEF Stated
<1> QED BY <1>4, <1>5, <1>6

LEMMA FrameRefusedFor ==
  ASSUME ContextIs(ctx), ctx.version \in Nat,
         WriteFrame(ctx, msg.header, WithClientnum(msg.header, MakePlayerDelta(ctx, msg.from, msg.to))).err
  PROVE  FrameReason
<1>1. PICK d : d = WithClientnum(msg.header, MakePlayerDelta(ctx, msg.from, msg.to))
  OBVIOUS
<1>2. PICK fr : fr = msg.header
  OBVIOUS
<1>3. WriteFrame(ctx, fr, d).err
  BY <1>1, <1>2
<1>4. /\ ctx.proto \in {"vanilla", "r1q2", "q2pro", "extdemo"} => Stated(PlayerFields, d)
      /\ ctx.proto \in {"q2repro", "kex", "kexdemo"} => Stated(PlayerFields \ FogFields, d)
  BY <1>1, FrameStates
<1>5. CASE ctx.proto = "vanilla"
  <2>1. WriteFrame(ctx, fr, d) = VanillaWriteFrame(fr, d)
    <3>1. ctx.proto \notin {"r1q2", "q2pro", "extdemo", "q2repro"} /\ ~IsKex(ctx)
      BY <1>5 DEF IsKex
    <3>2. /\ ctx.proto # "r1q2" /\ ctx.proto # "q2pro" /\ ctx.proto # "extdemo"
          /\ ctx.proto # "q2repro"
      BY <3>1
    <3> QED BY <1>5, <3>1, <3>2, Zenon DEF WriteFrame
  <2>2. ctx.api = "vanilla"
    BY <1>5 DEF ContextIs
  <2> QED BY <1>3, <1>4, <1>5, <2>1, <2>2, PlayerOfFrame, VanillaRefusedFor
<1>6. CASE ctx.proto = "r1q2"
  <2>1. WriteFrame(ctx, fr, d) = R1q2WriteFrame(fr, d)
    <3>1. /\ ctx.proto # "vanilla" /\ ctx.proto # "q2pro" /\ ctx.proto # "extdemo"
          /\ ctx.proto # "q2repro" /\ ~IsKex(ctx)
      BY <1>6 DEF IsKex
    <3> QED BY <1>6, <3>1, Zenon DEF WriteFrame
  <2>2. ctx.api = "vanilla"
    BY <1>6 DEF ContextIs
  <2> QED BY <1>3, <1>4, <1>6, <2>1, <2>2, PlayerOfFrame, R1q2RefusedFor
<1>7. CASE ctx.proto = "q2pro"
  <2>1. WriteFrame(ctx, fr, d) = Q2proWriteFrame(ctx, fr, d)
    <3>1. /\ ctx.proto # "vanilla" /\ ctx.proto # "r1q2" /\ ctx.proto # "extdemo"
          /\ ctx.proto # "q2repro" /\ ~IsKex(ctx)
      BY <1>7 DEF IsKex
    <3> QED BY <1>7, <3>1, Zenon DEF WriteFrame
  <2>2. ctx.api \in {"vanilla", "ext", "v2"}
    BY <1>7 DEF ContextIs
  <2> QED BY <1>3, <1>4, <1>7, <2>1, <2>2, PlayerOfFrame, Q2proRefusedFor
<1>8. CASE ctx.proto = "extdemo"
  <2>1. WriteFrame(ctx, fr, d) = ExtdemoWriteFrame(ctx, fr, d)
    <3>1. /\ ctx.proto # "vanilla" /\ ctx.proto # "r1q2" /\ ctx.proto # "q2pro"
          /\ ctx.proto # "q2repro" /\ ~IsKex(ctx)
      BY <1>8 DEF IsKex
    <3> QED BY <1>8, <3>1, Zenon DEF WriteFrame
  <2>2. ctx.api \in {"ext", "v2"}
    BY <1>8 DEF ContextIs
  <2> QED BY <1>3, <1>4, <1>8, <2>1, <2>2, PlayerOfFrame, ExtdemoRefusedFor
<1>9. CASE ctx.proto = "q2repro"
  <2>1. WriteFrame(ctx, fr, d) = Q2reproWriteFrame(fr, d)
    <3>1. /\ ctx.proto # "vanilla" /\ ctx.proto # "r1q2" /\ ctx.proto # "q2pro"
          /\ ctx.proto # "extdemo" /\ ~IsKex(ctx)
      BY <1>9 DEF IsKex
    <3> QED BY <1>9, <3>1, Zenon DEF WriteFrame
  <2>2. Stated(PlayerFields \ FogFields, d)
    BY <1>4, <1>9
  <2> QED BY <1>3, <2>1, <2>2, PlayerOfFrame, Q2reproNotRefused
<1>10. CASE ctx.proto \in {"kex", "kexdemo"}
  <2>1. WriteFrame(ctx, fr, d) = KexWriteFrame(fr, d)
    <3>1. /\ ctx.proto # "vanilla" /\ ctx.proto # "r1q2" /\ ctx.proto # "q2pro"
          /\ ctx.proto # "extdemo" /\ ctx.proto # "q2repro" /\ IsKex(ctx)
      BY <1>10 DEF IsKex
    <3> QED BY <3>1, Zenon DEF WriteFrame
  <2>2. Stated(PlayerFields \ FogFields, d)
    BY <1>4, <1>10
  <2>3. ~HasClientnum(ctx)
    BY <1>10 DEF HasClientnum
  <2>4. HeaderReason
    BY <1>3, <2>1, <2>2, <2>3, PlayerOfFrame, KexRefusedFor
  <2> QED BY <2>4 DEF FrameReason
<1> QED BY <1>5, <1>6, <1>7, <1>8, <1>9, <1>10 DEF ContextIs
-----------------------------------------------------------------------------
(* Every message *)
LEMMA BatchRefusedFor ==
  ASSUME NEW c, HasBatch(c), NEW lastframe, NEW frames, WriteBatch(c, lastframe, frames).err
  PROVE  /\ c.proto = "q2repro"
         /\ \E i \in DOMAIN frames : \E j \in DOMAIN frames[i] : MovesUp(frames[i][j])
<1>1. \A wide : ~BatchBody(wide, frames).err
  BY ErrOfThen, PlainNotRefused, Zenon DEF BatchBody
<1>2. ~BatchLast(lastframe).err
  BY PlainNotRefused, Zenon DEF BatchLast
<1>3. CASE c.proto = "q2pro"
  <2>1. WriteBatch(c, lastframe, frames) =
          InTurn(<<Put("u8", BatchCommand(lastframe) + 32 * (Len(frames) - 1)),
                   BatchLast(lastframe), BatchBody(FALSE, frames)>>)
    BY <1>3, Zenon DEF WriteBatch, Q2proWriteBatch
  <2> QED BY <1>1, <1>2, <2>1, FewInTurn, PlainNotRefused
<1>4. CASE c.proto = "q2repro" /\ ~\E i \in DOMAIN frames : \E j \in DOMAIN frames[i] : MovesUp(frames[i][j])
  <2>1. c.proto # "q2pro"
    BY <1>4
  <2>2. WriteBatch(c, lastframe, frames) =
          InTurn(<<Put("u8", BatchCommand(lastframe)), BatchLast(lastframe),
                   Put("u8", Len(frames) - 1), BatchBody(TRUE, frames)>>)
    BY <1>4, <2>1, Zenon DEF WriteBatch, Q2reproWriteBatch
  <2> QED BY <1>1, <1>2, <2>2, FewInTurn, PlainNotRefused
<1> QED BY <1>3, <1>4 DEF HasBatch

\* What is written of a message is what the context's writer makes of it.
OutIs ==
  /\ msg.kind = "entity" =>
       out = WriteFrameEntity(ctx, msg.entnum, msg.remove,
                              MakeEntityDelta(ctx, msg.from, msg.to, msg.old))
  /\ msg.kind = "frame" =>
       out = WriteFrame(ctx, msg.header, WithClientnum(msg.header, MakePlayerDelta(ctx, msg.from, msg.to)))
  /\ msg.kind = "batch" =>
       out = WriteBatch(ctx, IF Len(msg.frames) = 1 THEN -1 ELSE 7, msg.frames)
WriteInv ==
  /\ msg.kind \in {"entity", "frame", "move", "batch"}
  /\ msg.kind = "entity" => \E e \in EntityCases : msg.to = e.to
  /\ msg.kind = "frame" => \E p \in FrameCases : msg.to = p.to
  /\ msg.kind = "batch" => HasBatch(ctx)
  /\ phase # "made" => OutIs
RefusalInv == MoveInv /\ WriteInv

LEMMA WriteInvInit == Init => WriteInv
<1> SUFFICES ASSUME Init PROVE WriteInv
  OBVIOUS
<1>1. phase = "made"
  BY DEF Init
<1>2. CASE \E e \in EntityCases :
             msg = [kind |-> "entity", from |-> e.from, to |-> e.to, entnum |-> e.entnum,
                    old |-> e.old, remove |-> e.remove]
  BY <1>1, <1>2 DEF WriteInv
<1>3. CASE \E p \in FrameCases :
             msg = [kind |-> "frame", from |-> p.from, to |-> p.to, header |-> p.header]
  BY <1>1, <1>3 DEF WriteInv
<1>4. CASE HasMoves(ctx) /\ \E d \in MoveCases : msg = [kind |-> "move", delta |-> d]
  BY <1>1, <1>4 DEF WriteInv
<1>5. CASE HasBatch(ctx) /\ \E b \in BatchCases : msg = [kind |-> "batch", frames |-> b]
  BY <1>1, <1>5 DEF WriteInv
<1> QED BY <1>2, <1>3, <1>4, <1>5 DEF Init

LEMMA WriteInvNext == WriteInv /\ [Next]_vars => WriteInv'
<1> SUFFICES ASSUME WriteInv, [Next]_vars PROVE WriteInv'
  OBVIOUS
<1>1. CASE Write
  <2>1. ctx' = ctx /\ msg' = msg /\ phase' = "written"
    BY <1>1 DEF Write
  <2>2. ASSUME msg.kind = "entity"
        PROVE  out' = WriteFrameEntity(ctx, msg.entnum, msg.remove,
                                       MakeEntityDelta(ctx, msg.from, msg.to, msg.old))
    BY <1>1, <2>2, Zenon DEF Write
  <2>3. ASSUME msg.kind = "frame"
        PROVE  out' = WriteFrame(ctx, msg.header,
                                 WithClientnum(msg.header, MakePlayerDelta(ctx, msg.from, msg.to)))
    BY <1>1, <2>3, Zenon DEF Write
  <2>4. ASSUME msg.kind = "batch"
        PROVE  out' = WriteBatch(ctx, IF Len(msg.frames) = 1 THEN -1 ELSE 7, msg.frames)
    BY <1>1, <2>4, Zenon DEF Write
  <2>5. OutIs'
    BY <2>1, <2>2, <2>3, <2>4 DEF OutIs
  <2> QED BY <2>1, <2>5 DEF WriteInv
<1>2. CASE Read
  <2>1. ctx' = ctx /\ msg' = msg /\ out' = out /\ phase = "written"
    BY <1>2 DEF Read
  <2> QED BY <2>1 DEF WriteInv, OutIs
<1>3. CASE UNCHANGED vars
  <2>1. ctx' = ctx /\ msg' = msg /\ out' = out /\ phase' = phase
    BY <1>3 DEF vars
  <2> QED BY <2>1 DEF WriteInv, OutIs
<1> QED BY <1>1, <1>2, <1>3 DEF Next

\* A message that satisfies it is refused for a reason.
LEMMA RefusalInvHolds == RefusalInv => RefusedForAReason
<1> SUFFICES ASSUME MoveInv, WriteInv, out.err PROVE RefusedForAReason
  BY Zenon DEF RefusalInv, RefusedForAReason
<1>1. phase # "made" /\ OutIs /\ ctx \in Contexts
  BY DEF MoveInv, WriteInv, Written
<1>2. ContextIs(ctx) /\ ctx.version \in Nat
  BY <1>1, ContextsAre, ContextAssumption
<1>3. CASE msg.kind = "entity"
  <2>1. DOMAIN msg.to = EntityFields /\ msg.to[F("sound")] \in Nat
    BY <1>3, StateAssumption DEF WriteInv
  <2>2. ~Extended(ctx) /\ WideModel(msg.from, msg.to)
    BY <1>1, <1>2, <1>3, <2>1, EntityRefusedFor DEF OutIs
  <2>3. PICK f \in Models \cup {F("sound")} : msg.from[f] # msg.to[f] /\ msg.to[f] > 255
    BY <2>2 DEF WideModel
  <2>4. f \in EntityFields
    BY <2>3 DEF Models, EntityFields
  <2>5. TooWide(f, msg.to[f])
    BY <2>2, <2>3 DEF TooWide, Extended
  <2>6. \E g \in DOMAIN msg.to : msg.from[g] # msg.to[g] /\ (g \in Lacks \/ TooWide(g, msg.to[g]))
    BY <2>1, <2>3, <2>4, <2>5
  <2> QED BY <1>3, <2>6, Zenon DEF RefusedForAReason
<1>4. CASE msg.kind = "frame"
  <2>1. DOMAIN msg.to = PlayerFields
    BY <1>4, StateAssumption DEF WriteInv
  <2>2. FrameReason
    BY <1>1, <1>2, <1>4, FrameRefusedFor DEF OutIs
  <2>3. FieldReason =>
          \E f \in DOMAIN msg.to : msg.from[f] # msg.to[f] /\ (f \in Lacks \/ TooWide(f, msg.to[f]))
    BY <2>1 DEF FieldReason
  <2> QED BY <1>4, <2>2, <2>3, Zenon DEF FrameReason, HeaderReason, RefusedForAReason
<1>5. CASE msg.kind = "move"
  <2>1. MovesInOrder
    BY MoveInvInOrder
  <2> QED BY <1>5, <2>1 DEF MovesInOrder
<1>6. CASE msg.kind = "batch"
  <2>1. HasBatch(ctx)
    BY <1>6 DEF WriteInv
  <2>2. /\ ctx.proto = "q2repro"
        /\ \E i \in DOMAIN msg.frames : \E j \in DOMAIN msg.frames[i] : MovesUp(msg.frames[i][j])
    BY <1>1, <1>6, <2>1, BatchRefusedFor DEF OutIs
  <2>3. msg.kind # "entity" /\ msg.kind # "frame" /\ msg.kind # "move"
    BY <1>6
  <2> QED BY <1>6, <2>2, <2>3, Zenon DEF RefusedForAReason
<1> QED BY <1>3, <1>4, <1>5, <1>6 DEF WriteInv

\* Whatever the message and the protocol: only a field that the protocol lacks, a value
\* that is too wide for its field, a client number that has no place, or an upward move
\* in Q2rePRO makes a writer refuse it.
THEOREM OnlyReasonsRefuse == Spec => []RefusedForAReason
<1>1. Init => RefusalInv
  BY MoveInvInit, WriteInvInit DEF RefusalInv
<1>2. RefusalInv /\ [Next]_vars => RefusalInv'
  BY MoveInvNext, WriteInvNext DEF RefusalInv
<1> QED BY <1>1, <1>2, RefusalInvHolds, PTL DEF Spec
=============================================================================
