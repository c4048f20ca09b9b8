---------------------------- MODULE EntityDelta ----------------------------
(***************************************************************************)
(* Entity states in packed form, the delta between two of them, and the    *)
(* flags that all protocols begin an entity with.  Coordinates are eighths *)
(* of a unit (or the bits of a float), angles 16 bit fractions of a turn.  *)
(***************************************************************************)
EXTENDS WireFormat

\* the numbers of the U_ bits
U == [ORIGIN1 |-> 0, ORIGIN2 |-> 1, ANGLE2 |-> 2, ANGLE3 |-> 3, FRAME8 |-> 4,
      EVENT |-> 5, REMOVE |-> 6, MOREBITS1 |-> 7, NUMBER16 |-> 8, ORIGIN3 |-> 9,
      ANGLE1 |-> 10, MODEL |-> 11, RENDERFX8 |-> 12, ANGLE16 |-> 13,
      EFFECTS8 |-> 14, MOREBITS2 |-> 15, SKIN8 |-> 16, FRAME16 |-> 17,
      RENDERFX16 |-> 18, EFFECTS16 |-> 19, MODEL2 |-> 20, MODEL3 |-> 21,
      MODEL4 |-> 22, MOREBITS3 |-> 23, OLDORIGIN |-> 24, SKIN16 |-> 25,
      SOUND |-> 26, SOLID |-> 27, MODEL16 |-> 28, MOREFX8 |-> 29,
      KEX_EFFECTS64 |-> 29, ALPHA |-> 30, MOREBITS4 |-> 31, SCALE |-> 32,
      MOREFX16 |-> 33, KEX_INSTANCE |-> 33, KEX_OWNER |-> 34, KEX_OLDFRAME |-> 35]

\* effects has 64 bits: component 1 is the upper half
ExtendedFields ==
  {<<"effects", 1>>, F("loop_volume"), F("loop_attenuation"), F("alpha"), F("scale")}
EntityFields ==
  {F("modelindex"), F("modelindex2"), F("modelindex3"), F("modelindex4"), F("frame"),
   F("skinnum"), F("effects"), F("renderfx"), F("sound"), F("event"), F("solid")}
  \cup Vec("origin", 3) \cup Vec("angles", 3) \cup Vec("old_origin", 3) \cup ExtendedFields

NullEntity == [f \in EntityFields |-> 0]

\* A delta: the fields it announces, and the values it has for those that are
\* sent.  The origin is always there; effects are copied as a whole.
EntityDelta(from, to, writeOldOrigin, extended) ==
  LET differs == {f \in EntityFields : from[f] # to[f]}
      set == (differs \ ({F("event")} \cup Vec("old_origin", 3)
                          \cup IF extended THEN {} ELSE ExtendedFields))
             \cup (IF to[F("event")] # 0 THEN {F("event")} ELSE {})
             \cup (IF writeOldOrigin THEN Vec("old_origin", 3) ELSE {})
      valued == set \cup Vec("origin", 3)
                \cup IF set \cap Vec("effects", 2) # {} THEN Vec("effects", 2) ELSE {}
  IN  [set |-> set, val |-> [f \in EntityFields |-> IF f \in valued THEN to[f] ELSE 0],
       prev |-> from]

\* The values, with the previous ones for the coordinates that may be sent as a
\* difference from them
WithPrevious(d, coords) ==
  [f \in DOMAIN d.val |-> IF f \in coords THEN <<d.prev[f], d.val[f]>> ELSE d.val[f]]

Changed(d, fields) == d.set \cap fields # {}

\* Flags for a value of 8, 16 or 32 bits; a value of 16 bits that has the sign
\* bit set is sent in 32 unless the reader is known to read it unsigned
WidthFlags(value, flag8, flag16, uint16Safe) ==
  IF value >= (IF uint16Safe THEN 65536 ELSE 32768) THEN {flag8, flag16}
  ELSE IF value >= 256 THEN {flag16}
  ELSE {flag8}

WidthFlagsOf(d, f, flag8, flag16, uint16Safe) ==
  IF f \in d.set THEN WidthFlags(d.val[f], flag8, flag16, uint16Safe) ELSE {}

FlagIf(cond, flag) == IF cond THEN {flag} ELSE {}

\* The flags that stand for one field each
FieldFlags(d) ==
  LET sets == {<<Vec("old_origin", 3), U.OLDORIGIN>>, <<{F("event")}, U.EVENT>>,
               <<{F("solid")}, U.SOLID>>, <<{F("sound")}, U.SOUND>>,
               <<{F("modelindex")}, U.MODEL>>, <<{F("modelindex2")}, U.MODEL2>>,
               <<{F("modelindex3")}, U.MODEL3>>, <<{F("modelindex4")}, U.MODEL4>>,
               <<{<<"origin", 0>>}, U.ORIGIN1>>, <<{<<"origin", 1>>}, U.ORIGIN2>>,
               <<{<<"origin", 2>>}, U.ORIGIN3>>, <<{<<"angles", 0>>}, U.ANGLE1>>,
               <<{<<"angles", 1>>}, U.ANGLE2>>, <<{<<"angles", 2>>}, U.ANGLE3>>}
  IN  {p[2] : p \in {q \in sets : Changed(d, q[1])}}

\* mutant: one frame too late
FrameFlagLate(d) ==
  IF F("frame") \notin d.set THEN {}
  ELSE IF d.val[F("frame")] > 256 THEN {U.FRAME16} ELSE {U.FRAME8}
FrameFlag(d) ==
  IF F("frame") \notin d.set THEN {}
  ELSE IF d.val[F("frame")] >= 256 THEN {U.FRAME16} ELSE {U.FRAME8}
-----------------------------------------------------------------------------
MoreBits == <<U.MOREBITS1, U.MOREBITS2, U.MOREBITS3, U.MOREBITS4>>

EntityBits(bits, entnum) ==
  LET numbered == bits \cup FlagIf(entnum >= 256, U.NUMBER16)
      last == Max({b \div 8 : b \in numbered \cup {0}})
      all  == numbered \cup {MoreBits[i] : i \in 1 .. last}
      bytes == {0} \cup {i \in 1 .. 4 : MoreBits[i] \in all}
  IN  Written([i \in 1 .. Cardinality(bytes) |->
                 Item("u8", SumSet({2^(b % 8) : b \in {c \in all : c \div 8 = i - 1}}))]
              \o <<Item(IF U.NUMBER16 \in all THEN "u16" ELSE "u8", entnum)>>)

\* [bits, num, in, ok]: one more byte for each MOREBITS flag among those read
ReadEntityNumber(wire, bits) ==
  LET n == 1 + Cardinality(bits \cap Range(MoreBits))
      rest == [Reader(SubSeq(wire, n + 1, Len(wire))) EXCEPT !.ok =
                 Len(wire) > n /\ \A i \in 1 .. n : wire[i].w = 1]
  IN  [bits |-> bits, r |-> Get(rest, "entnum", IF U.NUMBER16 \in bits THEN "u16" ELSE "u8")]
ReadEntityBits(wire) ==
  LET ByteAt(i) == IF i <= Len(wire) /\ wire[i].w = 1
                   THEN {b + 8 * (i - 1) : b \in BitsOf(wire[i].v)} ELSE {}
      total[n \in 1 .. 5] ==
        IF n = 1 THEN ByteAt(1)
        ELSE IF MoreBits[n - 1] \in total[n - 1] THEN total[n - 1] \cup ByteAt(n)
        ELSE total[n - 1]
  IN  ReadEntityNumber(wire, total[5])

\* U_REMOVE alone, or the entity number 0 that ends the list
WriteRemove(entnum) == EntityBits({U.REMOVE}, entnum)
WriteTerminator == Written(<<Item("u8", 0), Item("u8", 0)>>)
=============================================================================
