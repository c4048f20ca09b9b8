----------------------------- MODULE WireProofs -----------------------------
(***************************************************************************)
(* What is written arrives, value by value, row by row and flag by flag,   *)
(* for every value of a type: the facts the runs of MessageFormats see at  *)
(* the borders of the widths.                                              *)
(***************************************************************************)
EXTENDS R1q2Format, NumberLemmas, SequenceTheorems, FiniteSetTheorems, TLAPS

\* The types of one item whose values survive, what one unit on the wire stands for,
\* and the values a reader of the type can come up with
PlainTypes == {"u8", "u8max", "i8", "by5", "by64", "by256", "u16", "i16", "eighths",
               "u32", "i32", "float"}
Scale(type) ==
  IF type = "by5" THEN 5 ELSE IF type = "by64" THEN 64 ELSE IF type = "by256" THEN 256
  ELSE IF type = "eighths" THEN 8 ELSE 1
SignedTypes == {"i8", "by5", "by64", "by256", "i16", "eighths"}
Units(type) ==
  IF Width(type) = 4 THEN Int
  ELSE IF Width(type) = 1 THEN IF type \in SignedTypes THEN -128 .. 127 ELSE 0 .. 255
  ELSE IF type \in SignedTypes THEN {n \in Int : -32768 <= n /\ n < 32768}
  ELSE {n \in Nat : n < 65536}
Values(type) == {Scale(type) * n : n \in Units(type)}

\* What n units are on the wire
OnWire(width, n) == IF width = 1 THEN n % 256 ELSE IF width = 2 THEN n % 65536 ELSE n

\* A reader's type that goes with a writer's: of one width and scale, whatever the sign
GoesWith(in, out) ==
  in \in PlainTypes /\ out \in PlainTypes /\ Width(in) = Width(out) /\ Scale(in) = Scale(out)
-----------------------------------------------------------------------------
\* A byte read back as signed is the number written.
LEMMA SignOfByte ==
  ASSUME NEW n \in Int, -128 <= n, n <= 127 PROVE Signed(n % 256, 8) = n
<1>1. CASE n >= 0 BY <1>1 DEF Signed
<1>2. CASE n < 0
  <2>1. n % 256 = n + 256 BY <1>2
  <2> QED BY <1>2, <2>1 DEF Signed
<1> QED BY <1>1, <1>2

\* And so is a short.
LEMMA SignOfShort ==
  ASSUME NEW n \in Int, -32768 <= n, n <= 32767 PROVE Signed(n % 65536, 16) = n
<1>1. CASE n >= 0
  <2>1. n % 65536 = n BY <1>1
  <2> QED BY <1>1, <2>1 DEF Signed
<1>2. CASE n < 0
  <2>1. n % 65536 = n + 65536 BY <1>2
  <2> QED BY <1>2, <2>1 DEF Signed
<1> QED BY <1>1, <1>2

\* A writer sends the units of a value
LEMMA Writes ==
  ASSUME NEW t \in PlainTypes, NEW n \in Int
  PROVE  Encode(t, Scale(t) * n) = OnWire(Width(t), n)
<1>1. /\ Quot(5 * n, 5) = n /\ Quot(64 * n, 64) = n /\ Quot(256 * n, 256) = n
      /\ Eighths(8 * n) = n
  BY DEF Quot, Eighths
<1>2. OnWire(1, n) = n % 256 /\ OnWire(2, n) = n % 65536 /\ OnWire(4, n) = n
  BY DEF OnWire
<1>3. CASE t = "u8"
  <2>1. Width("u8") = 1 /\ Scale("u8") * n = n
    BY SMT DEF Width, ByteTypes, Scale
  <2>2. Encode("u8", n) = n % 256
    BY SMT DEF Encode, Width, ByteTypes
  <2> QED
    BY <1>1, <1>2, <1>3, <2>1, <2>2
<1>4. CASE t = "u8max"
  <2>1. Width("u8max") = 1 /\ Scale("u8max") * n = n
    BY SMT DEF Width, ByteTypes, Scale
  <2>2. Encode("u8max", n) = n % 256
    BY SMT DEF Encode, Width, ByteTypes
  <2> QED
    BY <1>1, <1>2, <1>4, <2>1, <2>2
<1>5. CASE t = "i8"
  <2>1. Width("i8") = 1 /\ Scale("i8") * n = n
    BY SMT DEF Width, ByteTypes, Scale
  <2>2. Encode("i8", n) = n % 256
    BY SMT DEF Encode, Width, ByteTypes
  <2> QED
    BY <1>1, <1>2, <1>5, <2>1, <2>2
<1>6. CASE t = "by5"
  <2>1. Width("by5") = 1 /\ Scale("by5") * n = 5 * n
    BY SMT DEF Width, ByteTypes, Scale
  <2>2. Encode("by5", 5 * n) = Quot(5 * n, 5) % 256
    BY SMT DEF Encode, Width, ByteTypes
  <2> QED
    BY <1>1, <1>2, <1>6, <2>1, <2>2
<1>7. CASE t = "by64"
  <2>1. Width("by64") = 1 /\ Scale("by64") * n = 64 * n
    BY SMT DEF Width, ByteTypes, Scale
  <2>2. Encode("by64", 64 * n) = Quot(64 * n, 64) % 256
    BY SMT DEF Encode, Width, ByteTypes
  <2> QED
    BY <1>1, <1>2, <1>7, <2>1, <2>2
<1>8. CASE t = "by256"
  <2>1. Width("by256") = 1 /\ Scale("by256") * n = 256 * n
    BY SMT DEF Width, ByteTypes, Scale
  <2>2. Encode("by256", 256 * n) = Quot(256 * n, 256) % 256
    BY SMT DEF Encode, Width, ByteTypes
  <2> QED
    BY <1>1, <1>2, <1>8, <2>1, <2>2
<1>9. CASE t = "u16"
  <2>1. Width("u16") = 2 /\ Scale("u16") * n = n
    BY SMT DEF Width, ByteTypes, Scale
  <2>2. Encode("u16", n) = n % 65536
    BY SMT DEF Encode, Width, ByteTypes
  <2> QED
    BY <1>1, <1>2, <1>9, <2>1, <2>2
<1>10. CASE t = "i16"
  <2>1. Width("i16") = 2 /\ Scale("i16") * n = n
    BY SMT DEF Width, ByteTypes, Scale
  <2>2. Encode("i16", n) = n % 65536
    BY SMT DEF Encode, Width, ByteTypes
  <2> QED
    BY <1>1, <1>2, <1>10, <2>1, <2>2
<1>11. CASE t = "eighths"
  <2>1. Width("eighths") = 2 /\ Scale("eighths") * n = 8 * n
    BY SMT DEF Width, ByteTypes, Scale
  <2>2. Encode("eighths", 8 * n) = Eighths(8 * n) % 65536
    BY SMT DEF Encode, Width, ByteTypes
  <2> QED
    BY <1>1, <1>2, <1>11, <2>1, <2>2
<1>12. CASE t = "u32"
  <2>1. Width("u32") = 4 /\ Scale("u32") * n = n
    BY SMT DEF Width, ByteTypes, Scale
  <2>2. Encode("u32", n) = n
    BY SMT DEF Encode, Width, ByteTypes
  <2> QED
    BY <1>1, <1>2, <1>12, <2>1, <2>2
<1>13. CASE t = "i32"
  <2>1. Width("i32") = 4 /\ Scale("i32") * n = n
    BY SMT DEF Width, ByteTypes, Scale
  <2>2. Encode("i32", n) = n
    BY SMT DEF Encode, Width, ByteTypes
  <2> QED
    BY <1>1, <1>2, <1>13, <2>1, <2>2
<1>14. CASE t = "float"
  <2>1. Width("float") = 4 /\ Scale("float") * n = n
    BY SMT DEF Width, ByteTypes, Scale
  <2>2. Encode("float", n) = n
    BY SMT DEF Encode, Width, ByteTypes
  <2> QED
    BY <1>1, <1>2, <1>14, <2>1, <2>2
<1> QED
  BY <1>3, <1>4, <1>5, <1>6, <1>7, <1>8, <1>9, <1>10, <1>11, <1>12, <1>13, <1>14 DEF PlainTypes

\* A reader makes its value of the units
LEMMA Reads ==
  ASSUME NEW t \in PlainTypes, NEW n \in Units(t)
  PROVE  Decode(t, OnWire(Width(t), n)) = Scale(t) * n
<1>1. CASE t = "u8"
  <2>1. Width("u8") = 1
    BY SMT DEF Width, ByteTypes
  <2>2. n \in 0 .. 255
    BY <1>1, <2>1, SMT DEF Units, SignedTypes
  <2>3. OnWire(1, n) = n % 256 /\ Scale("u8") * n = n
    BY <2>2, SMT DEF OnWire, Scale
  <2>4. n % 256 = n
    BY <2>2
  <2>5. Decode("u8", n) = n
    BY Zenon DEF Decode
  <2> QED
    BY <1>1, <2>1, <2>3, <2>4, <2>5
<1>2. CASE t = "u8max"
  <2>1. Width("u8max") = 1
    BY SMT DEF Width, ByteTypes
  <2>2. n \in 0 .. 255
    BY <1>2, <2>1, SMT DEF Units, SignedTypes
  <2>3. OnWire(1, n) = n % 256 /\ Scale("u8max") * n = n
    BY <2>2, SMT DEF OnWire, Scale
  <2>4. n % 256 = n
    BY <2>2
  <2>5. Decode("u8max", n) = n
    BY Zenon DEF Decode
  <2> QED
    BY <1>2, <2>1, <2>3, <2>4, <2>5
<1>3. CASE t = "i8"
  <2>1. Width("i8") = 1
    BY SMT DEF Width, ByteTypes
  <2>2. n \in -128 .. 127
    BY <1>3, <2>1, SMT DEF Units, SignedTypes
  <2>3. OnWire(1, n) = n % 256 /\ Scale("i8") * n = n
    BY <2>2, SMT DEF OnWire, Scale
  <2>4. Signed(n % 256, 8) = n
    BY <2>2, SignOfByte
  <2>5. \A x : Decode("i8", x) = Signed(x, 8)
    BY Zenon DEF Decode
  <2> QED
    BY <1>3, <2>1, <2>3, <2>4, <2>5
<1>4. CASE t = "by5"
  <2>1. Width("by5") = 1
    BY SMT DEF Width, ByteTypes
  <2>2. n \in -128 .. 127
    BY <1>4, <2>1, SMT DEF Units, SignedTypes
  <2>3. OnWire(1, n) = n % 256 /\ Scale("by5") * n = n * 5
    BY <2>2, SMT DEF OnWire, Scale
  <2>4. Signed(n % 256, 8) = n
    BY <2>2, SignOfByte
  <2>5. \A x : Decode("by5", x) = Signed(x, 8) * 5
    BY Zenon DEF Decode
  <2> QED
    BY <1>4, <2>1, <2>3, <2>4, <2>5
<1>5. CASE t = "by64"
  <2>1. Width("by64") = 1
    BY SMT DEF Width, ByteTypes
  <2>2. n \in -128 .. 127
    BY <1>5, <2>1, SMT DEF Units, SignedTypes
  <2>3. OnWire(1, n) = n % 256 /\ Scale("by64") * n = n * 64
    BY <2>2, SMT DEF OnWire, Scale
  <2>4. Signed(n % 256, 8) = n
    BY <2>2, SignOfByte
  <2>5. \A x : Decode("by64", x) = Signed(x, 8) * 64
    BY Zenon DEF Decode
  <2> QED
    BY <1>5, <2>1, <2>3, <2>4, <2>5
<1>6. CASE t = "by256"
  <2>1. Width("by256") = 1
    BY SMT DEF Width, ByteTypes
  <2>2. n \in -128 .. 127
    BY <1>6, <2>1, SMT DEF Units, SignedTypes
  <2>3. OnWire(1, n) = n % 256 /\ Scale("by256") * n = n * 256
    BY <2>2, SMT DEF OnWire, Scale
  <2>4. Signed(n % 256, 8) = n
    BY <2>2, SignOfByte
  <2>5. \A x : Decode("by256", x) = Signed(x, 8) * 256
    BY Zenon DEF Decode
  <2> QED
    BY <1>6, <2>1, <2>3, <2>4, <2>5
<1>7. CASE t = "u16"
  <2>1. Width("u16") = 2
    BY SMT DEF Width, ByteTypes
  <2>2. n \in Nat /\ n < 65536
    BY <1>7, <2>1, SMT DEF Units, SignedTypes
  <2>3. OnWire(2, n) = n % 65536 /\ Scale("u16") * n = n
    BY <2>2, SMT DEF OnWire, Scale
  <2>4. n % 65536 = n
    BY <2>2
  <2>5. Decode("u16", n) = n
    BY Zenon DEF Decode
  <2> QED
    BY <1>7, <2>1, <2>3, <2>4, <2>5
<1>8. CASE t = "i16"
  <2>1. Width("i16") = 2
    BY SMT DEF Width, ByteTypes
  <2>2. n \in Int /\ -32768 <= n /\ n < 32768
    BY <1>8, <2>1, SMT DEF Units, SignedTypes
  <2>3. OnWire(2, n) = n % 65536 /\ Scale("i16") * n = n
    BY <2>2, SMT DEF OnWire, Scale
  <2>4. Signed(n % 65536, 16) = n
    BY <2>2, SignOfShort
  <2>5. \A x : Decode("i16", x) = Signed(x, 16)
    BY Zenon DEF Decode
  <2> QED
    BY <1>8, <2>1, <2>3, <2>4, <2>5
<1>9. CASE t = "eighths"
  <2>1. Width("eighths") = 2
    BY SMT DEF Width, ByteTypes
  <2>2. n \in Int /\ -32768 <= n /\ n < 32768
    BY <1>9, <2>1, SMT DEF Units, SignedTypes
  <2>3. OnWire(2, n) = n % 65536 /\ Scale("eighths") * n = n * 8
    BY <2>2, SMT DEF OnWire, Scale
  <2>4. Signed(n % 65536, 16) = n
    BY <2>2, SignOfShort
  <2>5. \A x : Decode("eighths", x) = Signed(x, 16) * 8
    BY Zenon DEF Decode
  <2> QED
    BY <1>9, <2>1, <2>3, <2>4, <2>5
<1>10. CASE t = "u32"
  <2>1. Width("u32") = 4
    BY SMT DEF Width, ByteTypes
  <2>2. n \in Int
    BY <1>10, <2>1, SMT DEF Units, SignedTypes
  <2>3. OnWire(4, n) = n /\ Scale("u32") * n = n
    BY <2>2, SMT DEF OnWire, Scale
  <2>5. Decode("u32", n) = n
    BY Zenon DEF Decode
  <2> QED
    BY <1>10, <2>1, <2>3, <2>5
<1>11. CASE t = "i32"
  <2>1. Width("i32") = 4
    BY SMT DEF Width, ByteTypes
  <2>2. n \in Int
    BY <1>11, <2>1, SMT DEF Units, SignedTypes
  <2>3. OnWire(4, n) = n /\ Scale("i32") * n = n
    BY <2>2, SMT DEF OnWire, Scale
  <2>5. Decode("i32", n) = n
    BY Zenon DEF Decode
  <2> QED
    BY <1>11, <2>1, <2>3, <2>5
<1>12. CASE t = "float"
  <2>1. Width("float") = 4
    BY SMT DEF Width, ByteTypes
  <2>2. n \in Int
    BY <1>12, <2>1, SMT DEF Units, SignedTypes
  <2>3. OnWire(4, n) = n /\ Scale("float") * n = n
    BY <2>2, SMT DEF OnWire, Scale
  <2>5. Decode("float", n) = n
    BY Zenon DEF Decode
  <2> QED
    BY <1>12, <2>1, <2>3, <2>5
<1> QED
  BY <1>1, <1>2, <1>3, <1>4, <1>5, <1>6, <1>7, <1>8, <1>9, <1>10, <1>11, <1>12 DEF PlainTypes

\* How an item of a plain type is written, accepted and read.
LEMMA PlainItem ==
  ASSUME NEW in \in PlainTypes, NEW out \in PlainTypes, NEW v, NEW x
  PROVE  /\ Item(out, v) = [w |-> Width(out), v |-> Encode(out, v)]
         /\ Fits(in, x) = (x.w = Width(in))
         /\ Taken(in, x) = Decode(in, x.v)
<1>1. out \notin {"i23", "i23abs"} /\ in \notin {"i23", "i23abs"}
  BY DEF PlainTypes
<1>2. Item(out, v) = [w |-> Width(out), v |-> Encode(out, v)]
  BY Zenon, <1>1 DEF Item
<1>3. Fits(in, x) = (x.w = Width(in))
  BY Zenon, <1>1 DEF Fits
<1>4. Taken(in, x) = Decode(in, x.v)
  BY Zenon, <1>1 DEF Taken
<1> QED
  BY <1>2, <1>3, <1>4

\* A value that the reader's type can have arrives in an item of the width the reader
\* asks for, though the writer may take the same bytes for signed and the reader not
\* (q2proto writes coordinates unsigned and reads them signed).
THEOREM ValueArrives ==
  ASSUME NEW in, NEW out, GoesWith(in, out), NEW v \in Values(in)
  PROVE  Fits(in, Item(out, v)) /\ Taken(in, Item(out, v)) = v
<1>1. PICK n \in Units(in) : v = Scale(in) * n
  BY DEF Values
<1>2. in \in PlainTypes /\ out \in PlainTypes /\ Width(in) = Width(out) /\ Scale(in) = Scale(out)
  BY DEF GoesWith
<1>3. n \in Int
  BY SMT DEF Units
<1>4. Item(out, v) = [w |-> Width(out), v |-> OnWire(Width(out), n)]
  BY <1>1, <1>2, <1>3, PlainItem, Writes
<1>5. Decode(in, OnWire(Width(in), n)) = v
  BY <1>1, <1>2, Reads
<1>6. Item(out, v).w = Width(in) /\ Item(out, v).v = OnWire(Width(in), n)
  BY <1>2, <1>4
<1>7. Fits(in, Item(out, v)) = (Item(out, v).w = Width(in))
  BY <1>2, PlainItem
<1>8. Taken(in, Item(out, v)) = Decode(in, Item(out, v).v)
  BY <1>2, PlainItem
<1> QED
  BY <1>5, <1>6, <1>7, <1>8

-----------------------------------------------------------------------------
\* The same of an angle of eight bits.
LEMMA AngleItem ==
  ASSUME NEW v \in Int
  PROVE  /\ Item("angle8", v) = [w |-> 1, v |-> (v \div 256) % 256]
         /\ \A x : (x.w = 1 => Fits("angle8", x))
         /\ \A x : Taken("angle8", x) = Signed(x.v, 8) * 257
<1>1. Item("angle8", v) = [w |-> Width("angle8"), v |-> Encode("angle8", v)]
  BY Zenon DEF Item
<1>2. Width("angle8") = 1 /\ Encode("angle8", v) = (v \div 256) % 256
  BY SMT DEF Encode, Width, ByteTypes
<1>3. \A x : (x.w = Width("angle8") => Fits("angle8", x))
  BY Zenon DEF Fits
<1>4. \A x : Taken("angle8", x) = Decode("angle8", x.v)
  BY Zenon DEF Taken
<1>5. ASSUME NEW x PROVE Decode("angle8", x) = Signed(x, 8) * 257
  BY Zenon DEF Decode
<1> QED
  BY <1>1, <1>2, <1>3, <1>4, <1>5

\* An angle of 8 bits comes back off by at most 383 of 65536: cut off by up to 255, and
\* stretched by 257 instead of 256 (q2proto_var_angles_get_short_comp).
THEOREM AngleNear ==
  ASSUME NEW v \in Int, -32768 <= v, v < 32768
  PROVE  /\ Fits("angle8", Item("angle8", v))
         /\ -383 <= Taken("angle8", Item("angle8", v)) - v
         /\ Taken("angle8", Item("angle8", v)) - v <= 127
<1>1. PICK c \in Int : /\ -128 <= c /\ c <= 127 /\ c = v \div 256
                      /\ 0 <= v - 256 * c /\ v - 256 * c <= 255
  BY SMT
<1>2. Signed(c % 256, 8) = c
  BY SMT, <1>1, SignOfByte
<1>3. Item("angle8", v).w = 1 /\ Item("angle8", v).v = c % 256
  BY SMT, <1>1, AngleItem
<1>4. Taken("angle8", Item("angle8", v)) = c * 257 /\ Fits("angle8", Item("angle8", v))
  BY SMT, <1>2, <1>3, AngleItem
<1> QED
  BY SMT, <1>1, <1>4

\* Three bytes read back as signed are the number written.
LEMMA SignOf24 ==
  ASSUME NEW n \in Int, -8388608 <= n, n < 8388608 PROVE Signed(n % 16777216, 24) = n
<1>1. CASE n >= 0
  <2>1. n % 16777216 = n BY SMT, <1>1
  <2> QED BY SMT, <1>1, <2>1 DEF Signed
<1>2. CASE n < 0
  <2>1. n % 16777216 = n + 16777216 BY SMT, <1>2
  <2> QED BY SMT, <1>2, <2>1 DEF Signed
<1> QED BY SMT, <1>1, <1>2

\* A coordinate of 23 bits arrives, sent as a difference or whole: the reader tells the
\* two apart by the lowest bit, and asks for a third byte in one case only
\* (q2protoio_write_q2pro_i23, q2protoio_read_q2pro_i23).
THEOREM CoordinateArrives ==
  ASSUME NEW prev \in Int, NEW v \in Int, -4194304 <= v, v < 4194304
  PROVE  LET item == Int23(prev, v)
             got  == FromInt23(item)
         IN  /\ item.w = IF IsDiff(item) THEN 2 ELSE 3
             /\ got \in Int /\ v = IF IsDiff(item) THEN prev + got ELSE got
<1>1. CASE -16384 <= v - prev /\ v - prev < 16384
  <2> DEFINE d == 2 * (v - prev)
  <2>1. d \in Int /\ -32768 <= d /\ d <= 32767 /\ d \div 2 = v - prev
    BY SMT, <1>1
  <2>2. Int23(prev, v) = [w |-> 2, v |-> d % 65536]
    BY SMT, <1>1 DEF Int23
  <2>3. (d % 65536) % 2 = 0
    BY SMT, <2>1
  <2>4. Signed(d % 65536, 16) = d
    BY SMT, <2>1, SignOfShort
  <2> HIDE DEF d
  <2>5. IsDiff(Int23(prev, v)) /\ FromInt23(Int23(prev, v)) = v - prev
    BY SMT, <2>1, <2>2, <2>3, <2>4 DEF IsDiff, FromInt23
  <2> QED
    BY SMT, <2>2, <2>5
<1>2. CASE ~(-16384 <= v - prev /\ v - prev < 16384)
  <2> DEFINE d == 2 * v + 1
  <2>1. d \in Int /\ -8388608 <= d /\ d < 8388608 /\ d \div 2 = v
    BY SMT
  <2>2. Int23(prev, v) = [w |-> 3, v |-> d % 16777216]
    BY SMT, <1>2 DEF Int23
  <2>3. (d % 16777216) % 2 = 1
    BY SMT, <2>1
  <2>4. Signed(d % 16777216, 24) = d
    BY SMT, <2>1, SignOf24
  <2> HIDE DEF d
  <2>5. ~IsDiff(Int23(prev, v)) /\ FromInt23(Int23(prev, v)) = v
    BY SMT, <2>1, <2>2, <2>3, <2>4 DEF IsDiff, FromInt23
  <2> QED
    BY SMT, <2>2, <2>5
<1> QED
  BY SMT, <1>1, <1>2

\* How a coordinate of 23 bits is written, accepted and read when it is whole.
LEMMA WholeItem ==
  ASSUME NEW v
  PROVE  /\ Item("i23abs", v) = Int23(0, v)
         /\ \A x : Taken("i23abs", x) = FromInt23(x)
         /\ \A x : (x.w = (IF IsDiff(x) THEN 2 ELSE 3) => Fits("i23abs", x))
<1>1. Item("i23abs", v) = Int23(0, v)
  BY Zenon DEF Item
<1>2. \A x : Taken("i23abs", x) = FromInt23(x)
  BY Zenon DEF Taken
<1>3. \A x : (x.w = (IF IsDiff(x) THEN 2 ELSE 3) => Fits("i23abs", x))
  BY Zenon DEF Fits
<1> QED
  BY <1>1, <1>2, <1>3

\* A coordinate that is no difference is one from nothing: the reader does not ask
THEOREM WholeCoordinateArrives ==
  ASSUME NEW v \in Int, -4194304 <= v, v < 4194304
  PROVE  /\ Fits("i23abs", Item("i23abs", v))
         /\ Taken("i23abs", Item("i23abs", v)) = v
<1>1. /\ Int23(0, v).w = IF IsDiff(Int23(0, v)) THEN 2 ELSE 3
      /\ FromInt23(Int23(0, v)) = v
  <2>1. /\ Int23(0, v).w = IF IsDiff(Int23(0, v)) THEN 2 ELSE 3
        /\ FromInt23(Int23(0, v)) \in Int
        /\ v = IF IsDiff(Int23(0, v)) THEN 0 + FromInt23(Int23(0, v)) ELSE FromInt23(Int23(0, v))
    BY SMT, CoordinateArrives
  <2> QED
    BY SMT, <2>1
<1> QED
  BY SMT, <1>1, WholeItem
-----------------------------------------------------------------------------
\* The rows a reader takes answer those a writer wrote: the same fields in the same
\* order, each once.  Every value fits into its item and the item is as wide as the
\* reader expects.
Answers(in, out) ==
  /\ Len(in) = Len(out)
  /\ \A i \in 1 .. Len(out) : in[i].field = out[i].field
  /\ \A i, j \in 1 .. Len(in) : in[i].field = in[j].field => i = j
Fitting(in, out, val) ==
  \A i \in 1 .. Len(out) :
    /\ ~(out[i].type = "u8max" /\ val[out[i].field] > 255)
    /\ Fits(in[i].type, Item(out[i].type, val[out[i].field]))
\* The types go together, and the values are in the reader's range
Holds(in, out, val) ==
  \A i \in 1 .. Len(out) :
    GoesWith(in[i].type, out[i].type) /\ val[out[i].field] \in Values(in[i].type)

\* No value of a type that goes with a capped byte is capped.
LEMMA NoneTooWide ==
  ASSUME NEW in, GoesWith(in, "u8max"), NEW v \in Values(in) PROVE ~(v > 255)
<1>1. Width("u8max") = 1 /\ Scale("u8max") = 1
  BY SMT DEF Width, ByteTypes, Scale
<1>2. PICK n \in Units(in) : v = 1 * n
  BY <1>1 DEF Values, GoesWith
<1>3. n \in Int /\ n <= 255
  BY SMT, <1>1 DEF Units, GoesWith
<1> QED
  BY SMT, <1>2, <1>3

\* Rows that go together fit
LEMMA HoldsFits ==
  ASSUME NEW in, NEW out, NEW val, Holds(in, out, val)
  PROVE  /\ Fitting(in, out, val)
         /\ \A i \in 1 .. Len(out) :
              Taken(in[i].type, Item(out[i].type, val[out[i].field])) = val[out[i].field]
<1>1. ASSUME NEW i \in 1 .. Len(out)
      PROVE  /\ ~(out[i].type = "u8max" /\ val[out[i].field] > 255)
             /\ Fits(in[i].type, Item(out[i].type, val[out[i].field]))
             /\ Taken(in[i].type, Item(out[i].type, val[out[i].field])) = val[out[i].field]
  <2> DEFINE a == in[i].type
             b == out[i].type
             v == val[out[i].field]
  <2>1. GoesWith(a, b) /\ v \in Values(a)
    BY DEF Holds
  <2> HIDE DEF a, b, v
  <2>2. Fits(a, Item(b, v)) /\ Taken(a, Item(b, v)) = v
    BY <2>1, ValueArrives
  <2>3. ~(b = "u8max" /\ v > 255)
    BY <2>1, NoneTooWide
  <2> QED
    BY <2>2, <2>3 DEF a, b, v
<1> QED
  BY <1>1 DEF Fitting

\* Rows that fit are not refused
LEMMA RowsWritten ==
  ASSUME NEW R, NEW in, NEW out \in Seq(R), NEW val, NEW rows, NEW bits,
         Present(rows, bits) = out, Fitting(in, out, val)
  PROVE  WriteRows(rows, bits, val) =
           [err |-> FALSE, wire |-> [i \in 1 .. Len(out) |-> Item(out[i].type, val[out[i].field])]]
<1>1. \A i \in DOMAIN out : ~(out[i].type = "u8max" /\ val[out[i].field] > 255)
  BY DEF Fitting
<1>2. {i \in DOMAIN out : out[i].type = "u8max" /\ val[out[i].field] > 255} = {}
  BY <1>1
<1> QED
  BY <1>2 DEF WriteRows

\* A reader that is in step
Reading(r) == r = [in |-> r.in, got |-> r.got, ok |-> TRUE]

\* Rows were written, and a reader took them for rows of its own: it got of every field
\* what its type makes of the item, kept the others, and left what follows
Arrived(w, now, in, out, val, rest, got) ==
  /\ ~w.err /\ w.wire = [i \in 1 .. Len(out) |-> Item(out[i].type, val[out[i].field])]
  /\ Reading(now) /\ now.in = rest
  /\ DOMAIN now.got = DOMAIN got \cup {in[i].field : i \in 1 .. Len(in)}
  /\ \A f \in DOMAIN got :
       (\A i \in 1 .. Len(in) : in[i].field # f) => now.got[f] = got[f]
  /\ \A i \in 1 .. Len(in) :
       now.got[in[i].field] = Taken(in[i].type, Item(out[i].type, val[in[i].field]))
  /\ Holds(in, out, val) => \A i \in 1 .. Len(in) : now.got[in[i].field] = val[in[i].field]

\* What is written for the bits of a message is in step with a reader that has answering
\* rows for them: it gets of every field what its type makes of the item, and what follows
\* is left for the next reader.  Where the types go together and the values are in the
\* reader's range it gets every value that was sent.
THEOREM RowsArrive ==
  ASSUME NEW R, NEW in \in Seq(R), NEW out \in Seq(R), NEW val, NEW bits,
         NEW rowsOut, Present(rowsOut, bits) = out, NEW rowsIn, Present(rowsIn, bits) = in,
         Answers(in, out), Fitting(in, out, val),
         NEW S, NEW rest \in Seq(S), NEW got
  PROVE  LET w   == WriteRows(rowsOut, bits, val)
             now == ReadRows([in |-> w.wire \o rest, got |-> got, ok |-> TRUE], rowsIn, bits)
         IN  Arrived(w, now, in, out, val, rest, got)
<1> DEFINE W == [i \in 1 .. Len(out) |-> Item(out[i].type, val[out[i].field])]
           r == [in |-> W \o rest, got |-> got, ok |-> TRUE]
           Y == S \cup {W[i] : i \in 1 .. Len(out)}
           taken == [f \in DOMAIN got \cup {in[i].field : i \in DOMAIN in} |->
                       IF \E i \in DOMAIN in : in[i].field = f
                       THEN LET i == CHOOSE j \in DOMAIN in : in[j].field = f
                            IN  Taken(in[i].type, (W \o rest)[i])
                       ELSE got[f]]
<1>1. WriteRows(rowsOut, bits, val) = [err |-> FALSE, wire |-> W]
  BY RowsWritten
<1>2. W \in Seq(Y) /\ rest \in Seq(Y) /\ Len(W) = Len(out) /\ Len(in) = Len(out)
      /\ Len(in) \in Nat /\ DOMAIN in = 1 .. Len(in)
  BY DEF Answers
<1>3. Len(W \o rest) = Len(W) + Len(rest) /\ (\A i \in 1 .. Len(W) : (W \o rest)[i] = W[i])
  BY <1>2
<1>4. SubSeq(W \o rest, Len(in) + 1, Len(W \o rest)) = rest
  BY <1>2, <1>3
<1>5. ASSUME NEW i \in 1 .. Len(in)
      PROVE  /\ (W \o rest)[i] = Item(out[i].type, val[in[i].field])
             /\ Fits(in[i].type, (W \o rest)[i])
  <2>1. (W \o rest)[i] = Item(out[i].type, val[in[i].field]) /\ in[i].field = out[i].field
    BY <1>2, <1>3 DEF Answers
  <2> QED
    BY <2>1, <1>2 DEF Fitting
<1>6. TakeRows(r, in) = [in |-> rest, got |-> taken, ok |-> TRUE]
  <2>1. r.ok /\ Len(in) <= Len(r.in) /\ \A i \in DOMAIN in : Fits(in[i].type, r.in[i])
    BY <1>2, <1>3, <1>5
  <2> QED
    BY <2>1, <1>4 DEF TakeRows
<1>7. ASSUME NEW i \in 1 .. Len(in)
      PROVE  taken[in[i].field] = Taken(in[i].type, Item(out[i].type, val[in[i].field]))
  <2>1. (CHOOSE j \in DOMAIN in : in[j].field = in[i].field) = i
    BY <1>2 DEF Answers
  <2> QED
    BY <2>1, <1>2, <1>5
<1>14. /\ DOMAIN taken = DOMAIN got \cup {in[i].field : i \in 1 .. Len(in)}
       /\ \A f \in DOMAIN got :
            (\A i \in 1 .. Len(in) : in[i].field # f) => taken[f] = got[f]
  BY <1>2
<1>8. ReadRows(r, rowsIn, bits) = [in |-> rest, got |-> taken, ok |-> TRUE]
  BY <1>6 DEF ReadRows
<1> DEFINE w == WriteRows(rowsOut, bits, val)
           now == ReadRows([in |-> w.wire \o rest, got |-> got, ok |-> TRUE], rowsIn, bits)
<1> HIDE DEF taken, W
<1>9. ~w.err /\ w.wire = W
  BY <1>1
<1>10. now = [in |-> rest, got |-> taken, ok |-> TRUE]
  BY <1>8, <1>9
<1> HIDE DEF w, now
<1>11. Reading(now) /\ now.in = rest /\ now.got = taken
  BY <1>10 DEF Reading
<1>12. \A i \in 1 .. Len(in) :
         now.got[in[i].field] = Taken(in[i].type, Item(out[i].type, val[in[i].field]))
  BY <1>7, <1>11
<1>13. ASSUME Holds(in, out, val), NEW i \in 1 .. Len(in)
       PROVE  now.got[in[i].field] = val[in[i].field]
  <2>1. Taken(in[i].type, Item(out[i].type, val[out[i].field])) = val[out[i].field]
    BY <1>2, <1>13, HoldsFits
  <2>2. in[i].field = out[i].field
    BY <1>2 DEF Answers
  <2> QED
    BY <1>12, <2>1, <2>2
<1> QED
  BY <1>9, <1>11, <1>12, <1>13, <1>14 DEF w, now, W, Arrived
-----------------------------------------------------------------------------
\* A reader that got one more field
LEMMA DecodedField ==
  ASSUME NEW r, Reading(r), NEW name, NEW v
  PROVE  /\ Reading(Decoded(r, name, v)) /\ Decoded(r, name, v).in = r.in
         /\ DOMAIN Decoded(r, name, v).got = DOMAIN r.got \cup {F(name)}
         /\ Decoded(r, name, v).got[F(name)] = v
         /\ \A f \in DOMAIN r.got : f # F(name) => Decoded(r, name, v).got[f] = r.got[f]
<1> DEFINE in == r.in
           got == r.got
           G == [f \in DOMAIN got \cup {F(name)} |-> IF f = F(name) THEN v ELSE got[f]]
<1>1. r = [in |-> in, got |-> got, ok |-> TRUE]
  BY DEF Reading
<1>2. Decoded(r, name, v) = [r EXCEPT !.got = G]
  BY DEF Decoded
<1> HIDE DEF G, in, got
<1>3. Decoded(r, name, v) = [in |-> in, got |-> G, ok |-> TRUE]
  BY <1>1, <1>2
<1>4. /\ DOMAIN G = DOMAIN got \cup {F(name)} /\ G[F(name)] = v
      /\ \A f \in DOMAIN got : f # F(name) => G[f] = got[f]
  BY DEF G
<1> QED
  BY <1>3, <1>4 DEF Reading, in, got

\* Four bytes hold the number of a frame and how far back the frame is that it is a delta
\* from: both arrive for every frame of 27 bits and every distance up to 30, and no delta
\* (an offset of 31) is never taken for one.
THEOREM FrameNumbersArrive ==
  ASSUME NEW fr, NEW s \in Nat, s < 2^27, NEW d \in Int,
         fr[F("serverframe")] = s, fr[F("deltaframe")] = d,
         d = -1 \/ (d <= s /\ s - d <= 30),
         NEW S, NEW rest \in Seq(S), NEW got
  PROVE  LET now == ReadEncodedFrame(
                      [in |-> EncodedFrame(fr).wire \o rest, got |-> got, ok |-> TRUE])
         IN  /\ now.ok /\ now.in = rest
             /\ now.got[F("serverframe")] = s /\ now.got[F("deltaframe")] = d
<1> DEFINE item == [w |-> 4, v |-> <<OffsetOf(fr), s>>]
           r == [in |-> EncodedFrame(fr).wire \o rest, got |-> got, ok |-> TRUE]
<1>1. OffsetOf(fr) \in Int /\ 0 <= OffsetOf(fr) /\ OffsetOf(fr) <= 31
      /\ (OffsetOf(fr) = 31 <=> d = -1) /\ (d # -1 => OffsetOf(fr) = s - d)
  BY SMT DEF OffsetOf
<1>2. OffsetOf(fr) % 32 = OffsetOf(fr) /\ s % 2^27 = s
  BY SMT, <1>1
<1>3. EncodedFrame(fr).wire = <<item>>
  BY SMT, <1>2 DEF EncodedFrame, Written
<1> HIDE DEF item
<1>4. LET in == <<item>> \o rest IN in # <<>> /\ in[1] = item /\ Tail(in) = rest
  BY SMT
<1> DEFINE e == GetWide(r, "encoded", 4)
           f == Decoded(e, "serverframe", s)
           now == Decoded(f, "deltaframe", d)
<1>5. /\ Reading(e) /\ e.in = rest
      /\ e.got[F("encoded")] = <<OffsetOf(fr), s>>
  <2>1. r = [in |-> <<item>> \o rest, got |-> got, ok |-> TRUE] /\ item.w = 4
        /\ item.v = <<OffsetOf(fr), s>>
    BY <1>3 DEF item
  <2> HIDE DEF r
  <2> QED
    BY <1>4, <2>1 DEF GetWide, Reading
<1>6. /\ Reading(f) /\ f.in = rest
      /\ F("serverframe") \in DOMAIN f.got /\ f.got[F("serverframe")] = s
  <2> HIDE DEF e
  <2> QED
    BY <1>5, DecodedField
<1>7. /\ Reading(now) /\ now.in = rest
      /\ now.got[F("serverframe")] = s /\ now.got[F("deltaframe")] = d
  <2>1. F("serverframe") # F("deltaframe")
    BY DEF F
  <2> HIDE DEF f
  <2> QED
    BY <1>6, <2>1, DecodedField
<1>8. ReadEncodedFrame(r) = now
  <2> HIDE DEF r
  <2>1. e.ok /\ e.got[F("encoded")][1] = OffsetOf(fr) /\ e.got[F("encoded")][2] = s
    BY <1>5 DEF Reading
  <2>2. (IF OffsetOf(fr) = 31 THEN -1 ELSE s - OffsetOf(fr)) = d
    BY SMT, <1>1
  <2> QED
    BY <2>1, <2>2 DEF ReadEncodedFrame
<1> HIDE DEF r, now
<1>9. now.ok
  BY <1>7 DEF Reading
<1> QED
  BY <1>7, <1>8, <1>9 DEF r
-----------------------------------------------------------------------------
\* The multiples of five, 64 and 256 that a byte holds are values of the packed types.
LEMMA ByteOf ==
  /\ \A v \in Int : v % 5 = 0 /\ -640 <= v /\ v < 640 => v \in Values("by5")
  /\ \A v \in Int : v % 64 = 0 /\ -8192 <= v /\ v < 8192 => v \in Values("by64")
  /\ \A v \in Int : v % 256 = 0 /\ -32768 <= v /\ v < 32768 => v \in Values("by256")
<1>1. /\ Width("by5") = 1 /\ Width("by64") = 1 /\ Width("by256") = 1
      /\ Scale("by5") = 5 /\ Scale("by64") = 64 /\ Scale("by256") = 256
  BY SMT DEF Width, ByteTypes, Scale
<1>2. \A t \in {"by5", "by64", "by256"} : \A n \in Int :
        -128 <= n /\ n <= 127 => Scale(t) * n \in Values(t)
  <2>1. ASSUME NEW t \in {"by5", "by64", "by256"}, NEW n \in Int, -128 <= n, n <= 127
        PROVE  n \in Units(t)
    BY SMT, <1>1, <2>1 DEF Units, SignedTypes
  <2> QED
    BY <2>1 DEF Values
<1>3. ASSUME NEW v \in Int, v % 5 = 0, -640 <= v, v < 640 PROVE v \in Values("by5")
  <2>1. PICK n \in Int : v = 5 * n /\ -128 <= n /\ n <= 127
    <3>1. v = 5 * (v \div 5) /\ v \div 5 \in Int /\ -128 <= v \div 5 /\ v \div 5 <= 127
      BY SMT, <1>3
    <3> QED
      BY <3>1
  <2> QED
    BY <2>1, <1>1, <1>2
<1>4. ASSUME NEW v \in Int, v % 64 = 0, -8192 <= v, v < 8192 PROVE v \in Values("by64")
  <2>1. PICK n \in Int : v = 64 * n /\ -128 <= n /\ n <= 127
    <3>1. v = 64 * (v \div 64) /\ v \div 64 \in Int /\ -128 <= v \div 64 /\ v \div 64 <= 127
      BY SMT, <1>4
    <3> QED
      BY <3>1
  <2> QED
    BY <2>1, <1>1, <1>2
<1>5. ASSUME NEW v \in Int, v % 256 = 0, -32768 <= v, v < 32768 PROVE v \in Values("by256")
  <2>1. PICK n \in Int : v = 256 * n /\ -128 <= n /\ n <= 127
    <3>1. v = 256 * (v \div 256) /\ v \div 256 \in Int /\ -128 <= v \div 256 /\ v \div 256 <= 127
      BY SMT, <1>5
    <3> QED
      BY <3>1
  <2> QED
    BY <2>1, <1>1, <1>2
<1> QED
  BY <1>3, <1>4, <1>5

\* The row a compressed component is written in
Small(dbl) == IF dbl = DBL.ANGLE1 THEN "by64" ELSE IF dbl = DBL.ANGLE2 THEN "by256" ELSE "by5"
Component(dbl) ==
  IF dbl \in {DBL.ANGLE1, DBL.ANGLE2} THEN <<"angles", dbl - DBL.ANGLE1>>
  ELSE <<"move", dbl - DBL.FORWARD>>

\* A component that is compressed is a whole number of units, and not too many
LEMMA CompressedHolds ==
  ASSUME NEW d, NEW flags, NEW dbl \in Compressed(d, flags),
         d.val[Component(dbl)] \in Int,
         IF dbl \in {DBL.ANGLE1, DBL.ANGLE2}
         THEN -32768 <= d.val[Component(dbl)] /\ d.val[Component(dbl)] < 32768
         ELSE -640 <= d.val[Component(dbl)] /\ d.val[Component(dbl)] < 640
  PROVE  d.val[Component(dbl)] \in Values(Small(dbl)) /\ Small(dbl) \in {"by5", "by64", "by256"}
<1>1. DBL.FORWARD = 2 /\ DBL.SIDE = 3 /\ DBL.UP = 4 /\ DBL.ANGLE1 = 5 /\ DBL.ANGLE2 = 6
  BY DEF DBL
<1> DEFINE v == d.val[Component(dbl)]
<1>2. \/ dbl \in {2, 3, 4} /\ v % 5 = 0
      \/ dbl = 5 /\ v % 64 = 0 /\ Quot(v, 64) \in -127 .. 127
      \/ dbl = 6 /\ v % 256 = 0
  BY <1>1, SMTT(30) DEF Compressed, FlagIf, Component
<1>3. v \in Values(Small(dbl)) /\ Small(dbl) \in {"by5", "by64", "by256"}
  <2>1. CASE dbl \in {2, 3, 4} /\ v % 5 = 0
    <3>1. Small(dbl) = "by5" /\ -640 <= v /\ v < 640
      BY <2>1, <1>1 DEF Small
    <3> QED
      BY <2>1, <3>1, ByteOf
  <2>2. CASE dbl = 5 /\ v % 64 = 0 /\ Quot(v, 64) \in -127 .. 127
    <3>1. Small(dbl) = "by64"
      BY <2>2, <1>1 DEF Small
    <3>2. -8192 <= v /\ v < 8192
      BY SMT, <2>2 DEF Quot
    <3> QED
      BY <2>2, <3>1, <3>2, ByteOf
  <2>3. CASE dbl = 6 /\ v % 256 = 0
    <3>1. Small(dbl) = "by256" /\ -32768 <= v /\ v < 32768
      BY <2>3, <1>1 DEF Small
    <3> QED
      BY <2>3, <3>1, ByteOf
  <2> QED
    BY <1>2, <2>1, <2>2, <2>3
<1> QED
  BY <1>3

\* A component of a move that R1Q2 sends in one byte, because it divides evenly, fits into
\* the byte and comes back as it was: every angle of 16 bits, and every move in -640 .. 639,
\* which the code does not look at.
THEOREM CompressedArrives ==
  ASSUME NEW d, NEW flags, NEW dbl \in Compressed(d, flags),
         d.val[Component(dbl)] \in Int,
         IF dbl \in {DBL.ANGLE1, DBL.ANGLE2}
         THEN -32768 <= d.val[Component(dbl)] /\ d.val[Component(dbl)] < 32768
         ELSE -640 <= d.val[Component(dbl)] /\ d.val[Component(dbl)] < 640
  PROVE  LET item == Item(Small(dbl), d.val[Component(dbl)])
         IN  Fits(Small(dbl), item) /\ Taken(Small(dbl), item) = d.val[Component(dbl)]
<1>3. d.val[Component(dbl)] \in Values(Small(dbl)) /\ Small(dbl) \in {"by5", "by64", "by256"}
  BY CompressedHolds
<1>4. GoesWith(Small(dbl), Small(dbl))
  BY <1>3 DEF GoesWith, PlainTypes
<1> QED
  BY <1>3, <1>4, ValueArrives
-----------------------------------------------------------------------------
-----------------------------------------------------------------------------
(* Lists that are made step by step: the rows that are present, and the    *)
(* parts of a message.                                                     *)
Step(of, bits, made, x) ==
  IF of = "rows" THEN IF IsPresent(x, bits) THEN Append(made, x) ELSE made
  ELSE Then(made, x)
Nothing(of) == IF of = "rows" THEN <<>> ELSE Written(<<>>)
Steps(of, bits, f, n, xs) ==
  f = [i \in 0 .. n |-> IF i = 0 THEN Nothing(of) ELSE Step(of, bits, f[i - 1], xs[i])]

\* Steps can be continued ...
LEMMA StepsContinue ==
  ASSUME NEW of, NEW bits, NEW n \in Nat, NEW xs, NEW f, Steps(of, bits, f, n, xs)
  PROVE  \E g : Steps(of, bits, g, n + 1, xs)
<1> DEFINE g == [i \in 0 .. n + 1 |-> IF i = n + 1 THEN Step(of, bits, f[n], xs[n + 1]) ELSE f[i]]
<1>1. \A i \in 0 .. n : g[i] = f[i]
  OBVIOUS
<1>2. g[n + 1] = Step(of, bits, f[n], xs[n + 1])
  OBVIOUS
<1>3. \A i \in 0 .. n : f[i] = IF i = 0 THEN Nothing(of) ELSE Step(of, bits, f[i - 1], xs[i])
  BY Zenon DEF Steps
<1>4. ASSUME NEW i \in 0 .. n + 1
      PROVE  g[i] = IF i = 0 THEN Nothing(of) ELSE Step(of, bits, g[i - 1], xs[i])
  <2>1. CASE i = n + 1
    <3>1. i - 1 = n /\ n \in 0 .. n /\ i # 0
      BY <2>1
    <3> HIDE DEF g
    <3> QED BY <1>1, <1>2, <2>1, <3>1
  <2>2. CASE i = 0
    <3>1. i \in 0 .. n
      BY <2>2
    <3> HIDE DEF g
    <3> QED BY <1>1, <1>3, <2>2, <3>1
  <2>3. CASE i \in 1 .. n
    <3>1. i \in 0 .. n /\ i - 1 \in 0 .. n /\ i # 0
      BY <2>3
    <3> HIDE DEF g
    <3> QED BY <1>1, <1>3, <3>1
  <2> QED BY <2>1, <2>2, <2>3
<1>5. Steps(of, bits, g, n + 1, xs)
  <2>1. g = [i \in 0 .. n + 1 |-> g[i]]
    OBVIOUS
  <2> HIDE DEF g
  <2> QED BY <1>4, <2>1 DEF Steps
<1> QED BY <1>5

\* ... so there are steps of any number.
LEMMA StepsExist ==
  ASSUME NEW of, NEW bits, NEW n \in Nat, NEW xs
  PROVE  \E f : Steps(of, bits, f, n, xs)
<1>1. PICK S : S = {m \in Nat : ~\E f : Steps(of, bits, f, m, xs)}
  OBVIOUS
<1>2. S = {}
  <2> SUFFICES ASSUME S # {} PROVE FALSE
    OBVIOUS
  <2>1. PICK m \in S : \A k \in S : m <= k
    BY <1>1, LeastElement
  <2>2. m \in Nat /\ ~\E f : Steps(of, bits, f, m, xs)
    BY <1>1
  <2>3. CASE m = 0
    <3> DEFINE g == [i \in 0 .. 0 |-> Nothing(of)]
    <3>1. Steps(of, bits, g, 0, xs)
      BY DEF Steps
    <3> QED BY <2>2, <2>3, <3>1
  <2>4. CASE m # 0
    <3>1. m - 1 \in Nat /\ ~(m <= m - 1) /\ (m - 1) + 1 = m
      BY <2>2, <2>4
    <3>2. \E f : Steps(of, bits, f, m - 1, xs)
      BY <1>1, <2>1, <3>1
    <3>3. \E g : Steps(of, bits, g, (m - 1) + 1, xs)
      BY <3>1, <3>2, StepsContinue
    <3> QED BY <2>2, <3>1, <3>3
  <2> QED BY <2>3, <2>4
<1> QED BY <1>1, <1>2

\* Present is reached by steps, one for each row.
LEMMA PresentSteps ==
  ASSUME NEW rows, Len(rows) \in Nat, NEW bits
  PROVE  \E f : /\ Present(rows, bits) = f[Len(rows)] /\ f[0] = <<>>
                /\ \A i \in 1 .. Len(rows) :
                     f[i] = IF IsPresent(rows[i], bits) THEN Append(f[i - 1], rows[i]) ELSE f[i - 1]
<1> DEFINE n == Len(rows)
           upTo[i \in 0 .. n] ==
             IF i = 0 THEN <<>>
             ELSE IF IsPresent(rows[i], bits) THEN Append(upTo[i - 1], rows[i]) ELSE upTo[i - 1]
<1>1. Present(rows, bits) = upTo[n]
  BY DEF Present
<1>2. PICK f : Steps("rows", bits, f, n, rows)
  BY StepsExist
<1>3. f = [i \in 0 .. n |-> IF i = 0 THEN <<>>
                           ELSE IF IsPresent(rows[i], bits) THEN Append(f[i - 1], rows[i])
                           ELSE f[i - 1]]
  BY <1>2 DEF Steps, Step, Nothing
<1>4. upTo = [i \in 0 .. n |-> IF i = 0 THEN <<>>
                              ELSE IF IsPresent(rows[i], bits) THEN Append(upTo[i - 1], rows[i])
                              ELSE upTo[i - 1]]
  BY <1>3, Zenon
<1> HIDE DEF upTo
<1>5. \A i \in 0 .. n :
        upTo[i] = IF i = 0 THEN <<>>
                  ELSE IF IsPresent(rows[i], bits) THEN Append(upTo[i - 1], rows[i])
                  ELSE upTo[i - 1]
  BY <1>4, Zenon
<1>6. 0 \in 0 .. n /\ \A i \in 1 .. n : i \in 0 .. n /\ i # 0
  OBVIOUS
<1> QED BY <1>1, <1>5, <1>6

\* InTurn is reached by steps, one for each part.
LEMMA InTurnSteps ==
  ASSUME NEW parts, Len(parts) \in Nat
  PROVE  \E f : /\ InTurn(parts) = f[Len(parts)] /\ f[0] = Written(<<>>)
                /\ \A i \in 1 .. Len(parts) : f[i] = Then(f[i - 1], parts[i])
<1> DEFINE n == Len(parts)
           upTo[i \in 0 .. n] == IF i = 0 THEN Written(<<>>) ELSE Then(upTo[i - 1], parts[i])
<1>1. InTurn(parts) = upTo[n]
  BY DEF InTurn
<1>2. PICK f : Steps("parts", {}, f, n, parts)
  BY StepsExist
<1>3. f = [i \in 0 .. n |-> IF i = 0 THEN Written(<<>>) ELSE Then(f[i - 1], parts[i])]
  BY <1>2 DEF Steps, Step, Nothing
<1>4. upTo = [i \in 0 .. n |-> IF i = 0 THEN Written(<<>>) ELSE Then(upTo[i - 1], parts[i])]
  BY <1>3, Zenon
<1> HIDE DEF upTo
<1>5. \A i \in 0 .. n : upTo[i] = IF i = 0 THEN Written(<<>>) ELSE Then(upTo[i - 1], parts[i])
  BY <1>4, Zenon
<1>6. 0 \in 0 .. n /\ \A i \in 1 .. n : i \in 0 .. n /\ i # 0
  OBVIOUS
<1> QED BY <1>1, <1>5, <1>6
-----------------------------------------------------------------------------
(* Rows of a writer and a reader that agree one by one, and of which no    *)
(* two for the same field are present together.                            *)
Matched(in, out) ==
  /\ Len(in) = Len(out)
  /\ \A i \in 1 .. Len(out) :
       in[i].all = out[i].all /\ in[i].none = out[i].none /\ in[i].field = out[i].field
Apart(a, b) == a.all \cap b.none # {} \/ b.all \cap a.none # {}
Alone(rows) ==
  \A i, j \in 1 .. Len(rows) :
    i # j /\ rows[i].field = rows[j].field => Apart(rows[i], rows[j])

\* What is present of both, after i rows.
Agreeing(in, out, bits, i, a, b) ==
  /\ Len(a) = Len(b)
  /\ \A k \in 1 .. Len(a) : \E j \in 1 .. i :
       IsPresent(in[j], bits) /\ a[k] = in[j] /\ b[k] = out[j]
  /\ \A j \in 1 .. i : IsPresent(in[j], bits) => \E k \in 1 .. Len(a) : a[k] = in[j]
  /\ \A k, l \in 1 .. Len(a) : a[k].field = a[l].field => k = l

\* Rows that agree still do when both sides take their next row.
LEMMA AgreeOn ==
  ASSUME NEW I, NEW in \in Seq(I), NEW O, NEW out \in Seq(O), Matched(in, out), Alone(in),
         NEW bits, NEW i \in 1 .. Len(in), IsPresent(in[i], bits),
         NEW a \in Seq(I), NEW b \in Seq(O), Agreeing(in, out, bits, i - 1, a, b)
  PROVE  Agreeing(in, out, bits, i, Append(a, in[i]), Append(b, out[i]))
<1> DEFINE c == Append(a, in[i])
           d == Append(b, out[i])
           n == Len(a)
<1>1. /\ n \in Nat /\ Len(b) = n /\ Len(c) = n + 1 /\ Len(d) = n + 1
      /\ c[n + 1] = in[i] /\ d[n + 1] = out[i]
      /\ \A k \in 1 .. n : c[k] = a[k] /\ d[k] = b[k]
      /\ i \in Nat /\ i >= 1
  BY DEF Agreeing, Matched
<1> HIDE DEF c, d, n
<1>2. ASSUME NEW k \in 1 .. n + 1
      PROVE  \E j \in 1 .. i : IsPresent(in[j], bits) /\ c[k] = in[j] /\ d[k] = out[j]
  <2>1. CASE k = n + 1
    <3>1. i \in 1 .. i
      BY <1>1
    <3> QED BY <1>1, <2>1, <3>1
  <2>2. CASE k \in 1 .. n
    <3>1. PICK j \in 1 .. i - 1 : IsPresent(in[j], bits) /\ a[k] = in[j] /\ b[k] = out[j]
      BY <2>2 DEF Agreeing, n
    <3>2. j \in 1 .. i
      BY <1>1, <3>1
    <3> QED BY <1>1, <2>2, <3>1, <3>2
  <2> QED BY <1>1, <2>1, <2>2
<1>3. ASSUME NEW j \in 1 .. i, IsPresent(in[j], bits)
      PROVE  \E k \in 1 .. n + 1 : c[k] = in[j]
  <2>1. CASE j = i
    <3>1. n + 1 \in 1 .. n + 1
      BY <1>1
    <3> QED BY <1>1, <2>1, <3>1
  <2>2. CASE j # i
    <3>1. j \in 1 .. i - 1
      BY <1>1, <2>2
    <3>2. PICK k \in 1 .. n : a[k] = in[j]
      BY <1>3, <3>1 DEF Agreeing, n
    <3>3. k \in 1 .. n + 1
      BY <1>1, <3>2
    <3> QED BY <1>1, <3>2, <3>3
  <2> QED BY <2>1, <2>2
<1>4. ASSUME NEW k \in 1 .. n PROVE c[k].field # in[i].field
  <2>1. PICK j \in 1 .. i - 1 : IsPresent(in[j], bits) /\ a[k] = in[j]
    BY DEF Agreeing, n
  <2>2. j \in 1 .. Len(in) /\ j # i
    BY <1>1, <2>1
  <2>3. ~Apart(in[j], in[i])
    BY <2>1 DEF Apart, IsPresent
  <2>4. in[j].field # in[i].field
    BY <2>2, <2>3 DEF Alone
  <2> QED BY <1>1, <2>1, <2>4
<1>5. ASSUME NEW k \in 1 .. n + 1, NEW l \in 1 .. n + 1, c[k].field = c[l].field
      PROVE  k = l
  <2>1. CASE k = n + 1 /\ l = n + 1
    BY <2>1
  <2>2. CASE k = n + 1 /\ l \in 1 .. n
    BY <1>1, <1>4, <1>5, <2>2
  <2>3. CASE k \in 1 .. n /\ l = n + 1
    BY <1>1, <1>4, <1>5, <2>3
  <2>4. CASE k \in 1 .. n /\ l \in 1 .. n
    <3>1. a[k].field = a[l].field
      BY <1>1, <1>5, <2>4
    <3> QED BY <2>4, <3>1 DEF Agreeing, n
  <2> QED BY <1>1, <2>1, <2>2, <2>3, <2>4
<1> QED BY <1>1, <1>2, <1>3, <1>5 DEF Agreeing, c, d

\* The rows present on both sides agree, all of them.
LEMMA PresentAgree ==
  ASSUME NEW I, NEW in \in Seq(I), NEW O, NEW out \in Seq(O), Matched(in, out), Alone(in), NEW bits
  PROVE  /\ Present(in, bits) \in Seq(I) /\ Present(out, bits) \in Seq(O)
         /\ Agreeing(in, out, bits, Len(in), Present(in, bits), Present(out, bits))
<1>1. Len(in) \in Nat /\ Len(out) = Len(in)
  BY DEF Matched
<1>2. PICK f : /\ Present(in, bits) = f[Len(in)] /\ f[0] = <<>>
               /\ \A i \in 1 .. Len(in) :
                    f[i] = IF IsPresent(in[i], bits) THEN Append(f[i - 1], in[i]) ELSE f[i - 1]
  <2>1. Len(in) \in Nat
    BY <1>1
  <2> QED BY ONLY <2>1, PresentSteps
<1>3. PICK g : /\ Present(out, bits) = g[Len(in)] /\ g[0] = <<>>
               /\ \A i \in 1 .. Len(in) :
                    g[i] = IF IsPresent(out[i], bits) THEN Append(g[i - 1], out[i]) ELSE g[i - 1]
  <2>1. Len(out) \in Nat
    BY <1>1
  <2>2. \E g : /\ Present(out, bits) = g[Len(out)] /\ g[0] = <<>>
               /\ \A i \in 1 .. Len(out) :
                    g[i] = IF IsPresent(out[i], bits) THEN Append(g[i - 1], out[i]) ELSE g[i - 1]
    BY ONLY <2>1, PresentSteps
  <2> QED BY <1>1, <2>2
<1> DEFINE Good(i) == f[i] \in Seq(I) /\ g[i] \in Seq(O) /\ Agreeing(in, out, bits, i, f[i], g[i])
<1>4. PICK S : S = {i \in 0 .. Len(in) : ~Good(i)}
  OBVIOUS
<1>5. S = {}
  <2> SUFFICES ASSUME S # {} PROVE FALSE
    OBVIOUS
  <2>1. S \in SUBSET Nat
    BY <1>4
  <2>2. PICK i \in S : \A k \in S : i <= k
    BY <2>1, LeastElement
  <2>3. i \in 0 .. Len(in) /\ ~Good(i)
    BY <1>4
  <2>4. CASE i = 0
    <3>1. Agreeing(in, out, bits, 0, <<>>, <<>>)
      BY DEF Agreeing
    <3>2. <<>> \in Seq(I) /\ <<>> \in Seq(O)
      OBVIOUS
    <3> QED BY <1>2, <1>3, <2>3, <2>4, <3>1, <3>2
  <2>5. CASE i # 0
    <3>1. i \in 1 .. Len(in) /\ i - 1 \in 0 .. Len(in) /\ ~(i <= i - 1)
      BY <1>1, <2>3, <2>5
    <3>2. Good(i - 1)
      BY <1>4, <2>2, <3>1
    <3> HIDE DEF Good
    <3>3. IsPresent(out[i], bits) <=> IsPresent(in[i], bits)
      BY <1>1, <3>1 DEF Matched, IsPresent
    <3>4. CASE IsPresent(in[i], bits)
      <4>1. f[i] = Append(f[i - 1], in[i]) /\ g[i] = Append(g[i - 1], out[i])
        BY <1>2, <1>3, <3>1, <3>3, <3>4
      <4>2. f[i - 1] \in Seq(I) /\ g[i - 1] \in Seq(O)
            /\ Agreeing(in, out, bits, i - 1, f[i - 1], g[i - 1])
        BY <3>2 DEF Good
      <4>3. Agreeing(in, out, bits, i, Append(f[i - 1], in[i]), Append(g[i - 1], out[i]))
        BY <3>1, <3>4, <4>2, AgreeOn
      <4>4. in[i] \in I /\ out[i] \in O
        BY <1>1, <3>1
      <4>5. Append(f[i - 1], in[i]) \in Seq(I) /\ Append(g[i - 1], out[i]) \in Seq(O)
        BY <4>2, <4>4
      <4> QED BY <2>3, <4>1, <4>3, <4>5 DEF Good
    <3>5. CASE ~IsPresent(in[i], bits)
      <4>1. f[i] = f[i - 1] /\ g[i] = g[i - 1]
        BY <1>2, <1>3, <3>1, <3>3, <3>5
      <4>2. Agreeing(in, out, bits, i - 1, f[i - 1], g[i - 1])
        BY <3>2 DEF Good
      <4>3. \A j \in 1 .. i : j = i \/ j \in 1 .. i - 1
        BY <3>1
      <4>4. \A j \in 1 .. i - 1 : j \in 1 .. i
        BY <3>1
      <4>5. Agreeing(in, out, bits, i, f[i - 1], g[i - 1])
        BY <3>5, <4>2, <4>3, <4>4 DEF Agreeing
      <4> QED BY <2>3, <3>2, <4>1, <4>5 DEF Good
    <3> QED BY <3>4, <3>5
  <2> QED BY <2>4, <2>5
<1>6. Good(Len(in))
  <2>1. Len(in) \in 0 .. Len(in)
    BY <1>1
  <2> QED BY <1>4, <1>5, <2>1
<1> QED BY <1>2, <1>3, <1>6
-----------------------------------------------------------------------------
-----------------------------------------------------------------------------
(* Flags are sent as the sum of their powers of two, up to sixteen of them *)
Powers == {1, 2, 4, 8, 16, 32, 64, 128, 256, 512, 1024, 2048, 4096, 8192, 16384, 32768}
Term(s, x) == IF x \in s THEN x ELSE 0
Low(s) == Term(s, 1) + Term(s, 2) + Term(s, 4) + Term(s, 8)
          + Term(s, 16) + Term(s, 32) + Term(s, 64) + Term(s, 128)
High(s) == Term(s, 256) + Term(s, 512) + Term(s, 1024) + Term(s, 2048)
           + Term(s, 4096) + Term(s, 8192) + Term(s, 16384) + Term(s, 32768)

\* One power more adds just that
LEMMA OneTermMore ==
  ASSUME NEW s \in SUBSET Powers, NEW x \in s
  PROVE  Low(s) + High(s) = x + (Low(s \ {x}) + High(s \ {x}))
<1>1. \A y \in Powers : Term(s, y) \in Nat /\ Term(s \ {x}, y) = IF y = x THEN 0 ELSE Term(s, y)
  BY DEF Term, Powers
<1>2. Term(s, x) = x /\ x \in Powers
  BY DEF Term
<1> QED BY <1>1, <1>2 DEF Low, High, Powers

\* A set of small numbers is finite.
LEMMA FewAreFinite ==
  ASSUME NEW n \in Nat
  PROVE  \A s \in SUBSET (0 .. n) : IsFiniteSet(s) /\ Cardinality(s) \in Nat
<1>1. IsFiniteSet(0 .. n)
  BY FS_Interval
<1> QED BY <1>1, FS_Subset, FS_CardinalityType

\* The sum of some powers of two, as that of the low ones and that of the high ones.
LEMMA SumOfPowers ==
  ASSUME NEW S \in SUBSET Powers
  PROVE  SumSet(S) = Low(S) + High(S)
<1> DEFINE sum[s \in SUBSET S] ==
             IF s = {} THEN 0 ELSE LET x == CHOOSE x \in s : TRUE IN x + sum[s \ {x}]
           g == [s \in SUBSET S |-> Low(s) + High(s)]
<1>1. SumSet(S) = sum[S]
  BY DEF SumSet, FoldSet, MapThenFoldSet
<1>2. \A s \in SUBSET S : s # {} => /\ (CHOOSE x \in s : TRUE) \in s
                                    /\ s \ {CHOOSE x \in s : TRUE} \in SUBSET S
  OBVIOUS
<1>3. ASSUME NEW s \in SUBSET S
      PROVE  g[s] = IF s = {} THEN 0 ELSE LET x == CHOOSE x \in s : TRUE IN x + g[s \ {x}]
  <2>1. CASE s = {}
    BY <2>1 DEF Low, High, Term
  <2>2. CASE s # {}
    <3>1. PICK x \in s : x = CHOOSE y \in s : TRUE
      BY <2>2
    <3>2. Low(s) + High(s) = x + (Low(s \ {x}) + High(s \ {x}))
      BY <3>1, OneTermMore
    <3>3. g[s] = Low(s) + High(s) /\ g[s \ {x}] = Low(s \ {x}) + High(s \ {x})
      BY <3>1
    <3> HIDE DEF g
    <3> QED BY <2>2, <3>1, <3>2, <3>3
  <2> QED BY <2>1, <2>2
<1>4. g = [s \in SUBSET S |-> IF s = {} THEN 0
                             ELSE LET x == CHOOSE x \in s : TRUE IN x + g[s \ {x}]]
  <2>1. g = [s \in SUBSET S |-> g[s]]
    OBVIOUS
  <2> HIDE DEF g
  <2> QED BY <1>3, <2>1
<1>5. sum = [s \in SUBSET S |-> IF s = {} THEN 0
                               ELSE LET x == CHOOSE x \in s : TRUE IN x + sum[s \ {x}]]
  <2> HIDE DEF g
  <2> QED BY <1>4, Zenon
<1>6. \A s \in SUBSET S :
        sum[s] = IF s = {} THEN 0 ELSE LET x == CHOOSE x \in s : TRUE IN x + sum[s \ {x}]
  <2> HIDE DEF sum
  <2> QED BY <1>5, Zenon
<1> HIDE DEF sum, g
<1>7. PICK Sizes : Sizes = {Cardinality(s) : s \in {t \in SUBSET S : sum[t] # g[t]}}
  OBVIOUS
<1>8. \A s \in SUBSET S : IsFiniteSet(s) /\ Cardinality(s) \in Nat
  <2>1. PICK n \in Nat : n = 32768
    OBVIOUS
  <2>2. \A s \in SUBSET S : s \in SUBSET (0 .. n)
    BY <2>1 DEF Powers
  <2> QED BY <2>2, FewAreFinite
<1>9. Sizes = {}
  <2> SUFFICES ASSUME Sizes # {} PROVE FALSE
    OBVIOUS
  <2>1. Sizes \in SUBSET Nat
    BY <1>7, <1>8
  <2>2. PICK n \in Sizes : \A k \in Sizes : n <= k
    BY <2>1, LeastElement
  <2>3. PICK s \in SUBSET S : sum[s] # g[s] /\ n = Cardinality(s)
    BY <1>7
  <2>4. s # {}
    BY <1>3, <1>6, <2>3
  <2>5. PICK x \in s : x = CHOOSE y \in s : TRUE
    BY <2>4
  <2>6. s \ {x} \in SUBSET S
    OBVIOUS
  <2>7. sum[s] = x + sum[s \ {x}] /\ g[s] = x + g[s \ {x}]
    BY <1>3, <1>6, <2>4, <2>5
  <2>8. Cardinality(s \ {x}) \in Sizes
    BY <1>7, <2>3, <2>6, <2>7
  <2>9. Cardinality(s \ {x}) = n - 1
    BY <1>8, <2>3, <2>5, FS_RemoveElement
  <2> QED BY <2>1, <2>2, <2>8, <2>9
<1>10. sum[S] = g[S]
  BY <1>7, <1>9
<1> QED BY <1>1, <1>10 DEF g
-----------------------------------------------------------------------------
\* The bit of a power, in a number of sixteen bits
LEMMA BitAt ==
  ASSUME NEW q \in Powers, NEW low \in Nat, low < q, NEW x \in {0, 1}, NEW high \in Nat
  PROVE  ((low + q * (x + 2 * high)) \div q) % 2 = x
<1>1. \A m \in Int : m = x + 2 * high => m % 2 = x
  BY SMT
<1>2. CASE q = 1
  <2>1. (low + 1 * (x + 2 * high)) \div 1 = x + 2 * high
    BY SMT, <1>2
  <2> QED BY <1>1, <1>2, <2>1
<1>3. CASE q = 2
  <2>1. (low + 2 * (x + 2 * high)) \div 2 = x + 2 * high
    BY SMT, <1>3
  <2> QED BY <1>1, <1>3, <2>1
<1>4. CASE q = 4
  <2>1. (low + 4 * (x + 2 * high)) \div 4 = x + 2 * high
    BY SMT, <1>4
  <2> QED BY <1>1, <1>4, <2>1
<1>5. CASE q = 8
  <2>1. (low + 8 * (x + 2 * high)) \div 8 = x + 2 * high
    BY SMT, <1>5
  <2> QED BY <1>1, <1>5, <2>1
<1>6. CASE q = 16
  <2>1. (low + 16 * (x + 2 * high)) \div 16 = x + 2 * high
    BY SMT, <1>6
  <2> QED BY <1>1, <1>6, <2>1
<1>7. CASE q = 32
  <2>1. (low + 32 * (x + 2 * high)) \div 32 = x + 2 * high
    BY SMT, <1>7
  <2> QED BY <1>1, <1>7, <2>1
<1>8. CASE q = 64
  <2>1. (low + 64 * (x + 2 * high)) \div 64 = x + 2 * high
    BY SMT, <1>8
  <2> QED BY <1>1, <1>8, <2>1
<1>9. CASE q = 128
  <2>1. (low + 128 * (x + 2 * high)) \div 128 = x + 2 * high
    BY SMT, <1>9
  <2> QED BY <1>1, <1>9, <2>1
<1>10. CASE q = 256
  <2>1. (low + 256 * (x + 2 * high)) \div 256 = x + 2 * high
    BY SMT, <1>10
  <2> QED BY <1>1, <1>10, <2>1
<1>11. CASE q = 512
  <2>1. (low + 512 * (x + 2 * high)) \div 512 = x + 2 * high
    BY SMT, <1>11
  <2> QED BY <1>1, <1>11, <2>1
<1>12. CASE q = 1024
  <2>1. (low + 1024 * (x + 2 * high)) \div 1024 = x + 2 * high
    BY SMT, <1>12
  <2> QED BY <1>1, <1>12, <2>1
<1>13. CASE q = 2048
  <2>1. (low + 2048 * (x + 2 * high)) \div 2048 = x + 2 * high
    BY SMT, <1>13
  <2> QED BY <1>1, <1>13, <2>1
<1>14. CASE q = 4096
  <2>1. (low + 4096 * (x + 2 * high)) \div 4096 = x + 2 * high
    BY SMT, <1>14
  <2> QED BY <1>1, <1>14, <2>1
<1>15. CASE q = 8192
  <2>1. (low + 8192 * (x + 2 * high)) \div 8192 = x + 2 * high
    BY SMT, <1>15
  <2> QED BY <1>1, <1>15, <2>1
<1>16. CASE q = 16384
  <2>1. (low + 16384 * (x + 2 * high)) \div 16384 = x + 2 * high
    BY SMT, <1>16
  <2> QED BY <1>1, <1>16, <2>1
<1>17. CASE q = 32768
  <2>1. (low + 32768 * (x + 2 * high)) \div 32768 = x + 2 * high
    BY SMT, <1>17
  <2> QED BY <1>1, <1>17, <2>1
<1> QED BY <1>2, <1>3, <1>4, <1>5, <1>6, <1>7, <1>8, <1>9, <1>10, <1>11, <1>12, <1>13, <1>14
      , <1>15, <1>16, <1>17 DEF Powers

\* The sum of some powers has just their bits.
LEMMA TermIs ==
  ASSUME NEW S
  PROVE  \A q \in Powers : \E x \in {0, 1} : Term(S, q) = q * x /\ (x = 1 <=> q \in S)
BY DEF Term, Powers

Odd(n, q) == (n \div q) % 2 = 1
\* The sum of some powers of two is a short whose bits are those powers, and no others.
LEMMA BitsOfSum ==
  \A S \in SUBSET Powers : \A m \in {Low(S) + High(S)} :
    /\ m \in Nat /\ m < 65536 /\ ((\A q \in S : q < 256) => m < 256)
    /\ \A q \in Powers : Odd(m, q) <=> q \in S
<1> SUFFICES ASSUME NEW S \in SUBSET Powers
             PROVE  LET n == Low(S) + High(S)
                    IN  /\ n \in Nat /\ n < 65536 /\ ((\A q \in S : q < 256) => n < 256)
                        /\ \A q \in Powers : (n \div q) % 2 = 1 <=> q \in S
  BY DEF Odd
<1>1. PICK x0 \in {0, 1} : Term(S, 1) = 1 * x0 /\ (x0 = 1 <=> 1 \in S)
  BY TermIs DEF Powers
<1>2. PICK x1 \in {0, 1} : Term(S, 2) = 2 * x1 /\ (x1 = 1 <=> 2 \in S)
  BY TermIs DEF Powers
<1>3. PICK x2 \in {0, 1} : Term(S, 4) = 4 * x2 /\ (x2 = 1 <=> 4 \in S)
  BY TermIs DEF Powers
<1>4. PICK x3 \in {0, 1} : Term(S, 8) = 8 * x3 /\ (x3 = 1 <=> 8 \in S)
  BY TermIs DEF Powers
<1>5. PICK x4 \in {0, 1} : Term(S, 16) = 16 * x4 /\ (x4 = 1 <=> 16 \in S)
  BY TermIs DEF Powers
<1>6. PICK x5 \in {0, 1} : Term(S, 32) = 32 * x5 /\ (x5 = 1 <=> 32 \in S)
  BY TermIs DEF Powers
<1>7. PICK x6 \in {0, 1} : Term(S, 64) = 64 * x6 /\ (x6 = 1 <=> 64 \in S)
  BY TermIs DEF Powers
<1>8. PICK x7 \in {0, 1} : Term(S, 128) = 128 * x7 /\ (x7 = 1 <=> 128 \in S)
  BY TermIs DEF Powers
<1>9. PICK x8 \in {0, 1} : Term(S, 256) = 256 * x8 /\ (x8 = 1 <=> 256 \in S)
  BY TermIs DEF Powers
<1>10. PICK x9 \in {0, 1} : Term(S, 512) = 512 * x9 /\ (x9 = 1 <=> 512 \in S)
  BY TermIs DEF Powers
<1>11. PICK x10 \in {0, 1} : Term(S, 1024) = 1024 * x10 /\ (x10 = 1 <=> 1024 \in S)
  BY TermIs DEF Powers
<1>12. PICK x11 \in {0, 1} : Term(S, 2048) = 2048 * x11 /\ (x11 = 1 <=> 2048 \in S)
  BY TermIs DEF Powers
<1>13. PICK x12 \in {0, 1} : Term(S, 4096) = 4096 * x12 /\ (x12 = 1 <=> 4096 \in S)
  BY TermIs DEF Powers
<1>14. PICK x13 \in {0, 1} : Term(S, 8192) = 8192 * x13 /\ (x13 = 1 <=> 8192 \in S)
  BY TermIs DEF Powers
<1>15. PICK x14 \in {0, 1} : Term(S, 16384) = 16384 * x14 /\ (x14 = 1 <=> 16384 \in S)
  BY TermIs DEF Powers
<1>16. PICK x15 \in {0, 1} : Term(S, 32768) = 32768 * x15 /\ (x15 = 1 <=> 32768 \in S)
  BY TermIs DEF Powers
<1> DEFINE n == Low(S) + High(S)
<1>17. n = x0 + 2 * x1 + 4 * x2 + 8 * x3 + 16 * x4 + 32 * x5 + 64 * x6 + 128 * x7 + 256 * x8
           + 512 * x9 + 1024 * x10 + 2048 * x11 + 4096 * x12 + 8192 * x13 + 16384 * x14
           + 32768 * x15
  BY <1>1, <1>2, <1>3, <1>4, <1>5, <1>6, <1>7, <1>8, <1>9, <1>10, <1>11, <1>12, <1>13, <1>14
     , <1>15, <1>16 DEF Low, High
<1> HIDE DEF n
<1>18. n \in Nat /\ n < 65536
  BY <1>17
<1>19. ASSUME \A q \in S : q < 256 PROVE n < 256
  <2>1. x8 = 0 /\ x9 = 0 /\ x10 = 0 /\ x11 = 0 /\ x12 = 0 /\ x13 = 0 /\ x14 = 0 /\ x15 = 0
    BY <1>19, <1>9, <1>10, <1>11, <1>12, <1>13, <1>14, <1>15, <1>16
  <2> QED BY <1>17, <2>1
<1>20. (n \div 1) % 2 = x0
  <2> DEFINE low == 0
             high == x1 + 2 * x2 + 4 * x3 + 8 * x4 + 16 * x5 + 32 * x6 + 64 * x7 + 128 * x8
                     + 256 * x9 + 512 * x10 + 1024 * x11 + 2048 * x12 + 4096 * x13
                     + 8192 * x14 + 16384 * x15
  <2>1. low \in Nat /\ high \in Nat /\ low < 1 /\ n = low + 1 * (x0 + 2 * high)
    BY <1>17
  <2>2. 1 \in Powers
    BY DEF Powers
  <2> HIDE DEF low, high
  <2> QED BY <2>1, <2>2, BitAt
<1>21. (n \div 2) % 2 = x1
  <2> DEFINE low == x0
             high == x2 + 2 * x3 + 4 * x4 + 8 * x5 + 16 * x6 + 32 * x7 + 64 * x8 + 128 * x9
                     + 256 * x10 + 512 * x11 + 1024 * x12 + 2048 * x13 + 4096 * x14
                     + 8192 * x15
  <2>1. low \in Nat /\ high \in Nat /\ low < 2 /\ n = low + 2 * (x1 + 2 * high)
    BY <1>17
  <2>2. 2 \in Powers
    BY DEF Powers
  <2> HIDE DEF low, high
  <2> QED BY <2>1, <2>2, BitAt
<1>22. (n \div 4) % 2 = x2
  <2> DEFINE low == x0 + 2 * x1
             high == x3 + 2 * x4 + 4 * x5 + 8 * x6 + 16 * x7 + 32 * x8 + 64 * x9 + 128 * x10
                     + 256 * x11 + 512 * x12 + 1024 * x13 + 2048 * x14 + 4096 * x15
  <2>1. low \in Nat /\ high \in Nat /\ low < 4 /\ n = low + 4 * (x2 + 2 * high)
    BY <1>17
  <2>2. 4 \in Powers
    BY DEF Powers
  <2> HIDE DEF low, high
  <2> QED BY <2>1, <2>2, BitAt
<1>23. (n \div 8) % 2 = x3
  <2> DEFINE low == x0 + 2 * x1 + 4 * x2
             high == x4 + 2 * x5 + 4 * x6 + 8 * x7 + 16 * x8 + 32 * x9 + 64 * x10
                     + 128 * x11 + 256 * x12 + 512 * x13 + 1024 * x14 + 2048 * x15
  <2>1. low \in Nat /\ high \in Nat /\ low < 8 /\ n = low + 8 * (x3 + 2 * high)
    BY <1>17
  <2>2. 8 \in Powers
    BY DEF Powers
  <2> HIDE DEF low, high
  <2> QED BY <2>1, <2>2, BitAt
<1>24. (n \div 16) % 2 = x4
  <2> DEFINE low == x0 + 2 * x1 + 4 * x2 + 8 * x3
             high == x5 + 2 * x6 + 4 * x7 + 8 * x8 + 16 * x9 + 32 * x10 + 64 * x11
                     + 128 * x12 + 256 * x13 + 512 * x14 + 1024 * x15
  <2>1. low \in Nat /\ high \in Nat /\ low < 16 /\ n = low + 16 * (x4 + 2 * high)
    BY <1>17
  <2>2. 16 \in Powers
    BY DEF Powers
  <2> HIDE DEF low, high
  <2> QED BY <2>1, <2>2, BitAt
<1>25. (n \div 32) % 2 = x5
  <2> DEFINE low == x0 + 2 * x1 + 4 * x2 + 8 * x3 + 16 * x4
             high == x6 + 2 * x7 + 4 * x8 + 8 * x9 + 16 * x10 + 32 * x11 + 64 * x12
                     + 128 * x13 + 256 * x14 + 512 * x15
  <2>1. low \in Nat /\ high \in Nat /\ low < 32 /\ n = low + 32 * (x5 + 2 * high)
    BY <1>17
  <2>2. 32 \in Powers
    BY DEF Powers
  <2> HIDE DEF low, high
  <2> QED BY <2>1, <2>2, BitAt
<1>26. (n \div 64) % 2 = x6
  <2> DEFINE low == x0 + 2 * x1 + 4 * x2 + 8 * x3 + 16 * x4 + 32 * x5
             high == x7 + 2 * x8 + 4 * x9 + 8 * x10 + 16 * x11 + 32 * x12 + 64 * x13
                     + 128 * x14 + 256 * x15
  <2>1. low \in Nat /\ high \in Nat /\ low < 64 /\ n = low + 64 * (x6 + 2 * high)
    BY <1>17
  <2>2. 64 \in Powers
    BY DEF Powers
  <2> HIDE DEF low, high
  <2> QED BY <2>1, <2>2, BitAt
<1>27. (n \div 128) % 2 = x7
  <2> DEFINE low == x0 + 2 * x1 + 4 * x2 + 8 * x3 + 16 * x4 + 32 * x5 + 64 * x6
             high == x8 + 2 * x9 + 4 * x10 + 8 * x11 + 16 * x12 + 32 * x13 + 64 * x14
                     + 128 * x15
  <2>1. low \in Nat /\ high \in Nat /\ low < 128 /\ n = low + 128 * (x7 + 2 * high)
    BY <1>17
  <2>2. 128 \in Powers
    BY DEF Powers
  <2> HIDE DEF low, high
  <2> QED BY <2>1, <2>2, BitAt
<1>28. (n \div 256) % 2 = x8
  <2> DEFINE low == x0 + 2 * x1 + 4 * x2 + 8 * x3 + 16 * x4 + 32 * x5 + 64 * x6 + 128 * x7
             high == x9 + 2 * x10 + 4 * x11 + 8 * x12 + 16 * x13 + 32 * x14 + 64 * x15
  <2>1. low \in Nat /\ high \in Nat /\ low < 256 /\ n = low + 256 * (x8 + 2 * high)
    BY <1>17
  <2>2. 256 \in Powers
    BY DEF Powers
  <2> HIDE DEF low, high
  <2> QED BY <2>1, <2>2, BitAt
<1>29. (n \div 512) % 2 = x9
  <2> DEFINE low == x0 + 2 * x1 + 4 * x2 + 8 * x3 + 16 * x4 + 32 * x5 + 64 * x6 + 128 * x7
                    + 256 * x8
             high == x10 + 2 * x11 + 4 * x12 + 8 * x13 + 16 * x14 + 32 * x15
  <2>1. low \in Nat /\ high \in Nat /\ low < 512 /\ n = low + 512 * (x9 + 2 * high)
    BY <1>17
  <2>2. 512 \in Powers
    BY DEF Powers
  <2> HIDE DEF low, high
  <2> QED BY <2>1, <2>2, BitAt
<1>30. (n \div 1024) % 2 = x10
  <2> DEFINE low == x0 + 2 * x1 + 4 * x2 + 8 * x3 + 16 * x4 + 32 * x5 + 64 * x6 + 128 * x7
                    + 256 * x8 + 512 * x9
             high == x11 + 2 * x12 + 4 * x13 + 8 * x14 + 16 * x15
  <2>1. low \in Nat /\ high \in Nat /\ low < 1024 /\ n = low + 1024 * (x10 + 2 * high)
    BY <1>17
  <2>2. 1024 \in Powers
    BY DEF Powers
  <2> HIDE DEF low, high
  <2> QED BY <2>1, <2>2, BitAt
<1>31. (n \div 2048) % 2 = x11
  <2> DEFINE low == x0 + 2 * x1 + 4 * x2 + 8 * x3 + 16 * x4 + 32 * x5 + 64 * x6 + 128 * x7
                    + 256 * x8 + 512 * x9 + 1024 * x10
             high == x12 + 2 * x13 + 4 * x14 + 8 * x15
  <2>1. low \in Nat /\ high \in Nat /\ low < 2048 /\ n = low + 2048 * (x11 + 2 * high)
    BY <1>17
  <2>2. 2048 \in Powers
    BY DEF Powers
  <2> HIDE DEF low, high
  <2> QED BY <2>1, <2>2, BitAt
<1>32. (n \div 4096) % 2 = x12
  <2> DEFINE low == x0 + 2 * x1 + 4 * x2 + 8 * x3 + 16 * x4 + 32 * x5 + 64 * x6 + 128 * x7
                    + 256 * x8 + 512 * x9 + 1024 * x10 + 2048 * x11
             high == x13 + 2 * x14 + 4 * x15
  <2>1. low \in Nat /\ high \in Nat /\ low < 4096 /\ n = low + 4096 * (x12 + 2 * high)
    BY <1>17
  <2>2. 4096 \in Powers
    BY DEF Powers
  <2> HIDE DEF low, high
  <2> QED BY <2>1, <2>2, BitAt
<1>33. (n \div 8192) % 2 = x13
  <2> DEFINE low == x0 + 2 * x1 + 4 * x2 + 8 * x3 + 16 * x4 + 32 * x5 + 64 * x6 + 128 * x7
                    + 256 * x8 + 512 * x9 + 1024 * x10 + 2048 * x11 + 4096 * x12
             high == x14 + 2 * x15
  <2>1. low \in Nat /\ high \in Nat /\ low < 8192 /\ n = low + 8192 * (x13 + 2 * high)
    BY <1>17
  <2>2. 8192 \in Powers
    BY DEF Powers
  <2> HIDE DEF low, high
  <2> QED BY <2>1, <2>2, BitAt
<1>34. (n \div 16384) % 2 = x14
  <2> DEFINE low == x0 + 2 * x1 + 4 * x2 + 8 * x3 + 16 * x4 + 32 * x5 + 64 * x6 + 128 * x7
                    + 256 * x8 + 512 * x9 + 1024 * x10 + 2048 * x11 + 4096 * x12
                    + 8192 * x13
             high == x15
  <2>1. low \in Nat /\ high \in Nat /\ low < 16384 /\ n = low + 16384 * (x14 + 2 * high)
    BY <1>17
  <2>2. 16384 \in Powers
    BY DEF Powers
  <2> HIDE DEF low, high
  <2> QED BY <2>1, <2>2, BitAt
<1>35. (n \div 32768) % 2 = x15
  <2> DEFINE low == x0 + 2 * x1 + 4 * x2 + 8 * x3 + 16 * x4 + 32 * x5 + 64 * x6 + 128 * x7
                    + 256 * x8 + 512 * x9 + 1024 * x10 + 2048 * x11 + 4096 * x12
                    + 8192 * x13 + 16384 * x14
             high == 0
  <2>1. low \in Nat /\ high \in Nat /\ low < 32768 /\ n = low + 32768 * (x15 + 2 * high)
    BY <1>17
  <2>2. 32768 \in Powers
    BY DEF Powers
  <2> HIDE DEF low, high
  <2> QED BY <2>1, <2>2, BitAt
<1>36. \A q \in Powers : (n \div q) % 2 = 1 <=> q \in S
  BY <1>1, <1>2, <1>3, <1>4, <1>5, <1>6, <1>7, <1>8, <1>9, <1>10, <1>11, <1>12, <1>13, <1>14
     , <1>15, <1>16, <1>20, <1>21, <1>22, <1>23, <1>24, <1>25, <1>26, <1>27, <1>28, <1>29
     , <1>30, <1>31, <1>32, <1>33, <1>34, <1>35 DEF Powers
<1> QED BY <1>18, <1>19, <1>36 DEF n

Short == {n \in Nat : n < 65536}
Beyond == 16 .. 30
\* A short has no bit beyond its sixteen.
LEMMA NoBitsBeyond ==
  ASSUME NEW n \in Short, NEW b \in Beyond PROVE ~Odd(n, 2^b)
<1> n \in Nat /\ n < 65536 /\ b \in 16 .. 30
  BY DEF Short, Beyond
<1>1. CASE b = 16
  <2>1. n \div 2^16 = 0
    BY SMT
  <2>2. ~Odd(n, 2^b)
    BY <1>1, <2>1 DEF Odd
  <2> QED BY <2>2
<1>2. CASE b = 17
  <2>1. n \div 2^17 = 0
    BY SMT
  <2>2. ~Odd(n, 2^b)
    BY <1>2, <2>1 DEF Odd
  <2> QED BY <2>2
<1>3. CASE b = 18
  <2>1. n \div 2^18 = 0
    BY SMT
  <2>2. ~Odd(n, 2^b)
    BY <1>3, <2>1 DEF Odd
  <2> QED BY <2>2
<1>4. CASE b = 19
  <2>1. n \div 2^19 = 0
    BY SMT
  <2>2. ~Odd(n, 2^b)
    BY <1>4, <2>1 DEF Odd
  <2> QED BY <2>2
<1>5. CASE b = 20
  <2>1. n \div 2^20 = 0
    BY SMT
  <2>2. ~Odd(n, 2^b)
    BY <1>5, <2>1 DEF Odd
  <2> QED BY <2>2
<1>6. CASE b = 21
  <2>1. n \div 2^21 = 0
    BY SMT
  <2>2. ~Odd(n, 2^b)
    BY <1>6, <2>1 DEF Odd
  <2> QED BY <2>2
<1>7. CASE b = 22
  <2>1. n \div 2^22 = 0
    BY SMT
  <2>2. ~Odd(n, 2^b)
    BY <1>7, <2>1 DEF Odd
  <2> QED BY <2>2
<1>8. CASE b = 23
  <2>1. n \div 2^23 = 0
    BY SMT
  <2>2. ~Odd(n, 2^b)
    BY <1>8, <2>1 DEF Odd
  <2> QED BY <2>2
<1>9. CASE b = 24
  <2>1. n \div 2^24 = 0
    BY SMT
  <2>2. ~Odd(n, 2^b)
    BY <1>9, <2>1 DEF Odd
  <2> QED BY <2>2
<1>10. CASE b = 25
  <2>1. n \div 2^25 = 0
    BY SMT
  <2>2. ~Odd(n, 2^b)
    BY <1>10, <2>1 DEF Odd
  <2> QED BY <2>2
<1>11. CASE b = 26
  <2>1. n \div 2^26 = 0
    BY SMT
  <2>2. ~Odd(n, 2^b)
    BY <1>11, <2>1 DEF Odd
  <2> QED BY <2>2
<1>12. CASE b = 27
  <2>1. n \div 2^27 = 0
    BY SMT
  <2>2. ~Odd(n, 2^b)
    BY <1>12, <2>1 DEF Odd
  <2> QED BY <2>2
<1>13. CASE b = 28
  <2>1. n \div 2^28 = 0
    BY SMT
  <2>2. ~Odd(n, 2^b)
    BY <1>13, <2>1 DEF Odd
  <2> QED BY <2>2
<1>14. CASE b = 29
  <2>1. n \div 2^29 = 0
    BY SMT
  <2>2. ~Odd(n, 2^b)
    BY <1>14, <2>1 DEF Odd
  <2> QED BY <2>2
<1>15. CASE b = 30
  <2>1. n \div 2^30 = 0
    BY SMT
  <2>2. ~Odd(n, 2^b)
    BY <1>15, <2>1 DEF Odd
  <2> QED BY <2>2
<1> QED BY <1>1, <1>2, <1>3, <1>4, <1>5, <1>6, <1>7, <1>8, <1>9, <1>10, <1>11, <1>12, <1>13
      , <1>14, <1>15

\* The bits and their powers
Table ==
  {<<0, 1>>, <<1, 2>>, <<2, 4>>, <<3, 8>>, <<4, 16>>, <<5, 32>>, <<6, 64>>, <<7, 128>>
   , <<8, 256>>, <<9, 512>>, <<10, 1024>>, <<11, 2048>>, <<12, 4096>>, <<13, 8192>>
   , <<14, 16384>>, <<15, 32768>>}

\* The table of powers of two, both ways.
LEMMA PowerOf ==
  /\ \A b \in 0 .. 15 : <<b, 2^b>> \in Table
  /\ \A t \in Table : t[1] \in 0 .. 15 /\ t[2] = 2^t[1] /\ t[2] \in Powers
  /\ \A t, u \in Table : t[2] = u[2] => t[1] = u[1]
  /\ \A t \in Table : t[1] < 8 => t[2] < 256
<1>1. 2^0 = 1 /\ 2^1 = 2 /\ 2^2 = 4 /\ 2^3 = 8 /\ 2^4 = 16 /\ 2^5 = 32 /\ 2^6 = 64
      /\ 2^7 = 128 /\ 2^8 = 256 /\ 2^9 = 512 /\ 2^10 = 1024 /\ 2^11 = 2048 /\ 2^12 = 4096
      /\ 2^13 = 8192 /\ 2^14 = 16384 /\ 2^15 = 32768
  BY SMT
<1>2. \A t \in Table : t[1] \in 0 .. 15 /\ t[2] \in Powers /\ (t[1] < 8 => t[2] < 256)
  BY DEF Table, Powers
<1>3. \A t, u \in Table : t[2] = u[2] => t[1] = u[1]
  BY DEF Table
<1>4. ASSUME NEW b \in 0 .. 15 PROVE <<b, 2^b>> \in Table
  <2>1. b = 0 \/ b = 1 \/ b = 2 \/ b = 3 \/ b = 4 \/ b = 5 \/ b = 6 \/ b = 7 \/ b = 8
        \/ b = 9 \/ b = 10 \/ b = 11 \/ b = 12 \/ b = 13 \/ b = 14 \/ b = 15
    OBVIOUS
  <2>2. CASE b = 0
    BY <1>1, <2>2 DEF Table
  <2>3. CASE b = 1
    BY <1>1, <2>3 DEF Table
  <2>4. CASE b = 2
    BY <1>1, <2>4 DEF Table
  <2>5. CASE b = 3
    BY <1>1, <2>5 DEF Table
  <2>6. CASE b = 4
    BY <1>1, <2>6 DEF Table
  <2>7. CASE b = 5
    BY <1>1, <2>7 DEF Table
  <2>8. CASE b = 6
    BY <1>1, <2>8 DEF Table
  <2>9. CASE b = 7
    BY <1>1, <2>9 DEF Table
  <2>10. CASE b = 8
    BY <1>1, <2>10 DEF Table
  <2>11. CASE b = 9
    BY <1>1, <2>11 DEF Table
  <2>12. CASE b = 10
    BY <1>1, <2>12 DEF Table
  <2>13. CASE b = 11
    BY <1>1, <2>13 DEF Table
  <2>14. CASE b = 12
    BY <1>1, <2>14 DEF Table
  <2>15. CASE b = 13
    BY <1>1, <2>15 DEF Table
  <2>16. CASE b = 14
    BY <1>1, <2>16 DEF Table
  <2>17. CASE b = 15
    BY <1>1, <2>17 DEF Table
  <2> QED BY <2>1, <2>2, <2>3, <2>4, <2>5, <2>6, <2>7, <2>8, <2>9, <2>10, <2>11, <2>12, <2>13
            , <2>14, <2>15, <2>16, <2>17
<1>5. \A t \in Table : \A b \in 0 .. 15 : t[1] = b => t[2] = 2^b
  <2> SUFFICES ASSUME NEW t \in Table, NEW b \in 0 .. 15, t[1] = b PROVE t[2] = 2^b
    OBVIOUS
  <2>1. <<b, 2^b>> \in Table
    BY <1>4
  <2>2. \A u \in Table : u[1] = t[1] => u[2] = t[2]
    BY DEF Table
  <2> QED BY <2>1, <2>2
<1> QED BY <1>2, <1>3, <1>4, <1>5

\* A set of flags is read as the set that was written, and sixteen flags need two bytes,
\* eight flags one: the order in which the sum takes them is of no matter.
THEOREM FlagsArrive ==
  ASSUME NEW B \in SUBSET (0 .. 15)
  PROVE  LET n == SumSet({2^b : b \in B})
         IN  /\ n \in Nat /\ n < 65536 /\ (B \subseteq 0 .. 7 => n < 256)
             /\ BitsOf(n) = B
<1>1. PICK S : S = {2^b : b \in B}
  OBVIOUS
<1>2. S \in SUBSET Powers /\ (\A b \in 0 .. 15 : 2^b \in S <=> b \in B)
  BY <1>1, PowerOf
<1>3. B \subseteq 0 .. 7 => \A q \in S : q < 256
  BY <1>1, PowerOf
<1>4. PICK n : n = SumSet(S)
  OBVIOUS
<1>5. n = Low(S) + High(S)
  BY <1>2, <1>4, SumOfPowers
<1>6. /\ n \in Nat /\ n < 65536 /\ ((\A q \in S : q < 256) => n < 256)
      /\ \A q \in Powers : Odd(n, q) <=> q \in S
  <2>1. S \in SUBSET Powers /\ n \in {Low(S) + High(S)}
    BY <1>2, <1>5
  <2> QED BY ONLY <2>1, BitsOfSum
<1>7. ASSUME NEW b \in 0 .. 30 PROVE Odd(n, 2^b) <=> b \in B
  <2>1. CASE b \in 0 .. 15
    <3>1. PICK q : q = 2^b
      OBVIOUS
    <3>2. q \in Powers /\ (q \in S <=> b \in B)
      BY <1>2, <2>1, <3>1, PowerOf
    <3>3. Odd(n, q) <=> b \in B
      BY ONLY <1>6, <3>2
    <3> QED BY <3>1, <3>3
  <2>2. CASE b \in 16 .. 30
    <3>1. ~Odd(n, 2^b)
      <4>1. n \in Short /\ b \in Beyond
        BY <1>6, <2>2 DEF Short, Beyond
      <4> QED BY ONLY <4>1, NoBitsBeyond, Zenon
    <3>2. b \notin B
      BY <2>2
    <3> QED BY <3>1, <3>2
  <2> QED BY <2>1, <2>2
<1>8. BitsOf(n) = B
  <2>1. B \in SUBSET (0 .. 30)
    OBVIOUS
  <2> QED BY <1>7, <2>1 DEF BitsOf, Odd
<1> QED BY <1>1, <1>3, <1>4, <1>6, <1>8
-----------------------------------------------------------------------------
\* What is on the wire: no type sends anything but a number
Items == [w : Nat, v : Int]

\* Every row that is present goes with the reader's, and has a value in its range.
Suitable(in, out, bits, val) ==
  \A i \in 1 .. Len(in) : IsPresent(in[i], bits) =>
    GoesWith(in[i].type, out[i].type) /\ val[in[i].field] \in Values(in[i].type)

\* A reader that was at got has read what was written of the rows, and nothing else
HasRead(now, got, rest, in, bits, val) ==
  /\ Reading(now) /\ now.in = rest
  /\ \A i \in 1 .. Len(in) : IsPresent(in[i], bits) =>
       in[i].field \in DOMAIN now.got /\ now.got[in[i].field] = val[in[i].field]
  /\ \A f \in DOMAIN got :
       (\A i \in 1 .. Len(in) : IsPresent(in[i], bits) => in[i].field # f) =>
         f \in DOMAIN now.got /\ now.got[f] = got[f]
  /\ \A f \in DOMAIN now.got :
       f \in DOMAIN got \/ \E i \in 1 .. Len(in) : IsPresent(in[i], bits) /\ in[i].field = f

\* What is written of a value is an item.
LEMMA NumberSent ==
  ASSUME NEW in, NEW out, GoesWith(in, out), NEW v \in Values(in)
  PROVE  Item(out, v) \in Items
<1>1. in \in PlainTypes /\ out \in PlainTypes /\ Scale(in) = Scale(out) /\ Width(in) = Width(out)
  BY DEF GoesWith
<1>2. PICK n \in Units(in) : v = Scale(out) * n
  BY <1>1 DEF Values
<1>3. n \in Int
  BY <1>2 DEF Units
<1>4. Width(out) \in {1, 2, 4} /\ Item(out, v) = [w |-> Width(out), v |-> OnWire(Width(out), n)]
  <2>1. Width(out) \in {1, 2, 4}
    BY <1>1, SMT DEF PlainTypes, Width, ByteTypes
  <2>2. Encode(out, v) = OnWire(Width(out), n)
    BY <1>1, <1>2, <1>3, Writes
  <2>3. Item(out, v) = [w |-> Width(out), v |-> Encode(out, v)]
    BY <1>1, PlainItem
  <2> QED BY <2>1, <2>2, <2>3
<1>5. OnWire(Width(out), n) \in Int
  BY <1>3, <1>4 DEF OnWire
<1> QED BY <1>4, <1>5 DEF Items

\* Rows of a writer that a reader has too, in the same order and for the same bits, arrive
\* whatever bits are set: the reader is in step, has every value that was sent, and of the
\* other fields what it had.
THEOREM AgreeingRowsArrive ==
  ASSUME NEW I, NEW in \in Seq(I), NEW O, NEW out \in Seq(O), Matched(in, out), Alone(in),
         NEW bits, NEW val, Suitable(in, out, bits, val),
         NEW S, NEW rest \in Seq(S), NEW got
  PROVE  LET w   == WriteRows(out, bits, val)
             now == ReadRows([in |-> w.wire \o rest, got |-> got, ok |-> TRUE], in, bits)
         IN  /\ ~w.err /\ w.wire \in Seq(Items)
             /\ HasRead(now, got, rest, in, bits, val)
<1>1. PICK a \in Seq(I) : a = Present(in, bits)
  BY PresentAgree
<1>2. PICK b \in Seq(O) : b = Present(out, bits)
  BY PresentAgree
<1>3. Agreeing(in, out, bits, Len(in), a, b)
  BY <1>1, <1>2, PresentAgree
<1>4. /\ Len(a) = Len(b) /\ Len(a) \in Nat
      /\ \A k \in 1 .. Len(a) : \E j \in 1 .. Len(in) :
           IsPresent(in[j], bits) /\ a[k] = in[j] /\ b[k] = out[j]
      /\ \A j \in 1 .. Len(in) : IsPresent(in[j], bits) => \E k \in 1 .. Len(a) : a[k] = in[j]
      /\ \A k, l \in 1 .. Len(a) : a[k].field = a[l].field => k = l
  <2>1. Len(a) \in Nat
    OBVIOUS
  <2> QED BY <1>3, <2>1, Zenon DEF Agreeing
<1>5. ASSUME NEW k \in 1 .. Len(a)
      PROVE  /\ a[k].field = b[k].field
             /\ GoesWith(a[k].type, b[k].type) /\ val[b[k].field] \in Values(a[k].type)
             /\ Item(b[k].type, val[b[k].field]) \in Items
  <2>1. PICK j \in 1 .. Len(in) : IsPresent(in[j], bits) /\ a[k] = in[j] /\ b[k] = out[j]
    BY <1>4
  <2>2. in[j].field = out[j].field
    BY <2>1 DEF Matched
  <2>3. GoesWith(in[j].type, out[j].type) /\ val[in[j].field] \in Values(in[j].type)
    BY <2>1 DEF Suitable
  <2>4. GoesWith(a[k].type, b[k].type) /\ val[b[k].field] \in Values(a[k].type)
    BY <2>1, <2>2, <2>3
  <2> QED BY <2>1, <2>2, <2>4, NumberSent
<1>6. Answers(a, b) /\ Holds(a, b, val)
  BY <1>4, <1>5 DEF Answers, Holds
<1>7. Fitting(a, b, val)
  BY <1>6, HoldsFits
<1> DEFINE w == WriteRows(out, bits, val)
           now == ReadRows([in |-> w.wire \o rest, got |-> got, ok |-> TRUE], in, bits)
<1>8. /\ ~w.err /\ w.wire = [i \in 1 .. Len(b) |-> Item(b[i].type, val[b[i].field])]
      /\ Reading(now) /\ now.in = rest
      /\ DOMAIN now.got = DOMAIN got \cup {a[i].field : i \in 1 .. Len(a)}
      /\ \A f \in DOMAIN got :
           (\A i \in 1 .. Len(a) : a[i].field # f) => now.got[f] = got[f]
      /\ \A i \in 1 .. Len(a) : now.got[a[i].field] = val[a[i].field]
  <2>1. PICK R : a \in Seq(R) /\ b \in Seq(R)
    <3>1. a \in Seq(I \cup O) /\ b \in Seq(I \cup O)
      OBVIOUS
    <3> QED BY <3>1, Zenon
  <2>2. Present(in, bits) = a /\ Present(out, bits) = b
    BY <1>1, <1>2
  <2>3. Answers(a, b) /\ Fitting(a, b, val) /\ Holds(a, b, val) /\ rest \in Seq(S)
    BY <1>6, <1>7
  <2>4. Arrived(w, now, a, b, val, rest, got)
    BY ONLY <2>1, <2>2, <2>3, RowsArrive, Zenon
  <2> HIDE DEF w, now
  <2> QED BY <2>3, <2>4 DEF Arrived
<1> HIDE DEF w, now
<1>9. w.wire \in Seq(Items)
  BY <1>4, <1>5, <1>8
<1>10. HasRead(now, got, rest, in, bits, val)
  <2>1. ASSUME NEW i \in 1 .. Len(in), IsPresent(in[i], bits)
        PROVE  in[i].field \in DOMAIN now.got /\ now.got[in[i].field] = val[in[i].field]
    <3>1. PICK k \in 1 .. Len(a) : a[k] = in[i]
      BY <1>4, <2>1
    <3> QED BY <1>8, <3>1
  <2>2. ASSUME NEW k \in 1 .. Len(a)
        PROVE  \E i \in 1 .. Len(in) : IsPresent(in[i], bits) /\ in[i].field = a[k].field
    BY <1>4
  <2>3. ASSUME NEW f \in DOMAIN got,
               \A i \in 1 .. Len(in) : IsPresent(in[i], bits) => in[i].field # f
        PROVE  f \in DOMAIN now.got /\ now.got[f] = got[f]
    <3>1. \A k \in 1 .. Len(a) : a[k].field # f
      BY <2>2, <2>3
    <3> QED BY <1>8, <3>1
  <2>4. ASSUME NEW f \in DOMAIN now.got
        PROVE  f \in DOMAIN got \/ \E i \in 1 .. Len(in) : IsPresent(in[i], bits) /\ in[i].field = f
    <3>1. f \in DOMAIN got \/ \E k \in 1 .. Len(a) : f = a[k].field
      BY <1>8
    <3> QED BY <2>2, <3>1
  <2> QED BY <1>8, <2>1, <2>3, <2>4 DEF HasRead
<1> QED BY <1>8, <1>9, <1>10 DEF w, now
=============================================================================
