----------------------------- MODULE WireFormat -----------------------------
(***************************************************************************)
(* How the messages of q2proto are put on the wire and taken from it.  A   *)
(* message is a sequence of items, each with its width in bytes and its    *)
(* unsigned value: a reader that asks for another width than was written   *)
(* is out of step.  The flags of a message are the set of the numbers of   *)
(* its bits, so that flags that share a bit stay confusable.               *)
(*                                                                         *)
(* What a function writes after its flags is a sequence of rows: the bits  *)
(* that must be set and those that must not, the field and its type.  The  *)
(* reader has rows of its own.  A field is a name and a component.         *)
(***************************************************************************)
EXTENDS Integers, Sequences, FiniteSets, SequencesExt, FiniteSetsExt

F(name) == <<name, 0>>
Vec(name, n) == {<<name, i>> : i \in 0 .. n - 1}

Signed(x, bits) == IF x >= 2^(bits - 1) THEN x - 2^bits ELSE x

\* Division as C does it: the quotient is truncated
Quot(a, b) == IF a >= 0 THEN a \div b ELSE -((-a) \div b)

\* A coordinate that is a float has values in 64ths of a unit here, which the
\* conversion to eighths cuts off
Eighths(v) == Quot(v, 8)

\* Bytes of a type.  The value of a 4-byte item is kept as it is, so that it
\* fits into TLC's integers: its sign is not reinterpreted.
ByteTypes == {"u8", "u8max", "i8", "angle8", "by5", "by64", "by256"}
Width(type) ==
  IF type \in ByteTypes THEN 1
  ELSE IF type \in {"u16", "i16", "eighths"} THEN 2
  ELSE IF type \in {"u32", "i32", "float"} THEN 4
  ELSE 0

\* The unsigned value an item of the type has for v: some types send a fraction
Encode(type, v) ==
  LET sent == CASE type = "angle8" -> v \div 256
                [] type = "by5"    -> Quot(v, 5)
                [] type = "by64"   -> Quot(v, 64)
                [] type = "by256"  -> Quot(v, 256)
                [] type = "eighths" -> Eighths(v)
                [] OTHER           -> v
  IN  IF Width(type) \in {1, 2} THEN sent % 256^Width(type) ELSE sent

\* What the reader of the type makes of the unsigned value x
Decode(type, x) ==
  CASE type = "i8"     -> Signed(x, 8)
    [] type = "by5"    -> Signed(x, 8) * 5
    [] type = "by64"   -> Signed(x, 8) * 64
    [] type = "by256"  -> Signed(x, 8) * 256
    [] type = "angle8" -> Signed(x, 8) * 257
    [] type = "i16"    -> Signed(x, 16)
    [] type = "eighths" -> Signed(x, 16) * 8
    [] OTHER           -> x

\* A 23 bit coordinate: <<prev, v>> is sent as a difference in two bytes if it is
\* small, and else as it is in three; the lowest bit tells which
Int23(prev, v) ==
  IF -16384 <= v - prev /\ v - prev < 16384 THEN [w |-> 2, v |-> (2 * (v - prev)) % 2^16]
  ELSE [w |-> 3, v |-> (2 * v + 1) % 2^24]
IsDiff(item) == item.v % 2 = 0
FromInt23(item) == (IF IsDiff(item) THEN Signed(item.v, 16) ELSE Signed(item.v, 24)) \div 2

Item(type, v) ==
  CASE type = "i23"    -> Int23(v[1], v[2])
    [] type = "i23abs" -> Int23(0, v)
    [] OTHER           -> [w |-> Width(type), v |-> Encode(type, v)]

\* Whether the reader of the type takes the item for one of its own, and what it
\* makes of it: a coordinate that may be a difference comes with that fact
Fits(type, item) ==
  IF type \in {"i23", "i23abs"} THEN item.w = IF IsDiff(item) THEN 2 ELSE 3
  ELSE item.w = Width(type)
Taken(type, item) ==
  CASE type = "i23"    -> <<FromInt23(item), IsDiff(item)>>
    [] type = "i23abs" -> FromInt23(item)
    [] OTHER           -> Decode(type, item.v)

\* Raw data is an item as wide as it is long
RawItem(len) == [w |-> 1000 + len, v |-> len]
-----------------------------------------------------------------------------
(* Rows *)
Row(all, none, field, type) ==
  <<[all |-> all, none |-> none, field |-> field, type |-> type]>>
On(bit, name, type) == Row({bit}, {}, F(name), type)
OnElse(bit, no, name, type) == Row({bit}, {no}, F(name), type)
OnComp(bit, name, i, type) == Row({bit}, {}, <<name, i>>, type)
OnVec(bit, name, n, type) ==
  [k \in 1 .. n |-> Row({bit}, {}, <<name, k - 1>>, type)[1]]
\* one of two types, as another bit says
Wide(bit, wide, name, i, type, wideType) ==
  Row({bit, wide}, {}, <<name, i>>, wideType) \o Row({bit}, {wide}, <<name, i>>, type)
Always(name, type) == Row({}, {}, F(name), type)
AlwaysVec(name, n, type) == [k \in 1 .. n |-> Row({}, {}, <<name, k - 1>>, type)[1]]

\* if both bits are set 32 bits, else 16, else 8
OnWidth(b8, b16, name) ==
  Row({b8, b16}, {}, F(name), "u32") \o OnElse(b16, b8, name, "u16")
    \o OnElse(b8, b16, name, "u8")

IsPresent(row, bits) == row.all \subseteq bits /\ row.none \cap bits = {}
Present(rows, bits) ==
  LET upTo[i \in 0 .. Len(rows)] ==
        IF i = 0 THEN <<>>
        ELSE IF IsPresent(rows[i], bits) THEN Append(upTo[i - 1], rows[i]) ELSE upTo[i - 1]
  IN  upTo[Len(rows)]
-----------------------------------------------------------------------------
(* Writing: [err, wire]; with an error the wire ends where it occurred *)
Written(items) == [err |-> FALSE, wire |-> items]
Refused == [err |-> TRUE, wire |-> <<>>]
Then(a, b) == IF a.err THEN a ELSE [err |-> b.err, wire |-> a.wire \o b.wire]

\* The values of fields, with one more
With(val, name, v) ==
  [f \in DOMAIN val \cup {F(name)} |-> IF f = F(name) THEN v ELSE val[f]]

\* "u8max" fields are refused above 255 where they are written
WriteRows(rows, bits, val) ==
  LET out == Present(rows, bits)
      bad == {i \in DOMAIN out : out[i].type = "u8max" /\ val[out[i].field] > 255}
      end == IF bad = {} THEN Len(out) ELSE Min(bad) - 1
  IN  [err  |-> bad # {},
       wire |-> [i \in 1 .. end |-> Item(out[i].type, val[out[i].field])]]

Put(type, v) == Written(<<Item(type, v)>>)
InTurn(parts) ==
  LET upTo[i \in 0 .. Len(parts)] ==
        IF i = 0 THEN Written(<<>>) ELSE Then(upTo[i - 1], parts[i])
  IN  upTo[Len(parts)]
Byte(bits) == Put("u8", SumSet({2^b : b \in bits}))
-----------------------------------------------------------------------------
(* Reading: what is left of the wire, what was read, and whether the       *)
(* reader is in step.                                                      *)
Reader(wire) == [in |-> wire, got |-> [f \in {} |-> 0], ok |-> TRUE]
OutOfStep(r) == [r EXCEPT !.ok = FALSE]

TakeRows(r, in) ==
  IF /\ r.ok
     /\ Len(in) <= Len(r.in)
     /\ \A i \in DOMAIN in : Fits(in[i].type, r.in[i])
  THEN [r EXCEPT !.in = SubSeq(r.in, Len(in) + 1, Len(r.in)),
                 !.got = [f \in DOMAIN r.got \cup {in[i].field : i \in DOMAIN in} |->
                            IF \E i \in DOMAIN in : in[i].field = f
                            THEN LET i == CHOOSE j \in DOMAIN in : in[j].field = f
                                 IN  Taken(in[i].type, r.in[i])
                            ELSE r.got[f]]]
  ELSE OutOfStep(r)
ReadRows(r, rows, bits) == TakeRows(r, Present(rows, bits))

\* Any one item that the reader expects to have the width
GetWide(r, name, width) ==
  IF r.ok /\ r.in # <<>> /\ r.in[1].w = width
  THEN [r EXCEPT !.in = Tail(r.in),
                 !.got = [f \in DOMAIN r.got \cup {F(name)} |->
                            IF f = F(name) THEN r.in[1].v ELSE r.got[f]]]
  ELSE OutOfStep(r)
GetRaw(r, name, lenName) ==
  IF r.ok THEN GetWide(r, name, 1000 + r.got[F(lenName)]) ELSE r

\* Into a field of the message from one of the wire
Decoded(r, name, v) ==
  [r EXCEPT !.got = [f \in DOMAIN r.got \cup {F(name)} |->
                       IF f = F(name) THEN v ELSE r.got[f]]]
Has(r, name) == r.ok /\ F(name) \in DOMAIN r.got

\* A command byte; any other one is bad data
Expect(r, command) ==
  IF r.ok /\ r.in # <<>> /\ r.in[1] = Item("u8", command)
  THEN [r EXCEPT !.in = Tail(r.in)] ELSE OutOfStep(r)

\* One value that decides how to go on is read under a name of its own
Get(r, name, type) == TakeRows(r, Always(name, type))
BitsOf(n) == {b \in 0 .. 30 : (n \div 2^b) % 2 = 1}
Flags(r, name) == IF r.ok THEN BitsOf(r.got[F(name)]) ELSE {}
=============================================================================
