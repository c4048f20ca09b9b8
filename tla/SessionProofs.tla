--------------------------- MODULE SessionProofs ---------------------------
(***************************************************************************)
(* Proof that both sides of a KEX connection hold the same entities for    *)
(* solid between packets, for every packet and any number of entities, and *)
(* that the client hands over what the server wrote, in order and all of   *)
(* it, in every protocol, with packets lost, broken off or compressed;     *)
(* that the parser of the client always knows what to make of what comes   *)
(* next, in every protocol and for packets of any length, and that the     *)
(* server takes each message of the client for what it is.                 *)
(***************************************************************************)
EXTENDS SessionInvariant, NumberLemmas, SequenceTheorems, TLAPS

-----------------------------------------------------------------------------
(* What is tracked after a list of items.  A walk is the function that     *)
(* After builds: what is tracked after each of them.                       *)
Walk(f, n, t, items) ==
  f = [i \in 0 .. n |-> IF i = 0 THEN t ELSE Effect(f[i - 1], items[i])]

\* A walk can be continued ...
LEMMA WalkContinues ==
  ASSUME NEW n \in Nat, NEW t, NEW items, NEW f, Walk(f, n, t, items)
  PROVE  \E g : Walk(g, n + 1, t, items)
<1> DEFINE g == [i \in 0 .. n + 1 |-> IF i = n + 1 THEN Effect(f[n], items[n + 1]) ELSE f[i]]
<1>1. \A i \in 0 .. n : g[i] = f[i]
  OBVIOUS
<1>2. g[n + 1] = Effect(f[n], items[n + 1])
  OBVIOUS
<1>3. \A i \in 0 .. n : f[i] = IF i = 0 THEN t ELSE Effect(f[i - 1], items[i])
  BY Zenon DEF Walk
<1>4. ASSUME NEW i \in 0 .. n + 1
      PROVE  g[i] = IF i = 0 THEN t ELSE Effect(g[i - 1], items[i])
  <2>1. CASE i = n + 1
    <3>1. i - 1 = n /\ n \in 0 .. n /\ i # 0
      BY <2>1
    <3> HIDE DEF g
    <3> QED BY <1>1, <1>2, <2>1, <3>1
  <2>2. CASE i = 0
    <3>1. i \in 0 .. n
      BY <2>2
    <3> HIDE DEF g
    <3> QED BY <1>1, <1>3, <2>2, <3>1
  <2>3. CASE i \in 1 .. n
    <3>1. i \in 0 .. n /\ i - 1 \in 0 .. n /\ i # 0
      BY <2>3
    <3> HIDE DEF g
    <3> QED BY <1>1, <1>3, <3>1
  <2> QED BY <2>1, <2>2, <2>3
<1>5. Walk(g, n + 1, t, items)
  <2>1. g = [i \in 0 .. n + 1 |-> g[i]]
    OBVIOUS
  <2> HIDE DEF g
  <2> QED BY <1>4, <2>1 DEF Walk
<1> QED BY <1>5

\* ... so there is one of every length ...
LEMMA WalkExists ==
  ASSUME NEW n \in Nat, NEW t, NEW items
  PROVE  \E f : Walk(f, n, t, items)
<1>1. PICK S : S = {m \in Nat : ~\E f : Walk(f, m, t, items)}
  OBVIOUS
<1>2. S = {}
  <2> SUFFICES ASSUME S # {} PROVE FALSE
    OBVIOUS
  <2>1. PICK m \in S : \A k \in S : m <= k
    BY <1>1, LeastElement
  <2>2. m \in Nat /\ ~\E f : Walk(f, m, t, items)
    BY <1>1
  <2>3. CASE m = 0
    <3> DEFINE g == [i \in 0 .. 0 |-> t]
    <3>1. Walk(g, 0, t, items)
      BY DEF Walk
    <3> QED BY <2>2, <2>3, <3>1
  <2>4. CASE m # 0
    <3>1. m - 1 \in Nat /\ ~(m <= m - 1) /\ (m - 1) + 1 = m
      BY <2>2, <2>4
    <3>2. \E f : Walk(f, m - 1, t, items)
      BY <1>1, <2>1, <3>1
    <3>3. \E g : Walk(g, (m - 1) + 1, t, items)
      BY <3>1, <3>2, WalkContinues
    <3> QED BY <2>2, <3>1, <3>3
  <2> QED BY <2>3, <2>4
<1> QED BY <1>1, <1>2

\* ... and only one.
LEMMA WalkUnique ==
  ASSUME NEW n \in Nat, NEW t, NEW items,
         NEW f, Walk(f, n, t, items), NEW g, Walk(g, n, t, items)
  PROVE  f[n] = g[n]
<1>1. \A i \in 0 .. n : /\ f[i] = IF i = 0 THEN t ELSE Effect(f[i - 1], items[i])
                        /\ g[i] = IF i = 0 THEN t ELSE Effect(g[i - 1], items[i])
  BY Zenon DEF Walk
<1>2. PICK S : S = {i \in 0 .. n : f[i] # g[i]}
  OBVIOUS
<1>3. S = {}
  <2> SUFFICES ASSUME S # {} PROVE FALSE
    OBVIOUS
  <2>1. S \in SUBSET Nat
    BY <1>2
  <2>2. PICK i \in S : \A k \in S : i <= k
    BY <2>1, LeastElement
  <2>3. i \in 0 .. n /\ f[i] # g[i]
    BY <1>2
  <2>4. i # 0
    BY <1>1, <2>3
  <2>5. i - 1 \in 0 .. n /\ ~(i <= i - 1)
    BY <2>3, <2>4
  <2>6. f[i - 1] = g[i - 1]
    BY <1>2, <2>2, <2>5
  <2> QED BY <1>1, <2>3, <2>4, <2>6
<1>4. n \in 0 .. n
  OBVIOUS
<1> QED BY <1>2, <1>3, <1>4

LEMMA AfterIsWalk ==
  ASSUME NEW t, NEW items, Len(items) \in Nat, NEW f, Walk(f, Len(items), t, items)
  PROVE  After(t, items) = f[Len(items)]
<1> DEFINE after[i \in 0 .. Len(items)] == IF i = 0 THEN t ELSE Effect(after[i - 1], items[i])
<1>1. Walk(after, Len(items), t, items)
  BY Zenon DEF Walk
<1>2. After(t, items) = after[Len(items)]
  BY DEF After
<1> HIDE DEF after
<1> QED BY <1>1, <1>2, WalkUnique

LEMMA AfterNone == \A t : After(t, <<>>) = t
<1> SUFFICES ASSUME NEW t PROVE After(t, <<>>) = t
  OBVIOUS
<1>1. Len(<<>>) = 0 /\ 0 \in Nat /\ 0 \in 0 .. 0
  OBVIOUS
<1>2. PICK f : Walk(f, 0, t, <<>>)
  BY <1>1, WalkExists
<1>3. f[0] = t
  BY <1>1, <1>2 DEF Walk
<1> QED BY <1>1, <1>2, <1>3, AfterIsWalk

\* The first item comes first ...
LEMMA AfterFirst ==
  ASSUME NEW S, NEW items \in Seq(S), items # <<>>, NEW t
  PROVE  After(t, items) = After(Effect(t, Head(items)), Tail(items))
<1> DEFINE n == Len(items) - 1
           rest == Tail(items)
<1>1. /\ n \in Nat /\ Len(items) = n + 1 /\ Len(items) \in Nat /\ Len(rest) = n
      /\ Head(items) = items[1] /\ \A i \in 1 .. n : rest[i] = items[i + 1]
  OBVIOUS
<1> HIDE DEF n, rest
<1>2. PICK f : Walk(f, n + 1, t, items)
  BY <1>1, WalkExists
<1>3. \A i \in 0 .. n + 1 : f[i] = IF i = 0 THEN t ELSE Effect(f[i - 1], items[i])
  BY <1>2, Zenon DEF Walk
<1> DEFINE g == [i \in 0 .. n |-> f[i + 1]]
<1>4. ASSUME NEW i \in 0 .. n
      PROVE  g[i] = IF i = 0 THEN Effect(t, items[1]) ELSE Effect(g[i - 1], rest[i])
  <2>1. i + 1 \in 0 .. n + 1 /\ i + 1 # 0 /\ (i + 1) - 1 = i /\ g[i] = f[i + 1]
    BY <1>1
  <2>2. f[i + 1] = Effect(f[i], items[i + 1])
    BY <1>3, <2>1
  <2>3. CASE i = 0
    <3>1. 0 \in 0 .. n + 1 /\ 0 + 1 = 1
      BY <1>1
    <3>2. f[0] = t
      BY <1>3, <3>1
    <3> HIDE DEF g
    <3> QED BY <2>1, <2>2, <2>3, <3>1, <3>2
  <2>4. CASE i # 0
    <3>1. i \in 1 .. n /\ i - 1 \in 0 .. n /\ (i - 1) + 1 = i
      BY <1>1, <2>4
    <3>2. g[i - 1] = f[i]
      BY <3>1
    <3> HIDE DEF g
    <3> QED BY <1>1, <2>1, <2>2, <2>4, <3>1, <3>2
  <2> QED BY <2>3, <2>4
<1>5. Walk(g, n, Effect(t, items[1]), rest)
  <2>1. g = [i \in 0 .. n |-> g[i]]
    OBVIOUS
  <2> HIDE DEF g
  <2> QED BY <1>4, <2>1 DEF Walk
<1>6. g[n] = f[n + 1]
  <2>1. n \in 0 .. n
    BY <1>1
  <2> QED BY <2>1
<1> HIDE DEF g
<1>7. After(t, items) = f[n + 1]
  BY <1>1, <1>2, AfterIsWalk
<1>8. After(Effect(t, items[1]), rest) = g[n]
  BY <1>1, <1>5, AfterIsWalk
<1> QED BY <1>1, <1>6, <1>7, <1>8 DEF rest

\* ... and the last item last.
LEMMA AfterLast ==
  ASSUME NEW S, NEW items \in Seq(S), NEW x \in S, NEW t
  PROVE  After(t, Append(items, x)) = Effect(After(t, items), x)
<1> DEFINE n == Len(items)
           more == Append(items, x)
<1>1. /\ n \in Nat /\ Len(more) = n + 1 /\ n + 1 \in Nat /\ more[n + 1] = x
      /\ \A i \in 1 .. n : more[i] = items[i]
  OBVIOUS
<1> HIDE DEF n, more
<1>2. PICK f : Walk(f, n + 1, t, more)
  BY <1>1, WalkExists
<1>3. \A i \in 0 .. n + 1 : f[i] = IF i = 0 THEN t ELSE Effect(f[i - 1], more[i])
  BY <1>2, Zenon DEF Walk
<1> DEFINE g == [i \in 0 .. n |-> f[i]]
<1>4. ASSUME NEW i \in 0 .. n
      PROVE  g[i] = IF i = 0 THEN t ELSE Effect(g[i - 1], items[i])
  <2>1. i \in 0 .. n + 1 /\ g[i] = f[i] /\ (i # 0 => i \in 1 .. n /\ i - 1 \in 0 .. n)
    BY <1>1
  <2>2. i # 0 => g[i - 1] = f[i - 1]
    BY <2>1
  <2> HIDE DEF g
  <2> QED BY <1>1, <1>3, <2>1, <2>2
<1>5. Walk(g, n, t, items)
  <2>1. g = [i \in 0 .. n |-> g[i]]
    OBVIOUS
  <2> HIDE DEF g
  <2> QED BY <1>4, <2>1 DEF Walk
<1>6. g[n] = f[n]
  <2>1. n \in 0 .. n
    BY <1>1
  <2> QED BY <2>1
<1> HIDE DEF g
<1>7. f[n + 1] = Effect(f[n], x)
  <2>1. n + 1 \in 0 .. n + 1 /\ n + 1 # 0 /\ (n + 1) - 1 = n
    BY <1>1
  <2> QED BY <1>1, <1>3, <2>1
<1>8. After(t, more) = f[n + 1]
  BY <1>1, <1>2, AfterIsWalk
<1>9. After(t, items) = g[n]
  BY <1>1, <1>5, AfterIsWalk DEF n
<1> QED BY <1>6, <1>7, <1>8, <1>9 DEF more

-----------------------------------------------------------------------------
(* Lists of items                                                          *)
LEMMA NoItems == KexItems(<<>>)
BY DEF KexItems

LEMMA FewerItems ==
  ASSUME NEW items, KexItems(items), items # <<>>
  PROVE  KexItem(Head(items)) /\ KexItems(Tail(items))
<1> DEFINE S == {items[i] : i \in 1 .. Len(items)}
           rest == Tail(items)
<1>1. items \in Seq(S)
  BY DEF KexItems
<1> HIDE DEF S
<1>2. /\ Len(items) \in Nat /\ Len(items) # 0 /\ Len(rest) = Len(items) - 1
      /\ rest \in Seq(S) /\ Head(items) = items[1]
      /\ \A i \in 1 .. Len(rest) : rest[i] = items[i + 1] /\ i + 1 \in 1 .. Len(items)
  BY <1>1
<1> HIDE DEF rest
<1>3. rest \in Seq({rest[i] : i \in 1 .. Len(rest)})
  BY <1>2
<1>4. \A i \in 1 .. Len(rest) : KexItem(rest[i])
  BY <1>2 DEF KexItems
<1>5. 1 \in 1 .. Len(items)
  BY <1>2
<1>6. KexItem(Head(items))
  BY <1>2, <1>5 DEF KexItems
<1> QED BY <1>3, <1>4, <1>6 DEF KexItems, rest

LEMMA MoreItems ==
  ASSUME NEW items, KexItems(items), NEW x, KexItem(x)
  PROVE  KexItems(Append(items, x))
<1> DEFINE S == {items[i] : i \in 1 .. Len(items)}
           more == Append(items, x)
<1>1. items \in Seq(S) /\ Len(items) \in Nat
  BY DEF KexItems
<1>2. /\ more \in Seq(S \union {x}) /\ Len(more) = Len(items) + 1 /\ more[Len(items) + 1] = x
      /\ \A i \in 1 .. Len(items) : more[i] = items[i]
  <2> HIDE DEF S
  <2>1. items \in Seq(S \union {x}) /\ x \in S \union {x}
    BY <1>1
  <2> QED BY <2>1
<1> HIDE DEF more, S
<1>3. \A i \in 1 .. Len(more) : KexItem(more[i])
  BY <1>1, <1>2 DEF KexItems
<1>4. more \in Seq({more[i] : i \in 1 .. Len(more)})
  BY <1>2
<1> QED BY <1>3, <1>4 DEF KexItems, more

\* A list of items with one more, or without the first.
LEMMA AfterMore ==
  ASSUME NEW items, KexItems(items), NEW x, NEW t
  PROVE  After(t, Append(items, x)) = Effect(After(t, items), x)
<1> DEFINE S == {items[i] : i \in 1 .. Len(items)}
<1>1. items \in Seq(S)
  BY DEF KexItems
<1> HIDE DEF S
<1>2. items \in Seq(S \union {x}) /\ x \in S \union {x}
  BY <1>1
<1> QED BY <1>2, AfterLast

LEMMA AfterHead ==
  ASSUME NEW items, KexItems(items), items # <<>>, NEW t
  PROVE  After(t, items) = After(Effect(t, Head(items)), Tail(items))
BY AfterFirst DEF KexItems

LEMMA JoinedItems ==
  ASSUME NEW a, KexItems(a), NEW b, KexItems(b)
  PROVE  /\ KexItems(a \o b)
         /\ a = <<>> => a \o b = b
         /\ a # <<>> => a \o b # <<>> /\ Head(a \o b) = Head(a) /\ Tail(a \o b) = Tail(a) \o b
<1> DEFINE S == {a[i] : i \in 1 .. Len(a)}
           T == {b[i] : i \in 1 .. Len(b)}
           c == a \o b
<1>1. a \in Seq(S) /\ b \in Seq(T)
  BY DEF KexItems
<1> HIDE DEF S, T
<1>2. a \in Seq(S \union T) /\ b \in Seq(S \union T)
  BY <1>1
<1>3. /\ c \in Seq(S \union T) /\ Len(c) = Len(a) + Len(b) /\ Len(a) \in Nat /\ Len(b) \in Nat
      /\ \A i \in 1 .. Len(a) : c[i] = a[i]
      /\ \A i \in 1 .. Len(b) : c[Len(a) + i] = b[i]
  BY <1>2
<1>4. a = <<>> => c = b
  BY <1>2
<1>5. a # <<>> => c # <<>> /\ Head(c) = Head(a) /\ Tail(c) = Tail(a) \o b
  BY <1>2
<1> HIDE DEF c
<1>6. \A i \in 1 .. Len(c) : KexItem(c[i])
  <2> SUFFICES ASSUME NEW i \in 1 .. Len(c) PROVE KexItem(c[i])
    OBVIOUS
  <2>1. CASE i \in 1 .. Len(a)
    BY <1>3, <2>1 DEF KexItems
  <2>2. CASE i \notin 1 .. Len(a)
    <3>1. i - Len(a) \in 1 .. Len(b) /\ Len(a) + (i - Len(a)) = i
      BY <1>3, <2>2
    <3>2. c[i] = b[i - Len(a)]
      BY <1>3, <3>1
    <3> QED BY <3>1, <3>2 DEF KexItems
  <2> QED BY <2>1, <2>2
<1>7. c \in Seq({c[i] : i \in 1 .. Len(c)})
  BY <1>3
<1> QED BY <1>4, <1>5, <1>6, <1>7 DEF KexItems, c

-----------------------------------------------------------------------------
(* The contexts                                                            *)

\* Tracking on the server ...
LEMMA ServerTracks ==
  ASSUME ServerShape(server), proto \in Kex, NEW num, NEW solid
  PROVE  LET s == Tracked(proto, server, num, solid)
         IN  /\ ServerShape(s) /\ s.edict = Solidity(server.edict, num, solid)
             /\ s.base = server.base /\ s.inFrame = server.inFrame /\ s.full = server.full
BY DEF ServerShape, Tracked, Solidity

LEMMA ServerTracksBaseline ==
  ASSUME ServerShape(server), proto \in Kex, NEW num, NEW solid
  PROVE  LET s == TrackedBaseline(proto, server, num, solid)
         IN  /\ ServerShape(s) /\ s.edict = Solidity(server.edict, num, solid)
             /\ s.base = SetBit(server.base, num, num \in s.edict)
             /\ s.inFrame = server.inFrame /\ s.full = server.full
BY DEF ServerShape, Tracked, TrackedBaseline, Solidity

LEMMA ServerTracksRemoval ==
  ASSUME ServerShape(server), proto \in Kex, NEW num
  PROVE  LET s == TrackedRemoval(proto, server, num)
         IN  /\ ServerShape(s) /\ s.edict = SetBit(server.edict, num, num \in server.base)
             /\ s.base = server.base /\ s.inFrame = server.inFrame /\ s.full = server.full
BY DEF ServerShape, TrackedRemoval

\* ... and on the client leaves the rest of the context as it is.
SameButTracked(c, d) ==
  /\ d.mode = c.mode /\ d.inflating = c.inflating /\ d.inflated = c.inflated
  /\ d.reading = c.reading /\ d.raw = c.raw /\ d.handed = c.handed /\ d.error = c.error

LEMMA ClientTracks ==
  ASSUME ClientShape(client), proto \in Kex, NEW num, NEW solid
  PROVE  LET c == Tracked(proto, client, num, solid)
         IN  /\ ClientShape(c) /\ SameButTracked(client, c)
             /\ c.edict = Solidity(client.edict, num, solid) /\ c.base = client.base
BY DEF ClientShape, SameButTracked, Tracked, Solidity

LEMMA ClientTracksBaseline ==
  ASSUME ClientShape(client), proto \in Kex, NEW num, NEW solid
  PROVE  LET c == TrackedBaseline(proto, client, num, solid)
         IN  /\ ClientShape(c) /\ SameButTracked(client, c)
             /\ c.edict = Solidity(client.edict, num, solid)
             /\ c.base = SetBit(client.base, num, num \in c.edict)
BY DEF ClientShape, SameButTracked, Tracked, TrackedBaseline, Solidity

LEMMA ClientTracksRemoval ==
  ASSUME ClientShape(client), proto \in Kex, NEW num
  PROVE  LET c == TrackedRemoval(proto, client, num)
         IN  /\ ClientShape(c) /\ SameButTracked(client, c)
             /\ c.edict = SetBit(client.edict, num, num \in client.base)
             /\ c.base = client.base
BY DEF ClientShape, SameButTracked, TrackedRemoval

\* Reading an item takes it out of the packet or of what was inflated.
Past(c, d) ==
  /\ ClientShape(d)
  /\ d.inflating = c.inflating /\ d.edict = c.edict /\ d.base = c.base
  /\ d.reading = c.reading /\ d.error = c.error
  /\ IF FromInflated THEN d.inflated = Tail(Input) /\ d.raw = c.raw
                     ELSE d.raw = Tail(Input) /\ d.inflated = c.inflated

LEMMA HandTakes ==
  ASSUME NEW c, ClientShape(c), NEW kind, Hand(c, kind)
  PROVE  Past(c, client') /\ client'.mode = c.mode
<1>1. /\ ClientShape(Rest(c)) /\ Past(c, Rest(c)) /\ Rest(c).mode = c.mode
  BY DEF ClientShape, Past, Rest
<1> DEFINE r == Rest(c)
<1>2. client' = [r EXCEPT !.handed = Append(@, kind)]
  BY DEF Hand
<1> HIDE DEF r
<1>3. /\ ClientShape(client') /\ client'.mode = r.mode /\ client'.inflating = r.inflating
      /\ client'.edict = r.edict /\ client'.base = r.base /\ client'.reading = r.reading
      /\ client'.error = r.error /\ client'.raw = r.raw /\ client'.inflated = r.inflated
  BY <1>1, <1>2 DEF ClientShape, r
<1> QED BY <1>1, <1>3 DEF Past, r

LEMMA EnterTakes ==
  ASSUME NEW c, ClientShape(c), NEW mode, Enter(c, mode)
  PROVE  Past(c, client') /\ client'.mode = mode
<1>1. ClientShape(Rest(c)) /\ Past(c, Rest(c))
  BY DEF ClientShape, Past, Rest
<1> DEFINE r == Rest(c)
<1>2. client' = [r EXCEPT !.mode = mode]
  BY DEF Enter
<1> HIDE DEF r
<1>3. /\ ClientShape(client') /\ client'.mode = mode /\ client'.inflating = r.inflating
      /\ client'.edict = r.edict /\ client'.base = r.base /\ client'.reading = r.reading
      /\ client'.error = r.error /\ client'.raw = r.raw /\ client'.inflated = r.inflated
  BY <1>1, <1>2 DEF ClientShape, r
<1> QED BY <1>1, <1>3 DEF Past, r

-----------------------------------------------------------------------------
(* Reading an item moves what the client tracks on by its effect, which is *)
(* the first of the effects ahead.                                         *)
Takeable(d) ==
  /\ ClientShape(d) /\ d.reading = client.reading /\ d.error = client.error
  /\ d.inflating = client.inflating
  /\ IF client.mode \in Blasts
     THEN d.mode = client.mode /\ d.inflated = Tail(client.inflated) /\ d.raw = client.raw
     ELSE d.mode \in {"packet", "entities"} /\ d.raw = Tail(client.raw)

LEMMA ReadStep ==
  ASSUME SolidInv, proto \in Kex, client.reading, Input # <<>>,
         UNCHANGED <<proto, server, packet>>, Takeable(client'),
         KnownToClient' = Effect(KnownToClient, Head(Input))
  PROVE  SolidInv'
<1>1. ClientShape(client') /\ ServerShape(server') /\ KexInv
  BY DEF SolidInv, Takeable
<1>2. KnownToServer' = KnownToServer
  BY DEF KnownToServer
<1>3. CASE client.mode \in Blasts
  <2>1. /\ Input = client.inflated /\ KexItems(client.inflated) /\ KexItems(client.raw)
        /\ Ahead = client.inflated \o client.raw
        /\ Ahead' = Tail(client.inflated) \o client.raw
        /\ KexItems(Tail(client.inflated))
    BY <1>1, <1>3, FewerItems DEF KexInv, Ahead, Input, FromInflated, Takeable
  <2>2. /\ KexItems(Ahead) /\ Ahead # <<>> /\ Head(Ahead) = Head(Input) /\ Tail(Ahead) = Ahead'
    BY <2>1, JoinedItems
  <2>3. KnownToServer' = After(KnownToClient', Ahead')
    BY <1>1, <1>2, <2>2, AfterHead DEF KexInv
  <2>4. \A i \in 1 .. Len(Tail(client.inflated)) : InBlast(Tail(client.inflated)[i])
    <3>1. \A i \in 1 .. Len(client.inflated) : InBlast(client.inflated[i])
      BY <1>1, <1>3 DEF KexInv
    <3>2. PICK S : client.inflated \in Seq(S)
      BY <2>1 DEF KexItems
    <3>3. \A i \in 1 .. Len(Tail(client.inflated)) :
            /\ Tail(client.inflated)[i] = client.inflated[i + 1]
            /\ i + 1 \in 1 .. Len(client.inflated)
      BY <2>1, <3>2
    <3> QED BY <3>1, <3>3
  <2> QED BY <1>1, <1>3, <2>1, <2>3, <2>4 DEF SolidInv, KexInv, Takeable
<1>4. CASE client.mode \notin Blasts
  <2>1. client'.mode \notin Blasts
    BY <1>4 DEF Takeable, Blasts
  <2>2. /\ Input = client.raw /\ KexItems(client.raw) /\ Ahead = client.raw
        /\ Ahead' = Tail(client.raw) /\ KexItems(Tail(client.raw))
    BY <1>1, <1>4, <2>1, FewerItems DEF KexInv, Ahead, Input, FromInflated, Takeable
  <2>3. KnownToServer' = After(KnownToClient', Ahead')
    BY <1>1, <1>2, <2>2, AfterHead DEF KexInv
  <2> QED BY <1>1, <1>4, <2>1, <2>2, <2>3 DEF SolidInv, KexInv, Takeable
<1> QED BY <1>3, <1>4

(* Writing appends to what is ahead of the client.                         *)
LEMMA WriteStep ==
  ASSUME SolidInv, proto \in Kex, ~client.reading, UNCHANGED <<proto, client>>,
         ServerShape(server'), server'.full = server.full, KexItems(packet'),
         KnownToServer' = After(KnownToClient, packet')
  PROVE  SolidInv'
<1>1. ClientShape(client') /\ KexInv
  BY DEF SolidInv
<1>2. client.mode = "packet" /\ "packet" \notin Blasts
  BY <1>1 DEF KexInv, Blasts
<1>3. Ahead' = packet' /\ KnownToClient' = KnownToClient
  <2>1. ~client'.reading
    OBVIOUS
  <2>2. Ahead' = packet'
    BY <1>2, <2>1 DEF Ahead
  <2>3. KnownToClient' = KnownToClient
    BY DEF KnownToClient
  <2> QED BY <2>2, <2>3
<1>4. KnownToServer' = After(KnownToClient', Ahead')
  BY <1>3
<1> QED BY <1>1, <1>2, <1>3, <1>4 DEF SolidInv, KexInv

\* One more item: what the server tracks is moved on by its effect.
LEMMA AppendStep ==
  ASSUME SolidInv, proto \in Kex, ~client.reading, UNCHANGED <<proto, client>>,
         ServerShape(server'), server'.full = server.full,
         NEW x, KexItem(x), packet' = packet \o <<x>>,
         KnownToServer' = Effect(KnownToServer, x)
  PROVE  SolidInv'
<1>1. KexInv /\ KexItems(packet) /\ Ahead = packet
  <2>1. KexInv
    BY DEF SolidInv
  <2>2. KexItems(packet)
    BY <2>1 DEF KexInv
  <2>3. Ahead = packet
    BY <2>1 DEF KexInv, Ahead, Blasts
  <2> QED BY <2>1, <2>2, <2>3
<1>2. PICK S : packet \in Seq(S)
  BY <1>1 DEF KexItems
<1>3. packet' = Append(packet, x)
  <2>1. packet \in Seq(S \union {x}) /\ x \in S \union {x}
    BY <1>2
  <2>2. packet \o <<x>> = Append(packet, x)
    BY <2>1
  <2> QED BY <2>2
<1>4. KexItems(packet') /\ KnownToServer' = After(KnownToClient, packet')
  BY <1>1, <1>3, MoreItems, AfterMore DEF KexInv
<1> QED BY <1>4, WriteStep

-----------------------------------------------------------------------------
(* The steps that read an item                                             *)
LEMMA HandStep ==
  ASSUME SolidInv, proto \in Kex, client.reading, Input # <<>>,
         UNCHANGED <<proto, server, packet>>,
         NEW c, ClientShape(c), NEW kind, Hand(c, kind),
         c.inflating = client.inflating, c.inflated = client.inflated,
         c.raw = client.raw, c.reading = client.reading, c.error = client.error,
         IF client.mode \in Blasts THEN c.mode = client.mode
                                   ELSE c.mode \in {"packet", "entities"},
         [edict |-> c.edict, base |-> c.base, inFrame |-> c.mode = "entities"]
           = Effect(KnownToClient, Head(Input))
  PROVE  SolidInv'
<1>1. Past(c, client') /\ client'.mode = c.mode
  BY HandTakes
<1>2. ~client.inflating
  BY DEF SolidInv, KexInv
<1>3. Takeable(client')
  BY <1>1, <1>2 DEF Past, Takeable, FromInflated, Input
<1>4. KnownToClient' = Effect(KnownToClient, Head(Input))
  BY <1>1 DEF Past, KnownToClient
<1> QED BY <1>3, <1>4, ReadStep

LEMMA KexModes ==
  ASSUME SolidInv, proto \in Kex
  PROVE  /\ client.mode \in {"packet", "entities"} \union Blasts /\ client.mode # "gamestate"
         /\ "packet" \notin Blasts /\ "entities" \notin Blasts
         /\ ~client.inflating /\ client.error = "none" /\ ~server.full
BY DEF SolidInv, KexInv, Blasts

LEMMA HandBaselineStep ==
  ASSUME SolidInv, proto \in Kex, client.reading, Input # <<>>,
         UNCHANGED <<proto, server, packet>>, NEW entity, HandBaseline(entity),
         Effect(KnownToClient, Head(Input)) = BaselineEffect(KnownToClient, entity)
  PROVE  SolidInv'
<1>1. PICK c : c = TrackedBaseline(proto, client, entity.num, entity.solid)
  OBVIOUS
<1>2. ClientShape(client)
  BY DEF SolidInv
<1>3. /\ ClientShape(c) /\ SameButTracked(client, c)
      /\ c.edict = Solidity(client.edict, entity.num, entity.solid)
      /\ c.base = SetBit(client.base, entity.num, entity.num \in c.edict)
  BY <1>1, <1>2, ClientTracksBaseline
<1>4. Hand(c, "spawnbaseline")
  BY <1>1 DEF HandBaseline
<1>5. [edict |-> c.edict, base |-> c.base, inFrame |-> c.mode = "entities"]
        = Effect(KnownToClient, Head(Input))
  <2>1. PICK k : k = KnownToClient
    OBVIOUS
  <2>2. k = [edict |-> client.edict, base |-> client.base, inFrame |-> client.mode = "entities"]
    BY <2>1 DEF KnownToClient
  <2>3. BaselineEffect(k, entity)
          = [edict |-> c.edict, base |-> c.base, inFrame |-> c.mode = "entities"]
    BY <1>3, <2>2 DEF BaselineEffect, SameButTracked
  <2> QED BY <2>1, <2>3
<1>6. IF client.mode \in Blasts THEN c.mode = client.mode ELSE c.mode \in {"packet", "entities"}
  BY <1>3, KexModes DEF SameButTracked
<1> QED BY <1>3, <1>4, <1>5, <1>6, HandStep DEF SameButTracked

LEMMA ReadItems ==
  ASSUME SolidInv, proto \in Kex,
         \/ ReadMessage \/ ReadFrame \/ ReadDelta \/ ReadRemove \/ ReadTerminator
         \/ ReadConfigstring \/ ReadBaseline
  PROVE  SolidInv'
<1>1. client.reading /\ Input # <<>> /\ UNCHANGED <<proto, server, packet>>
  BY DEF ReadMessage, ReadFrame, ReadDelta, ReadRemove, ReadTerminator, ReadConfigstring,
         ReadBaseline, Takes, Parsing, Parses
<1>2. ClientShape(client)
  BY DEF SolidInv
<1>3. PICK item : item = Head(Input)
  OBVIOUS
<1>4. PICK k : k = KnownToClient
  OBVIOUS
<1>5. k = [edict |-> client.edict, base |-> client.base, inFrame |-> client.mode = "entities"]
  BY <1>4 DEF KnownToClient
<1>6. ASSUME ReadMessage PROVE SolidInv'
  <2>1. item.is = "command" /\ item.form = "plain" /\ client.mode = "packet" /\ ~IsBlast(item)
    BY <1>3, <1>6 DEF ReadMessage, Takes, Parsing, IsBlast, Blasts
  <2>2. CASE "entity" \in DOMAIN item
    <3>1. HandBaseline(item.entity)
      BY <1>3, <1>6, <2>2 DEF ReadMessage
    <3>2. Effect(k, item) = BaselineEffect(k, item.entity)
      BY <2>1, <2>2 DEF Effect, PlainEffect
    <3> QED BY <1>1, <1>3, <1>4, <3>1, <3>2, HandBaselineStep
  <2>3. CASE "entity" \notin DOMAIN item
    <3>1. PICK kind : Hand(client, kind)
      BY <1>3, <1>6, <2>3 DEF ReadMessage
    <3>2. Effect(k, item) = k
      BY <2>1, <2>3 DEF Effect, PlainEffect
    <3> QED BY <1>1, <1>2, <1>3, <1>4, <1>5, <2>1, <3>1, <3>2, HandStep, KexModes
  <2> QED BY <2>2, <2>3
<1>7. ASSUME ReadFrame PROVE SolidInv'
  <2>1. item.is = "command" /\ item.form = "frame" /\ client.mode = "packet" /\ ~IsBlast(item)
    BY <1>3, <1>7 DEF ReadFrame, Takes, Parsing, IsBlast, Blasts
  <2>2. PICK c : c = [client EXCEPT !.mode = "entities"]
    OBVIOUS
  <2>3. /\ ClientShape(c) /\ c.mode = "entities" /\ c.edict = client.edict /\ c.base = client.base
        /\ c.inflating = client.inflating /\ c.inflated = client.inflated
        /\ c.raw = client.raw /\ c.reading = client.reading /\ c.error = client.error
    BY <1>2, <2>2 DEF ClientShape
  <2>4. Hand(c, "frame")
    BY <1>7, <2>2 DEF ReadFrame
  <2>5. Effect(k, item)
          = [edict |-> c.edict, base |-> c.base, inFrame |-> c.mode = "entities"]
    BY <1>5, <2>1, <2>3 DEF Effect, PlainEffect
  <2> QED BY <1>1, <1>3, <1>4, <2>1, <2>3, <2>4, <2>5, HandStep, KexModes
<1>8. ASSUME ReadDelta PROVE SolidInv'
  <2>1. item.is = "delta" /\ client.mode = "entities" /\ ~IsBlast(item)
    BY <1>3, <1>8 DEF ReadDelta, Parsing, IsBlast
  <2>2. PICK c : c = Tracked(proto, client, item.num, item.solid)
    OBVIOUS
  <2>3. /\ ClientShape(c) /\ SameButTracked(client, c)
        /\ c.edict = Solidity(client.edict, item.num, item.solid) /\ c.base = client.base
    BY <1>2, <2>2, ClientTracks
  <2>4. Hand(c, "delta")
    BY <1>3, <1>8, <2>2 DEF ReadDelta
  <2>5. Effect(k, item)
          = [edict |-> c.edict, base |-> c.base, inFrame |-> c.mode = "entities"]
    BY <1>5, <2>1, <2>3 DEF Effect, PlainEffect, DeltaEffect, SameButTracked
  <2> QED BY <1>1, <1>3, <1>4, <2>1, <2>3, <2>4, <2>5, HandStep, KexModes DEF SameButTracked
<1>9. ASSUME ReadRemove PROVE SolidInv'
  <2>1. item.is = "remove" /\ client.mode = "entities" /\ ~IsBlast(item)
    BY <1>3, <1>9 DEF ReadRemove, Parsing, IsBlast
  <2>2. PICK c : c = TrackedRemoval(proto, client, item.num)
    OBVIOUS
  <2>3. /\ ClientShape(c) /\ SameButTracked(client, c)
        /\ c.edict = SetBit(client.edict, item.num, item.num \in client.base)
        /\ c.base = client.base
    BY <1>2, <2>2, ClientTracksRemoval
  <2>4. Hand(c, "remove")
    BY <1>3, <1>9, <2>2 DEF ReadRemove
  <2>5. Effect(k, item)
          = [edict |-> c.edict, base |-> c.base, inFrame |-> c.mode = "entities"]
    BY <1>5, <2>1, <2>3 DEF Effect, PlainEffect, RemovalEffect, SameButTracked
  <2> QED BY <1>1, <1>3, <1>4, <2>1, <2>3, <2>4, <2>5, HandStep, KexModes DEF SameButTracked
<1>10. ASSUME ReadTerminator PROVE SolidInv'
  <2>1. item.is = "terminator" /\ client.mode = "entities" /\ ~IsBlast(item)
    BY <1>3, <1>10 DEF ReadTerminator, Parsing, IsBlast
  <2>2. PICK c : c = [client EXCEPT !.mode = "packet"]
    OBVIOUS
  <2>3. /\ ClientShape(c) /\ c.mode = "packet" /\ c.edict = client.edict /\ c.base = client.base
        /\ c.inflating = client.inflating /\ c.inflated = client.inflated
        /\ c.raw = client.raw /\ c.reading = client.reading /\ c.error = client.error
    BY <1>2, <2>2 DEF ClientShape
  <2>4. Hand(c, "terminator")
    BY <1>10, <2>2 DEF ReadTerminator
  <2>5. Effect(k, item)
          = [edict |-> c.edict, base |-> c.base, inFrame |-> c.mode = "entities"]
    BY <1>5, <2>1, <2>3 DEF Effect, PlainEffect
  <2> QED BY <1>1, <1>3, <1>4, <2>1, <2>3, <2>4, <2>5, HandStep, KexModes
<1>11. ASSUME ReadConfigstring PROVE SolidInv'
  <2>1. item.is = "configstring" /\ ~IsBlast(item) /\ Hand(client, "configstring")
    BY <1>3, <1>11 DEF ReadConfigstring, Parsing, IsBlast
  <2>2. Effect(k, item) = k
    BY <2>1 DEF Effect, PlainEffect
  <2> QED BY <1>1, <1>2, <1>3, <1>4, <1>5, <2>1, <2>2, HandStep, KexModes
<1>12. ASSUME ReadBaseline PROVE SolidInv'
  <2>1. item.is = "baseline" /\ ~IsBlast(item) /\ HandBaseline(item)
    BY <1>3, <1>12 DEF ReadBaseline, Parsing, IsBlast
  <2>2. Effect(k, item) = BaselineEffect(k, item)
    BY <2>1 DEF Effect, PlainEffect
  <2> QED BY <1>1, <1>3, <1>4, <2>1, <2>2, HandBaselineStep
<1> QED BY <1>6, <1>7, <1>8, <1>9, <1>10, <1>11, <1>12

-----------------------------------------------------------------------------
(* The other steps of the client                                           *)
LEMMA InputItems ==
  ASSUME SolidInv, proto \in Kex, client.reading
  PROVE  /\ KexItems(Input) /\ KexItems(client.raw)
         /\ client.mode \notin Blasts => Input = client.raw
         /\ client.mode \in Blasts => /\ Input = client.inflated
                                      /\ Input # <<>> => InBlast(Head(Input))
<1>1. KexInv /\ ~client.inflating /\ KexItems(client.raw)
  BY DEF SolidInv, KexInv
<1>2. CASE client.mode \in Blasts
  <2>1. /\ Input = client.inflated /\ KexItems(client.inflated)
        /\ \A i \in 1 .. Len(client.inflated) : InBlast(client.inflated[i])
    BY <1>1, <1>2 DEF KexInv, Input, FromInflated
  <2>2. PICK S : client.inflated \in Seq(S)
    BY <2>1 DEF KexItems
  <2>3. client.inflated # <<>> =>
          1 \in 1 .. Len(client.inflated) /\ Head(client.inflated) = client.inflated[1]
    BY <2>2
  <2> QED BY <1>1, <1>2, <2>1, <2>3
<1>3. CASE client.mode \notin Blasts
  BY <1>1, <1>3 DEF Input, FromInflated
<1> QED BY <1>1, <1>2, <1>3

\* What comes next in a KEX packet, and when.
LEMMA KexInput ==
  ASSUME SolidInv, proto \in Kex, client.reading, Input # <<>>
  PROVE  /\ KexItem(Head(Input))
         /\ client.mode \in Blasts => InBlast(Head(Input))
BY InputItems, FewerItems

LEMMA NotInKex ==
  ASSUME SolidInv, proto \in Kex,
         \/ ReadZpacket \/ ReadZpacketEnd \/ ReadStreamEnd \/ SkipPacket \/ Reconnect
         \/ LosePacket \/ Overfill \/ SendZpacket
         \/ \E form \in StreamForms : OpenStream(form)
  PROVE  FALSE
<1>1. /\ client.error = "none" /\ ~client.inflating
      /\ client.mode \in {"packet", "entities"} \union Blasts
  BY KexModes
<1>2. ASSUME NEW form \in {"zpacket"} \union StreamForms, Takes(form) PROVE FALSE
  <2>1. Head(Input).is = "command" /\ Head(Input).form = form /\ KexItem(Head(Input))
    BY <1>2, KexInput DEF Takes, Parsing, Parses
  <2> QED BY <1>2, <2>1 DEF KexItem, IsBlast, Blasts, StreamForms
<1>3. ~ReadStreamEnd
  <2> SUFFICES ASSUME ReadStreamEnd PROVE FALSE
    OBVIOUS
  <2>1. Head(Input).is = "end" /\ KexItem(Head(Input))
    BY KexInput DEF ReadStreamEnd, Parsing, Parses
  <2> QED BY <2>1 DEF KexItem, IsBlast
<1>4. ~HasZpacket(proto)
  BY DEF Kex, HasZpacket, ZpacketCmd
<1> QED BY <1>1, <1>2, <1>3, <1>4
        DEF ReadZpacket, ReadZpacketEnd, SkipPacket, Reconnect, LosePacket, Overfill,
            SendZpacket, OpenStream

LEMMA KexReadable ==
  ASSUME SolidInv, proto \in Kex, client.reading
  PROVE  ~Unreadable
<1>1. CASE Input = <<>>
  <2> SUFFICES ASSUME client.mode = "entities" PROVE FALSE
    BY <1>1 DEF Unreadable
  <2>1. client.raw = <<>> /\ Ahead = client.raw
    BY <1>1, InputItems, KexModes DEF Ahead
  <2>2. KnownToServer = KnownToClient
    BY <2>1, AfterNone DEF SolidInv, KexInv
  <2>3. KnownToServer.inFrame = KnownToClient.inFrame
    BY <2>2
  <2>4. ~KnownToServer.inFrame /\ KnownToClient.inFrame
    BY DEF SolidInv, KexInv, KnownToServer, KnownToClient
  <2> QED BY <2>3, <2>4
<1>2. CASE Input # <<>>
  <2>1. KexItem(Head(Input))
    BY <1>2, KexInput
  <2> QED BY <1>2, <2>1 DEF KexItem, IsBlast, Unreadable
<1> QED BY <1>1, <1>2

\* Opening a blast puts what is in it in its place.
LEMMA BlastStep ==
  ASSUME SolidInv, proto \in Kex, NEW blast \in Blasts, ReadBlast(blast)
  PROVE  SolidInv'
<1>1. KexInv /\ ClientShape(client) /\ ServerShape(server)
  BY DEF SolidInv
<1>2. PICK item : item = Head(Input)
  OBVIOUS
<1>3. /\ client.reading /\ UNCHANGED <<proto, server, packet>> /\ client.mode = "packet"
      /\ Input # <<>> /\ item.is = "command" /\ item.form = blast
  BY <1>2 DEF ReadBlast, Takes, Parsing, Parses
<1>4. /\ Input = client.raw /\ KexItem(item) /\ KexItems(client.raw)
      /\ client.mode \notin Blasts /\ ~client.inflating
  BY <1>2, <1>3, InputItems, KexInput, KexModes
<1>5. IsBlast(item) /\ item.data = <<item.data[1]>> /\ InBlast(item.data[1])
  BY <1>3, <1>4 DEF KexItem, IsBlast, Blasts
<1>6. PICK x : x = item.data[1]
  OBVIOUS
<1>7. /\ ClientShape(client') /\ client'.mode = blast /\ client'.inflated = <<x>>
      /\ client'.raw = Tail(client.raw) /\ client'.reading /\ client'.edict = client.edict
      /\ client'.base = client.base /\ client'.error = client.error
      /\ client'.inflating = client.inflating
  <2>1. PICK r : r = Rest(client)
    OBVIOUS
  <2>2. /\ r.mode = client.mode /\ r.raw = Tail(client.raw) /\ r.reading = client.reading
        /\ r.edict = client.edict /\ r.base = client.base /\ r.error = client.error
        /\ r.inflating = client.inflating /\ ClientShape(r)
    BY <1>1, <1>3, <1>4, <2>1 DEF Rest, FromInflated, ClientShape
  <2>3. client' = [r EXCEPT !.mode = blast, !.inflated = <<x>>]
    BY <1>2, <1>5, <1>6, <2>1 DEF ReadBlast
  <2> QED BY <1>3, <2>2, <2>3 DEF ClientShape
<1>8. KexItem(x) /\ InBlast(x)
  BY <1>5, <1>6 DEF InBlast, KexItem
<1>9. KexItems(<<x>>) /\ <<x>> # <<>> /\ Head(<<x>>) = x /\ Tail(<<x>>) = <<>>
      /\ \A i \in 1 .. Len(<<x>>) : InBlast(<<x>>[i])
  BY <1>8 DEF KexItems
<1>10. Ahead = client.raw /\ Ahead' = <<x>> \o Tail(client.raw)
  BY <1>3, <1>4, <1>7 DEF Ahead
<1>11. KexItems(Tail(client.raw)) /\ client.raw # <<>> /\ Head(client.raw) = item
  BY <1>2, <1>3, <1>4, FewerItems
<1>12. /\ KexItems(Ahead') /\ Ahead' # <<>> /\ Head(Ahead') = x
       /\ Tail(Ahead') = <<>> \o Tail(client.raw)
  BY <1>9, <1>10, <1>11, JoinedItems
<1>13. <<>> \o Tail(client.raw) = Tail(client.raw)
  BY <1>11, NoItems, JoinedItems
<1>14. KnownToClient' = KnownToClient
  BY <1>3, <1>7 DEF KnownToClient, Blasts
<1>15. PICK k : k = KnownToClient
  OBVIOUS
<1>16. Effect(k, item) = Effect(k, x)
  <2>1. ~IsBlast(x)
    BY <1>8 DEF InBlast, IsBlast
  <2> QED BY <1>5, <1>6, <2>1 DEF Effect
<1>17. After(k, client.raw) = After(Effect(k, item), Tail(client.raw))
  BY <1>4, <1>11, AfterHead
<1>18. PICK ahead : ahead = Ahead'
  OBVIOUS
<1>19. After(k, ahead) = After(Effect(k, x), Tail(client.raw))
  BY <1>12, <1>13, <1>18, AfterHead
<1>20. KnownToServer' = KnownToServer /\ KnownToServer = After(k, client.raw)
  BY <1>1, <1>3, <1>10, <1>15 DEF KnownToServer, KexInv
<1>21. KnownToServer' = After(KnownToClient', Ahead')
  BY <1>14, <1>15, <1>16, <1>17, <1>18, <1>19, <1>20
<1> QED BY <1>1, <1>3, <1>7, <1>9, <1>11, <1>21 DEF SolidInv, KexInv

LEMMA BlastEndStep ==
  ASSUME SolidInv, proto \in Kex, ReadBlastEnd
  PROVE  SolidInv'
<1>1. KexInv /\ ClientShape(client) /\ ServerShape(server)
  BY DEF SolidInv
<1>2. /\ client.reading /\ UNCHANGED <<proto, server, packet>> /\ client.mode \in Blasts
      /\ Input = <<>> /\ client' = [client EXCEPT !.mode = "packet"]
  BY DEF ReadBlastEnd, Parses
<1>3. /\ ClientShape(client') /\ client'.mode = "packet" /\ client'.raw = client.raw
      /\ client'.reading /\ client'.edict = client.edict
      /\ client'.base = client.base /\ client'.error = client.error
      /\ client'.inflating = client.inflating
  BY <1>1, <1>2 DEF ClientShape
<1>4. client.inflated = <<>> /\ KexItems(client.raw) /\ "packet" \notin Blasts
  BY <1>2, InputItems, KexModes
<1>5. client.inflated \o client.raw = client.raw
  BY <1>4, NoItems, JoinedItems
<1>6. Ahead = client.raw /\ Ahead' = client.raw
  BY <1>2, <1>3, <1>4, <1>5 DEF Ahead
<1>7. KnownToServer' = KnownToServer /\ KnownToClient' = KnownToClient
  BY <1>2, <1>3 DEF KnownToServer, KnownToClient, Blasts
<1>8. KnownToServer' = After(KnownToClient', Ahead')
  BY <1>1, <1>6, <1>7 DEF KexInv
<1> QED BY <1>1, <1>2, <1>3, <1>4, <1>8 DEF SolidInv, KexInv

LEMMA PacketEndStep ==
  ASSUME SolidInv, proto \in Kex, ReadPacketEnd
  PROVE  SolidInv'
<1>1. KexInv /\ ClientShape(client) /\ ServerShape(server)
  BY DEF SolidInv
<1>2. /\ client.reading /\ UNCHANGED <<proto, server, packet>> /\ client.mode = "packet"
      /\ Input = <<>> /\ client' = [client EXCEPT !.reading = FALSE, !.handed = <<>>]
  BY DEF ReadPacketEnd, AtEnd
<1>3. /\ ClientShape(client') /\ client'.mode = "packet" /\ ~client'.reading
      /\ client'.edict = client.edict /\ client'.base = client.base
      /\ client'.error = client.error /\ client'.inflating = client.inflating
  BY <1>1, <1>2 DEF ClientShape
<1>4. client.raw = <<>> /\ "packet" \notin Blasts /\ packet = <<>>
  BY <1>1, <1>2, InputItems, KexModes DEF KexInv
<1>5. Ahead = <<>> /\ Ahead' = <<>>
  BY <1>2, <1>3, <1>4 DEF Ahead
<1>6. KnownToServer' = KnownToServer /\ KnownToClient' = KnownToClient
  BY <1>2, <1>3 DEF KnownToServer, KnownToClient
<1>7. KnownToServer' = After(KnownToClient', Ahead')
  BY <1>1, <1>5, <1>6 DEF KexInv
<1> QED BY <1>1, <1>2, <1>3, <1>4, <1>7, NoItems DEF SolidInv, KexInv

LEMMA SendStep ==
  ASSUME SolidInv, proto \in Kex, SendPacket
  PROVE  SolidInv'
<1>1. KexInv /\ ClientShape(client) /\ ServerShape(server)
  BY DEF SolidInv
<1>2. /\ ~client.reading /\ ~server.inFrame /\ packet' = <<>> /\ UNCHANGED proto
      /\ server' = [server EXCEPT !.full = FALSE]
      /\ client' = [client EXCEPT !.reading = TRUE, !.raw = packet, !.handed = <<>>]
  BY DEF SendPacket, Finished, Deliver, Emptied
<1>3. client.mode = "packet" /\ "packet" \notin Blasts /\ KexItems(packet)
  BY <1>1, <1>2, KexModes DEF KexInv
<1>4. /\ ClientShape(client') /\ client'.mode = "packet" /\ client'.reading
      /\ client'.raw = packet /\ client'.edict = client.edict /\ client'.base = client.base
      /\ client'.error = client.error /\ client'.inflating = client.inflating
  BY <1>1, <1>2, <1>3 DEF ClientShape
<1>5. /\ ServerShape(server') /\ ~server'.full /\ ~server'.inFrame
      /\ server'.inFrame = server.inFrame
      /\ server'.edict = server.edict /\ server'.base = server.base
  BY <1>1, <1>2 DEF ServerShape
<1>6. Ahead = packet /\ Ahead' = packet
  BY <1>2, <1>3, <1>4 DEF Ahead
<1>7. KnownToServer' = KnownToServer /\ KnownToClient' = KnownToClient
  BY <1>3, <1>4, <1>5 DEF KnownToServer, KnownToClient
<1>8. KnownToServer' = After(KnownToClient', Ahead')
  BY <1>1, <1>6, <1>7 DEF KexInv
<1> QED BY <1>1, <1>2, <1>3, <1>4, <1>5, <1>8 DEF SolidInv, KexInv

-----------------------------------------------------------------------------
(* The steps of the server                                                 *)
LEMMA WriteItems ==
  ASSUME SolidInv, proto \in Kex,
         \/ \E kind \in UNION {DOMAIN ServerWrites(p) : p \in Protocols} : WriteMessage(kind)
         \/ \E num \in Entities : WriteDelta(num) \/ WriteRemove(num)
         \/ WriteFrame \/ WriteTerminator
  PROVE  SolidInv'
<1>1. ServerShape(server)
  BY DEF SolidInv
<1>2. PICK k : k = KnownToServer
  OBVIOUS
<1>3. k = [edict |-> server.edict, base |-> server.base, inFrame |-> server.inFrame]
  BY <1>2 DEF KnownToServer
<1>4. ASSUME NEW kind, WriteMessage(kind) PROVE SolidInv'
  <2>1. PICK command : Put(<<Message(kind, command)>>)
    BY <1>4 DEF WriteMessage
  <2>2. PICK x : x = Message(kind, command)
    OBVIOUS
  <2>3. x.is = "command" /\ x.form = "plain" /\ "entity" \notin DOMAIN x
    BY <2>2 DEF Message
  <2>4. ~client.reading /\ UNCHANGED <<proto, client, server>> /\ packet' = packet \o <<x>>
    BY <1>4, <2>1, <2>2 DEF WriteMessage, MayWrite, Put
  <2>5. KexItem(x) /\ Effect(k, x) = k
    BY <2>3 DEF KexItem, Effect, PlainEffect, IsBlast, Blasts
  <2>6. KnownToServer' = k
    BY <1>2, <2>4 DEF KnownToServer
  <2> QED BY <1>1, <1>2, <2>4, <2>5, <2>6, AppendStep
<1>5. ASSUME WriteFrame PROVE SolidInv'
  <2>0. PICK open : open = TRUE
    OBVIOUS
  <2>1. PICK command : Put(<<Opening("frame", command)>>)
    BY <1>5 DEF WriteFrame
  <2>2. PICK x : x = Opening("frame", command)
    OBVIOUS
  <2>3. x.is = "command" /\ x.form = "frame"
    BY <2>2 DEF Opening
  <2>4. /\ ~client.reading /\ UNCHANGED <<proto, client>> /\ packet' = packet \o <<x>>
        /\ server' = [server EXCEPT !.inFrame = open]
    BY <1>5, <2>0, <2>1, <2>2 DEF WriteFrame, MayWrite, Put
  <2>5. /\ ServerShape(server') /\ server'.full = server.full /\ server'.inFrame = open
        /\ server'.edict = server.edict /\ server'.base = server.base
    BY <1>1, <2>4 DEF ServerShape
  <2>6. KexItem(x) /\ Effect(k, x) = [k EXCEPT !.inFrame = open]
    BY <2>0, <2>3 DEF KexItem, Effect, PlainEffect, IsBlast, Blasts
  <2>7. KnownToServer' = [k EXCEPT !.inFrame = open]
    BY <1>3, <2>5 DEF KnownToServer
  <2> QED BY <1>2, <2>4, <2>5, <2>6, <2>7, AppendStep
<1>6. ASSUME WriteTerminator PROVE SolidInv'
  <2>0. PICK open : open = FALSE
    OBVIOUS
  <2>1. PICK x : x = Terminator
    OBVIOUS
  <2>2. x.is = "terminator"
    BY <2>1 DEF Terminator
  <2>3. /\ ~client.reading /\ UNCHANGED <<proto, client>> /\ packet' = packet \o <<x>>
        /\ server' = [server EXCEPT !.inFrame = open]
    BY <1>6, <2>0, <2>1 DEF WriteTerminator, Put
  <2>4. /\ ServerShape(server') /\ server'.full = server.full /\ server'.inFrame = open
        /\ server'.edict = server.edict /\ server'.base = server.base
    BY <1>1, <2>3 DEF ServerShape
  <2>5. KexItem(x) /\ Effect(k, x) = [k EXCEPT !.inFrame = open]
    BY <2>0, <2>2 DEF KexItem, Effect, PlainEffect, IsBlast
  <2>6. KnownToServer' = [k EXCEPT !.inFrame = open]
    BY <1>3, <2>4 DEF KnownToServer
  <2> QED BY <1>2, <2>3, <2>4, <2>5, <2>6, AppendStep
<1>7. ASSUME NEW num, WriteDelta(num) PROVE SolidInv'
  <2>1. PICK solid : /\ Put(<<Entity("delta", num, solid, Narrow(proto, solid, num \in server.edict))>>)
                     /\ server' = Tracked(proto, server, num, solid)
    BY <1>7 DEF WriteDelta
  <2>2. PICK x : x = Entity("delta", num, solid, Narrow(proto, solid, num \in server.edict))
    OBVIOUS
  <2>3. x.is = "delta" /\ x.num = num /\ x.solid = solid
    BY <2>2 DEF Entity
  <2>4. ~client.reading /\ UNCHANGED <<proto, client>> /\ packet' = packet \o <<x>>
    BY <1>7, <2>1, <2>2 DEF WriteDelta, MayWrite, Put
  <2>5. /\ ServerShape(server') /\ server'.full = server.full
        /\ server'.inFrame = server.inFrame
        /\ server'.edict = Solidity(server.edict, num, solid) /\ server'.base = server.base
    BY <1>1, <2>1, ServerTracks
  <2>6. KexItem(x) /\ Effect(k, x) = [k EXCEPT !.edict = Solidity(@, num, solid)]
    BY <2>3 DEF KexItem, Effect, PlainEffect, DeltaEffect, IsBlast
  <2>7. KnownToServer' = [k EXCEPT !.edict = Solidity(@, num, solid)]
    BY <1>3, <2>5 DEF KnownToServer
  <2> QED BY <1>2, <2>4, <2>5, <2>6, <2>7, AppendStep
<1>8. ASSUME NEW num, WriteRemove(num) PROVE SolidInv'
  <2>1. PICK x : x = Removal(num)
    OBVIOUS
  <2>2. x.is = "remove" /\ x.num = num
    BY <2>1 DEF Removal
  <2>3. /\ ~client.reading /\ UNCHANGED <<proto, client>> /\ packet' = packet \o <<x>>
        /\ server' = TrackedRemoval(proto, server, num)
    BY <1>8, <2>1 DEF WriteRemove, MayWrite, Put
  <2>4. /\ ServerShape(server') /\ server'.full = server.full
        /\ server'.inFrame = server.inFrame
        /\ server'.edict = SetBit(server.edict, num, num \in server.base)
        /\ server'.base = server.base
    BY <1>1, <2>3, ServerTracksRemoval
  <2>5. KexItem(x) /\ Effect(k, x) = [k EXCEPT !.edict = SetBit(@, num, num \in k.base)]
    BY <2>2 DEF KexItem, Effect, PlainEffect, RemovalEffect, IsBlast
  <2>6. KnownToServer' = [k EXCEPT !.edict = SetBit(@, num, num \in k.base)]
    BY <1>3, <2>4 DEF KnownToServer
  <2> QED BY <1>2, <2>3, <2>4, <2>5, <2>6, AppendStep
<1> QED BY <1>4, <1>5, <1>6, <1>7, <1>8

\* A gamestate is a configstring and a baseline, either of them in a blast or not.
PutsBaseline(t, baseline) ==
  \E x, y : /\ Put(<<x, y>>) /\ KexItem(x) /\ KexItem(y)
            /\ Effect(t, x) = t /\ Effect(t, y) = BaselineEffect(t, baseline)

LEMMA WriteBaselines ==
  ASSUME SolidInv, proto \in Kex, NEW num, WriteGamestate(num)
  PROVE  SolidInv'
<1>1. ServerShape(server) /\ KexInv
  BY DEF SolidInv
<1>2. PICK solid : /\ \E items \in Gamestates(BaselineOf(num, solid)) : Put(items)
                   /\ server' = TrackedBaseline(proto, server, num, solid)
  BY DEF WriteGamestate
<1>3. PICK baseline : baseline = BaselineOf(num, solid)
  OBVIOUS
<1>4. baseline.is = "baseline" /\ baseline.num = num /\ baseline.solid = solid
  BY <1>3 DEF BaselineOf, Entity
<1>5. PICK k : k = KnownToServer
  OBVIOUS
<1>6. PutsBaseline(k, baseline)
  <2>1. Put(Separately(baseline)) \/ Put(InBlasts(baseline))
    BY <1>2, <1>3 DEF Gamestates, Plainly, Kex, HasZpacket, ZpacketCmd
  <2>2. ASSUME Put(Separately(baseline)) PROVE PutsBaseline(k, baseline)
    <3>1. PICK x, y : x = Message("configstring", 13) /\ y = BaselineMessage(baseline)
      OBVIOUS
    <3>2. x.is = "command" /\ x.form = "plain" /\ "entity" \notin DOMAIN x
      BY <3>1 DEF Message
    <3>3. y.is = "command" /\ y.form = "plain" /\ "entity" \in DOMAIN y /\ y.entity = baseline
      BY <3>1 DEF BaselineMessage
    <3>4. KexItem(x) /\ Effect(k, x) = k
      BY <3>2 DEF KexItem, Effect, PlainEffect, IsBlast, Blasts
    <3>5. KexItem(y) /\ Effect(k, y) = BaselineEffect(k, baseline)
      BY <3>3 DEF KexItem, Effect, PlainEffect, IsBlast, Blasts
    <3>6. Put(<<x, y>>)
      BY <2>2, <3>1 DEF Separately
    <3> QED BY <3>4, <3>5, <3>6 DEF PutsBaseline
  <2>3. ASSUME Put(InBlasts(baseline)) PROVE PutsBaseline(k, baseline)
    <3>1. PICK x, y : /\ x = Compressed("configblast", 22, <<Configstring>>)
                      /\ y = Compressed("spawnbaselineblast", 23, <<baseline>>)
      OBVIOUS
    <3>2. x.is = "command" /\ x.form = "configblast" /\ x.data = <<Configstring>>
      BY <3>1 DEF Compressed
    <3>3. y.is = "command" /\ y.form = "spawnbaselineblast" /\ y.data = <<baseline>>
      BY <3>1 DEF Compressed
    <3>4. IsBlast(x) /\ IsBlast(y) /\ x.data[1] = Configstring /\ y.data[1] = baseline
      BY <3>2, <3>3 DEF IsBlast, Blasts
    <3>5. Configstring.is = "configstring"
      BY DEF Configstring
    <3>6. KexItem(x) /\ KexItem(y)
      BY <1>4, <3>2, <3>3, <3>4, <3>5 DEF KexItem, InBlast
    <3>7. Effect(k, x) = k
      BY <3>4, <3>5 DEF Effect, PlainEffect
    <3>8. Effect(k, y) = BaselineEffect(k, baseline)
      BY <1>4, <3>4 DEF Effect, PlainEffect
    <3>9. Put(<<x, y>>)
      BY <2>3, <3>1 DEF InBlasts
    <3> QED BY <3>6, <3>7, <3>8, <3>9 DEF PutsBaseline
  <2> QED BY <2>1, <2>2, <2>3
<1>7. PICK x, y : /\ Put(<<x, y>>) /\ KexItem(x) /\ KexItem(y)
                  /\ Effect(k, x) = k /\ Effect(k, y) = BaselineEffect(k, baseline)
  BY <1>6 DEF PutsBaseline
<1>8. ~client.reading /\ UNCHANGED <<proto, client>> /\ packet' = packet \o <<x, y>>
  BY <1>7 DEF WriteGamestate, MayWrite, Put
<1>9. KexItems(packet) /\ Ahead = packet
  <2>1. KexItems(packet)
    BY <1>1, <1>8 DEF KexInv
  <2>2. Ahead = packet
    BY <1>1, <1>8 DEF KexInv, Ahead, Blasts
  <2> QED BY <2>1, <2>2
<1>10. packet' = Append(Append(packet, x), y)
  <2>1. PICK S : packet \in Seq(S)
    BY <1>9 DEF KexItems
  <2>2. packet \in Seq(S \union {x, y}) /\ x \in S \union {x, y} /\ y \in S \union {x, y}
    BY <2>1
  <2>3. packet \o <<x, y>> = Append(Append(packet, x), y)
    BY <2>2
  <2> QED BY <1>8, <2>3
<1>11. KexItems(Append(packet, x)) /\ KexItems(packet')
  BY <1>7, <1>9, <1>10, MoreItems
<1>12. After(KnownToClient, Append(packet, x)) = Effect(After(KnownToClient, packet), x)
  BY <1>9, AfterMore
<1>13. After(KnownToClient, packet') = Effect(After(KnownToClient, Append(packet, x)), y)
  BY <1>10, <1>11, AfterMore
<1>14. After(KnownToClient, packet) = k
  BY <1>1, <1>5, <1>9 DEF KexInv
<1>15. After(KnownToClient, packet') = BaselineEffect(k, baseline)
  BY <1>7, <1>12, <1>13, <1>14
<1>16. /\ ServerShape(server') /\ server'.edict = Solidity(server.edict, num, solid)
       /\ server'.base = SetBit(server.base, num, num \in server'.edict)
       /\ server'.inFrame = server.inFrame /\ server'.full = server.full
  BY <1>1, <1>2, ServerTracksBaseline
<1>17. KnownToServer' = BaselineEffect(k, baseline)
  BY <1>4, <1>5, <1>16 DEF KnownToServer, BaselineEffect
<1> QED BY <1>8, <1>11, <1>15, <1>16, <1>17, WriteStep

\* What the server reads of the client does not touch the packet.
LEMMA ListenStep ==
  ASSUME SolidInv, proto \in Kex, NEW kind, ClientWrite(kind)
  PROVE  SolidInv'
<1>1. ServerShape(server) /\ KexInv
  BY DEF SolidInv
<1>2. PICK misheard : server' = [server EXCEPT !.misheard = misheard]
  BY DEF ClientWrite
<1>3. ~client.reading /\ UNCHANGED <<proto, packet, client>>
  BY DEF ClientWrite
<1>4. /\ ServerShape(server') /\ server'.full = server.full /\ server'.inFrame = server.inFrame
      /\ server'.edict = server.edict /\ server'.base = server.base
  BY <1>1, <1>2 DEF ServerShape
<1>5. KexItems(packet) /\ Ahead = packet
  <2>1. KexItems(packet)
    BY <1>1, <1>3 DEF KexInv
  <2>2. Ahead = packet
    BY <1>1, <1>3 DEF KexInv, Ahead, Blasts
  <2> QED BY <2>1, <2>2
<1>6. KnownToServer' = KnownToServer /\ KnownToServer = After(KnownToClient, packet)
  BY <1>1, <1>4, <1>5 DEF KnownToServer, KexInv
<1> QED BY <1>3, <1>4, <1>5, <1>6, WriteStep

-----------------------------------------------------------------------------
(* The other protocols track nothing.                                      *)
Untracked(c, s) ==
  /\ ClientShape(c) /\ c.edict = {} /\ c.base = {}
  /\ ServerShape(s) /\ s.edict = {} /\ s.base = {}

LEMMA UntrackedStep ==
  ASSUME SolidInv, proto \notin Kex, Next
  PROVE  SolidInv'
<1>1. Untracked(client, server)
  BY DEF SolidInv, UntrackedInv, Untracked
<1>2. SUFFICES UNCHANGED proto /\ Untracked(client', server')
  BY DEF SolidInv, UntrackedInv, Untracked
<1>3. \A ctx, num, solid : /\ Tracked(proto, ctx, num, solid) = ctx
                           /\ TrackedBaseline(proto, ctx, num, solid) = ctx
                           /\ TrackedRemoval(proto, ctx, num) = ctx
  BY DEF Tracked, TrackedBaseline, TrackedRemoval
<1> DEFINE Safe(c) == ClientShape(c) /\ c.edict = {} /\ c.base = {}
<1>4. ASSUME NEW c, Safe(c), NEW kind, Hand(c, kind) PROVE Safe(client')
  BY <1>4, HandTakes DEF Past
<1>5. ASSUME NEW c, Safe(c), NEW mode, Enter(c, mode) PROVE Safe(client')
  BY <1>5, EnterTakes DEF Past
<1>6. ASSUME Reads PROVE UNCHANGED proto /\ Untracked(client', server')
  <2>1. UNCHANGED <<proto, server>>
    BY <1>6 DEF Reads, ReadMessage, ReadFrame, ReadDelta, ReadRemove, ReadTerminator,
         ReadZpacket, ReadZpacketEnd, ReadBlast, ReadBlastEnd, OpenStream, ReadStreamEnd,
         ReadConfigstring, ReadBaseline, Takes, Parsing, Parses
  <2>2. Safe(client)
    BY <1>1 DEF Untracked
  <2>3. ASSUME NEW mode PROVE Safe([client EXCEPT !.mode = mode])
    BY <2>2 DEF ClientShape
  <2>4. ASSUME ReadMessage \/ ReadConfigstring \/ ReadBaseline \/ ReadDelta \/ ReadRemove
        PROVE  \E kind : Hand(client, kind)
    BY <1>3, <2>4 DEF ReadMessage, ReadConfigstring, ReadBaseline, ReadDelta, ReadRemove,
         HandBaseline
  <2>5. ASSUME ReadFrame \/ ReadTerminator
        PROVE  \E mode, kind : Hand([client EXCEPT !.mode = mode], kind)
    BY <2>5 DEF ReadFrame, ReadTerminator
  <2>6. ASSUME ReadStreamEnd \/ \E form \in StreamForms : OpenStream(form)
        PROVE  \E mode : Enter(client, mode)
    BY <2>6 DEF ReadStreamEnd, OpenStream
  <2>7. PICK r : r = Rest(client)
    OBVIOUS
  <2>8. Safe(r)
    BY <2>2, <2>7 DEF Rest, ClientShape
  <2>9. ASSUME ReadZpacket \/ \E blast \in Blasts : ReadBlast(blast) PROVE Safe(client')
    BY <2>7, <2>8, <2>9 DEF ReadZpacket, ReadBlast, ClientShape
  <2>10. ASSUME ReadZpacketEnd \/ ReadBlastEnd PROVE Safe(client')
    BY <2>2, <2>10 DEF ReadZpacketEnd, ReadBlastEnd, ClientShape
  <2>11. Safe(client')
    <3> HIDE DEF Safe
    <3> QED BY <1>4, <1>5, <1>6, <2>2, <2>3, <2>4, <2>5, <2>6, <2>9, <2>10 DEF Reads
  <2> QED BY <1>1, <2>1, <2>11 DEF Untracked
<1>7. ASSUME ReadPacketEnd \/ ReadBroken \/ SkipPacket
      PROVE  UNCHANGED proto /\ Untracked(client', server')
  BY <1>1, <1>7 DEF ReadPacketEnd, ReadBroken, Parses, SkipPacket, Untracked, ClientShape
<1>8. ASSUME NEW items, Deliver(items) PROVE UNCHANGED proto /\ Untracked(client', server')
  BY <1>1, <1>8 DEF Deliver, Emptied, Untracked, ClientShape, ServerShape
<1>9. ASSUME LosePacket PROVE UNCHANGED proto /\ Untracked(client', server')
  BY <1>1, <1>9 DEF LosePacket, Emptied, Untracked, ServerShape
<1>10. ASSUME Reconnect PROVE UNCHANGED proto /\ Untracked(client', server')
  BY <1>10 DEF Reconnect, ClientInit, ServerInit, Untracked, ClientShape, ServerShape
<1>11. ASSUME Server PROVE UNCHANGED proto /\ Untracked(client', server')
  <2>1. UNCHANGED <<proto, client>>
    BY <1>11 DEF Server, WriteMessage, WriteDelta, WriteRemove, WriteGamestate, WriteFrame,
         WriteTerminator, Overfill, Put
  <2>2. \/ server' = server
        \/ \E b : server' = [server EXCEPT !.inFrame = b]
        \/ server' = [server EXCEPT !.full = TRUE, !.inFrame = FALSE]
    BY <1>3, <1>11 DEF Server, WriteMessage, WriteDelta, WriteRemove, WriteGamestate, WriteFrame,
         WriteTerminator, Overfill
  <2> QED BY <1>1, <2>1, <2>2 DEF Untracked, ServerShape
<1>12. ASSUME NEW kind, ClientWrite(kind) PROVE UNCHANGED proto /\ Untracked(client', server')
  BY <1>1, <1>12 DEF ClientWrite, Untracked, ServerShape
<1> QED BY <1>6, <1>7, <1>8, <1>9, <1>10, <1>11, <1>12 DEF Next, Client, SendPacket, SendZpacket

-----------------------------------------------------------------------------
LEMMA SolidInit == Init => SolidInv
<1> SUFFICES ASSUME Init PROVE SolidInv
  OBVIOUS
<1>1. ClientShape(client) /\ ServerShape(server) /\ UntrackedInv
  BY DEF Init, ClientInit, ServerInit, ClientShape, ServerShape, UntrackedInv
<1>2. ASSUME proto \in Kex PROVE KexInv
  <2>1. /\ packet = <<>> /\ ~client.reading /\ client.mode = "packet" /\ ~server.inFrame
        /\ ~server.full /\ client.error = "none" /\ ~client.inflating
    BY DEF Init, ClientInit, ServerInit
  <2>2. Ahead = <<>> /\ KnownToServer = KnownToClient
    BY <2>1 DEF Init, ClientInit, ServerInit, Ahead, KnownToServer, KnownToClient, Blasts
  <2>3. KnownToServer = After(KnownToClient, Ahead)
    BY <2>2, AfterNone
  <2> QED BY <2>1, <2>3, NoItems DEF KexInv, Blasts
<1> QED BY <1>1, <1>2 DEF SolidInv

LEMMA SolidStep == SolidInv /\ [Next]_vars => SolidInv'
<1> SUFFICES ASSUME SolidInv, [Next]_vars PROVE SolidInv'
  OBVIOUS
<1>1. CASE UNCHANGED vars
  BY <1>1 DEF vars, SolidInv, ClientShape, ServerShape, KexInv, UntrackedInv, Ahead,
       KnownToClient, KnownToServer
<1>2. CASE Next /\ proto \notin Kex
  BY <1>2, UntrackedStep
<1>3. CASE Next /\ proto \in Kex
  <2>1. CASE Server
    BY <1>3, <2>1, WriteItems, WriteBaselines, NotInKex DEF Server
  <2>2. CASE Client
    <3>1. CASE ReadBroken
      BY <1>3, <3>1, KexReadable DEF ReadBroken, Parses
    <3>2. CASE ReadPacketEnd
      BY <1>3, <3>2, PacketEndStep
    <3>3. CASE Reads
      BY <1>3, <3>3, ReadItems, NotInKex, BlastStep, BlastEndStep DEF Reads
    <3> QED BY <2>2, <3>1, <3>2, <3>3 DEF Client
  <2>3. CASE SendPacket
    BY <1>3, <2>3, SendStep
  <2>4. CASE \E kind \in UNION {DOMAIN ClientWrites(p) : p \in Protocols} : ClientWrite(kind)
    BY <1>3, <2>4, ListenStep
  <2> QED BY <1>3, <2>1, <2>2, <2>3, <2>4, NotInKex DEF Next
<1> QED BY <1>1, <1>2, <1>3

(* What the server knows of the entities is always what the client will    *)
(* know when it has read all that is ahead of it: the two functions of a   *)
(* KEX demo that set kex_demo_edict_nonzero_solid agree on every item.     *)
THEOREM SolidityTracked == Spec => []SolidInv
<1> QED BY SolidInit, SolidStep, PTL DEF Spec

LEMMA SolidAgreed == SolidInv => SolidAgree
<1> SUFFICES ASSUME SolidInv, ~client.reading, packet = <<>>
             PROVE  server.edict = client.edict /\ server.base = client.base
  BY DEF SolidAgree
<1>1. CASE proto \in Kex
  <2>1. KnownToServer = After(KnownToClient, Ahead)
    BY <1>1 DEF SolidInv, KexInv
  <2>2. Ahead = <<>>
    BY KexModes, <1>1 DEF SolidInv, KexInv, Ahead
  <2>3. KnownToServer = KnownToClient
    BY <2>1, <2>2, AfterNone
  <2>4. KnownToServer.edict = server.edict /\ KnownToServer.base = server.base
        /\ KnownToClient.edict = client.edict /\ KnownToClient.base = client.base
    BY DEF KnownToServer, KnownToClient
  <2> QED BY <2>3, <2>4
<1>2. CASE proto \notin Kex
  BY <1>2 DEF SolidInv, UntrackedInv
<1> QED BY <1>1, <1>2

(* Between packets both sides of a KEX connection hold the same entities   *)
(* for solid, however many packets and whatever is in them.                *)
THEOREM SolidityAgrees == Spec => []SolidAgree
<1> QED BY SolidAgreed, SolidityTracked, PTL

-----------------------------------------------------------------------------
(* Flattening a sequence of sequences.  A joining is the function that     *)
(* FlattenSeq builds: what the first of them are together.                 *)
Joining(f, n, seqs) ==
  f = [i \in 1 .. n |-> IF i = 1 THEN seqs[i] ELSE f[i - 1] \o seqs[i]]

LEMMA JoiningContinues ==
  ASSUME NEW n \in Nat, NEW seqs, NEW f, Joining(f, n, seqs)
  PROVE  \E g : Joining(g, n + 1, seqs)
<1> DEFINE last == IF n = 0 THEN seqs[1] ELSE f[n] \o seqs[n + 1]
           g == [i \in 1 .. n + 1 |-> IF i = n + 1 THEN last ELSE f[i]]
<1>1. \A i \in 1 .. n : g[i] = f[i]
  OBVIOUS
<1>2. g[n + 1] = last
  <2> HIDE DEF last
  <2>1. n + 1 \in 1 .. n + 1
    OBVIOUS
  <2> QED BY <2>1
<1>3. \A i \in 1 .. n : f[i] = IF i = 1 THEN seqs[i] ELSE f[i - 1] \o seqs[i]
  BY Zenon DEF Joining
<1>4. ASSUME NEW i \in 1 .. n + 1
      PROVE  g[i] = IF i = 1 THEN seqs[i] ELSE g[i - 1] \o seqs[i]
  <2>1. CASE i = n + 1 /\ n = 0
    <3>1. i = 1
      BY <2>1
    <3> HIDE DEF g
    <3> QED BY <1>2, <2>1, <3>1
  <2>2. CASE i = n + 1 /\ n # 0
    <3>1. i - 1 = n /\ n \in 1 .. n /\ i # 1
      BY <2>2
    <3> HIDE DEF g
    <3> QED BY <1>1, <1>2, <2>2, <3>1
  <2>3. CASE i \in 1 .. n
    <3>1. i # 1 => i - 1 \in 1 .. n
      BY <2>3
    <3> HIDE DEF g, last
    <3> QED BY <1>1, <1>3, <2>3, <3>1
  <2> QED BY <2>1, <2>2, <2>3
<1>5. Joining(g, n + 1, seqs)
  <2>1. g = [i \in 1 .. n + 1 |-> g[i]]
    OBVIOUS
  <2> HIDE DEF g
  <2> QED BY <1>4, <2>1 DEF Joining
<1> QED BY <1>5

LEMMA JoiningExists ==
  ASSUME NEW n \in Nat, NEW seqs
  PROVE  \E f : Joining(f, n, seqs)
<1>1. PICK S : S = {m \in Nat : ~\E f : Joining(f, m, seqs)}
  OBVIOUS
<1>2. S = {}
  <2> SUFFICES ASSUME S # {} PROVE FALSE
    OBVIOUS
  <2>1. PICK m \in S : \A k \in S : m <= k
    BY <1>1, LeastElement
  <2>2. m \in Nat /\ ~\E f : Joining(f, m, seqs)
    BY <1>1
  <2>3. CASE m = 0
    <3> DEFINE g == [i \in 1 .. 0 |-> seqs]
    <3>1. Joining(g, 0, seqs)
      BY DEF Joining
    <3> QED BY <2>2, <2>3, <3>1
  <2>4. CASE m # 0
    <3>1. m - 1 \in Nat /\ ~(m <= m - 1) /\ (m - 1) + 1 = m
      BY <2>2, <2>4
    <3>2. \E f : Joining(f, m - 1, seqs)
      BY <1>1, <2>1, <3>1
    <3>3. \E g : Joining(g, (m - 1) + 1, seqs)
      BY <3>1, <3>2, JoiningContinues
    <3> QED BY <2>2, <3>1, <3>3
  <2> QED BY <2>3, <2>4
<1> QED BY <1>1, <1>2

LEMMA JoiningUnique ==
  ASSUME NEW n \in Nat \ {0}, NEW seqs,
         NEW f, Joining(f, n, seqs), NEW g, Joining(g, n, seqs)
  PROVE  f[n] = g[n]
<1>1. \A i \in 1 .. n : /\ f[i] = IF i = 1 THEN seqs[i] ELSE f[i - 1] \o seqs[i]
                        /\ g[i] = IF i = 1 THEN seqs[i] ELSE g[i - 1] \o seqs[i]
  BY Zenon DEF Joining
<1>2. PICK S : S = {i \in 1 .. n : f[i] # g[i]}
  OBVIOUS
<1>3. S = {}
  <2> SUFFICES ASSUME S # {} PROVE FALSE
    OBVIOUS
  <2>1. S \in SUBSET Nat
    BY <1>2
  <2>2. PICK i \in S : \A k \in S : i <= k
    BY <2>1, LeastElement
  <2>3. i \in 1 .. n /\ f[i] # g[i]
    BY <1>2
  <2>4. i # 1
    BY <1>1, <2>3
  <2>5. i - 1 \in 1 .. n /\ ~(i <= i - 1)
    BY <2>3, <2>4
  <2>6. f[i - 1] = g[i - 1]
    BY <1>2, <2>2, <2>5
  <2> QED BY <1>1, <2>3, <2>4, <2>6
<1>4. n \in 1 .. n
  OBVIOUS
<1> QED BY <1>2, <1>3, <1>4

LEMMA FlattenIsJoining ==
  ASSUME NEW seqs, Len(seqs) \in Nat, Len(seqs) # 0, NEW f, Joining(f, Len(seqs), seqs)
  PROVE  FlattenSeq(seqs) = f[Len(seqs)]
<1> DEFINE flatten[i \in 1 .. Len(seqs)] ==
             IF i = 1 THEN seqs[i] ELSE flatten[i - 1] \o seqs[i]
<1>1. Joining(flatten, Len(seqs), seqs)
  BY Zenon DEF Joining
<1>2. FlattenSeq(seqs) = flatten[Len(seqs)]
  BY DEF FlattenSeq
<1> HIDE DEF flatten
<1> QED BY <1>1, <1>2, JoiningUnique

\* Each part of the joining is a sequence of what the parts are sequences of.
LEMMA JoiningType ==
  ASSUME NEW S, NEW seqs \in Seq(Seq(S)), NEW n \in Nat, n <= Len(seqs),
         NEW f, Joining(f, n, seqs)
  PROVE  \A i \in 1 .. n : f[i] \in Seq(S)
<1>1. \A i \in 1 .. n : f[i] = IF i = 1 THEN seqs[i] ELSE f[i - 1] \o seqs[i]
  BY Zenon DEF Joining
<1>2. PICK B : B = {i \in 1 .. n : f[i] \notin Seq(S)}
  OBVIOUS
<1>3. B = {}
  <2> SUFFICES ASSUME B # {} PROVE FALSE
    OBVIOUS
  <2>1. B \in SUBSET Nat
    BY <1>2
  <2>2. PICK i \in B : \A k \in B : i <= k
    BY <2>1, LeastElement
  <2>3. i \in 1 .. n /\ f[i] \notin Seq(S)
    BY <1>2
  <2>4. seqs[i] \in Seq(S)
    BY <2>3
  <2>5. i # 1
    BY <1>1, <2>3, <2>4
  <2>6. i - 1 \in 1 .. n /\ ~(i <= i - 1)
    BY <2>3, <2>5
  <2>7. f[i - 1] \in Seq(S)
    BY <1>2, <2>2, <2>6
  <2>8. f[i - 1] \o seqs[i] \in Seq(S)
    BY <2>4, <2>7
  <2> QED BY <1>1, <2>3, <2>5, <2>8
<1> QED BY <1>2, <1>3

LEMMA FlattenNone == FlattenSeq(<<>>) = <<>>
BY DEF FlattenSeq

LEMMA FlattenType ==
  ASSUME NEW S, NEW seqs \in Seq(Seq(S))
  PROVE  FlattenSeq(seqs) \in Seq(S)
<1>1. CASE Len(seqs) = 0
  <2>1. seqs = <<>> /\ <<>> \in Seq(S)
    BY <1>1
  <2> QED BY <2>1, FlattenNone
<1>2. CASE Len(seqs) # 0
  <2>1. Len(seqs) \in Nat /\ Len(seqs) \in 1 .. Len(seqs)
    BY <1>2
  <2>2. PICK f : Joining(f, Len(seqs), seqs)
    BY <2>1, JoiningExists
  <2>3. f[Len(seqs)] \in Seq(S)
    BY <2>1, <2>2, JoiningType
  <2> QED BY <1>2, <2>1, <2>2, <2>3, FlattenIsJoining
<1> QED BY <1>1, <1>2

LEMMA ConcatInTurn ==
  ASSUME NEW S
  PROVE  \A a, b, c \in Seq(S) : (a \o b) \o c = a \o (b \o c)
OBVIOUS

LEMMA FlattenFirst ==
  ASSUME NEW S, NEW seqs \in Seq(Seq(S)), seqs # <<>>
  PROVE  FlattenSeq(seqs) = Head(seqs) \o FlattenSeq(Tail(seqs))
<1> DEFINE n == Len(seqs) - 1
           rest == Tail(seqs)
<1>0. \A a, b, c \in Seq(S) : (a \o b) \o c = a \o (b \o c)
  BY ConcatInTurn, SMTT(30)
<1>1. /\ n \in Nat /\ Len(seqs) = n + 1 /\ Len(seqs) \in Nat /\ Len(rest) = n
      /\ rest \in Seq(Seq(S)) /\ Head(seqs) = seqs[1] /\ seqs[1] \in Seq(S)
      /\ \A i \in 1 .. n : rest[i] = seqs[i + 1] /\ rest[i] \in Seq(S)
  OBVIOUS
<1> HIDE DEF n, rest
<1>2. PICK f : Joining(f, n + 1, seqs)
  BY <1>1, JoiningExists
<1>3. \A i \in 1 .. n + 1 : f[i] = IF i = 1 THEN seqs[i] ELSE f[i - 1] \o seqs[i]
  BY <1>2, Zenon DEF Joining
<1>4. FlattenSeq(seqs) = f[n + 1]
  <2>1. Len(seqs) # 0
    BY <1>1
  <2> QED BY <1>1, <1>2, <2>1, FlattenIsJoining
<1>5. CASE n = 0
  <2>1. rest = <<>> /\ 1 \in 1 .. n + 1
    BY <1>1, <1>5
  <2>2. FlattenSeq(rest) = <<>>
    BY <2>1, FlattenNone
  <2>3. f[n + 1] = seqs[1]
    BY <1>3, <1>5, <2>1
  <2>4. seqs[1] = seqs[1] \o <<>>
    BY <1>1
  <2> QED BY <1>1, <1>4, <2>2, <2>3, <2>4 DEF rest
<1>6. CASE n # 0
  <2>1. PICK g : Joining(g, n, rest)
    BY <1>1, JoiningExists
  <2>2. \A i \in 1 .. n : g[i] = IF i = 1 THEN rest[i] ELSE g[i - 1] \o rest[i]
    BY <2>1, Zenon DEF Joining
  <2>3. \A i \in 1 .. n : g[i] \in Seq(S)
    <3>1. n <= Len(rest)
      BY <1>1
    <3> QED BY <1>1, <2>1, <3>1, JoiningType
  <2>4. FlattenSeq(rest) = g[n]
    BY <1>1, <1>6, <2>1, FlattenIsJoining
  <2>5. PICK B : B = {i \in 1 .. n : f[i + 1] # seqs[1] \o g[i]}
    OBVIOUS
  <2>6. B = {}
    <3> SUFFICES ASSUME B # {} PROVE FALSE
      OBVIOUS
    <3>1. B \in SUBSET Nat
      <4>1. \A i \in 1 .. n : i \in Nat
        BY <1>1
      <4> QED BY <2>5, <4>1
    <3>2. PICK i \in B : \A k \in B : i <= k
      BY <3>1, LeastElement
    <3>3. i \in 1 .. n /\ f[i + 1] # seqs[1] \o g[i]
      BY <2>5
    <3>4. /\ i + 1 \in 1 .. n + 1 /\ i + 1 # 1 /\ (i + 1) - 1 = i /\ i \in 1 .. n + 1
          /\ rest[i] = seqs[i + 1] /\ rest[i] \in Seq(S)
      BY <1>1, <3>3
    <3>5. f[i + 1] = f[i] \o rest[i]
      BY <1>3, <3>4
    <3>6. CASE i = 1
      <4>1. f[i] = seqs[1] /\ g[i] = rest[i]
        BY <1>3, <2>2, <3>3, <3>4, <3>6
      <4> QED BY <3>3, <3>5, <4>1
    <3>7. CASE i # 1
      <4>1. i - 1 \in 1 .. n /\ ~(i <= i - 1) /\ (i - 1) + 1 = i
        BY <1>1, <3>3, <3>7
      <4>2. f[i] = seqs[1] \o g[i - 1]
        BY <2>5, <3>2, <4>1
      <4>3. g[i] = g[i - 1] \o rest[i]
        BY <2>2, <3>3, <3>7
      <4>4. g[i - 1] \in Seq(S)
        BY <2>3, <4>1
      <4>5. (seqs[1] \o g[i - 1]) \o rest[i] = seqs[1] \o (g[i - 1] \o rest[i])
        <5>2. seqs[1] \in Seq(S) /\ rest[i] \in Seq(S)
          BY <1>1, <3>4
        <5> QED BY <1>0, <4>4, <5>2, Zenon
      <4> QED BY <3>3, <3>5, <4>2, <4>3, <4>5
    <3> QED BY <3>6, <3>7
  <2>7. f[n + 1] = seqs[1] \o g[n]
    <3>1. n \in 1 .. n
      BY <1>1, <1>6
    <3> QED BY <2>5, <2>6, <3>1
  <2> QED BY <1>1, <1>4, <2>4, <2>7 DEF rest
<1> QED BY <1>5, <1>6

-----------------------------------------------------------------------------
(* The items of a packet, and what is meant by them.                       *)
LEMMA LooseMeant ==
  ASSUME NEW p, NEW item, LooseItem(p, item)
  PROVE  /\ MeantByAny(item) = MeantBy(item) /\ MeantByOuter(item) = MeantBy(item)
         /\ MeantBy(item) \in Seq(Kinds)
<1>1. MeantByAny(item) = MeantBy(item) /\ MeantByOuter(item) = MeantBy(item)
  BY DEF LooseItem, MeantByAny, MeantByOuter
<1>2. {"frame", "spawnbaseline", "configstring", "delta", "remove", "terminator"} \subseteq Kinds
  BY DEF Kinds
<1>3. \A kind \in Kinds : <<kind>> \in Seq(Kinds)
  OBVIOUS
<1>4. <<>> \in Seq(Kinds)
  OBVIOUS
<1>5. CASE item.is \in {"configstring", "delta", "remove", "terminator"}
  <2>1. MeantBy(item) = <<item.is>>
    BY <1>5 DEF MeantBy
  <2> QED BY <1>1, <1>2, <1>3, <1>5, <2>1
<1>6. CASE item.is = "baseline"
  <2>1. MeantBy(item) = <<"spawnbaseline">>
    BY <1>6 DEF MeantBy
  <2> QED BY <1>1, <1>2, <1>3, <2>1
<1>7. CASE item.is \in {"end", "broken"}
  <2>1. MeantBy(item) = <<>>
    BY <1>7 DEF MeantBy
  <2> QED BY <1>1, <1>4, <2>1
<1>8. CASE item.is = "command" /\ item.form = "frame"
  <2>1. MeantBy(item) = <<"frame">>
    BY <1>8 DEF MeantBy
  <2> QED BY <1>1, <1>2, <1>3, <2>1
<1>9. CASE item.is = "command" /\ item.form \in StreamForms
  <2>1. item.form # "plain" /\ item.form # "frame"
    BY <1>9 DEF StreamForms
  <2>2. MeantBy(item) = <<>>
    BY <1>9, <2>1 DEF MeantBy
  <2> QED BY <1>1, <1>4, <2>2
<1>10. CASE item.is = "command" /\ item.form = "plain"
  <2>1. item.kind \in Kinds
    BY <1>10 DEF LooseItem, StreamForms
  <2>2. MeantBy(item) = <<item.kind>>
    BY <1>10 DEF MeantBy
  <2> QED BY <1>1, <1>3, <2>1, <2>2
<1> QED BY <1>5, <1>6, <1>7, <1>8, <1>9, <1>10 DEF LooseItem

LEMMA LooseAreMeant ==
  ASSUME NEW p, NEW items, LooseItems(p, items)
  PROVE  /\ MeantOuter(items) = Meant(items)
         /\ Meant(items) \in Seq(Kinds)
         /\ PacketItems(p, items)
<1> DEFINE meant == [i \in 1 .. Len(items) |-> MeantByAny(items[i])]
<1>1. Len(items) \in Nat /\ \A i \in 1 .. Len(items) : LooseItem(p, items[i])
  BY DEF LooseItems
<1>2. \A i \in 1 .. Len(items) :
        MeantByAny(items[i]) = MeantByOuter(items[i]) /\ MeantByAny(items[i]) \in Seq(Kinds)
  BY <1>1, LooseMeant
<1>3. meant = [i \in 1 .. Len(items) |-> MeantByOuter(items[i])]
  BY <1>2, Zenon
<1>4. meant \in Seq(Seq(Kinds))
  <2>1. meant \in [1 .. Len(items) -> Seq(Kinds)]
    BY <1>2
  <2> QED BY <1>1, <2>1
<1>5. PacketItems(p, items)
  BY DEF LooseItems, PacketItems
<1> QED BY <1>3, <1>4, <1>5, FlattenType DEF Meant, MeantOuter

LEMMA EnclosedMeant ==
  ASSUME NEW p, NEW item, EnclosingItem(p, item)
  PROVE  MeantByAny(item) = Meant(item.data) /\ MeantByAny(item) \in Seq(Kinds)
BY LooseAreMeant DEF EnclosingItem, MeantByAny

LEMMA PacketMeant ==
  ASSUME NEW p, NEW items, PacketItems(p, items)
  PROVE  /\ [i \in 1 .. Len(items) |-> MeantByAny(items[i])] \in Seq(Seq(Kinds))
         /\ Meant(items) \in Seq(Kinds)
<1> DEFINE meant == [i \in 1 .. Len(items) |-> MeantByAny(items[i])]
<1>1. /\ Len(items) \in Nat
      /\ \A i \in 1 .. Len(items) : LooseItem(p, items[i]) \/ EnclosingItem(p, items[i])
  BY DEF PacketItems
<1>2. \A i \in 1 .. Len(items) : MeantByAny(items[i]) \in Seq(Kinds)
  BY <1>1, LooseMeant, EnclosedMeant
<1>3. meant \in [1 .. Len(items) -> Seq(Kinds)]
  BY <1>2
<1>4. meant \in Seq(Seq(Kinds))
  BY <1>1, <1>3
<1> QED BY <1>4, FlattenType DEF Meant

LEMMA NothingMeant ==
  ASSUME NEW p
  PROVE  LooseItems(p, <<>>) /\ PacketItems(p, <<>>) /\ Meant(<<>>) = <<>>
<1>1. [i \in 1 .. Len(<<>>) |-> MeantByAny(<<>>[i])] = <<>>
  OBVIOUS
<1> QED BY <1>1, FlattenNone DEF LooseItems, PacketItems, Meant

LEMMA MeantFirst ==
  ASSUME NEW p, NEW items, PacketItems(p, items), items # <<>>
  PROVE  /\ Meant(items) = MeantByAny(Head(items)) \o Meant(Tail(items))
         /\ PacketItems(p, Tail(items)) /\ MeantByAny(Head(items)) \in Seq(Kinds)
         /\ LooseItem(p, Head(items)) \/ EnclosingItem(p, Head(items))
         /\ LooseItems(p, items) => LooseItem(p, Head(items)) /\ LooseItems(p, Tail(items))
<1> DEFINE S == {items[i] : i \in 1 .. Len(items)}
           n == Len(items) - 1
           rest == Tail(items)
           meant == [i \in 1 .. Len(items) |-> MeantByAny(items[i])]
           left == [i \in 1 .. Len(rest) |-> MeantByAny(rest[i])]
<1>1. /\ items \in Seq(S)
      /\ \A i \in 1 .. Len(items) : LooseItem(p, items[i]) \/ EnclosingItem(p, items[i])
  BY DEF PacketItems
<1> HIDE DEF S
<1>2. /\ n \in Nat /\ Len(items) = n + 1 /\ Len(rest) = n /\ Head(items) = items[1]
      /\ \A i \in 1 .. n : rest[i] = items[i + 1] /\ i + 1 \in 1 .. n + 1
      /\ 1 \in 1 .. n + 1 /\ rest \in Seq(S)
  BY <1>1
<1> HIDE DEF n, rest
<1>3. rest \in Seq({rest[i] : i \in 1 .. Len(rest)})
  <2> DEFINE T == {rest[i] : i \in 1 .. n}
  <2>1. \A i \in 1 .. n : rest[i] \in T
    OBVIOUS
  <2> HIDE DEF T
  <2>2. rest \in [1 .. n -> T]
    BY <1>2, <2>1
  <2>3. rest \in Seq(T)
    BY <1>2, <2>2
  <2> QED BY <1>2, <2>3 DEF T
<1>4. PacketItems(p, rest)
  BY <1>1, <1>2, <1>3 DEF PacketItems
<1>5. LooseItems(p, items) => LooseItem(p, Head(items)) /\ LooseItems(p, rest)
  BY <1>2, <1>3 DEF LooseItems
<1>6. meant \in Seq(Seq(Kinds)) /\ left \in Seq(Seq(Kinds))
  BY <1>4, PacketMeant
<1>7. Len(meant) = n + 1 /\ Len(left) = n /\ meant # <<>>
  BY <1>2
<1>8. \A i \in 1 .. n : left[i] = meant[i + 1]
  BY <1>2
<1>9. Head(meant) = MeantByAny(Head(items))
  BY <1>2, <1>6, <1>7
<1>10. Meant(items) = FlattenSeq(meant) /\ Meant(rest) = FlattenSeq(left)
  BY DEF Meant
<1> HIDE DEF meant, left
<1>11. Tail(meant) = left
  <2>1. Tail(meant) \in Seq(Seq(Kinds)) /\ Len(Tail(meant)) = n
        /\ \A i \in 1 .. n : Tail(meant)[i] = left[i]
    BY <1>2, <1>6, <1>7, <1>8
  <2> QED BY <1>6, <1>7, <2>1
<1>12. FlattenSeq(meant) = Head(meant) \o FlattenSeq(Tail(meant))
  BY <1>6, <1>7, FlattenFirst
<1>13. MeantByAny(Head(items)) \in Seq(Kinds)
  BY <1>1, <1>2, LooseMeant, EnclosedMeant
<1>14. Meant(items) = MeantByAny(Head(items)) \o Meant(rest)
  BY <1>9, <1>10, <1>11, <1>12
<1> QED BY <1>1, <1>2, <1>4, <1>5, <1>13, <1>14 DEF rest

\* A packet grows by what is written to it.
LEMMA PacketGrows ==
  ASSUME NEW p, NEW a, PacketItems(p, a), NEW b, PacketItems(p, b)
  PROVE  PacketItems(p, a \o b)
<1> DEFINE S == {a[i] : i \in 1 .. Len(a)}
           T == {b[i] : i \in 1 .. Len(b)}
           c == a \o b
<1>1. a \in Seq(S) /\ b \in Seq(T)
  BY DEF PacketItems
<1> HIDE DEF S, T
<1>2. a \in Seq(S \union T) /\ b \in Seq(S \union T)
  BY <1>1
<1>3. /\ c \in Seq(S \union T) /\ Len(c) = Len(a) + Len(b) /\ Len(a) \in Nat /\ Len(b) \in Nat
      /\ \A i \in 1 .. Len(a) : c[i] = a[i]
      /\ \A i \in 1 .. Len(b) : c[Len(a) + i] = b[i]
  BY <1>2
<1> HIDE DEF c
<1>4. ASSUME NEW i \in 1 .. Len(c) PROVE LooseItem(p, c[i]) \/ EnclosingItem(p, c[i])
  <2>1. CASE i \in 1 .. Len(a)
    BY <1>3, <2>1 DEF PacketItems
  <2>2. CASE i \notin 1 .. Len(a)
    <3>1. i - Len(a) \in 1 .. Len(b) /\ Len(a) + (i - Len(a)) = i
      BY <1>3, <2>2
    <3>2. c[i] = b[i - Len(a)]
      BY <1>3, <3>1
    <3> QED BY <3>1, <3>2 DEF PacketItems
  <2> QED BY <2>1, <2>2
<1>5. c \in Seq({c[i] : i \in 1 .. Len(c)})
  BY <1>3
<1> QED BY <1>4, <1>5 DEF PacketItems, c

LEMMA OneItem ==
  ASSUME NEW p, NEW x
  PROVE  /\ LooseItem(p, x) => LooseItems(p, <<x>>)
         /\ EnclosingItem(p, x) => PacketItems(p, <<x>>)
<1>1. <<x>> \in Seq({<<x>>[i] : i \in 1 .. Len(<<x>>)})
  OBVIOUS
<1>2. \A i \in 1 .. Len(<<x>>) : <<x>>[i] = x
  OBVIOUS
<1> QED BY <1>1, <1>2 DEF LooseItems, PacketItems

-----------------------------------------------------------------------------
(* The client.  What it has taken of the packet: an item that means kinds. *)
Took(kinds) ==
  /\ ClientShape(client') /\ client'.reading /\ FromInflated' = FromInflated
  /\ IF FromInflated
     THEN client'.inflated = Tail(client.inflated) /\ client'.raw = client.raw
     ELSE client'.raw = Tail(client.raw)
  /\ client'.handed = client.handed \o kinds
  /\ UNCHANGED <<proto, packet, sent>>

LEMMA HandedStep ==
  ASSUME HandInv, client.reading, Input # <<>>, NEW kinds, Took(kinds),
         MeantByAny(Head(Input)) = kinds
  PROVE  HandInv'
<1>1. /\ proto \in Protocols /\ client.handed \in Seq(Kinds) /\ PacketItems(proto, packet)
      /\ sent = client.handed \o Left /\ PacketItems(proto, client.raw)
      /\ FromInflated => LooseItems(proto, client.inflated)
  BY DEF HandInv
<1>2. PacketItems(proto, Input) /\ (FromInflated => LooseItems(proto, Input))
  BY <1>1, LooseAreMeant DEF Input
<1>3. PICK rest : rest = Tail(Input)
  OBVIOUS
<1>4. /\ Meant(Input) = kinds \o Meant(rest) /\ PacketItems(proto, rest) /\ kinds \in Seq(Kinds)
      /\ FromInflated => LooseItems(proto, rest)
  BY <1>2, <1>3, MeantFirst
<1>5. /\ Meant(rest) \in Seq(Kinds) /\ Meant(client.raw) \in Seq(Kinds)
      /\ Meant(Input) \in Seq(Kinds)
  BY <1>1, <1>2, <1>4, PacketMeant
<1>6. PICK handed \in Seq(Kinds) : handed = client.handed
  BY <1>1
<1>7. client'.handed = handed \o kinds /\ client'.handed \in Seq(Kinds)
  BY <1>4, <1>6 DEF Took
<1>8. \A a, b, c \in Seq(Kinds) : (a \o b) \o c = a \o (b \o c)
  BY ConcatInTurn
<1>9. /\ UNCHANGED <<proto, packet, sent>> /\ client'.reading /\ FromInflated' = FromInflated
  BY DEF Took
<1>10. CASE FromInflated
  <2>1. Input = client.inflated /\ client'.inflated = rest /\ client'.raw = client.raw
    BY <1>3, <1>10 DEF Input, Took
  <2>2. Left = Meant(Input) \o Meant(client.raw)
    BY <1>10, <2>1 DEF Left
  <2>3. Left' = Meant(rest) \o Meant(client.raw)
    BY <1>9, <1>10, <2>1 DEF Left
  <2>4. handed \o Left = (handed \o kinds) \o Left'
    <3>1. PICK a \in Seq(Kinds) : a = Meant(rest)
      BY <1>5
    <3>2. PICK b \in Seq(Kinds) : b = Meant(client.raw)
      BY <1>5
    <3>3. a \o b \in Seq(Kinds)
      OBVIOUS
    <3>4. (kinds \o a) \o b = kinds \o (a \o b)
      BY <1>4, <1>8, ZenonT(60)
    <3>5. (handed \o kinds) \o (a \o b) = handed \o (kinds \o (a \o b))
      BY <1>4, <1>8, <3>3, ZenonT(60)
    <3> QED BY <1>4, <2>2, <2>3, <3>1, <3>2, <3>4, <3>5
  <2> QED BY <1>1, <1>4, <1>6, <1>7, <1>9, <1>10, <2>1, <2>4 DEF HandInv
<1>11. CASE ~FromInflated
  <2>1. Input = client.raw /\ client'.raw = rest
    BY <1>3, <1>11 DEF Input, Took
  <2>2. Left = Meant(Input)
    BY <1>5, <1>11, <2>1 DEF Left
  <2>3. Left' = Meant(rest)
    BY <1>5, <1>9, <1>11, <2>1 DEF Left
  <2>4. handed \o Left = (handed \o kinds) \o Left'
    <3>1. PICK a \in Seq(Kinds) : a = Meant(rest)
      BY <1>5
    <3>2. (handed \o kinds) \o a = handed \o (kinds \o a)
      BY <1>4, <1>8, Zenon
    <3> QED BY <1>4, <2>2, <2>3, <3>1, <3>2
  <2> QED BY <1>1, <1>4, <1>6, <1>7, <1>9, <1>11, <2>1, <2>4 DEF HandInv
<1> QED BY <1>10, <1>11

LEMMA FirstOfInput ==
  ASSUME HandInv, client.reading, Input # <<>>
  PROVE  /\ LooseItem(proto, Head(Input)) \/ EnclosingItem(proto, Head(Input))
         /\ FromInflated => LooseItem(proto, Head(Input))
<1>1. PacketItems(proto, Input) /\ (FromInflated => LooseItems(proto, Input))
  BY LooseAreMeant DEF HandInv, Input
<1> QED BY <1>1, MeantFirst

LEMMA HandTook ==
  ASSUME HandInv, client.reading, Input # <<>>, UNCHANGED <<proto, packet, sent>>,
         NEW c, ClientShape(c), c.inflating = client.inflating, c.inflated = client.inflated,
         c.raw = client.raw, c.reading = client.reading, c.handed = client.handed,
         c.mode \in Blasts <=> client.mode \in Blasts,
         NEW kind, Hand(c, kind), MeantByAny(Head(Input)) = <<kind>>
  PROVE  HandInv'
<1>1. Past(c, client') /\ client'.mode = c.mode
  BY HandTakes
<1>2. client'.handed = client.handed \o <<kind>>
  <2>1. ClientShape(Rest(c)) /\ Rest(c).handed = c.handed
    BY DEF ClientShape, Rest
  <2>2. PICK r : r = Rest(c)
    OBVIOUS
  <2>3. client' = [r EXCEPT !.handed = Append(@, kind)]
    BY <2>2 DEF Hand
  <2>4. client'.handed = Append(client.handed, kind)
    BY <2>1, <2>2, <2>3 DEF ClientShape
  <2>5. PICK handed : handed = client.handed
    OBVIOUS
  <2>6. handed \in Seq(Kinds)
    BY <2>5 DEF HandInv
  <2>7. Append(handed, kind) = handed \o <<kind>>
    BY <2>6
  <2> QED BY <2>4, <2>5, <2>7
<1>3. FromInflated' = FromInflated
  BY <1>1 DEF FromInflated, Past
<1>4. Took(<<kind>>)
  BY <1>1, <1>2, <1>3 DEF Took, Past, Input
<1> QED BY <1>4, HandedStep

LEMMA EnterTook ==
  ASSUME HandInv, client.reading, Input # <<>>, UNCHANGED <<proto, packet, sent>>,
         ClientShape(client), NEW mode, Enter(client, mode),
         mode \in Blasts <=> client.mode \in Blasts, MeantByAny(Head(Input)) = <<>>
  PROVE  HandInv'
<1>1. Past(client, client') /\ client'.mode = mode
  BY EnterTakes
<1>2. client'.handed = client.handed \o <<>>
  <2>1. ClientShape(Rest(client)) /\ Rest(client).handed = client.handed
    BY DEF ClientShape, Rest
  <2>2. PICK r : r = Rest(client)
    OBVIOUS
  <2>3. client' = [r EXCEPT !.mode = mode]
    BY <2>2 DEF Enter
  <2>4. client'.handed = client.handed
    BY <2>1, <2>2, <2>3 DEF ClientShape
  <2>5. PICK handed : handed = client.handed
    OBVIOUS
  <2>6. handed \in Seq(Kinds)
    BY <2>5 DEF HandInv
  <2> QED BY <2>4, <2>5, <2>6
<1>3. FromInflated' = FromInflated
  BY <1>1 DEF FromInflated, Past
<1>4. Took(<<>>)
  BY <1>1, <1>2, <1>3 DEF Took, Past, Input
<1> QED BY <1>4, HandedStep

\* Tracking leaves the rest of the context alone, in every protocol.
LEMMA TrackingKeeps ==
  ASSUME ClientShape(client), NEW num, NEW solid
  PROVE  /\ LET c == Tracked(proto, client, num, solid)
            IN  ClientShape(c) /\ SameButTracked(client, c)
         /\ LET c == TrackedBaseline(proto, client, num, solid)
            IN  ClientShape(c) /\ SameButTracked(client, c)
         /\ LET c == TrackedRemoval(proto, client, num)
            IN  ClientShape(c) /\ SameButTracked(client, c)
BY DEF ClientShape, SameButTracked, Tracked, TrackedBaseline, TrackedRemoval

LEMMA BaselineTook ==
  ASSUME HandInv, client.reading, Input # <<>>, UNCHANGED <<proto, packet, sent>>,
         ClientShape(client), NEW entity, HandBaseline(entity),
         MeantByAny(Head(Input)) = <<"spawnbaseline">>
  PROVE  HandInv'
<1>1. PICK c : c = TrackedBaseline(proto, client, entity.num, entity.solid)
  OBVIOUS
<1>2. ClientShape(c) /\ SameButTracked(client, c)
  BY <1>1, TrackingKeeps
<1>3. Hand(c, "spawnbaseline")
  BY <1>1 DEF HandBaseline
<1> QED BY <1>2, <1>3, HandTook DEF SameButTracked

\* What is meant by an item that the client takes by itself.
LEMMA AloneMeant ==
  ASSUME NEW p, NEW item, LooseItem(p, item) \/ EnclosingItem(p, item)
  PROVE  /\ item.is \in {"configstring", "delta", "remove", "terminator"} =>
              MeantByAny(item) = <<item.is>>
         /\ item.is = "baseline" => MeantByAny(item) = <<"spawnbaseline">>
         /\ item.is = "end" => MeantByAny(item) = <<>>
         /\ item.is = "command" /\ item.form = "frame" => MeantByAny(item) = <<"frame">>
         /\ item.is = "command" /\ item.form \in StreamForms => MeantByAny(item) = <<>>
         /\ item.is = "command" /\ item.form = "plain" =>
              /\ LooseItem(p, item) /\ MeantByAny(item) = <<item.kind>>
              /\ IF "entity" \in DOMAIN item THEN item.kind = "spawnbaseline"
                                             ELSE Understood(p, item.command) = item.kind
         /\ item.is = "command" /\ item.form \in {"zpacket"} \union Blasts =>
              EnclosingItem(p, item)
<1>1. EnclosingItem(p, item) => item.is = "command" /\ item.form \in {"zpacket"} \union Blasts
  BY DEF EnclosingItem
<1>2. {"frame", "plain"} \intersect ({"zpacket"} \union Blasts) = {}
      /\ StreamForms \intersect ({"zpacket", "frame", "plain"} \union Blasts) = {}
  BY DEF Blasts, StreamForms
<1>3. LooseItem(p, item) => MeantByAny(item) = MeantBy(item)
  BY LooseMeant
<1>4. /\ item.is \in {"configstring", "delta", "remove", "terminator"} =>
           MeantByAny(item) = <<item.is>>
      /\ item.is = "baseline" => MeantByAny(item) = <<"spawnbaseline">>
      /\ item.is = "end" => MeantByAny(item) = <<>>
  BY <1>1, <1>3 DEF MeantBy
<1>5. item.is = "command" /\ item.form = "frame" => MeantByAny(item) = <<"frame">>
  BY <1>1, <1>2, <1>3 DEF MeantBy
<1>6. item.is = "command" /\ item.form \in StreamForms => MeantByAny(item) = <<>>
  <2>1. item.form \in StreamForms =>
          item.form # "frame" /\ item.form # "plain" /\ item.form \notin {"zpacket"} \union Blasts
    BY <1>2
  <2> QED BY <1>1, <1>3, <2>1 DEF MeantBy
<1>7. ASSUME item.is = "command", item.form = "plain"
      PROVE  /\ LooseItem(p, item) /\ MeantByAny(item) = <<item.kind>>
             /\ IF "entity" \in DOMAIN item THEN item.kind = "spawnbaseline"
                                            ELSE Understood(p, item.command) = item.kind
  <2>1. LooseItem(p, item)
    BY <1>1, <1>2, <1>7
  <2>2. MeantBy(item) = <<item.kind>>
    BY <1>7 DEF MeantBy
  <2>3. item.form \notin {"frame"} \union StreamForms
    BY <1>2, <1>7
  <2>4. IF "entity" \in DOMAIN item THEN item.kind = "spawnbaseline"
                                    ELSE Understood(p, item.command) = item.kind
    BY <1>7, <2>1, <2>3 DEF LooseItem
  <2> QED BY <1>3, <2>1, <2>2, <2>4
<1>8. item.is = "command" /\ item.form \in {"zpacket"} \union Blasts => EnclosingItem(p, item)
  BY <1>2 DEF LooseItem
<1> QED BY <1>4, <1>5, <1>6, <1>7, <1>8

-----------------------------------------------------------------------------
(* The steps of the client                                                 *)
LEMMA TakeSteps ==
  ASSUME HandInv, ClientShape(client),
         \/ ReadMessage \/ ReadFrame \/ ReadDelta \/ ReadRemove \/ ReadTerminator
         \/ ReadConfigstring \/ ReadBaseline \/ ReadStreamEnd
         \/ \E form \in StreamForms : OpenStream(form)
  PROVE  HandInv'
<1>1. client.reading /\ Input # <<>> /\ UNCHANGED <<proto, packet, sent>>
  BY DEF ReadMessage, ReadFrame, ReadDelta, ReadRemove, ReadTerminator, ReadConfigstring,
         ReadBaseline, ReadStreamEnd, OpenStream, Takes, Parsing, Parses
<1>2. PICK item : item = Head(Input)
  OBVIOUS
<1>3. LooseItem(proto, item) \/ EnclosingItem(proto, item)
  BY <1>1, <1>2, FirstOfInput
<1>4. /\ item.is \in {"configstring", "delta", "remove", "terminator"} =>
           MeantByAny(item) = <<item.is>>
      /\ item.is = "baseline" => MeantByAny(item) = <<"spawnbaseline">>
      /\ item.is = "end" => MeantByAny(item) = <<>>
      /\ item.is = "command" /\ item.form = "frame" => MeantByAny(item) = <<"frame">>
      /\ item.is = "command" /\ item.form \in StreamForms => MeantByAny(item) = <<>>
  BY <1>3, AloneMeant
<1>5. /\ "packet" \notin Blasts /\ "entities" \notin Blasts /\ "gamestate baselines" \notin Blasts
      /\ \A mode \in StreamForms : mode \notin Blasts
  BY DEF Blasts, StreamForms
<1>6. ASSUME ReadMessage PROVE HandInv'
  <2>1. item.is = "command" /\ item.form = "plain"
    BY <1>2, <1>6 DEF ReadMessage, Takes, Parsing
  <2>2. /\ MeantByAny(item) = <<item.kind>>
        /\ IF "entity" \in DOMAIN item THEN item.kind = "spawnbaseline"
                                       ELSE Understood(proto, item.command) = item.kind
    BY <1>3, <2>1, AloneMeant
  <2>3. CASE "entity" \in DOMAIN item
    <3>1. HandBaseline(item.entity)
      BY <1>2, <1>6, <2>3 DEF ReadMessage
    <3> QED BY <1>1, <1>2, <2>2, <2>3, <3>1, BaselineTook
  <2>4. CASE "entity" \notin DOMAIN item
    <3>1. Hand(client, item.kind)
      BY <1>2, <1>6, <2>2, <2>4 DEF ReadMessage
    <3> QED BY <1>1, <1>2, <2>2, <3>1, HandTook
  <2> QED BY <2>3, <2>4
<1>7. ASSUME ReadFrame PROVE HandInv'
  <2>1. item.is = "command" /\ item.form = "frame" /\ client.mode = "packet"
    BY <1>2, <1>7 DEF ReadFrame, Takes, Parsing
  <2>2. PICK c : c = [client EXCEPT !.mode = "entities"]
    OBVIOUS
  <2>3. /\ ClientShape(c) /\ c.mode = "entities" /\ c.inflating = client.inflating
        /\ c.inflated = client.inflated /\ c.raw = client.raw /\ c.reading = client.reading
        /\ c.handed = client.handed
    BY <2>2 DEF ClientShape
  <2>4. Hand(c, "frame")
    BY <1>7, <2>2 DEF ReadFrame
  <2> QED BY <1>1, <1>2, <1>4, <1>5, <2>1, <2>3, <2>4, HandTook
<1>8. ASSUME ReadDelta PROVE HandInv'
  <2>1. item.is = "delta"
    BY <1>2, <1>8 DEF ReadDelta, Parsing
  <2>2. PICK c : c = Tracked(proto, client, item.num, item.solid)
    OBVIOUS
  <2>3. ClientShape(c) /\ SameButTracked(client, c)
    BY <2>2, TrackingKeeps
  <2>4. Hand(c, "delta")
    BY <1>2, <1>8, <2>2 DEF ReadDelta
  <2> QED BY <1>1, <1>2, <1>4, <2>1, <2>3, <2>4, HandTook DEF SameButTracked
<1>9. ASSUME ReadRemove PROVE HandInv'
  <2>1. item.is = "remove"
    BY <1>2, <1>9 DEF ReadRemove, Parsing
  <2>2. PICK c : c = TrackedRemoval(proto, client, item.num)
    OBVIOUS
  <2>3. ClientShape(c) /\ SameButTracked(client, c)
    BY <2>2, TrackingKeeps
  <2>4. Hand(c, "remove")
    BY <1>2, <1>9, <2>2 DEF ReadRemove
  <2> QED BY <1>1, <1>2, <1>4, <2>1, <2>3, <2>4, HandTook DEF SameButTracked
<1>10. ASSUME ReadTerminator PROVE HandInv'
  <2>1. item.is = "terminator" /\ client.mode = "entities"
    BY <1>2, <1>10 DEF ReadTerminator, Parsing
  <2>2. PICK c : c = [client EXCEPT !.mode = "packet"]
    OBVIOUS
  <2>3. /\ ClientShape(c) /\ c.mode = "packet" /\ c.inflating = client.inflating
        /\ c.inflated = client.inflated /\ c.raw = client.raw /\ c.reading = client.reading
        /\ c.handed = client.handed
    BY <2>2 DEF ClientShape
  <2>4. Hand(c, "terminator")
    BY <1>10, <2>2 DEF ReadTerminator
  <2> QED BY <1>1, <1>2, <1>4, <1>5, <2>1, <2>3, <2>4, HandTook
<1>11. ASSUME ReadConfigstring PROVE HandInv'
  <2>1. item.is = "configstring" /\ Hand(client, "configstring")
    BY <1>2, <1>11 DEF ReadConfigstring, Parsing
  <2> QED BY <1>1, <1>2, <1>4, <2>1, HandTook
<1>12. ASSUME ReadBaseline PROVE HandInv'
  <2>1. item.is = "baseline" /\ HandBaseline(item)
    BY <1>2, <1>12 DEF ReadBaseline, Parsing
  <2> QED BY <1>1, <1>2, <1>4, <2>1, BaselineTook
<1>13. ASSUME ReadStreamEnd PROVE HandInv'
  <2>1. item.is = "end"
    BY <1>2, <1>13 DEF ReadStreamEnd, Parsing
  <2>2. client.mode \in {"configstringstream", "baselinestream", "gamestate",
                         "gamestate baselines"}
    BY <1>13 DEF ReadStreamEnd, Parsing
  <2>3. client.mode \notin Blasts
    BY <1>5, <2>2 DEF StreamForms
  <2>4. PICK mode \in {"packet", "gamestate baselines"} : Enter(client, mode)
    BY <1>13 DEF ReadStreamEnd
  <2> QED BY <1>1, <1>2, <1>4, <1>5, <2>1, <2>3, <2>4, EnterTook
<1>14. ASSUME NEW form \in StreamForms, OpenStream(form) PROVE HandInv'
  <2>1. /\ item.is = "command" /\ item.form = form /\ client.mode = "packet"
        /\ Enter(client, form)
    BY <1>2, <1>14 DEF OpenStream, Takes, Parsing
  <2> QED BY <1>1, <1>2, <1>4, <1>5, <1>14, <2>1, EnterTook
<1> QED BY <1>6, <1>7, <1>8, <1>9, <1>10, <1>11, <1>12, <1>13, <1>14

\* An item that encloses others: what it means is left of what was inflated.
LEMMA InflateStep ==
  ASSUME HandInv, ClientShape(client), NEW form \in {"zpacket"} \union Blasts, Takes(form),
         UNCHANGED <<proto, packet, sent>>, FromInflated', client'.reading = client.reading,
         client'.handed = client.handed, client'.raw = Rest(client).raw,
         client'.inflated = Head(Input).data
  PROVE  HandInv'
<1>1. client.reading /\ Input # <<>>
  BY DEF Takes, Parsing, Parses
<1>2. PICK item : item = Head(Input)
  OBVIOUS
<1>3. item.is = "command" /\ item.form = form
  BY <1>2 DEF Takes, Parsing
<1>4. EnclosingItem(proto, item) /\ ~FromInflated
  <2>1. LooseItem(proto, item) \/ EnclosingItem(proto, item)
    BY <1>1, <1>2, FirstOfInput
  <2>2. EnclosingItem(proto, item)
    BY <1>3, <2>1, AloneMeant
  <2>3. ~LooseItem(proto, item)
    BY <2>2 DEF LooseItem, EnclosingItem
  <2> QED BY <1>1, <1>2, <2>2, <2>3, FirstOfInput
<1>5. /\ proto \in Protocols /\ client.handed \in Seq(Kinds) /\ PacketItems(proto, packet)
      /\ sent = client.handed \o Left /\ PacketItems(proto, client.raw)
  BY <1>1 DEF HandInv
<1>6. Input = client.raw /\ client'.raw = Tail(client.raw)
  BY <1>4 DEF Input, Rest, ClientShape
<1>7. /\ Meant(client.raw) = Meant(item.data) \o Meant(Tail(client.raw))
      /\ PacketItems(proto, Tail(client.raw))
  BY <1>1, <1>2, <1>4, <1>5, <1>6, MeantFirst, EnclosedMeant
<1>8. Left = Meant(client.raw)
  <2>1. Meant(client.raw) \in Seq(Kinds)
    BY <1>5, PacketMeant
  <2> QED BY <1>4, <2>1 DEF Left
<1>9. Left' = Meant(item.data) \o Meant(Tail(client.raw))
  BY <1>2, <1>6 DEF Left
<1>10. LooseItems(proto, item.data)
  BY <1>4 DEF EnclosingItem
<1> QED BY <1>1, <1>2, <1>5, <1>6, <1>7, <1>8, <1>9, <1>10 DEF HandInv

LEMMA InflateSteps ==
  ASSUME HandInv, ClientShape(client), ReadZpacket \/ \E blast \in Blasts : ReadBlast(blast)
  PROVE  HandInv'
<1>1. /\ ClientShape(Rest(client)) /\ Rest(client).handed = client.handed
      /\ Rest(client).reading = client.reading
  BY DEF ClientShape, Rest
<1>2. PICK r : r = Rest(client)
  OBVIOUS
<1>3. PICK data : data = Head(Input).data
  OBVIOUS
<1>4. ASSUME ReadZpacket PROVE HandInv'
  <2>1. client' = [r EXCEPT !.inflating = TRUE, !.inflated = data]
    BY <1>2, <1>3, <1>4 DEF ReadZpacket
  <2>2. /\ client'.inflating /\ client'.inflated = data /\ client'.reading = r.reading
        /\ client'.handed = r.handed /\ client'.raw = r.raw
    BY <1>1, <1>2, <2>1 DEF ClientShape
  <2>3. FromInflated'
    BY <2>2 DEF FromInflated
  <2>4. Takes("zpacket") /\ UNCHANGED <<proto, packet, sent>>
    BY <1>4 DEF ReadZpacket, Takes, Parsing, Parses
  <2> QED BY <1>1, <1>2, <1>3, <2>2, <2>3, <2>4, InflateStep
<1>5. ASSUME NEW blast \in Blasts, ReadBlast(blast) PROVE HandInv'
  <2>1. client' = [r EXCEPT !.mode = blast, !.inflated = data]
    BY <1>2, <1>3, <1>5 DEF ReadBlast
  <2>2. /\ client'.mode = blast /\ client'.inflated = data /\ client'.reading = r.reading
        /\ client'.handed = r.handed /\ client'.raw = r.raw
    BY <1>1, <1>2, <2>1 DEF ClientShape
  <2>3. FromInflated'
    BY <1>5, <2>2 DEF FromInflated
  <2>4. Takes(blast) /\ UNCHANGED <<proto, packet, sent>>
    BY <1>5 DEF ReadBlast, Takes, Parsing, Parses
  <2> QED BY <1>1, <1>2, <1>3, <1>5, <2>2, <2>3, <2>4, InflateStep
<1> QED BY <1>4, <1>5

\* The end of what was inflated, of the packet, or of the client's patience.
LEMMA EndSteps ==
  ASSUME HandInv, ClientShape(client),
         ReadZpacketEnd \/ ReadBlastEnd \/ ReadPacketEnd \/ ReadBroken \/ SkipPacket \/ Reconnect
  PROVE  HandInv'
<1>1. /\ proto \in Protocols /\ client.handed \in Seq(Kinds) /\ PacketItems(proto, packet)
      /\ client.reading =>
           /\ sent = client.handed \o Left /\ PacketItems(proto, client.raw)
           /\ FromInflated => LooseItems(proto, client.inflated)
  BY DEF HandInv
<1>2. "packet" \notin Blasts /\ "entities" \notin Blasts
  BY DEF Blasts
<1>3. ASSUME ReadZpacketEnd \/ ReadBlastEnd PROVE HandInv'
  <2>1. /\ client.reading /\ UNCHANGED <<proto, packet, sent>> /\ FromInflated
        /\ client.inflated = <<>>
    BY <1>3 DEF ReadZpacketEnd, ReadBlastEnd, Parses, Input, FromInflated
  <2>2. /\ client'.reading /\ client'.handed = client.handed /\ client'.raw = client.raw
        /\ client'.inflated = client.inflated
    BY <1>3, <2>1 DEF ReadZpacketEnd, ReadBlastEnd, ClientShape
  <2>3. Left = Left'
    <3>1. Meant(client.raw) \in Seq(Kinds)
      BY <1>1, <2>1, PacketMeant
    <3> QED BY <2>1, <2>2, <3>1, NothingMeant DEF Left
  <2> QED BY <1>1, <2>1, <2>2, <2>3 DEF HandInv
<1>4. ASSUME ReadBroken PROVE HandInv'
  <2>1. client.reading /\ UNCHANGED <<proto, packet, sent>>
    BY <1>4 DEF ReadBroken, Parses
  <2>2. PICK mode : mode = IF client.mode = "entities" THEN "packet" ELSE client.mode
    OBVIOUS
  <2>3. client' = [client EXCEPT !.error = "broken", !.mode = mode]
    BY <1>4, <2>2 DEF ReadBroken
  <2>4. /\ client'.reading /\ client'.handed = client.handed /\ client'.raw = client.raw
        /\ client'.inflated = client.inflated /\ client'.inflating = client.inflating
        /\ client'.mode = mode
    BY <2>1, <2>3 DEF ClientShape
  <2>5. FromInflated' = FromInflated
    BY <1>2, <2>2, <2>4 DEF FromInflated
  <2>6. Left' = Left
    BY <2>4, <2>5 DEF Left
  <2> QED BY <1>1, <2>1, <2>4, <2>5, <2>6 DEF HandInv
<1>5. ASSUME ReadPacketEnd \/ SkipPacket PROVE HandInv'
  <2>1. ~FromInflated /\ sent' = <<>> /\ UNCHANGED <<proto, packet>>
    BY <1>2, <1>5 DEF ReadPacketEnd, SkipPacket, AtEnd, FromInflated
  <2>2. /\ client'.reading = FALSE /\ client'.handed = <<>>
        /\ client'.inflating = client.inflating /\ client'.mode = client.mode
    BY <1>5 DEF ReadPacketEnd, SkipPacket, ClientShape
  <2>3. ~FromInflated'
    BY <2>1, <2>2 DEF FromInflated
  <2> QED BY <1>1, <2>1, <2>2, <2>3 DEF HandInv
<1>6. ASSUME Reconnect PROVE HandInv'
  <2>1. /\ client'.mode = "packet" /\ client'.inflating = FALSE /\ client'.reading = FALSE
        /\ client'.handed = <<>> /\ packet' = <<>> /\ sent' = <<>> /\ UNCHANGED proto
    BY <1>6 DEF Reconnect, ClientInit
  <2>2. ~FromInflated'
    BY <1>2, <2>1 DEF FromInflated
  <2> QED BY <1>1, <2>1, <2>2, NothingMeant DEF HandInv
<1> QED BY <1>3, <1>4, <1>5, <1>6

-----------------------------------------------------------------------------
(* The server and its application                                          *)
LEMMA PutStep ==
  ASSUME HandInv, ~client.reading, NEW items, PacketItems(proto, items), Put(items)
  PROVE  HandInv'
<1>1. /\ proto \in Protocols /\ client.handed = <<>> /\ sent = <<>> /\ ~FromInflated
      /\ PacketItems(proto, packet) /\ client.handed \in Seq(Kinds)
  BY DEF HandInv
<1>2. packet' = packet \o items /\ UNCHANGED <<proto, sent, client>>
  BY DEF Put
<1>3. PacketItems(proto, packet')
  BY <1>1, <1>2, PacketGrows
<1>4. ~FromInflated' /\ client'.handed \in Seq(Kinds)
  BY <1>1, <1>2 DEF FromInflated
<1> QED BY <1>1, <1>2, <1>3, <1>4 DEF HandInv

\* Several items: each of them is one that may be in a packet.
LEMMA LooseList ==
  ASSUME NEW p, NEW n \in Nat, NEW items, items = [i \in 1 .. n |-> items[i]],
         \A i \in 1 .. n : LooseItem(p, items[i])
  PROVE  LooseItems(p, items)
<1> DEFINE T == {items[i] : i \in 1 .. n}
<1>1. \A i \in 1 .. n : items[i] \in T
  OBVIOUS
<1> HIDE DEF T
<1>2. items \in [1 .. n -> T]
  BY <1>1
<1>3. items \in Seq(T) /\ Len(items) = n
  BY <1>2
<1> QED BY <1>3 DEF LooseItems, T

\* A command whose byte the client takes for what it is.
LEMMA MessageIsLoose ==
  ASSUME NEW p \in Protocols, NEW kind \in Kinds, NEW command, Understood(p, command) = kind
  PROVE  LooseItem(p, Message(kind, command))
<1>1. PICK item : item = Message(kind, command)
  OBVIOUS
<1>2. /\ item.is = "command" /\ item.form = "plain" /\ item.kind = kind
      /\ item.command = command /\ "data" \notin DOMAIN item /\ "entity" \notin DOMAIN item
  BY <1>1 DEF Message
<1>3. LooseItem(p, item)
  BY <1>2 DEF LooseItem, Encloses
<1> QED BY <1>1, <1>3

LEMMA ItemsAreLoose ==
  ASSUME NEW p
  PROVE  /\ \A form \in {"frame"} \union StreamForms : \A command :
              LooseItem(p, Opening(form, command))
         /\ \A is \in {"delta", "baseline"} : \A num, solid, narrow :
              LooseItem(p, Entity(is, num, solid, narrow))
         /\ \A num : LooseItem(p, Removal(num))
         /\ LooseItem(p, Configstring) /\ LooseItem(p, EndOfStream)
         /\ LooseItem(p, Broken) /\ LooseItem(p, Terminator)
<1>1. ASSUME NEW form \in {"frame"} \union StreamForms, NEW command
      PROVE  LooseItem(p, Opening(form, command))
  <2>1. PICK item : item = Opening(form, command)
    OBVIOUS
  <2>2. item.is = "command" /\ item.form = form /\ "data" \notin DOMAIN item
    BY <2>1 DEF Opening
  <2>3. LooseItem(p, item)
    BY <2>2 DEF LooseItem, Encloses
  <2> QED BY <2>1, <2>3
<1>2. ASSUME NEW is \in {"delta", "baseline"}, NEW num, NEW solid, NEW narrow
      PROVE  LooseItem(p, Entity(is, num, solid, narrow))
  <2>1. PICK item : item = Entity(is, num, solid, narrow)
    OBVIOUS
  <2>2. item.is = is /\ "data" \notin DOMAIN item
    BY <2>1 DEF Entity
  <2>3. LooseItem(p, item)
    BY <2>2 DEF LooseItem, Encloses
  <2> QED BY <2>1, <2>3
<1>3. ASSUME NEW num PROVE LooseItem(p, Removal(num))
  <2>1. PICK item : item = Removal(num)
    OBVIOUS
  <2>2. item.is = "remove" /\ "data" \notin DOMAIN item
    BY <2>1 DEF Removal
  <2>3. LooseItem(p, item)
    BY <2>2 DEF LooseItem, Encloses
  <2> QED BY <2>1, <2>3
<1>4. ASSUME NEW is \in {"configstring", "end", "broken", "terminator"}, NEW item,
             item = [is |-> is]
      PROVE  LooseItem(p, item)
  <2>1. item.is = is /\ "data" \notin DOMAIN item
    BY <1>4
  <2> QED BY <2>1 DEF LooseItem, Encloses
<1> QED BY <1>1, <1>2, <1>3, <1>4 DEF Configstring, EndOfStream, Broken, Terminator

LEMMA CompressedEncloses ==
  ASSUME NEW p, NEW form, NEW command, NEW data, LooseItems(p, data),
         IF p \in Kex THEN form \in Blasts ELSE form = "zpacket"
  PROVE  EnclosingItem(p, Compressed(form, command, data))
<1>1. PICK item : item = Compressed(form, command, data)
  OBVIOUS
<1>2. /\ item.is = "command" /\ item.form = form /\ item.data = data
      /\ "data" \in DOMAIN item
  BY <1>1 DEF Compressed
<1>3. EnclosingItem(p, item)
  BY <1>2 DEF EnclosingItem, Encloses
<1> QED BY <1>1, <1>3

LEMMA PlainlyLoose ==
  ASSUME proto \in Protocols, NEW num, NEW solid,
         NEW items \in Plainly(BaselineOf(num, solid))
  PROVE  LooseItems(proto, items)
<1>1. PICK b : b = BaselineOf(num, solid)
  OBVIOUS
<1>2. LooseItem(proto, b)
  BY <1>1, ItemsAreLoose DEF BaselineOf
<1>3. /\ LooseItem(proto, Configstring) /\ LooseItem(proto, EndOfStream)
      /\ \A form \in StreamForms : \A command : LooseItem(proto, Opening(form, command))
  BY ItemsAreLoose
<1>4. ASSUME items = InStreams(b) PROVE LooseItems(proto, items)
  <2>1. PICK c : c = IF proto = "q2pro" THEN Q2proStreams ELSE Q2reproStreams
    OBVIOUS
  <2>2. PICK x : x = Opening("configstringstream", c.config)
    OBVIOUS
  <2>3. PICK y : y = Opening("baselinestream", c.baseline)
    OBVIOUS
  <2>4. LooseItem(proto, x) /\ LooseItem(proto, y)
    BY <1>3, <2>2, <2>3 DEF StreamForms
  <2>5. items = <<x, Configstring, EndOfStream, y, b, EndOfStream>>
    BY <1>4, <2>1, <2>2, <2>3 DEF InStreams
  <2>6. /\ items = [i \in 1 .. 6 |-> items[i]]
        /\ \A i \in 1 .. 6 : LooseItem(proto, items[i])
    BY <1>2, <1>3, <2>4, <2>5
  <2> QED BY <2>6, LooseList
<1>5. ASSUME items = InOneMessage(b) PROVE LooseItems(proto, items)
  <2>1. PICK x : x = Opening("gamestate", 23)
    OBVIOUS
  <2>2. LooseItem(proto, x)
    BY <1>3, <2>1 DEF StreamForms
  <2>3. items = <<x, Configstring, EndOfStream, b, EndOfStream>>
    BY <1>5, <2>1 DEF InOneMessage
  <2>4. /\ items = [i \in 1 .. 5 |-> items[i]]
        /\ \A i \in 1 .. 5 : LooseItem(proto, items[i])
    BY <1>2, <1>3, <2>2, <2>3
  <2> QED BY <2>4, LooseList
<1>6. ASSUME items = Separately(b) PROVE LooseItems(proto, items)
  <2>1. PICK x : x = Message("configstring", 13)
    OBVIOUS
  <2>2. LooseItem(proto, x)
    <3>1. Understood(proto, 13) = "configstring" /\ "configstring" \in Kinds
      BY CommandAssumption DEF Kinds
    <3> QED BY <2>1, <3>1, MessageIsLoose
  <2>3. PICK y : y = BaselineMessage(b)
    OBVIOUS
  <2>4. /\ y.is = "command" /\ y.form = "plain" /\ y.kind = "spawnbaseline"
        /\ "entity" \in DOMAIN y /\ "data" \notin DOMAIN y
    BY <2>3 DEF BaselineMessage
  <2>5. LooseItem(proto, y)
    BY <2>4 DEF LooseItem, Encloses, Kinds
  <2>6. items = <<x, y>>
    BY <1>6, <2>1, <2>3 DEF Separately
  <2>7. items = [i \in 1 .. 2 |-> items[i]] /\ \A i \in 1 .. 2 : LooseItem(proto, items[i])
    BY <2>2, <2>5, <2>6
  <2> QED BY <2>7, LooseList
<1>7. items \in {InStreams(b), InOneMessage(b), Separately(b)}
  <2>1. CASE proto = "q2pro"
    BY <1>1, <2>1 DEF Plainly
  <2>2. CASE proto = "q2repro"
    BY <1>1, <2>2 DEF Plainly
  <2>3. CASE proto \notin {"q2pro", "q2repro"}
    BY <1>1, <2>3 DEF Plainly
  <2> QED BY <2>1, <2>2, <2>3
<1> QED BY <1>4, <1>5, <1>6, <1>7

LEMMA WriteSteps ==
  ASSUME HandInv, Server
  PROVE  HandInv'
<1>1. ASSUME NEW items, LooseItems(proto, items), Put(items), ~client.reading PROVE HandInv'
  <2>1. PacketItems(proto, items)
    BY <1>1, LooseAreMeant
  <2> QED BY <1>1, <2>1, PutStep
<1>2. ASSUME NEW x, LooseItem(proto, x), Put(<<x>>), ~client.reading PROVE HandInv'
  <2>1. LooseItems(proto, <<x>>)
    BY <1>2, OneItem
  <2> QED BY <1>1, <1>2, <2>1
<1>3. proto \in Protocols
  BY DEF HandInv
<1>4. ASSUME NEW kind \in WrittenKinds, WriteMessage(kind) PROVE HandInv'
  <2>1. /\ kind \in DOMAIN ServerWrites(proto) /\ ~client.reading
        /\ \E command \in ServerWrites(proto)[kind] : Put(<<Message(kind, command)>>)
    BY <1>4 DEF WriteMessage, MayWrite
  <2>2. PICK command \in ServerWrites(proto)[kind] : Put(<<Message(kind, command)>>)
    BY <2>1
  <2>3. Understood(proto, command) = kind
    BY <1>3, <2>1, <2>2, CommandAssumption
  <2>4. LooseItem(proto, Message(kind, command))
    BY <1>3, <1>4, <2>3, MessageIsLoose DEF Kinds
  <2> QED BY <1>2, <2>1, <2>2, <2>4
<1>5. ASSUME WriteFrame PROVE HandInv'
  <2>1. ~client.reading /\ \E command \in FrameCommands(proto) : Put(<<Opening("frame", command)>>)
    BY <1>5 DEF WriteFrame, MayWrite
  <2>2. PICK command : Put(<<Opening("frame", command)>>)
    BY <2>1
  <2> QED BY <1>2, <2>1, <2>2, ItemsAreLoose
<1>6. ASSUME NEW num, WriteDelta(num) PROVE HandInv'
  <2>1. /\ ~client.reading
        /\ \E solid \in SolidsOf :
             Put(<<Entity("delta", num, solid, Narrow(proto, solid, num \in server.edict))>>)
    BY <1>6 DEF WriteDelta, MayWrite
  <2>2. PICK solid : Put(<<Entity("delta", num, solid, Narrow(proto, solid, num \in server.edict))>>)
    BY <2>1
  <2>3. PICK narrow : narrow = Narrow(proto, solid, num \in server.edict)
    OBVIOUS
  <2>4. LooseItem(proto, Entity("delta", num, solid, narrow))
    BY ItemsAreLoose
  <2> QED BY <1>2, <2>1, <2>2, <2>3, <2>4
<1>7. ASSUME NEW num, WriteRemove(num) PROVE HandInv'
  BY <1>2, <1>7, ItemsAreLoose DEF WriteRemove, MayWrite
<1>8. ASSUME WriteTerminator PROVE HandInv'
  BY <1>2, <1>8, ItemsAreLoose DEF WriteTerminator
<1>9. ASSUME NEW num, WriteGamestate(num) PROVE HandInv'
  <2>1. /\ ~client.reading
        /\ \E solid \in SolidsOf : \E items \in Gamestates(BaselineOf(num, solid)) : Put(items)
    BY <1>9 DEF WriteGamestate, MayWrite
  <2>2. PICK solid : \E items \in Gamestates(BaselineOf(num, solid)) : Put(items)
    BY <2>1
  <2>3. PICK items \in Gamestates(BaselineOf(num, solid)) : Put(items)
    BY <2>2
  <2>4. PICK b : b = BaselineOf(num, solid)
    OBVIOUS
  <2>5. CASE items \in Plainly(b)
    BY <1>1, <1>3, <2>1, <2>3, <2>4, <2>5, PlainlyLoose
  <2>6. CASE proto \in Kex /\ items = InBlasts(b)
    <3>1. LooseItem(proto, b) /\ LooseItem(proto, Configstring)
      BY <2>4, ItemsAreLoose DEF BaselineOf
    <3>2. LooseItems(proto, <<b>>) /\ LooseItems(proto, <<Configstring>>)
      BY <3>1, OneItem
    <3>3. PICK x : x = Compressed("configblast", 22, <<Configstring>>)
      OBVIOUS
    <3>4. PICK y : y = Compressed("spawnbaselineblast", 23, <<b>>)
      OBVIOUS
    <3>5. EnclosingItem(proto, x) /\ EnclosingItem(proto, y)
      BY <2>6, <3>2, <3>3, <3>4, CompressedEncloses DEF Blasts
    <3>6. PacketItems(proto, <<x>>) /\ PacketItems(proto, <<y>>)
      BY <3>5, OneItem
    <3>7. items = <<x>> \o <<y>>
      BY <2>6, <3>3, <3>4 DEF InBlasts
    <3>8. PacketItems(proto, items)
      BY <3>6, <3>7, PacketGrows
    <3> QED BY <2>1, <2>3, <3>8, PutStep
  <2>7. CASE HasZpacket(proto) /\ \E g \in Plainly(b) :
                items = <<Compressed("zpacket", ZpacketCmd(proto), g)>>
    <3>1. PICK g \in Plainly(b) : items = <<Compressed("zpacket", ZpacketCmd(proto), g)>>
      BY <2>7
    <3>2. LooseItems(proto, g) /\ proto \notin Kex
      BY <1>3, <2>4, <2>7, PlainlyLoose DEF HasZpacket, ZpacketCmd, Kex
    <3>3. EnclosingItem(proto, Compressed("zpacket", ZpacketCmd(proto), g))
      BY <3>2, CompressedEncloses
    <3>4. PacketItems(proto, items)
      BY <3>1, <3>3, OneItem
    <3> QED BY <2>1, <2>3, <3>4, PutStep
  <2>8. \/ items \in Plainly(b)
        \/ proto \in Kex /\ items = InBlasts(b)
        \/ HasZpacket(proto) /\ \E g \in Plainly(b) :
              items = <<Compressed("zpacket", ZpacketCmd(proto), g)>>
    BY <2>3, <2>4, Zenon DEF Gamestates
  <2> QED BY <2>5, <2>6, <2>7, <2>8
<1>10. ASSUME Overfill PROVE HandInv'
  <2>1. ~client.reading /\ (Put(<<>>) \/ Put(<<Broken>>))
    BY <1>10 DEF Overfill, MayWrite
  <2>2. LooseItems(proto, <<>>)
    BY NothingMeant
  <2> QED BY <1>1, <1>2, <2>1, <2>2, ItemsAreLoose
<1> QED BY <1>4, <1>5, <1>6, <1>7, <1>8, <1>9, <1>10 DEF Server, WrittenKinds

LEMMA DeliverStep ==
  ASSUME HandInv, ClientShape(client), ~client.reading, NEW items, PacketItems(proto, items),
         Deliver(items)
  PROVE  HandInv'
<1>1. proto \in Protocols /\ ~FromInflated
  BY DEF HandInv
<1>2. /\ packet' = <<>> /\ UNCHANGED proto /\ sent' = Meant(items)
      /\ client' = [client EXCEPT !.reading = TRUE, !.raw = items, !.handed = <<>>]
  BY DEF Deliver, Emptied
<1>3. /\ client'.reading = TRUE /\ client'.raw = items /\ client'.handed = <<>>
      /\ client'.mode = client.mode /\ client'.inflating = client.inflating
  BY <1>2 DEF ClientShape
<1>4. ~FromInflated'
  BY <1>1, <1>3 DEF FromInflated
<1>5. Left' = <<>> \o Meant(items)
  BY <1>3, <1>4 DEF Left
<1>6. Meant(items) \in Seq(Kinds) /\ <<>> \in Seq(Kinds)
  BY PacketMeant
<1>7. sent' = client'.handed \o Left'
  <2>1. PICK meant \in Seq(Kinds) : meant = Meant(items)
    BY <1>6
  <2> QED BY <1>2, <1>3, <1>5, <2>1
<1> QED BY <1>1, <1>2, <1>3, <1>4, <1>6, <1>7, NothingMeant DEF HandInv

\* What is compressed must not contain a zpacket.
LEMMA SendZpacketStep ==
  ASSUME HandInv, ClientShape(client), ~Nests, SendZpacket
  PROVE  HandInv'
<1>1. /\ ~client.reading /\ packet # <<>> /\ HasZpacket(proto) /\ PacketItems(proto, packet)
      /\ ~HasForm("zpacket", <<Head(packet)>>) /\ ~HasForm("zpacket", Tail(packet))
      /\ Deliver(<<Compressed("zpacket", ZpacketCmd(proto), packet)>>)
  BY DEF SendZpacket, Finished, HandInv
<1>2. proto \notin Kex
  BY <1>1 DEF HasZpacket, ZpacketCmd, Kex
<1>3. PICK S : packet \in Seq(S)
  BY <1>1 DEF PacketItems
<1>4. ASSUME NEW i \in 1 .. Len(packet) PROVE LooseItem(proto, packet[i])
  <2>1. ASSUME packet[i].is = "command", packet[i].form = "zpacket" PROVE FALSE
    <3>1. CASE i = 1
      <4>1. PICK x : x = Head(packet)
        OBVIOUS
      <4>2. x = packet[i]
        BY <1>1, <1>3, <3>1, <4>1
      <4>3. 1 \in DOMAIN <<x>> /\ <<x>>[1] = x
        OBVIOUS
      <4>4. HasForm("zpacket", <<x>>)
        BY <2>1, <4>2, <4>3 DEF HasForm
      <4> QED BY <1>1, <4>1, <4>4
    <3>2. CASE i # 1
      <4>1. PICK rest : rest = Tail(packet)
        OBVIOUS
      <4>2. i - 1 \in DOMAIN rest /\ rest[i - 1] = packet[i]
        BY <1>1, <1>3, <3>2, <4>1
      <4>3. HasForm("zpacket", rest)
        BY <2>1, <4>2 DEF HasForm
      <4> QED BY <1>1, <4>1, <4>3
    <3> QED BY <3>1, <3>2
  <2>2. LooseItem(proto, packet[i]) \/ EnclosingItem(proto, packet[i])
    BY <1>1 DEF PacketItems
  <2> QED BY <1>2, <2>1, <2>2 DEF EnclosingItem
<1>5. LooseItems(proto, packet)
  BY <1>1, <1>4 DEF PacketItems, LooseItems
<1>6. PICK items : items = <<Compressed("zpacket", ZpacketCmd(proto), packet)>>
  OBVIOUS
<1>7. PacketItems(proto, items)
  BY <1>2, <1>5, <1>6, CompressedEncloses, OneItem
<1> QED BY <1>1, <1>6, <1>7, DeliverStep

LEMMA HandInit == Init => HandInv
<1> SUFFICES ASSUME Init PROVE HandInv
  OBVIOUS
<1>1. /\ proto \in Protocols /\ packet = <<>> /\ sent = <<>> /\ client.handed = <<>>
      /\ ~client.reading /\ ~client.inflating /\ client.mode = "packet"
  BY DEF Init, ClientInit
<1>2. ~FromInflated
  BY <1>1 DEF FromInflated, Blasts
<1> QED BY <1>1, <1>2, NothingMeant DEF HandInv

LEMMA HandStays ==
  ASSUME HandInv, UNCHANGED <<proto, packet, sent, client>>
  PROVE  HandInv'
BY DEF HandInv, FromInflated, Left

LEMMA HandNext ==
  ASSUME HandInv, ClientShape(client), ~Nests, [Next]_vars
  PROVE  HandInv'
<1>1. CASE UNCHANGED vars
  BY <1>1, HandStays DEF vars
<1>2. CASE Server
  BY <1>2, WriteSteps
<1>3. CASE Client
  BY <1>3, TakeSteps, InflateSteps, EndSteps DEF Client, Reads
<1>4. CASE SendPacket
  BY <1>4, DeliverStep DEF SendPacket, Finished, HandInv
<1>5. CASE SendZpacket
  BY <1>5, SendZpacketStep
<1>6. CASE LosePacket
  <2>1. packet' = <<>> /\ UNCHANGED <<proto, sent, client>> /\ ~client.reading
    BY <1>6 DEF LosePacket, Emptied, Finished
  <2>2. PacketItems(proto, packet')
    BY <2>1, NothingMeant
  <2> QED BY <2>1, <2>2 DEF HandInv, FromInflated
<1>7. CASE SkipPacket \/ Reconnect
  BY <1>7, EndSteps
<1>8. ASSUME NEW kind, ClientWrite(kind) PROVE HandInv'
  BY <1>8, HandStays DEF ClientWrite
<1> QED BY <1>1, <1>2, <1>3, <1>4, <1>5, <1>6, <1>7, <1>8 DEF Next

-----------------------------------------------------------------------------
(* The server holds for solid what the client will hold when it has read   *)
(* what is ahead of it, and what the client was handed is followed in the  *)
(* packet by the rest of what is meant for it.                             *)
HandoverInv == SolidInv /\ (~Nests => HandInv)
LEMMA Handover == Spec => []HandoverInv
<1>1. Init => HandoverInv
  BY SolidInit, HandInit DEF HandoverInv
<1>2. HandoverInv /\ [Next]_vars => HandoverInv'
  BY SolidStep, HandNext DEF HandoverInv, SolidInv
<1> QED BY <1>1, <1>2, PTL DEF Spec

(* If the application wraps no packet that contains a zpacket the client   *)
(* hands over what the server wrote, in order, and all of it by the end of *)
(* the packet.                                                             *)
THEOREM EverythingHanded ==
  ASSUME ~Nests
  PROVE  Spec => []AllHanded
<1>1. HandInv => AllHanded
  <2> SUFFICES ASSUME HandInv PROVE AllHanded
    OBVIOUS
  <2>1. PICK handed \in Seq(Kinds) : handed = client.handed
    BY DEF HandInv
  <2>2. CASE client.reading
    <3>1. sent = handed \o Left /\ Left \in Seq(Kinds)
      <4>1. /\ sent = client.handed \o Left /\ PacketItems(proto, client.raw)
            /\ FromInflated => LooseItems(proto, client.inflated)
        BY <2>2 DEF HandInv
      <4>2. Meant(client.raw) \in Seq(Kinds)
        BY <4>1, PacketMeant
      <4>3. FromInflated => Meant(client.inflated) \in Seq(Kinds)
        BY <4>1, LooseAreMeant
      <4> QED BY <2>1, <4>1, <4>2, <4>3 DEF Left
    <3>2. PICK left \in Seq(Kinds) : left = Left
      BY <3>1
    <3>3. sent = handed \o left
      BY <3>1, <3>2
    <3>4. IsPrefix(handed, sent)
      BY <3>3 DEF IsPrefix
    <3>5. ASSUME AtEnd PROVE handed = sent
      <4>1. ~FromInflated /\ client.raw = <<>>
        BY <3>5 DEF AtEnd, FromInflated, Input, Blasts
      <4>2. left = <<>>
        BY <3>2, <4>1, NothingMeant DEF Left
      <4> QED BY <3>3, <4>2
    <3> QED BY <2>1, <3>4, <3>5 DEF AllHanded
  <2>3. CASE ~client.reading
    <3>1. client.handed = <<>> /\ sent = <<>>
      BY <2>3 DEF HandInv
    <3>2. IsPrefix(<<>>, <<>>)
      BY DEF IsPrefix
    <3> QED BY <2>3, <3>1, <3>2 DEF AllHanded
  <2> QED BY <2>2, <2>3
<1>2. HandoverInv => AllHanded
  BY <1>1 DEF HandoverInv
<1> QED BY <1>2, Handover, PTL
-----------------------------------------------------------------------------
(* Where the parser is after a list of items.  A path is the function that *)
(* Through builds: where it is after each of them.                         *)
Path(p, f, n, r, items) ==
  f = [i \in 0 .. n |-> IF i = 0 THEN r ELSE Beyond(p, f[i - 1], items[i])]

\* A path can be continued ...
LEMMA PathContinues ==
  ASSUME NEW p, NEW n \in Nat, NEW r, NEW items, NEW f, Path(p, f, n, r, items)
  PROVE  \E g : Path(p, g, n + 1, r, items)
<1> DEFINE g == [i \in 0 .. n + 1 |-> IF i = n + 1 THEN Beyond(p, f[n], items[n + 1]) ELSE f[i]]
<1>1. \A i \in 0 .. n : g[i] = f[i]
  OBVIOUS
<1>2. g[n + 1] = Beyond(p, f[n], items[n + 1])
  OBVIOUS
<1>3. \A i \in 0 .. n : f[i] = IF i = 0 THEN r ELSE Beyond(p, f[i - 1], items[i])
  BY Zenon DEF Path
<1>4. ASSUME NEW i \in 0 .. n + 1
      PROVE  g[i] = IF i = 0 THEN r ELSE Beyond(p, g[i - 1], items[i])
  <2>1. CASE i = n + 1
    <3>1. i - 1 = n /\ n \in 0 .. n /\ i # 0
      BY <2>1
    <3> HIDE DEF g
    <3> QED BY <1>1, <1>2, <2>1, <3>1
  <2>2. CASE i = 0
    <3>1. i \in 0 .. n
      BY <2>2
    <3> HIDE DEF g
    <3> QED BY <1>1, <1>3, <2>2, <3>1
  <2>3. CASE i \in 1 .. n
    <3>1. i \in 0 .. n /\ i - 1 \in 0 .. n /\ i # 0
      BY <2>3
    <3> HIDE DEF g
    <3> QED BY <1>1, <1>3, <3>1
  <2> QED BY <2>1, <2>2, <2>3
<1>5. Path(p, g, n + 1, r, items)
  <2>1. g = [i \in 0 .. n + 1 |-> g[i]]
    OBVIOUS
  <2> HIDE DEF g
  <2> QED BY <1>4, <2>1 DEF Path
<1> QED BY <1>5

\* ... so there is one of every length ...
LEMMA PathExists ==
  ASSUME NEW p, NEW n \in Nat, NEW r, NEW items
  PROVE  \E f : Path(p, f, n, r, items)
<1>1. PICK S : S = {m \in Nat : ~\E f : Path(p, f, m, r, items)}
  OBVIOUS
<1>2. S = {}
  <2> SUFFICES ASSUME S # {} PROVE FALSE
    OBVIOUS
  <2>1. PICK m \in S : \A k \in S : m <= k
    BY <1>1, LeastElement
  <2>2. m \in Nat /\ ~\E f : Path(p, f, m, r, items)
    BY <1>1
  <2>3. CASE m = 0
    <3> DEFINE g == [i \in 0 .. 0 |-> r]
    <3>1. Path(p, g, 0, r, items)
      BY DEF Path
    <3> QED BY <2>2, <2>3, <3>1
  <2>4. CASE m # 0
    <3>1. m - 1 \in Nat /\ ~(m <= m - 1) /\ (m - 1) + 1 = m
      BY <2>2, <2>4
    <3>2. \E f : Path(p, f, m - 1, r, items)
      BY <1>1, <2>1, <3>1
    <3>3. \E g : Path(p, g, (m - 1) + 1, r, items)
      BY <3>1, <3>2, PathContinues
    <3> QED BY <2>2, <3>1, <3>3
  <2> QED BY <2>3, <2>4
<1> QED BY <1>1, <1>2

\* ... and only one.
LEMMA PathUnique ==
  ASSUME NEW p, NEW n \in Nat, NEW r, NEW items,
         NEW f, Path(p, f, n, r, items), NEW g, Path(p, g, n, r, items)
  PROVE  f[n] = g[n]
<1>1. \A i \in 0 .. n : /\ f[i] = IF i = 0 THEN r ELSE Beyond(p, f[i - 1], items[i])
                        /\ g[i] = IF i = 0 THEN r ELSE Beyond(p, g[i - 1], items[i])
  BY Zenon DEF Path
<1>2. PICK S : S = {i \in 0 .. n : f[i] # g[i]}
  OBVIOUS
<1>3. S = {}
  <2> SUFFICES ASSUME S # {} PROVE FALSE
    OBVIOUS
  <2>1. S \in SUBSET Nat
    BY <1>2
  <2>2. PICK i \in S : \A k \in S : i <= k
    BY <2>1, LeastElement
  <2>3. i \in 0 .. n /\ f[i] # g[i]
    BY <1>2
  <2>4. i # 0
    BY <1>1, <2>3
  <2>5. i - 1 \in 0 .. n /\ ~(i <= i - 1)
    BY <2>3, <2>4
  <2>6. f[i - 1] = g[i - 1]
    BY <1>2, <2>2, <2>5
  <2> QED BY <1>1, <2>3, <2>4, <2>6
<1>4. n \in 0 .. n
  OBVIOUS
<1> QED BY <1>2, <1>3, <1>4

LEMMA ThroughIsPath ==
  ASSUME NEW p, NEW r, NEW items, Len(items) \in Nat, NEW f, Path(p, f, Len(items), r, items)
  PROVE  Through(p, r, items) = f[Len(items)]
<1> DEFINE at[i \in 0 .. Len(items)] == IF i = 0 THEN r ELSE Beyond(p, at[i - 1], items[i])
<1>1. Path(p, at, Len(items), r, items)
  BY Zenon DEF Path
<1>2. Through(p, r, items) = at[Len(items)]
  BY DEF Through
<1> HIDE DEF at
<1> QED BY <1>1, <1>2, PathUnique

LEMMA ThroughNone == \A p, r : Through(p, r, <<>>) = r
<1> SUFFICES ASSUME NEW p, NEW r PROVE Through(p, r, <<>>) = r
  OBVIOUS
<1>1. Len(<<>>) = 0 /\ 0 \in Nat /\ 0 \in 0 .. 0
  OBVIOUS
<1>2. PICK f : Path(p, f, 0, r, <<>>)
  BY <1>1, PathExists
<1>3. f[0] = r
  BY <1>1, <1>2 DEF Path
<1> QED BY <1>1, <1>2, <1>3, ThroughIsPath

\* The first item comes first ...
LEMMA ThroughFirst ==
  ASSUME NEW p, NEW S, NEW items \in Seq(S), items # <<>>, NEW r
  PROVE  Through(p, r, items) = Through(p, Beyond(p, r, Head(items)), Tail(items))
<1> DEFINE n == Len(items) - 1
           rest == Tail(items)
<1>1. /\ n \in Nat /\ Len(items) = n + 1 /\ Len(items) \in Nat /\ Len(rest) = n
      /\ Head(items) = items[1] /\ \A i \in 1 .. n : rest[i] = items[i + 1]
  OBVIOUS
<1> HIDE DEF n, rest
<1>2. PICK f : Path(p, f, n + 1, r, items)
  BY <1>1, PathExists
<1>3. \A i \in 0 .. n + 1 : f[i] = IF i = 0 THEN r ELSE Beyond(p, f[i - 1], items[i])
  BY <1>2, Zenon DEF Path
<1> DEFINE g == [i \in 0 .. n |-> f[i + 1]]
<1>4. ASSUME NEW i \in 0 .. n
      PROVE  g[i] = IF i = 0 THEN Beyond(p, r, items[1]) ELSE Beyond(p, g[i - 1], rest[i])
  <2>1. i + 1 \in 0 .. n + 1 /\ i + 1 # 0 /\ (i + 1) - 1 = i /\ g[i] = f[i + 1]
    BY <1>1
  <2>2. f[i + 1] = Beyond(p, f[i], items[i + 1])
    BY <1>3, <2>1
  <2>3. CASE i = 0
    <3>1. 0 \in 0 .. n + 1 /\ 0 + 1 = 1
      BY <1>1
    <3>2. f[0] = r
      BY <1>3, <3>1
    <3> HIDE DEF g
    <3> QED BY <2>1, <2>2, <2>3, <3>1, <3>2
  <2>4. CASE i # 0
    <3>1. i \in 1 .. n /\ i - 1 \in 0 .. n /\ (i - 1) + 1 = i
      BY <1>1, <2>4
    <3>2. g[i - 1] = f[i]
      BY <3>1
    <3> HIDE DEF g
    <3> QED BY <1>1, <2>1, <2>2, <2>4, <3>1, <3>2
  <2> QED BY <2>3, <2>4
<1>5. Path(p, g, n, Beyond(p, r, items[1]), rest)
  <2>1. g = [i \in 0 .. n |-> g[i]]
    OBVIOUS
  <2> HIDE DEF g
  <2> QED BY <1>4, <2>1 DEF Path
<1>6. g[n] = f[n + 1]
  <2>1. n \in 0 .. n
    BY <1>1
  <2> QED BY <2>1
<1> HIDE DEF g
<1>7. Through(p, r, items) = f[n + 1]
  BY <1>1, <1>2, ThroughIsPath
<1>8. Through(p, Beyond(p, r, items[1]), rest) = g[n]
  BY <1>1, <1>5, ThroughIsPath
<1> QED BY <1>1, <1>6, <1>7, <1>8 DEF rest

\* ... and what follows comes after.
LEMMA ThroughBoth ==
  ASSUME NEW p, NEW S, NEW a \in Seq(S), NEW b \in Seq(S), NEW r
  PROVE  Through(p, r, a \o b) = Through(p, Through(p, r, a), b)
<1> DEFINE m == Len(a)
           n == Len(b)
           c == a \o b
<1>1. /\ m \in Nat /\ n \in Nat /\ m + n \in Nat /\ Len(c) = m + n
      /\ \A i \in 1 .. m : c[i] = a[i]
      /\ \A i \in 1 .. n : c[m + i] = b[i]
  OBVIOUS
<1> HIDE DEF m, n, c
<1>2. PICK f : Path(p, f, m + n, r, c)
  BY <1>1, PathExists
<1>3. \A i \in 0 .. m + n : f[i] = IF i = 0 THEN r ELSE Beyond(p, f[i - 1], c[i])
  BY <1>2, Zenon DEF Path
<1> DEFINE g == [i \in 0 .. m |-> f[i]]
           h == [i \in 0 .. n |-> f[m + i]]
<1>4. ASSUME NEW i \in 0 .. m
      PROVE  g[i] = IF i = 0 THEN r ELSE Beyond(p, g[i - 1], a[i])
  <2>1. i \in 0 .. m + n /\ g[i] = f[i] /\ (i # 0 => i \in 1 .. m /\ i - 1 \in 0 .. m)
    BY <1>1
  <2>2. i # 0 => g[i - 1] = f[i - 1]
    BY <2>1
  <2> HIDE DEF g
  <2> QED BY <1>1, <1>3, <2>1, <2>2
<1>5. Path(p, g, m, r, a)
  <2>1. g = [i \in 0 .. m |-> g[i]]
    OBVIOUS
  <2> HIDE DEF g
  <2> QED BY <1>4, <2>1 DEF Path
<1>6. ASSUME NEW i \in 0 .. n
      PROVE  h[i] = IF i = 0 THEN f[m] ELSE Beyond(p, h[i - 1], b[i])
  <2>1. /\ m + i \in 0 .. m + n /\ h[i] = f[m + i] /\ (i = 0 => m + i = m)
        /\ i # 0 => /\ i \in 1 .. n /\ i - 1 \in 0 .. n /\ m + i # 0
                   /\ (m + i) - 1 = m + (i - 1)
    BY <1>1
  <2>2. i # 0 => h[i - 1] = f[m + (i - 1)]
    BY <2>1
  <2>3. i # 0 => c[m + i] = b[i]
    BY <1>1, <2>1
  <2>4. i # 0 => f[m + i] = Beyond(p, f[m + (i - 1)], c[m + i])
    BY <1>3, <2>1
  <2> HIDE DEF h
  <2> QED BY <2>1, <2>2, <2>3, <2>4
<1>7. Path(p, h, n, f[m], b)
  <2>1. h = [i \in 0 .. n |-> h[i]]
    OBVIOUS
  <2> HIDE DEF h
  <2> QED BY <1>6, <2>1 DEF Path
<1>8. g[m] = f[m] /\ h[n] = f[m + n]
  BY <1>1
<1> HIDE DEF g, h
<1>9. Through(p, r, c) = f[m + n]
  BY <1>1, <1>2, ThroughIsPath
<1>10. Through(p, r, a) = f[m]
  BY <1>1, <1>5, <1>8, ThroughIsPath DEF m
<1>11. Through(p, f[m], b) = f[m + n]
  BY <1>1, <1>7, <1>8, ThroughIsPath DEF n
<1> QED BY <1>9, <1>10, <1>11 DEF c

\* One that is lost stays lost.
LEMMA LostForGood ==
  ASSUME NEW p, NEW r, r.mode = "lost", NEW item
  PROVE  Beyond(p, r, item).mode = "lost"
<1>1. \A s, x : s.mode = "lost" => PastItem(p, s, x).mode = "lost"
  BY DEF PastItem, Expects, Lost, Reader, StreamForms, Between
<1>2. \A s : \A blast \in Blasts : s.mode = "lost" => Closed(s, blast).mode = "lost"
  BY DEF Closed, Lost, Reader, Blasts
<1>3. IsBlast(item) => item.form \in Blasts
  BY DEF IsBlast
<1>4. Lost(r).mode = "lost"
  BY DEF Lost, Reader
<1>5. PICK s : s = PastItem(p, PastItem(p, r, item), item.data[1])
  OBVIOUS
<1>6. s.mode = "lost" /\ PastItem(p, r, item).mode = "lost"
  BY <1>1, <1>5
<1>7. Beyond(p, r, item) = IF ~IsBlast(item) THEN PastItem(p, r, item)
                           ELSE IF p \in Kex THEN Closed(s, item.form) ELSE Lost(r)
  BY <1>5 DEF Beyond
<1> QED BY <1>2, <1>3, <1>4, <1>6, <1>7

LEMMA LostThrough ==
  ASSUME NEW p, NEW S, NEW items \in Seq(S), NEW r, r.mode = "lost"
  PROVE  Through(p, r, items).mode = "lost"
<1> DEFINE n == Len(items)
<1>1. n \in Nat /\ n \in 0 .. n
  OBVIOUS
<1> HIDE DEF n
<1>2. PICK f : Path(p, f, n, r, items)
  BY <1>1, PathExists
<1>3. \A i \in 0 .. n : f[i] = IF i = 0 THEN r ELSE Beyond(p, f[i - 1], items[i])
  BY <1>2, Zenon DEF Path
<1>4. PICK T : T = {i \in 0 .. n : f[i].mode # "lost"}
  OBVIOUS
<1>5. T = {}
  <2> SUFFICES ASSUME T # {} PROVE FALSE
    OBVIOUS
  <2>1. T \in SUBSET Nat
    BY <1>4
  <2>2. PICK i \in T : \A k \in T : i <= k
    BY <2>1, LeastElement
  <2>3. i \in 0 .. n /\ f[i].mode # "lost"
    BY <1>4
  <2>4. i # 0
    BY <1>3, <2>3
  <2>5. i - 1 \in 0 .. n /\ ~(i <= i - 1)
    BY <1>1, <2>3, <2>4
  <2>6. f[i - 1].mode = "lost"
    BY <1>4, <2>2, <2>5
  <2>7. f[i] = Beyond(p, f[i - 1], items[i])
    BY <1>3, <2>3, <2>4
  <2> QED BY <2>3, <2>6, <2>7, LostForGood
<1>6. f[n].mode = "lost"
  BY <1>1, <1>4, <1>5
<1> QED BY <1>1, <1>2, <1>6, ThroughIsPath DEF n

-----------------------------------------------------------------------------
(* Lists of items                                                          *)
LEMMA ListedNone == Listed(<<>>)
BY DEF Listed

LEMMA ListedTail ==
  ASSUME NEW items, Listed(items), items # <<>>
  PROVE  /\ Listed(Tail(items)) /\ Head(items) = items[1] /\ 1 \in 1 .. Len(items)
         /\ \A i \in 1 .. Len(Tail(items)) :
              Tail(items)[i] = items[i + 1] /\ i + 1 \in 1 .. Len(items)
<1> DEFINE S == {items[i] : i \in 1 .. Len(items)}
           rest == Tail(items)
<1>1. items \in Seq(S)
  BY DEF Listed
<1> HIDE DEF S
<1>2. /\ Len(items) \in Nat /\ Len(items) # 0 /\ Len(rest) = Len(items) - 1
      /\ rest \in Seq(S) /\ Head(items) = items[1]
      /\ \A i \in 1 .. Len(rest) : rest[i] = items[i + 1] /\ i + 1 \in 1 .. Len(items)
  BY <1>1
<1> HIDE DEF rest
<1>3. rest \in Seq({rest[i] : i \in 1 .. Len(rest)})
  BY <1>2
<1> QED BY <1>2, <1>3 DEF Listed, rest

LEMMA ListedBoth ==
  ASSUME NEW a, Listed(a), NEW b, Listed(b)
  PROVE  /\ Listed(a \o b)
         /\ \A i \in 1 .. Len(a \o b) :
              \/ i \in 1 .. Len(a) /\ (a \o b)[i] = a[i]
              \/ \E j \in 1 .. Len(b) : (a \o b)[i] = b[j]
<1> DEFINE S == {a[i] : i \in 1 .. Len(a)}
           T == {b[i] : i \in 1 .. Len(b)}
           c == a \o b
<1>1. a \in Seq(S) /\ b \in Seq(T)
  BY DEF Listed
<1> HIDE DEF S, T
<1>2. a \in Seq(S \union T) /\ b \in Seq(S \union T)
  BY <1>1
<1>3. /\ c \in Seq(S \union T) /\ Len(c) = Len(a) + Len(b) /\ Len(a) \in Nat /\ Len(b) \in Nat
      /\ \A i \in 1 .. Len(a) : c[i] = a[i]
      /\ \A i \in 1 .. Len(b) : c[Len(a) + i] = b[i]
  BY <1>2
<1> HIDE DEF c
<1>4. ASSUME NEW i \in 1 .. Len(c), i \notin 1 .. Len(a)
      PROVE  \E j \in 1 .. Len(b) : c[i] = b[j]
  <2>1. i - Len(a) \in 1 .. Len(b) /\ Len(a) + (i - Len(a)) = i
    BY <1>3, <1>4
  <2>2. c[i] = b[i - Len(a)]
    BY <1>3, <2>1
  <2> QED BY <2>1, <2>2
<1>5. c \in Seq({c[i] : i \in 1 .. Len(c)})
  BY <1>3
<1> QED BY <1>3, <1>4, <1>5 DEF Listed, c

LEMMA ListedSome ==
  ASSUME NEW n \in Nat, NEW items, items = [i \in 1 .. n |-> items[i]]
  PROVE  Listed(items) /\ Len(items) = n
<1> DEFINE T == {items[i] : i \in 1 .. n}
<1>1. \A i \in 1 .. n : items[i] \in T
  OBVIOUS
<1> HIDE DEF T
<1>2. items \in [1 .. n -> T]
  BY <1>1
<1>3. items \in Seq(T) /\ Len(items) = n
  BY <1>2
<1> QED BY <1>3 DEF Listed, T

LEMMA ThroughHead ==
  ASSUME NEW p, NEW r, NEW items, Listed(items), items # <<>>
  PROVE  Through(p, r, items) = Through(p, Beyond(p, r, Head(items)), Tail(items))
BY ThroughFirst DEF Listed

LEMMA ThroughOne ==
  ASSUME NEW p, NEW r, NEW x
  PROVE  Listed(<<x>>) /\ Through(p, r, <<x>>) = Beyond(p, r, x)
<1>1. PICK items : items = <<x>>
  OBVIOUS
<1>2. /\ items = [i \in 1 .. 1 |-> items[i]]
      /\ items # <<>> /\ Head(items) = x /\ Tail(items) = <<>>
  BY <1>1
<1>3. Listed(items)
  BY <1>2, ListedSome
<1>4. Through(p, r, items) = Through(p, Beyond(p, r, x), <<>>)
  BY <1>2, <1>3, ThroughHead
<1> QED BY <1>1, <1>3, <1>4, ThroughNone

LEMMA ThroughListed ==
  ASSUME NEW p, NEW r, NEW a, Listed(a), NEW b, Listed(b)
  PROVE  Through(p, r, a \o b) = Through(p, Through(p, r, a), b)
<1>1. PICK S : a \in Seq(S)
  BY DEF Listed
<1>2. PICK T : b \in Seq(T)
  BY DEF Listed
<1>3. a \in Seq(S \union T) /\ b \in Seq(S \union T)
  BY <1>1, <1>2
<1> QED BY <1>3, ThroughBoth

\* A parser that is not lost in the end expects what comes first.
LEMMA NotLostYet ==
  ASSUME NEW p, NEW r, NEW items, Listed(items), items # <<>>,
         Through(p, r, items).mode # "lost"
  PROVE  Beyond(p, r, Head(items)).mode # "lost" /\ Expects(p, r, Head(items))
<1>1. PICK x, rest : x = Head(items) /\ rest = Tail(items)
  OBVIOUS
<1>2. Through(p, r, items) = Through(p, Beyond(p, r, x), rest) /\ Listed(rest)
  BY <1>1, ThroughHead, ListedTail
<1>3. PICK S : rest \in Seq(S)
  BY <1>2 DEF Listed
<1>4. Beyond(p, r, x).mode # "lost"
  BY <1>2, <1>3, LostThrough
<1>5. ASSUME ~Expects(p, r, x) PROVE FALSE
  <2>1. PastItem(p, r, x) = Lost(r) /\ Lost(r).mode = "lost"
    BY <1>5 DEF PastItem, Lost, Reader
  <2>2. ~Expects(p, Lost(r), x.data[1])
    BY <2>1 DEF Expects, StreamForms, Between
  <2>3. PastItem(p, Lost(r), x.data[1]).mode = "lost"
    BY <2>2 DEF PastItem, Lost, Reader
  <2>4. IsBlast(x) => x.form # "lost"
    BY DEF IsBlast, Blasts
  <2>5. IsBlast(x) => Closed(PastItem(p, Lost(r), x.data[1]), x.form).mode = "lost"
    BY <2>3, <2>4 DEF Closed, Lost, Reader
  <2> QED BY <1>4, <2>1, <2>5 DEF Beyond
<1> QED BY <1>1, <1>4, <1>5

LEMMA UnwrapsFewer ==
  ASSUME NEW p, NEW items, Listed(items), items # <<>>
  PROVE  /\ Unwraps(p, items) => Unwraps(p, Tail(items))
         /\ UnwrapsTwice(p, items) => UnwrapsTwice(p, Tail(items))
         /\ NoZpackets(items) => ~IsZpacket(Head(items))
         /\ Unwraps(p, items) /\ IsZpacket(Head(items)) =>
              Readable(p, Head(items).data) /\ NoZpackets(Head(items).data)
         /\ UnwrapsTwice(p, items) /\ IsZpacket(Head(items)) =>
              Readable(p, Head(items).data) /\ Unwraps(p, Head(items).data)
<1>1. PICK x, rest : x = Head(items) /\ rest = Tail(items)
  OBVIOUS
<1>2. /\ x = items[1] /\ 1 \in 1 .. Len(items)
      /\ \A i \in 1 .. Len(rest) : rest[i] = items[i + 1] /\ i + 1 \in 1 .. Len(items)
  BY <1>1, ListedTail
<1>3. Unwraps(p, items) => Unwraps(p, rest)
  BY <1>2 DEF Unwraps
<1>4. UnwrapsTwice(p, items) => UnwrapsTwice(p, rest)
  BY <1>2 DEF UnwrapsTwice
<1>5. NoZpackets(items) => ~IsZpacket(x)
  BY <1>2 DEF NoZpackets
<1>6. Unwraps(p, items) /\ IsZpacket(x) => Readable(p, x.data) /\ NoZpackets(x.data)
  BY <1>2 DEF Unwraps
<1>7. UnwrapsTwice(p, items) /\ IsZpacket(x) => Readable(p, x.data) /\ Unwraps(p, x.data)
  BY <1>2 DEF UnwrapsTwice
<1> QED BY <1>1, <1>3, <1>4, <1>5, <1>6, <1>7

LEMMA UnwrapsMore ==
  ASSUME NEW p, NEW items
  PROVE  /\ NoZpackets(items) => Unwraps(p, items)
         /\ Unwraps(p, items) => UnwrapsTwice(p, items)
<1>1. ASSUME NoZpackets(items) PROVE Unwraps(p, items)
  BY <1>1 DEF NoZpackets, Unwraps
<1>2. \A list : NoZpackets(list) => Unwraps(p, list)
  BY DEF NoZpackets, Unwraps
<1>3. ASSUME Unwraps(p, items) PROVE UnwrapsTwice(p, items)
  BY <1>2, <1>3, SMT DEF Unwraps, UnwrapsTwice
<1> QED BY <1>1, <1>3

LEMMA UnwrapsBoth ==
  ASSUME NEW p, NEW a, Listed(a), Unwraps(p, a), NEW b, Listed(b), Unwraps(p, b)
  PROVE  Unwraps(p, a \o b)
<1>1. PICK c : c = a \o b
  OBVIOUS
<1>2. \A i \in 1 .. Len(c) : \/ i \in 1 .. Len(a) /\ c[i] = a[i]
                             \/ \E j \in 1 .. Len(b) : c[i] = b[j]
  BY <1>1, ListedBoth
<1>3. Unwraps(p, c)
  BY <1>2, SMT DEF Unwraps
<1> QED BY <1>1, <1>3

-----------------------------------------------------------------------------
(* Contexts                                                                *)

\* What is tracked depends on the entities tracked, and on nothing else.
LEMMA SameTracking ==
  ASSUME NEW p, NEW c, ClientShape(c) \/ ServerShape(c), NEW mode, NEW num, NEW solid
  PROVE  LET r == Reader(mode, c)
         IN  /\ \A next : Reader(next, Tracked(p, r, num, solid))
                            = Reader(next, Tracked(p, c, num, solid))
             /\ \A next : Reader(next, TrackedBaseline(p, r, num, solid))
                            = Reader(next, TrackedBaseline(p, c, num, solid))
             /\ \A next : Reader(next, TrackedRemoval(p, r, num))
                            = Reader(next, TrackedRemoval(p, c, num))
             /\ \A next : Reader(next, r) = Reader(next, c)
BY DEF ClientShape, ServerShape, Reader, Tracked, TrackedBaseline, TrackedRemoval

LEMMA SameAtClient ==
  ASSUME ClientShape(client), NEW num, NEW solid
  PROVE  /\ \A next : Reader(next, Tracked(proto, AtClient, num, solid))
                       = Reader(next, Tracked(proto, client, num, solid))
         /\ \A next : Reader(next, TrackedBaseline(proto, AtClient, num, solid))
                       = Reader(next, TrackedBaseline(proto, client, num, solid))
         /\ \A next : Reader(next, TrackedRemoval(proto, AtClient, num))
                       = Reader(next, TrackedRemoval(proto, client, num))
BY DEF AtClient, ClientShape, Reader, Tracked, TrackedBaseline, TrackedRemoval

\* An item by itself.
LEMMA BeyondAlone ==
  ASSUME NEW p, NEW r, NEW item, ~IsBlast(item), Expects(p, r, item)
  PROVE  Beyond(p, r, item) = Reader(NextMode(r.mode, item), TrackedBy(p, r, item))
BY DEF Beyond, PastItem

-----------------------------------------------------------------------------
(* What the client expects, and what it does with it                       *)
LEMMA ExpectsNext ==
  ASSUME SolidInv, FollowInv, client.reading, client.error = "none"
  PROVE  /\ Listed(Input)
         /\ Input = <<>> => client.mode \in Between \union Blasts
         /\ Input # <<>> => /\ Expects(proto, AtClient, Head(Input))
                           /\ Beyond(proto, AtClient, Head(Input)).mode # "lost"
<1>1. Following
  BY DEF FollowInv
<1>2. \A mode \in Between \union Blasts : mode # "lost"
  BY DEF Between, Blasts
<1>3. PICK r : r = AtClient
  OBVIOUS
<1>4. r.mode = client.mode
  BY <1>3 DEF AtClient, Reader
<1>5. Listed(Input) /\ Through(proto, r, Input).mode \in Between \union Blasts
  <2>1. CASE client.mode \in Blasts
    BY <1>1, <1>3, <2>1 DEF Following, Input, FromInflated
  <2>2. CASE client.mode \notin Blasts /\ client.inflating
    BY <1>1, <1>3, <2>2 DEF Following, Input, FromInflated
  <2>3. CASE ~FromInflated
    BY <1>1, <1>3, <2>3 DEF Following, Input
  <2> QED BY <2>1, <2>2, <2>3 DEF FromInflated
<1>6. Through(proto, r, <<>>) = r
  BY ThroughNone
<1>7. Input # <<>> => /\ Expects(proto, r, Head(Input))
                    /\ Beyond(proto, r, Head(Input)).mode # "lost"
  BY <1>2, <1>5, NotLostYet
<1> QED BY <1>3, <1>4, <1>5, <1>6, <1>7

(* Reading an item that is not compressed.                                 *)
LEMMA ReadOn ==
  ASSUME SolidInv, SolidInv', FollowInv, client.reading, client.error = "none", Input # <<>>,
         UNCHANGED <<proto, server, packet>>, NEW c, Past(c, client'),
         c.inflating = client.inflating, c.reading = client.reading, c.raw = client.raw,
         c.inflated = client.inflated, c.error = client.error,
         client'.mode \in Blasts <=> client.mode \in Blasts,
         client.mode \in Blasts => client'.mode = client.mode,
         AtClient' = Beyond(proto, AtClient, Head(Input))
  PROVE  FollowInv'
<1>1. Following /\ packet = <<>> /\ ~server.inFrame /\ ~server.full /\ proto \in Protocols
      /\ ~server.misheard
  BY DEF FollowInv
<1>2. PICK x, rest, r : x = Head(Input) /\ rest = Tail(Input) /\ r = AtClient
  OBVIOUS
<1>3. /\ Listed(rest) /\ Through(proto, r, Input) = Through(proto, AtClient', rest)
  BY <1>2, ExpectsNext, ListedTail, ThroughHead
<1>4. /\ client'.reading /\ client'.error = "none" /\ client'.inflating = client.inflating
      /\ IF FromInflated THEN client'.inflated = rest /\ client'.raw = client.raw
                         ELSE client'.raw = rest /\ client'.inflated = client.inflated
      /\ FromInflated' = FromInflated
  BY <1>2 DEF Past, FromInflated
<1>5. Following'
  <2>1. CASE client.mode \in Blasts
    <3>1. FromInflated /\ ~client.inflating /\ Input = client.inflated
      BY <1>1, <2>1 DEF FromInflated, Following, Input
    <3>2. PICK inner : inner = Through(proto, r, client.inflated)
      OBVIOUS
    <3>3. inner.mode = client.mode
          /\ Through(proto, Reader("packet", inner), client.raw).mode \in Between
      BY <1>1, <1>2, <2>1, <3>2 DEF Following
    <3>4. Through(proto, AtClient', client'.inflated) = inner
      BY <1>3, <1>4, <3>1, <3>2
    <3> QED BY <1>1, <1>3, <1>4, <2>1, <3>1, <3>3, <3>4 DEF Following
  <2>2. CASE client.mode \notin Blasts /\ client.inflating
    <3>1. FromInflated /\ Input = client.inflated /\ Unwraps(proto, client.inflated)
          /\ Through(proto, Reader("packet", client), client.raw).mode \in Between
          /\ Through(proto, r, client.inflated).mode \in Between
      BY <1>1, <1>2, <2>2 DEF FromInflated, Following, Input
    <3>2. Unwraps(proto, rest)
      BY <1>2, <3>1, ExpectsNext, UnwrapsFewer
    <3>3. proto \notin Kex
      BY <2>2, KexModes
    <3>4. Reader("packet", client') = Reader("packet", client)
      BY <3>3 DEF SolidInv, UntrackedInv, Reader
    <3>5. Through(proto, AtClient', client'.inflated).mode \in Between
      BY <1>3, <1>4, <3>1
    <3> QED BY <1>1, <1>3, <1>4, <2>2, <3>1, <3>2, <3>4, <3>5 DEF Following
  <2>3. CASE ~FromInflated
    <3>1. Input = client.raw /\ client.mode \notin Blasts /\ ~client.inflating
      BY <2>3 DEF FromInflated, Input
    <3>2. Through(proto, AtClient', client'.raw).mode \in Between
      BY <1>1, <1>2, <1>3, <1>4, <2>3, <3>1 DEF Following
    <3>3. UnwrapsTwice(proto, rest)
      BY <1>1, <1>2, <3>1, ExpectsNext, UnwrapsFewer DEF Following
    <3> QED BY <1>3, <1>4, <2>3, <3>1, <3>2, <3>3 DEF Following
  <2> QED BY <2>1, <2>2, <2>3 DEF FromInflated
<1> QED BY <1>1, <1>4, <1>5 DEF FollowInv

\* Handing over a message; it leaves the parser where the item does.
LEMMA HandOn ==
  ASSUME SolidInv, SolidInv', FollowInv, client.reading, client.error = "none", Input # <<>>,
         UNCHANGED <<proto, server, packet>>, ~IsBlast(Head(Input)),
         NEW c, ClientShape(c), NEW kind, Hand(c, kind),
         c.inflating = client.inflating, c.reading = client.reading, c.raw = client.raw,
         c.inflated = client.inflated, c.error = client.error,
         IF client.mode \in Blasts THEN c.mode = client.mode ELSE c.mode \notin Blasts,
         Reader(c.mode, c)
           = Reader(NextMode(client.mode, Head(Input)), TrackedBy(proto, AtClient, Head(Input)))
  PROVE  FollowInv'
<1>1. Past(c, client') /\ client'.mode = c.mode
  BY HandTakes
<1>2. AtClient' = Reader(c.mode, c)
  BY <1>1 DEF Past, AtClient, Reader
<1>3. Beyond(proto, AtClient, Head(Input)) = Reader(c.mode, c)
  BY ExpectsNext, BeyondAlone DEF AtClient, Reader
<1> QED BY <1>1, <1>2, <1>3, ReadOn

LEMMA EnterOn ==
  ASSUME SolidInv, SolidInv', FollowInv, client.reading, client.error = "none", Input # <<>>,
         UNCHANGED <<proto, server, packet>>, ~IsBlast(Head(Input)),
         NEW mode, Enter(client, mode), mode \notin Blasts, client.mode \notin Blasts,
         mode = NextMode(client.mode, Head(Input)),
         TrackedBy(proto, AtClient, Head(Input)) = AtClient
  PROVE  FollowInv'
<1>1. Past(client, client') /\ client'.mode = mode
  BY EnterTakes DEF SolidInv
<1>2. AtClient' = Reader(mode, AtClient)
  BY <1>1 DEF Past, AtClient, Reader
<1>3. Beyond(proto, AtClient, Head(Input)) = Reader(mode, AtClient)
  BY ExpectsNext, BeyondAlone DEF AtClient, Reader
<1> QED BY <1>1, <1>2, <1>3, ReadOn

LEMMA BaselineOn ==
  ASSUME SolidInv, SolidInv', FollowInv, client.reading, client.error = "none", Input # <<>>,
         UNCHANGED <<proto, server, packet>>, ~IsBlast(Head(Input)),
         NEW entity, HandBaseline(entity), client.mode = NextMode(client.mode, Head(Input)),
         TrackedBy(proto, AtClient, Head(Input))
           = TrackedBaseline(proto, AtClient, entity.num, entity.solid)
  PROVE  FollowInv'
<1>1. PICK c : c = TrackedBaseline(proto, client, entity.num, entity.solid)
  OBVIOUS
<1>2. ClientShape(client)
  BY DEF SolidInv
<1>3. ClientShape(c) /\ SameButTracked(client, c)
  BY <1>1, <1>2, TrackingKeeps
<1>4. Hand(c, "spawnbaseline")
  BY <1>1 DEF HandBaseline
<1>5. Reader(c.mode, c) = Reader(client.mode, TrackedBy(proto, AtClient, Head(Input)))
  <2>1. \A next : Reader(next, TrackedBaseline(proto, AtClient, entity.num, entity.solid))
                  = Reader(next, TrackedBaseline(proto, client, entity.num, entity.solid))
    BY <1>2, SameAtClient
  <2> QED BY <1>1, <1>3, <2>1 DEF SameButTracked
<1> QED BY <1>3, <1>4, <1>5, HandOn DEF SameButTracked

-----------------------------------------------------------------------------
(* The actions of the parser                                               *)
LEMMA ReadMessageFollows ==
  ASSUME SolidInv, SolidInv', FollowInv, ReadMessage
  PROVE  FollowInv'
<1>1. PICK x : x = Head(Input)
  OBVIOUS
<1>2. /\ client.reading /\ client.error = "none" /\ UNCHANGED <<proto, server, packet>>
      /\ Input # <<>> /\ client.mode = "packet" /\ x.is = "command" /\ x.form = "plain"
      /\ ClientShape(client)
  BY <1>1 DEF ReadMessage, Takes, Parsing, Parses, SolidInv
<1>3. /\ ~IsBlast(x) /\ NextMode("packet", x) = "packet" /\ "packet" \notin Blasts
  BY <1>2 DEF IsBlast, Blasts, NextMode, StreamForms
<1>4. CASE "entity" \in DOMAIN x
  <2>1. HandBaseline(x.entity)
    BY <1>1, <1>4 DEF ReadMessage
  <2>2. TrackedBy(proto, AtClient, x)
          = TrackedBaseline(proto, AtClient, x.entity.num, x.entity.solid)
    BY <1>2, <1>4 DEF TrackedBy
  <2> QED BY <1>1, <1>2, <1>3, <2>1, <2>2, BaselineOn
<1>5. CASE "entity" \notin DOMAIN x
  <2>1. PICK kind : Hand(client, kind)
    BY <1>1, <1>5 DEF ReadMessage
  <2>2. TrackedBy(proto, AtClient, x) = AtClient
    BY <1>2, <1>5 DEF TrackedBy
  <2>3. Reader(client.mode, client) = Reader(NextMode(client.mode, x), AtClient)
    BY <1>2, <1>3 DEF AtClient, Reader
  <2> QED BY <1>1, <1>2, <1>3, <2>1, <2>2, <2>3, HandOn
<1> QED BY <1>4, <1>5

LEMMA ReadFrameFollows ==
  ASSUME SolidInv, SolidInv', FollowInv, ReadFrame
  PROVE  FollowInv'
<1>1. PICK x, c : x = Head(Input) /\ c = [client EXCEPT !.mode = "entities"]
  OBVIOUS
<1>2. /\ client.reading /\ client.error = "none" /\ UNCHANGED <<proto, server, packet>>
      /\ Input # <<>> /\ client.mode = "packet" /\ x.is = "command" /\ x.form = "frame"
      /\ ClientShape(client) /\ Hand(c, "frame")
  BY <1>1 DEF ReadFrame, Takes, Parsing, Parses, SolidInv
<1>3. /\ ~IsBlast(x) /\ NextMode("packet", x) = "entities"
      /\ "packet" \notin Blasts /\ "entities" \notin Blasts
      /\ TrackedBy(proto, AtClient, x) = AtClient
  BY <1>2 DEF IsBlast, Blasts, NextMode, TrackedBy
<1>4. ClientShape(c) /\ c = [client EXCEPT !.mode = "entities"]
  BY <1>1, <1>2 DEF ClientShape
<1>5. /\ c.mode = "entities" /\ c.inflating = client.inflating /\ c.reading = client.reading
      /\ c.raw = client.raw /\ c.inflated = client.inflated /\ c.error = client.error
      /\ c.edict = client.edict /\ c.base = client.base
  BY <1>2, <1>4 DEF ClientShape
<1>6. Reader(c.mode, c) = Reader(NextMode(client.mode, x), TrackedBy(proto, AtClient, x))
  BY <1>2, <1>3, <1>5 DEF AtClient, Reader
<1> QED BY <1>1, <1>2, <1>3, <1>4, <1>5, <1>6, HandOn

LEMMA ReadTerminatorFollows ==
  ASSUME SolidInv, SolidInv', FollowInv, ReadTerminator
  PROVE  FollowInv'
<1>1. PICK x, c : x = Head(Input) /\ c = [client EXCEPT !.mode = "packet"]
  OBVIOUS
<1>2. /\ client.reading /\ client.error = "none" /\ UNCHANGED <<proto, server, packet>>
      /\ Input # <<>> /\ client.mode = "entities" /\ x.is = "terminator"
      /\ ClientShape(client) /\ Hand(c, "terminator")
  BY <1>1 DEF ReadTerminator, Parsing, Parses, SolidInv
<1>3. /\ ~IsBlast(x) /\ NextMode("entities", x) = "packet"
      /\ "packet" \notin Blasts /\ "entities" \notin Blasts
      /\ TrackedBy(proto, AtClient, x) = AtClient
  BY <1>2 DEF IsBlast, Blasts, NextMode, TrackedBy
<1>4. ClientShape(c) /\ c = [client EXCEPT !.mode = "packet"]
  BY <1>1, <1>2 DEF ClientShape
<1>5. /\ c.mode = "packet" /\ c.inflating = client.inflating /\ c.reading = client.reading
      /\ c.raw = client.raw /\ c.inflated = client.inflated /\ c.error = client.error
      /\ c.edict = client.edict /\ c.base = client.base
  BY <1>2, <1>4 DEF ClientShape
<1>6. Reader(c.mode, c) = Reader(NextMode(client.mode, x), TrackedBy(proto, AtClient, x))
  BY <1>2, <1>3, <1>5 DEF AtClient, Reader
<1> QED BY <1>1, <1>2, <1>3, <1>4, <1>5, <1>6, HandOn

LEMMA ReadEntityFollows ==
  ASSUME SolidInv, SolidInv', FollowInv, ReadDelta \/ ReadRemove
  PROVE  FollowInv'
<1>1. PICK x : x = Head(Input)
  OBVIOUS
<1>2. /\ client.reading /\ client.error = "none" /\ UNCHANGED <<proto, server, packet>>
      /\ Input # <<>> /\ client.mode = "entities" /\ x.is \in {"delta", "remove"}
      /\ ClientShape(client)
  BY <1>1 DEF ReadDelta, ReadRemove, Parsing, Parses, SolidInv
<1>3. ~IsBlast(x) /\ NextMode("entities", x) = "entities" /\ "entities" \notin Blasts
  BY <1>2 DEF IsBlast, Blasts, NextMode
<1>4. PICK c, kind : /\ Hand(c, kind) /\ ClientShape(c) /\ SameButTracked(client, c)
                     /\ Reader(c.mode, c) = Reader(c.mode, TrackedBy(proto, AtClient, x))
  <2>1. CASE ReadDelta
    <3>1. PICK c : c = Tracked(proto, client, x.num, x.solid)
      OBVIOUS
    <3>2. Hand(c, "delta") /\ x.is = "delta"
      BY <1>1, <2>1, <3>1 DEF ReadDelta, Parsing
    <3>3. ClientShape(c) /\ SameButTracked(client, c)
      BY <1>2, <3>1, TrackingKeeps
    <3>4. TrackedBy(proto, AtClient, x) = Tracked(proto, AtClient, x.num, x.solid)
      BY <3>2 DEF TrackedBy
    <3>5. \A next : Reader(next, Tracked(proto, AtClient, x.num, x.solid))
                    = Reader(next, Tracked(proto, client, x.num, x.solid))
      BY <1>2, SameAtClient
    <3>6. Reader(c.mode, c) = Reader(c.mode, TrackedBy(proto, AtClient, x))
      BY <3>1, <3>4, <3>5
    <3> QED BY <3>2, <3>3, <3>6
  <2>2. CASE ReadRemove
    <3>1. PICK c : c = TrackedRemoval(proto, client, x.num)
      OBVIOUS
    <3>2. Hand(c, "remove") /\ x.is = "remove"
      BY <1>1, <2>2, <3>1 DEF ReadRemove, Parsing
    <3>3. ClientShape(c) /\ SameButTracked(client, c)
      BY <1>2, <3>1, TrackingKeeps
    <3>4. TrackedBy(proto, AtClient, x) = TrackedRemoval(proto, AtClient, x.num)
      BY <3>2 DEF TrackedBy
    <3>5. \A next : Reader(next, TrackedRemoval(proto, AtClient, x.num))
                    = Reader(next, TrackedRemoval(proto, client, x.num))
      BY <1>2, SameAtClient
    <3>6. Reader(c.mode, c) = Reader(c.mode, TrackedBy(proto, AtClient, x))
      BY <3>1, <3>4, <3>5
    <3> QED BY <3>2, <3>3, <3>6
  <2> QED BY <2>1, <2>2
<1> QED BY <1>1, <1>2, <1>3, <1>4, HandOn DEF SameButTracked

LEMMA ReadListsFollow ==
  ASSUME SolidInv, SolidInv', FollowInv, ReadConfigstring \/ ReadBaseline
  PROVE  FollowInv'
<1>1. PICK x : x = Head(Input)
  OBVIOUS
<1>2. /\ client.reading /\ client.error = "none" /\ UNCHANGED <<proto, server, packet>>
      /\ Input # <<>> /\ x.is \in {"configstring", "baseline"} /\ ClientShape(client)
  BY <1>1 DEF ReadConfigstring, ReadBaseline, Parsing, Parses, SolidInv
<1>3. ~IsBlast(x) /\ NextMode(client.mode, x) = client.mode
  BY <1>2 DEF IsBlast, NextMode
<1>4. CASE ReadConfigstring
  <2>1. x.is = "configstring" /\ Hand(client, "configstring")
    BY <1>1, <1>4 DEF ReadConfigstring, Parsing
  <2>2. Reader(client.mode, client)
          = Reader(NextMode(client.mode, x), TrackedBy(proto, AtClient, x))
    BY <1>3, <2>1 DEF AtClient, Reader, TrackedBy
  <2> QED BY <1>1, <1>2, <1>3, <2>1, <2>2, HandOn
<1>5. CASE ReadBaseline
  <2>1. x.is = "baseline" /\ HandBaseline(x)
    BY <1>1, <1>5 DEF ReadBaseline, Parsing
  <2>2. TrackedBy(proto, AtClient, x) = TrackedBaseline(proto, AtClient, x.num, x.solid)
    BY <2>1 DEF TrackedBy
  <2> QED BY <1>1, <1>2, <1>3, <2>1, <2>2, BaselineOn
<1> QED BY <1>4, <1>5

LEMMA StreamsFollow ==
  ASSUME SolidInv, SolidInv', FollowInv, ReadStreamEnd \/ \E form \in StreamForms : OpenStream(form)
  PROVE  FollowInv'
<1>1. PICK x : x = Head(Input)
  OBVIOUS
<1>2. /\ client.reading /\ client.error = "none" /\ UNCHANGED <<proto, server, packet>>
      /\ Input # <<>> /\ x.is \in {"end", "command"}
  BY <1>1 DEF ReadStreamEnd, OpenStream, Takes, Parsing, Parses
<1>3. CASE ReadStreamEnd
  <2>1. PICK mode : /\ Enter(client, mode) /\ x.is = "end"
                    /\ client.mode \in StreamForms \union {"gamestate baselines"}
                    /\ mode = IF client.mode = "gamestate" THEN "gamestate baselines"
                                                           ELSE "packet"
    BY <1>1, <1>3 DEF ReadStreamEnd, Parsing, StreamForms
  <2>2. /\ ~IsBlast(x) /\ mode = NextMode(client.mode, x) /\ mode \notin Blasts
        /\ client.mode \notin Blasts /\ TrackedBy(proto, AtClient, x) = AtClient
    BY <2>1 DEF IsBlast, NextMode, Blasts, StreamForms, TrackedBy
  <2> QED BY <1>1, <1>2, <2>1, <2>2, EnterOn
<1>4. CASE \E form \in StreamForms : OpenStream(form)
  <2>1. PICK form \in StreamForms :
          /\ Enter(client, form) /\ client.mode = "packet" /\ x.is = "command" /\ x.form = form
    BY <1>1, <1>4 DEF OpenStream, Takes, Parsing
  <2>2. /\ ~IsBlast(x) /\ form = NextMode(client.mode, x) /\ form \notin Blasts
        /\ client.mode \notin Blasts /\ TrackedBy(proto, AtClient, x) = AtClient
    BY <2>1 DEF IsBlast, NextMode, Blasts, StreamForms, TrackedBy
  <2> QED BY <1>1, <1>2, <2>1, <2>2, EnterOn
<1> QED BY <1>3, <1>4

\* An entity is tracked in the KEX protocols only.
LEMMA NothingTracked ==
  ASSUME SolidInv, proto \notin Kex
  PROVE  /\ \A mode : Reader(mode, client) = Reader(mode, AtStart)
         /\ \A mode : Reader(mode, server) = Reader(mode, AtStart)
         /\ Reader("packet", AtStart) = AtStart
BY DEF SolidInv, UntrackedInv, Reader, AtStart

LEMMA ReadZpacketFollows ==
  ASSUME SolidInv, SolidInv', FollowInv, ReadZpacket
  PROVE  FollowInv'
<1>1. PICK x : x = Head(Input)
  OBVIOUS
<1>2. /\ client.reading /\ client.error = "none" /\ UNCHANGED <<proto, server, packet>>
      /\ Input # <<>> /\ client.mode = "packet" /\ x.is = "command" /\ x.form = "zpacket"
      /\ client' = [Rest(client) EXCEPT !.inflating = TRUE, !.inflated = x.data]
      /\ ClientShape(client)
  BY <1>1 DEF ReadZpacket, Takes, Parsing, Parses, SolidInv
<1>3. proto \notin Kex
  BY NotInKex
<1>4. IsZpacket(x) /\ ~IsBlast(x) /\ "packet" \notin Blasts
  BY <1>2 DEF IsZpacket, IsBlast, Blasts
<1>5. Following /\ packet = <<>> /\ ~server.inFrame /\ ~server.full /\ proto \in Protocols
      /\ ~server.misheard
  BY <1>2 DEF FollowInv
<1>6. /\ client'.inflating /\ client'.inflated = x.data /\ client'.mode = "packet"
      /\ client'.reading /\ client'.error = "none"
      /\ client'.raw = IF client.inflating THEN client.raw ELSE Tail(client.raw)
  BY <1>2, <1>4 DEF ClientShape, Rest, FromInflated, Input
<1>7. AtClient = AtStart /\ AtClient' = AtStart /\ Reader("packet", client) = AtStart
      /\ Reader("packet", client') = AtStart
  BY <1>2, <1>3, <1>6, NothingTracked DEF AtClient, SolidInv, UntrackedInv, Reader, AtStart
<1>8. Readable(proto, x.data) /\ Unwraps(proto, x.data)
  <2>1. CASE client.inflating
    <3>1. Input = client.inflated /\ Unwraps(proto, client.inflated) /\ Listed(client.inflated)
      BY <1>5, <2>1 DEF Input, FromInflated, Following
    <3> QED BY <1>1, <1>2, <1>4, <3>1, UnwrapsFewer, UnwrapsMore
  <2>2. CASE ~client.inflating
    <3>1. Input = client.raw /\ UnwrapsTwice(proto, client.raw) /\ Listed(client.raw)
      BY <1>2, <1>4, <1>5, <2>2 DEF Input, FromInflated, Following
    <3> QED BY <1>1, <1>2, <1>4, <3>1, UnwrapsFewer
  <2> QED BY <2>1, <2>2
<1>9. /\ Listed(client'.raw) /\ UnwrapsTwice(proto, client'.raw)
      /\ Through(proto, AtStart, client'.raw).mode \in Between
  <2>1. CASE client.inflating
    BY <1>5, <1>6, <1>7, <2>1 DEF Following
  <2>2. CASE ~client.inflating
    <3>1. Input = client.raw /\ UnwrapsTwice(proto, client.raw) /\ Listed(client.raw)
          /\ Through(proto, AtStart, client.raw).mode \in Between
      BY <1>2, <1>4, <1>5, <1>7, <2>2 DEF Input, FromInflated, Following
    <3>2. Beyond(proto, AtStart, x) = Reader(NextMode("packet", x), TrackedBy(proto, AtStart, x))
      BY <1>1, <1>2, <1>4, <1>7, ExpectsNext, BeyondAlone DEF AtStart
    <3>3. NextMode("packet", x) = "packet" /\ TrackedBy(proto, AtStart, x) = AtStart
      BY <1>2 DEF NextMode, TrackedBy, StreamForms, Blasts
    <3>4. Beyond(proto, AtStart, x) = AtStart
      BY <3>2, <3>3 DEF AtStart, Reader
    <3>5. Through(proto, AtStart, client.raw) = Through(proto, AtStart, Tail(client.raw))
      BY <1>1, <1>2, <3>1, <3>4, ThroughHead
    <3>6. UnwrapsTwice(proto, Tail(client.raw)) /\ Listed(Tail(client.raw))
      BY <1>2, <3>1, UnwrapsFewer, ListedTail
    <3> QED BY <1>6, <2>2, <3>1, <3>5, <3>6
  <2> QED BY <2>1, <2>2
<1>10. Following'
  BY <1>2, <1>4, <1>6, <1>7, <1>8, <1>9 DEF Following, Readable, FromInflated
<1> QED BY <1>2, <1>5, <1>6, <1>10 DEF FollowInv

LEMMA ReadZpacketEndFollows ==
  ASSUME SolidInv, SolidInv', FollowInv, ReadZpacketEnd
  PROVE  FollowInv'
<1>1. /\ client.reading /\ client.error = "none" /\ UNCHANGED <<proto, server, packet>>
      /\ client.mode = "packet" /\ client.inflating /\ "packet" \notin Blasts
      /\ client' = [client EXCEPT !.inflating = FALSE] /\ ClientShape(client)
  BY DEF ReadZpacketEnd, Parses, SolidInv, Blasts
<1>2. Following /\ packet = <<>> /\ ~server.inFrame /\ ~server.full /\ proto \in Protocols
      /\ ~server.misheard
  BY <1>1 DEF FollowInv
<1>3. /\ ~client'.inflating /\ client'.mode = "packet" /\ client'.raw = client.raw
      /\ client'.reading /\ client'.error = "none"
      /\ client'.edict = client.edict /\ client'.base = client.base
  BY <1>1 DEF ClientShape
<1>4. AtClient' = Reader("packet", client)
  BY <1>3 DEF AtClient, Reader
<1>5. Following'
  BY <1>1, <1>2, <1>3, <1>4 DEF Following, FromInflated
<1> QED BY <1>1, <1>2, <1>3, <1>5 DEF FollowInv

\* What a KEX client reads at the opening of a blast, which contains one item.
LEMMA ReadBlastFollows ==
  ASSUME SolidInv, SolidInv', FollowInv, NEW blast \in Blasts, ReadBlast(blast)
  PROVE  FollowInv'
<1>1. PICK x, rest, r : x = Head(Input) /\ rest = Tail(Input) /\ r = AtClient
  OBVIOUS
<1>2. /\ client.reading /\ client.error = "none" /\ UNCHANGED <<proto, server, packet>>
      /\ Input # <<>> /\ client.mode = "packet" /\ x.is = "command" /\ x.form = blast
      /\ client' = [Rest(client) EXCEPT !.mode = blast, !.inflated = x.data]
      /\ ClientShape(client) /\ "packet" \notin Blasts
  BY <1>1 DEF ReadBlast, Takes, Parsing, Parses, SolidInv, Blasts
<1>3. IsBlast(x) /\ ~IsZpacket(x) /\ blast # "lost"
  BY <1>2 DEF IsZpacket, IsBlast, Blasts
<1>4. Following /\ packet = <<>> /\ ~server.inFrame /\ ~server.full /\ proto \in Protocols
      /\ ~server.misheard
  BY <1>2 DEF FollowInv
<1>5. Listed(Input) /\ Beyond(proto, r, x).mode # "lost" /\ Expects(proto, r, x)
  BY <1>1, <1>2, ExpectsNext
<1>6. proto \in Kex
  BY <1>3, <1>5 DEF Beyond, Lost, Reader
<1>7. /\ ~client.inflating /\ Input = client.raw /\ ~FromInflated
      /\ x.data = <<x.data[1]>> /\ InBlast(x.data[1])
  <2>1. KexItem(x) /\ ~client.inflating
    BY <1>1, <1>2, <1>6, KexInput, KexModes
  <2>2. x.data = <<x.data[1]>> /\ InBlast(x.data[1])
    BY <1>2, <1>3, <2>1 DEF KexItem, Blasts
  <2> QED BY <1>2, <2>1, <2>2 DEF FromInflated, Input
<1>8. /\ ~client'.inflating /\ client'.inflated = x.data /\ client'.mode = blast
      /\ client'.reading /\ client'.error = "none" /\ client'.raw = rest
      /\ client'.edict = client.edict /\ client'.base = client.base
  BY <1>1, <1>2, <1>7 DEF ClientShape, Rest, Input
<1>9. PICK y, opened, inner : /\ y = x.data[1] /\ opened = PastItem(proto, r, x)
                              /\ inner = PastItem(proto, opened, y)
  OBVIOUS
<1>10. /\ Beyond(proto, r, x) = Closed(inner, blast) /\ inner.mode = blast
       /\ Beyond(proto, r, x) = Reader("packet", inner)
  <2>1. Beyond(proto, r, x) = Closed(inner, blast)
    BY <1>2, <1>3, <1>6, <1>9 DEF Beyond
  <2> QED BY <1>5, <2>1 DEF Closed, Lost, Reader
<1>11. opened = AtClient'
  <2>1. opened = Reader(NextMode("packet", x), TrackedBy(proto, r, x)) /\ r.mode = "packet"
    BY <1>1, <1>2, <1>5, <1>9 DEF PastItem, AtClient, Reader
  <2>2. NextMode("packet", x) = blast /\ TrackedBy(proto, r, x) = r
    BY <1>2 DEF NextMode, TrackedBy, Blasts
  <2> QED BY <1>1, <1>8, <2>1, <2>2 DEF AtClient, Reader
<1>12. Through(proto, AtClient', client'.inflated) = inner /\ Listed(client'.inflated)
  <2>1. ~IsBlast(y)
    BY <1>7, <1>9 DEF InBlast, IsBlast
  <2>2. Beyond(proto, opened, y) = inner
    BY <1>9, <2>1 DEF Beyond
  <2>3. client'.inflated = <<y>>
    BY <1>7, <1>8, <1>9
  <2>4. Through(proto, opened, <<y>>) = inner /\ Listed(<<y>>)
    BY <2>2, ThroughOne
  <2> QED BY <1>11, <2>3, <2>4
<1>13. Through(proto, Reader("packet", inner), rest).mode \in Between
  <2>1. Through(proto, r, client.raw).mode \in Between
    BY <1>1, <1>4, <1>7 DEF Following
  <2> QED BY <1>1, <1>2, <1>5, <1>7, <1>10, <2>1, ThroughHead
<1>14. Listed(rest) /\ UnwrapsTwice(proto, rest)
  BY <1>1, <1>2, <1>4, <1>5, <1>7, ListedTail, UnwrapsFewer DEF Following
<1>15. Following'
  BY <1>2, <1>8, <1>10, <1>12, <1>13, <1>14 DEF Following, FromInflated
<1> QED BY <1>2, <1>4, <1>8, <1>15 DEF FollowInv

LEMMA ReadBlastEndFollows ==
  ASSUME SolidInv, SolidInv', FollowInv, ReadBlastEnd
  PROVE  FollowInv'
<1>1. /\ client.reading /\ client.error = "none" /\ UNCHANGED <<proto, server, packet>>
      /\ client.mode \in Blasts /\ "packet" \notin Blasts /\ Input = <<>>
      /\ client' = [client EXCEPT !.mode = "packet"] /\ ClientShape(client)
  BY DEF ReadBlastEnd, Parses, SolidInv, Blasts
<1>2. Following /\ packet = <<>> /\ ~server.inFrame /\ ~server.full /\ proto \in Protocols
      /\ ~server.misheard
  BY <1>1 DEF FollowInv
<1>3. ~client.inflating /\ client.inflated = <<>>
  BY <1>1, <1>2 DEF Following, Input, FromInflated
<1>4. /\ ~client'.inflating /\ client'.mode = "packet" /\ client'.raw = client.raw
      /\ client'.reading /\ client'.error = "none"
      /\ client'.edict = client.edict /\ client'.base = client.base
  BY <1>1, <1>3 DEF ClientShape
<1>5. Through(proto, AtClient, client.inflated) = AtClient
  BY <1>3, ThroughNone
<1>6. Reader("packet", AtClient) = AtClient'
  BY <1>4 DEF AtClient, Reader
<1>7. Through(proto, AtClient', client'.raw).mode \in Between
  BY <1>1, <1>2, <1>4, <1>5, <1>6 DEF Following
<1>8. Following'
  BY <1>1, <1>2, <1>4, <1>7 DEF Following, FromInflated
<1> QED BY <1>1, <1>2, <1>4, <1>8 DEF FollowInv

\* Both sides track the same when the packet has been read.
LEMMA ReadPacketEndFollows ==
  ASSUME SolidInv, SolidInv', FollowInv, ReadPacketEnd
  PROVE  FollowInv'
<1>1. /\ client.reading /\ client.error = "none" /\ UNCHANGED <<proto, server, packet>>
      /\ client.mode = "packet" /\ ~client.inflating
      /\ client' = [client EXCEPT !.reading = FALSE, !.handed = <<>>] /\ ClientShape(client)
  BY DEF ReadPacketEnd, AtEnd, SolidInv
<1>2. packet = <<>> /\ ~server.inFrame /\ ~server.full /\ proto \in Protocols
      /\ ~server.misheard
  BY <1>1 DEF FollowInv
<1>3. /\ ~client'.inflating /\ client'.mode = "packet" /\ ~client'.reading
      /\ client'.error = "none"
      /\ client'.edict = client.edict /\ client'.base = client.base
  BY <1>1 DEF ClientShape
<1>4. server.edict = client.edict /\ server.base = client.base
  <2>1. SolidAgree'
    BY SolidAgreed, PTL
  <2> QED BY <1>1, <1>2, <1>3, <2>1 DEF SolidAgree
<1>5. AtClient' = AtServer'
  BY <1>1, <1>2, <1>3, <1>4 DEF AtClient, AtServer, Reader
<1>6. Through(proto, AtClient', <<>>) = AtClient'
  BY ThroughNone
<1>7. Listed(packet') /\ Unwraps(proto, packet')
  BY <1>1, <1>2, ListedNone DEF Unwraps
<1> QED BY <1>1, <1>2, <1>3, <1>5, <1>6, <1>7 DEF FollowInv

LEMMA ErrorsFollow ==
  ASSUME SolidInv, SolidInv', FollowInv, ReadBroken \/ SkipPacket
  PROVE  FollowInv'
<1>1. ClientShape(client) /\ UNCHANGED <<proto, server, packet>> /\ client.reading
      /\ packet = <<>> /\ ~server.inFrame /\ ~server.full /\ proto \in Protocols
      /\ ~server.misheard
  BY DEF ReadBroken, SkipPacket, Parses, SolidInv, FollowInv
<1>2. CASE ReadBroken
  <2>1. client.error = "none" /\ Unreadable
        /\ client' = [client EXCEPT !.error = "broken",
                                   !.mode = IF @ = "entities" THEN "packet" ELSE @]
    BY <1>2 DEF ReadBroken, Parses
  <2>2. client.mode \in Between
    <3>1. CASE Input = <<>>
      BY <2>1, <3>1 DEF Unreadable, Between
    <3>2. CASE Input # <<>>
      <4>1. PICK x : x = Head(Input)
        OBVIOUS
      <4>2. x.is = "broken" /\ Expects(proto, AtClient, x)
        BY <1>1, <2>1, <3>2, <4>1, ExpectsNext DEF Unreadable
      <4>3. AtClient.mode \in Between
        BY <4>2 DEF Expects
      <4> QED BY <4>3 DEF AtClient, Reader
    <3> QED BY <3>1, <3>2
  <2>3. client'.reading /\ client'.mode = "packet" /\ client'.error = "broken"
    BY <1>1, <2>1, <2>2 DEF ClientShape, Between
  <2> QED BY <1>1, <2>3 DEF FollowInv
<1>3. CASE SkipPacket
  <2>1. /\ client.error # "none" /\ ~client.inflating /\ client.mode = "packet"
        /\ client' = [client EXCEPT !.reading = FALSE, !.raw = <<>>, !.error = "none",
                                   !.handed = <<>>]
    BY <1>1, <1>3 DEF SkipPacket, FromInflated, FollowInv
  <2>2. /\ ~client'.inflating /\ client'.mode = "packet" /\ ~client'.reading
        /\ client'.error = "none"
    BY <1>1, <2>1 DEF ClientShape
  <2>3. SolidAgree'
    BY SolidAgreed, PTL
  <2>4. AtClient' = AtServer'
    BY <1>1, <2>2, <2>3 DEF SolidAgree, AtClient, AtServer, Reader
  <2>5. Through(proto, AtClient', <<>>) = AtClient' /\ Listed(<<>>) /\ Unwraps(proto, <<>>)
    BY ThroughNone, ListedNone DEF Unwraps
  <2> QED BY <1>1, <2>2, <2>4, <2>5 DEF FollowInv
<1> QED BY <1>2, <1>3

LEMMA StartsFollow ==
  ASSUME proto' \in Protocols, server' = ServerInit, client' = ClientInit, packet' = <<>>
  PROVE  FollowInv'
<1>1. AtClient' = AtServer'
  BY DEF AtClient, AtServer, Reader, ServerInit, ClientInit
<1>2. Through(proto', AtClient', <<>>) = AtClient' /\ Listed(<<>>) /\ Unwraps(proto', <<>>)
  BY ThroughNone, ListedNone DEF Unwraps
<1> QED BY <1>1, <1>2 DEF FollowInv, ServerInit, ClientInit

-----------------------------------------------------------------------------
(* What the server writes                                                  *)
LEMMA PutFollows ==
  ASSUME SolidInv, FollowInv, ~client.reading, ~server.full, NEW items, Put(items),
         Listed(items), Unwraps(proto, items), ~server'.full, ~server'.misheard,
         Through(proto, AtServer, items) = AtServer'
  PROVE  FollowInv'
<1>1. /\ client.mode = "packet" /\ ~client.inflating /\ client.error = "none"
      /\ Listed(packet) /\ Unwraps(proto, packet) /\ proto \in Protocols
      /\ Through(proto, AtClient, packet) = AtServer
  BY DEF FollowInv
<1>2. packet' = packet \o items /\ UNCHANGED <<proto, client>>
  BY DEF Put
<1>3. Through(proto, AtClient, packet \o items) = AtServer'
  BY <1>1, ThroughListed
<1>4. Listed(packet \o items) /\ Unwraps(proto, packet \o items)
  BY <1>1, ListedBoth, UnwrapsBoth
<1>5. AtClient' = AtClient
  BY <1>2 DEF AtClient
<1> QED BY <1>1, <1>2, <1>3, <1>4, <1>5 DEF FollowInv

LEMMA PutOneFollows ==
  ASSUME SolidInv, FollowInv, ~client.reading, ~server.full, NEW x, Put(<<x>>),
         ~IsBlast(x), ~IsZpacket(x), ~server'.full, ~server'.misheard,
         Expects(proto, AtServer, x),
         Reader(NextMode(AtServer.mode, x), TrackedBy(proto, AtServer, x)) = AtServer'
  PROVE  FollowInv'
<1>1. Beyond(proto, AtServer, x) = AtServer'
  BY BeyondAlone
<1>2. PICK items : items = <<x>>
  OBVIOUS
<1>3. Listed(items) /\ Through(proto, AtServer, items) = AtServer'
  BY <1>1, <1>2, ThroughOne
<1>4. Unwraps(proto, items)
  BY <1>2 DEF Unwraps
<1> QED BY <1>2, <1>3, <1>4, PutFollows

LEMMA SameAtServer ==
  ASSUME ServerShape(server), NEW num, NEW solid
  PROVE  /\ \A next : Reader(next, Tracked(proto, AtServer, num, solid))
                       = Reader(next, Tracked(proto, server, num, solid))
         /\ \A next : Reader(next, TrackedBaseline(proto, AtServer, num, solid))
                       = Reader(next, TrackedBaseline(proto, server, num, solid))
         /\ \A next : Reader(next, TrackedRemoval(proto, AtServer, num))
                       = Reader(next, TrackedRemoval(proto, server, num))
         /\ Tracked(proto, server, num, solid).inFrame = server.inFrame
         /\ TrackedBaseline(proto, server, num, solid).inFrame = server.inFrame
         /\ TrackedRemoval(proto, server, num).inFrame = server.inFrame
         /\ Tracked(proto, server, num, solid).full = server.full
         /\ TrackedBaseline(proto, server, num, solid).full = server.full
         /\ TrackedRemoval(proto, server, num).full = server.full
         /\ Tracked(proto, server, num, solid).misheard = server.misheard
         /\ TrackedBaseline(proto, server, num, solid).misheard = server.misheard
         /\ TrackedRemoval(proto, server, num).misheard = server.misheard
<1>1. PICK s : s = AtServer
  OBVIOUS
<1>2. s = [mode |-> s.mode, edict |-> server.edict, base |-> server.base]
  BY <1>1 DEF AtServer, Reader
<1> QED BY <1>1, <1>2 DEF ServerShape, Reader, Tracked, TrackedBaseline, TrackedRemoval

LEMMA WriteMessageFollows ==
  ASSUME SolidInv, FollowInv, NEW kind, WriteMessage(kind)
  PROVE  FollowInv'
<1>1. /\ ~client.reading /\ ~server.full /\ ~server.inFrame /\ UNCHANGED server
      /\ kind \in DOMAIN ServerWrites(proto) /\ proto \in Protocols /\ ~server.misheard
  BY DEF WriteMessage, MayWrite, FollowInv
<1>2. PICK command \in ServerWrites(proto)[kind] : Put(<<Message(kind, command)>>)
  BY DEF WriteMessage
<1>3. Understood(proto, command) = kind /\ kind \notin Forms /\ kind # "bad"
  BY <1>1, <1>2, CommandAssumption, FormAssumption
<1>4. PICK x : x = Message(kind, command)
  OBVIOUS
<1>5. /\ x.is = "command" /\ x.form = "plain" /\ x.command = command
      /\ "entity" \notin DOMAIN x
  BY <1>4 DEF Message
<1>6. AtServer.mode = "packet" /\ AtServer' = AtServer
  BY <1>1 DEF AtServer, Reader
<1>7. Expects(proto, AtServer, x)
  BY <1>3, <1>5, <1>6 DEF Expects, ExpectsCommand, FormOf
<1>8. /\ ~IsBlast(x) /\ ~IsZpacket(x) /\ NextMode("packet", x) = "packet"
      /\ TrackedBy(proto, AtServer, x) = AtServer /\ Reader("packet", AtServer) = AtServer
  BY <1>1, <1>5 DEF IsBlast, IsZpacket, NextMode, TrackedBy, Blasts, StreamForms, AtServer, Reader
<1> QED BY <1>1, <1>2, <1>4, <1>6, <1>7, <1>8, PutOneFollows

LEMMA WriteFrameFollows ==
  ASSUME SolidInv, FollowInv, WriteFrame \/ WriteTerminator
  PROVE  FollowInv'
<1>1. /\ ~client.reading /\ ~server.full /\ proto \in Protocols /\ ~server.misheard
      /\ ServerShape(server)
  BY DEF WriteFrame, WriteTerminator, MayWrite, FollowInv, SolidInv
<1>2. CASE WriteFrame
  <2>1. PICK command \in FrameCommands(proto) : Put(<<Opening("frame", command)>>)
    BY <1>2 DEF WriteFrame
  <2>2. ~server.inFrame /\ server' = [server EXCEPT !.inFrame = TRUE]
    BY <1>2 DEF WriteFrame
  <2>3. Understood(proto, command) = "frame"
    BY <1>1, <2>1, FormAssumption
  <2>4. PICK x : x = Opening("frame", command)
    OBVIOUS
  <2>5. x.is = "command" /\ x.form = "frame" /\ x.command = command
    BY <2>4 DEF Opening
  <2>6. /\ server'.inFrame /\ ~server'.full /\ ~server'.misheard
        /\ server'.edict = server.edict /\ server'.base = server.base
    BY <1>1, <2>2 DEF ServerShape
  <2>7. AtServer.mode = "packet" /\ AtServer' = Reader("entities", AtServer)
    BY <2>2, <2>6 DEF AtServer, Reader
  <2>8. Expects(proto, AtServer, x)
    BY <2>3, <2>5, <2>7 DEF Expects, ExpectsCommand, FormOf, Forms
  <2>9. /\ ~IsBlast(x) /\ ~IsZpacket(x) /\ NextMode("packet", x) = "entities"
        /\ TrackedBy(proto, AtServer, x) = AtServer
    BY <2>5 DEF IsBlast, IsZpacket, NextMode, TrackedBy, Blasts
  <2> QED BY <1>1, <2>1, <2>4, <2>6, <2>7, <2>8, <2>9, PutOneFollows
<1>3. CASE WriteTerminator
  <2>1. PICK x : x = Terminator
    OBVIOUS
  <2>2. /\ Put(<<x>>) /\ server.inFrame /\ server' = [server EXCEPT !.inFrame = FALSE]
        /\ x.is = "terminator"
    BY <1>3, <2>1 DEF WriteTerminator, Terminator
  <2>3. /\ ~server'.inFrame /\ ~server'.full /\ ~server'.misheard
        /\ server'.edict = server.edict /\ server'.base = server.base
    BY <1>1, <2>2 DEF ServerShape
  <2>4. AtServer.mode = "entities" /\ AtServer' = Reader("packet", AtServer)
    BY <2>2, <2>3 DEF AtServer, Reader
  <2>5. /\ Expects(proto, AtServer, x) /\ ~IsBlast(x) /\ ~IsZpacket(x)
        /\ NextMode("entities", x) = "packet" /\ TrackedBy(proto, AtServer, x) = AtServer
    BY <2>2, <2>4 DEF Expects, IsBlast, IsZpacket, NextMode, TrackedBy
  <2> QED BY <1>1, <2>2, <2>3, <2>4, <2>5, PutOneFollows
<1> QED BY <1>2, <1>3

LEMMA WriteEntityFollows ==
  ASSUME SolidInv, FollowInv, NEW num, WriteDelta(num) \/ WriteRemove(num)
  PROVE  FollowInv'
<1>1. /\ ~client.reading /\ ~server.full /\ server.inFrame /\ proto \in Protocols
      /\ ~server.misheard /\ ServerShape(server)
  BY DEF WriteDelta, WriteRemove, MayWrite, FollowInv, SolidInv
<1>2. AtServer.mode = "entities" /\ AtServer.edict = server.edict
  BY <1>1 DEF AtServer, Reader
<1>3. CASE WriteDelta(num)
  <2>1. PICK solid :
          /\ Put(<<Entity("delta", num, solid, Narrow(proto, solid, num \in server.edict))>>)
          /\ server' = Tracked(proto, server, num, solid)
    BY <1>3 DEF WriteDelta
  <2>2. PICK x : x = Entity("delta", num, solid, Narrow(proto, solid, num \in server.edict))
    OBVIOUS
  <2>3. /\ x.is = "delta" /\ x.num = num /\ x.solid = solid
        /\ x.narrow = Narrow(proto, solid, num \in server.edict)
    BY <2>2 DEF Entity
  <2>4. Expects(proto, AtServer, x)
    BY <1>2, <2>3 DEF Expects, NarrowAgrees
  <2>5. /\ ~IsBlast(x) /\ ~IsZpacket(x) /\ NextMode("entities", x) = "entities"
        /\ TrackedBy(proto, AtServer, x) = Tracked(proto, AtServer, num, solid)
    BY <2>3 DEF IsBlast, IsZpacket, NextMode, TrackedBy
  <2>6. server'.inFrame /\ ~server'.full /\ ~server'.misheard
    BY <1>1, <2>1, SameAtServer
  <2>7. AtServer' = Reader("entities", TrackedBy(proto, AtServer, x))
    BY <1>1, <2>1, <2>5, <2>6, SameAtServer DEF AtServer
  <2> QED BY <1>1, <1>2, <2>1, <2>2, <2>4, <2>5, <2>6, <2>7, PutOneFollows
<1>4. CASE WriteRemove(num)
  <2>1. PICK x : x = Removal(num)
    OBVIOUS
  <2>2. /\ Put(<<x>>) /\ server' = TrackedRemoval(proto, server, num)
        /\ x.is = "remove" /\ x.num = num
    BY <1>4, <2>1 DEF WriteRemove, Removal
  <2>3. /\ Expects(proto, AtServer, x)
        /\ ~IsBlast(x) /\ ~IsZpacket(x) /\ NextMode("entities", x) = "entities"
        /\ TrackedBy(proto, AtServer, x) = TrackedRemoval(proto, AtServer, num)
    BY <1>2, <2>2 DEF Expects, IsBlast, IsZpacket, NextMode, TrackedBy
  <2>4. server'.inFrame /\ ~server'.full /\ ~server'.misheard
    BY <1>1, <2>2, SameAtServer
  <2>5. AtServer' = Reader("entities", TrackedBy(proto, AtServer, x))
    <3>1. AtServer' = Reader("entities", server')
      BY <2>4 DEF AtServer
    <3>2. Reader("entities", TrackedRemoval(proto, AtServer, num))
            = Reader("entities", TrackedRemoval(proto, server, num))
      BY <1>1, SameAtServer
    <3> QED BY <2>2, <2>3, <3>1, <3>2
  <2> QED BY <1>1, <1>2, <2>2, <2>3, <2>4, <2>5, PutOneFollows
<1> QED BY <1>3, <1>4

-----------------------------------------------------------------------------
(* Gamestates                                                              *)
\* One item at a time, of lists that are given.
LEMMA ThroughTwo ==
  ASSUME NEW a, NEW b
  PROVE  /\ Listed(<<a, b>>)
         /\ \A p, r : Through(p, r, <<a, b>>) = Through(p, Beyond(p, r, a), <<b>>)
<1>1. PICK items, rest : items = <<a, b>> /\ rest = <<b>>
  OBVIOUS
<1>2. /\ items = [i \in 1 .. 2 |-> items[i]] /\ items # <<>>
      /\ Head(items) = a /\ Tail(items) = rest
  BY <1>1
<1>3. Listed(items)
  BY <1>2, ListedSome
<1>4. \A p, r : Through(p, r, items) = Through(p, Beyond(p, r, a), rest)
  BY <1>2, <1>3, ThroughHead
<1> QED BY <1>1, <1>3, <1>4, Zenon

LEMMA ThroughThree ==
  ASSUME NEW a, NEW b, NEW c
  PROVE  /\ Listed(<<a, b, c>>)
         /\ \A p, r : Through(p, r, <<a, b, c>>) = Through(p, Beyond(p, r, a), <<b, c>>)
<1>1. PICK items, rest : items = <<a, b, c>> /\ rest = <<b, c>>
  OBVIOUS
<1>2. /\ items = [i \in 1 .. 3 |-> items[i]] /\ items # <<>>
      /\ Head(items) = a /\ Tail(items) = rest
  BY <1>1
<1>3. Listed(items)
  BY <1>2, ListedSome
<1>4. \A p, r : Through(p, r, items) = Through(p, Beyond(p, r, a), rest)
  BY <1>2, <1>3, ThroughHead
<1> QED BY <1>1, <1>3, <1>4, Zenon

LEMMA ThroughFour ==
  ASSUME NEW a, NEW b, NEW c, NEW d
  PROVE  /\ Listed(<<a, b, c, d>>)
         /\ \A p, r : Through(p, r, <<a, b, c, d>>) = Through(p, Beyond(p, r, a), <<b, c, d>>)
<1>1. PICK items, rest : items = <<a, b, c, d>> /\ rest = <<b, c, d>>
  OBVIOUS
<1>2. /\ items = [i \in 1 .. 4 |-> items[i]] /\ items # <<>>
      /\ Head(items) = a /\ Tail(items) = rest
  BY <1>1
<1>3. Listed(items)
  BY <1>2, ListedSome
<1>4. \A p, r : Through(p, r, items) = Through(p, Beyond(p, r, a), rest)
  BY <1>2, <1>3, ThroughHead
<1> QED BY <1>1, <1>3, <1>4, Zenon

LEMMA ThroughFive ==
  ASSUME NEW a, NEW b, NEW c, NEW d, NEW e
  PROVE  /\ Listed(<<a, b, c, d, e>>)
         /\ \A p, r : Through(p, r, <<a, b, c, d, e>>) = Through(p, Beyond(p, r, a), <<b, c, d, e>>)
<1>1. PICK items, rest : items = <<a, b, c, d, e>> /\ rest = <<b, c, d, e>>
  OBVIOUS
<1>2. /\ items = [i \in 1 .. 5 |-> items[i]] /\ items # <<>>
      /\ Head(items) = a /\ Tail(items) = rest
  BY <1>1
<1>3. Listed(items)
  BY <1>2, ListedSome
<1>4. \A p, r : Through(p, r, items) = Through(p, Beyond(p, r, a), rest)
  BY <1>2, <1>3, ThroughHead
<1> QED BY <1>1, <1>3, <1>4, Zenon

LEMMA ThroughSix ==
  ASSUME NEW a, NEW b, NEW c, NEW d, NEW e, NEW f
  PROVE  /\ Listed(<<a, b, c, d, e, f>>)
         /\ \A p, r : Through(p, r, <<a, b, c, d, e, f>>)
                        = Through(p, Beyond(p, r, a), <<b, c, d, e, f>>)
<1>1. PICK items, rest : items = <<a, b, c, d, e, f>> /\ rest = <<b, c, d, e, f>>
  OBVIOUS
<1>2. /\ items = [i \in 1 .. 6 |-> items[i]] /\ items # <<>>
      /\ Head(items) = a /\ Tail(items) = rest
  BY <1>1
<1>3. Listed(items)
  BY <1>2, ListedSome
<1>4. \A p, r : Through(p, r, items) = Through(p, Beyond(p, r, a), rest)
  BY <1>2, <1>3, ThroughHead
<1> QED BY <1>1, <1>3, <1>4, Zenon

LEMMA Reread ==
  ASSUME NEW r, NEW mode, NEW next
  PROVE  Reader(next, Reader(mode, r)) = Reader(next, r) /\ Reader(mode, r).mode = mode
BY DEF Reader

\* At the start of a packet.
Shaped(r) == r = Reader("packet", r)

LEMMA BaselineBeyond ==
  ASSUME NEW r, Shaped(r), NEW num, NEW solid,
         NEW mode \in {"baselinestream", "gamestate baselines", "spawnbaselineblast"}
  PROVE  /\ Beyond(proto, Reader(mode, r), BaselineOf(num, solid))
              = Reader(mode, TrackedBaseline(proto, r, num, solid))
         /\ PastItem(proto, Reader(mode, r), BaselineOf(num, solid))
              = Reader(mode, TrackedBaseline(proto, r, num, solid))
         /\ ~IsZpacket(BaselineOf(num, solid)) /\ ~IsBlast(BaselineOf(num, solid))
<1>0. Reader(mode, TrackedBaseline(proto, Reader(mode, r), num, solid))
        = Reader(mode, TrackedBaseline(proto, r, num, solid))
  BY DEF Shaped, Reader, Tracked, TrackedBaseline
<1>1. PICK x, s : x = BaselineOf(num, solid) /\ s = Reader(mode, r)
  OBVIOUS
<1>2. /\ x.is = "baseline" /\ x.num = num /\ x.solid = solid
      /\ x.narrow = Narrow(proto, solid, FALSE) /\ s.mode = mode
  BY <1>1 DEF BaselineOf, Entity, Reader
<1>3. Expects(proto, s, x)
  BY <1>2 DEF Expects, NarrowAgrees
<1>4. /\ ~IsBlast(x) /\ ~IsZpacket(x) /\ NextMode(mode, x) = mode
      /\ TrackedBy(proto, s, x) = TrackedBaseline(proto, s, num, solid)
  BY <1>2 DEF IsBlast, IsZpacket, NextMode, TrackedBy
<1>5. Reader(mode, TrackedBaseline(proto, s, num, solid))
        = Reader(mode, TrackedBaseline(proto, r, num, solid))
  BY <1>0, <1>1
<1>6. PastItem(proto, s, x) = Reader(mode, TrackedBaseline(proto, r, num, solid))
  BY <1>2, <1>3, <1>4, <1>5 DEF PastItem
<1>7. Beyond(proto, s, x) = PastItem(proto, s, x)
  BY <1>4 DEF Beyond
<1> QED BY <1>1, <1>4, <1>6, <1>7

LEMMA MessageBeyond ==
  ASSUME NEW p, NEW r, NEW kind, NEW command, Understood(p, command) = kind,
         kind \notin Forms, kind # "bad"
  PROVE  /\ Beyond(p, Reader("packet", r), Message(kind, command)) = Reader("packet", r)
         /\ ~IsZpacket(Message(kind, command))
<1>1. PICK x, s : x = Message(kind, command) /\ s = Reader("packet", r)
  OBVIOUS
<1>2. /\ x.is = "command" /\ x.form = "plain" /\ x.command = command
      /\ "entity" \notin DOMAIN x /\ s.mode = "packet"
  BY <1>1 DEF Message, Reader
<1>3. Expects(p, s, x)
  BY <1>2 DEF Expects, ExpectsCommand, FormOf
<1>4. /\ ~IsBlast(x) /\ ~IsZpacket(x) /\ NextMode("packet", x) = "packet"
      /\ TrackedBy(p, s, x) = s
  BY <1>2 DEF IsBlast, IsZpacket, NextMode, TrackedBy, Blasts, StreamForms
<1>5. Beyond(p, s, x) = Reader("packet", s)
  BY <1>2, <1>3, <1>4, BeyondAlone
<1> QED BY <1>1, <1>4, <1>5, Reread

LEMMA OpeningBeyond ==
  ASSUME NEW p, NEW r, NEW form \in StreamForms, NEW command, Understood(p, command) = form
  PROVE  /\ Beyond(p, Reader("packet", r), Opening(form, command)) = Reader(form, r)
         /\ ~IsZpacket(Opening(form, command))
<1>1. PICK x, s : x = Opening(form, command) /\ s = Reader("packet", r)
  OBVIOUS
<1>2. /\ x.is = "command" /\ x.form = form /\ x.command = command /\ s.mode = "packet"
  BY <1>1 DEF Opening, Reader
<1>3. Expects(p, s, x)
  BY <1>2 DEF Expects, ExpectsCommand, FormOf, Forms, StreamForms
<1>4. /\ ~IsBlast(x) /\ ~IsZpacket(x) /\ NextMode("packet", x) = form
      /\ TrackedBy(p, s, x) = s
  BY <1>2 DEF IsBlast, IsZpacket, NextMode, TrackedBy, Blasts, StreamForms
<1>5. Beyond(p, s, x) = Reader(form, s)
  BY <1>2, <1>3, <1>4, BeyondAlone
<1> QED BY <1>1, <1>4, <1>5, Reread

LEMMA ListBeyond ==
  ASSUME NEW p, NEW r
  PROVE  /\ \A mode \in {"configstringstream", "gamestate", "configblast"} :
              /\ Beyond(p, Reader(mode, r), Configstring) = Reader(mode, r)
              /\ PastItem(p, Reader(mode, r), Configstring) = Reader(mode, r)
         /\ \A mode \in {"configstringstream", "baselinestream", "gamestate baselines"} :
              Beyond(p, Reader(mode, r), EndOfStream) = Reader("packet", r)
         /\ Beyond(p, Reader("gamestate", r), EndOfStream) = Reader("gamestate baselines", r)
         /\ ~IsZpacket(Configstring) /\ ~IsZpacket(EndOfStream)
<1>1. PICK x, e : x = Configstring /\ e = EndOfStream
  OBVIOUS
<1>2. x.is = "configstring" /\ e.is = "end"
  BY <1>1 DEF Configstring, EndOfStream
<1>3. /\ ~IsBlast(x) /\ ~IsZpacket(x) /\ ~IsBlast(e) /\ ~IsZpacket(e)
      /\ \A mode : NextMode(mode, x) = mode
      /\ \A mode : NextMode(mode, e)
                     = IF mode = "gamestate" THEN "gamestate baselines" ELSE "packet"
      /\ \A s : TrackedBy(p, s, x) = s /\ TrackedBy(p, s, e) = s
  BY <1>2 DEF IsBlast, IsZpacket, NextMode, TrackedBy
<1>4. ASSUME NEW mode \in {"configstringstream", "gamestate", "configblast"}
      PROVE  /\ Beyond(p, Reader(mode, r), x) = Reader(mode, r)
             /\ PastItem(p, Reader(mode, r), x) = Reader(mode, r)
  <2>1. PICK s : s = Reader(mode, r)
    OBVIOUS
  <2>2. s.mode = mode /\ Reader(mode, s) = s
    BY <2>1 DEF Reader
  <2>3. Expects(p, s, x)
    BY <1>2, <2>2 DEF Expects
  <2>4. PastItem(p, s, x) = s
    BY <1>3, <2>2, <2>3 DEF PastItem
  <2>5. Beyond(p, s, x) = s
    BY <1>3, <2>4 DEF Beyond
  <2> QED BY <2>1, <2>4, <2>5
<1>5. ASSUME NEW mode \in {"configstringstream", "baselinestream", "gamestate",
                           "gamestate baselines"}
      PROVE  Beyond(p, Reader(mode, r), e)
               = Reader(IF mode = "gamestate" THEN "gamestate baselines" ELSE "packet", r)
  <2>1. PICK s : s = Reader(mode, r)
    OBVIOUS
  <2>2. s.mode = mode /\ \A next : Reader(next, s) = Reader(next, r)
    BY <2>1 DEF Reader
  <2>3. Expects(p, s, e)
    BY <1>2, <2>2 DEF Expects, StreamForms
  <2>4. Beyond(p, s, e) = Reader(NextMode(mode, e), s)
    <3>1. ~IsBlast(e) /\ TrackedBy(p, s, e) = s
      BY <1>3
    <3>2. Beyond(p, s, e) = Reader(NextMode(s.mode, e), TrackedBy(p, s, e))
      BY <2>3, <3>1, BeyondAlone
    <3> QED BY <2>2, <3>1, <3>2
  <2> QED BY <1>3, <2>1, <2>2, <2>4
<1> QED BY <1>1, <1>3, <1>4, <1>5

\* Read from the start of a packet, a gamestate leads back there, its baseline tracked.
Leads(r, items, num, solid) ==
  /\ Listed(items)
  /\ Through(proto, r, items) = Reader("packet", TrackedBaseline(proto, r, num, solid))

LEMMA StreamsRead ==
  ASSUME proto \in {"q2pro", "q2repro"}, proto \in Protocols, NEW r, Shaped(r),
         NEW num, NEW solid, NEW items, items = InStreams(BaselineOf(num, solid))
  PROVE  Leads(r, items, num, solid) /\ NoZpackets(items)
<1>1. PICK b, x, y, k, e, t :
        /\ b = BaselineOf(num, solid)
        /\ x = Opening("configstringstream",
                       IF proto = "q2pro" THEN Q2proStreams.config ELSE Q2reproStreams.config)
        /\ y = Opening("baselinestream",
                       IF proto = "q2pro" THEN Q2proStreams.baseline ELSE Q2reproStreams.baseline)
        /\ k = Configstring /\ e = EndOfStream /\ t = TrackedBaseline(proto, r, num, solid)
  OBVIOUS
<1>2. items = <<x, k, e, y, b, e>>
  BY <1>1 DEF InStreams
<1>3. /\ Beyond(proto, r, x) = Reader("configstringstream", r) /\ ~IsZpacket(x)
      /\ Beyond(proto, r, y) = Reader("baselinestream", r) /\ ~IsZpacket(y)
  BY <1>1, FormAssumption, OpeningBeyond DEF StreamForms, Shaped
<1>4. /\ Beyond(proto, Reader("configstringstream", r), k) = Reader("configstringstream", r)
      /\ Beyond(proto, Reader("configstringstream", r), e) = r
      /\ ~IsZpacket(k) /\ ~IsZpacket(e)
      /\ Beyond(proto, Reader("baselinestream", t), e) = Reader("packet", t)
  BY <1>1, ListBeyond DEF Shaped
<1>5. Beyond(proto, Reader("baselinestream", r), b) = Reader("baselinestream", t) /\ ~IsZpacket(b)
  <2>1. /\ Beyond(proto, Reader("baselinestream", r), BaselineOf(num, solid))
             = Reader("baselinestream", TrackedBaseline(proto, r, num, solid))
        /\ ~IsZpacket(BaselineOf(num, solid))
    <3>1. Shaped(r)
      OBVIOUS
    <3> QED BY ONLY <3>1, BaselineBeyond
  <2> QED BY <1>1, <2>1, Zenon
<1>6. NoZpackets(items)
  BY <1>2, <1>3, <1>4, <1>5 DEF NoZpackets
<1>7. Through(proto, r, <<x, k, e, y, b, e>>)
        = Through(proto, Reader("configstringstream", r), <<k, e, y, b, e>>)
  BY <1>3, ThroughSix
<1>8. Through(proto, Reader("configstringstream", r), <<k, e, y, b, e>>)
        = Through(proto, Reader("configstringstream", r), <<e, y, b, e>>)
  BY <1>4, ThroughFive
<1>9. Through(proto, Reader("configstringstream", r), <<e, y, b, e>>)
        = Through(proto, r, <<y, b, e>>)
  BY <1>4, ThroughFour
<1>10. Through(proto, r, <<y, b, e>>) = Through(proto, Reader("baselinestream", r), <<b, e>>)
  BY <1>3, ThroughThree
<1>11. Through(proto, Reader("baselinestream", r), <<b, e>>)
         = Through(proto, Reader("baselinestream", t), <<e>>)
  BY <1>5, ThroughTwo
<1>12. Through(proto, Reader("baselinestream", t), <<e>>) = Reader("packet", t)
  BY <1>4, ThroughOne
<1>13. Through(proto, r, items) = Reader("packet", t)
  BY <1>2, <1>7, <1>8, <1>9, <1>10, <1>11, <1>12, Zenon
<1>14. Listed(items)
  BY <1>2, ThroughSix
<1> QED BY <1>1, <1>6, <1>13, <1>14 DEF Leads

LEMMA OneMessageRead ==
  ASSUME proto = "q2pro", proto \in Protocols, NEW r, Shaped(r),
         NEW num, NEW solid, NEW items, items = InOneMessage(BaselineOf(num, solid))
  PROVE  Leads(r, items, num, solid) /\ NoZpackets(items)
<1>1. PICK b, x, k, e, t :
        /\ b = BaselineOf(num, solid) /\ x = Opening("gamestate", 23)
        /\ k = Configstring /\ e = EndOfStream /\ t = TrackedBaseline(proto, r, num, solid)
  OBVIOUS
<1>2. items = <<x, k, e, b, e>>
  BY <1>1 DEF InOneMessage
<1>3. Beyond(proto, r, x) = Reader("gamestate", r) /\ ~IsZpacket(x)
  BY <1>1, FormAssumption, OpeningBeyond DEF StreamForms, Shaped
<1>4. /\ Beyond(proto, Reader("gamestate", r), k) = Reader("gamestate", r)
      /\ Beyond(proto, Reader("gamestate", r), e) = Reader("gamestate baselines", r)
      /\ ~IsZpacket(k) /\ ~IsZpacket(e)
      /\ Beyond(proto, Reader("gamestate baselines", t), e) = Reader("packet", t)
  BY <1>1, ListBeyond
<1>5. /\ Beyond(proto, Reader("gamestate baselines", r), b) = Reader("gamestate baselines", t)
      /\ ~IsZpacket(b)
  <2>1. /\ Beyond(proto, Reader("gamestate baselines", r), BaselineOf(num, solid))
             = Reader("gamestate baselines", TrackedBaseline(proto, r, num, solid))
        /\ ~IsZpacket(BaselineOf(num, solid))
    <3>1. Shaped(r)
      OBVIOUS
    <3> QED BY ONLY <3>1, BaselineBeyond
  <2> QED BY <1>1, <2>1, Zenon
<1>6. NoZpackets(items)
  <2>1. ~IsZpacket(x) /\ ~IsZpacket(k) /\ ~IsZpacket(e) /\ ~IsZpacket(b)
    BY <1>3, <1>4, <1>5
  <2> QED BY <1>2, <2>1 DEF NoZpackets
<1>7. Through(proto, r, <<x, k, e, b, e>>) = Through(proto, Reader("gamestate", r), <<k, e, b, e>>)
  BY <1>3, ThroughFive
<1>8. Through(proto, Reader("gamestate", r), <<k, e, b, e>>)
        = Through(proto, Reader("gamestate", r), <<e, b, e>>)
  <2>1. Beyond(proto, Reader("gamestate", r), k) = Reader("gamestate", r)
    BY <1>4
  <2> QED BY <2>1, ThroughFour
<1>9. Through(proto, Reader("gamestate", r), <<e, b, e>>)
        = Through(proto, Reader("gamestate baselines", r), <<b, e>>)
  <2>1. PICK s, u : s = Reader("gamestate", r) /\ u = Reader("gamestate baselines", r)
    OBVIOUS
  <2>2. Beyond(proto, s, e) = u
    BY <1>4, <2>1
  <2>3. Through(proto, s, <<e, b, e>>) = Through(proto, u, <<b, e>>)
    BY <2>2, ThroughThree
  <2> QED BY <2>1, <2>3
<1>10. Through(proto, Reader("gamestate baselines", r), <<b, e>>)
         = Through(proto, Reader("gamestate baselines", t), <<e>>)
  BY <1>5, ThroughTwo
<1>11. Through(proto, Reader("gamestate baselines", t), <<e>>) = Reader("packet", t)
  BY <1>4, ThroughOne
<1>12. Through(proto, r, items) = Reader("packet", t)
  BY <1>2, <1>7, <1>8, <1>9, <1>10, <1>11, Zenon
<1>13. Listed(items)
  BY <1>2, ThroughFive
<1> QED BY <1>1, <1>6, <1>12, <1>13 DEF Leads

LEMMA SeparatelyRead ==
  ASSUME proto \in Protocols, NEW r, Shaped(r),
         NEW num, NEW solid, NEW items, items = Separately(BaselineOf(num, solid))
  PROVE  Leads(r, items, num, solid) /\ NoZpackets(items)
<1>1. PICK b, x, y, t :
        /\ b = BaselineOf(num, solid) /\ x = Message("configstring", 13)
        /\ y = BaselineMessage(b) /\ t = TrackedBaseline(proto, r, num, solid)
  OBVIOUS
<1>2. items = <<x, y>>
  BY <1>1 DEF Separately
<1>3. Beyond(proto, r, x) = r /\ ~IsZpacket(x)
  <2>1. Understood(proto, 13) = "configstring" /\ "configstring" \notin Forms
    BY CommandAssumption DEF Forms
  <2>2. Beyond(proto, Reader("packet", r), x) = Reader("packet", r) /\ ~IsZpacket(x)
    BY <1>1, <2>1, MessageBeyond
  <2> QED BY <2>2 DEF Shaped
<1>4. Beyond(proto, r, y) = Reader("packet", t) /\ ~IsZpacket(y)
  <2>1. /\ b.is = "baseline" /\ b.num = num /\ b.solid = solid
        /\ b.narrow = Narrow(proto, solid, FALSE)
    BY <1>1 DEF BaselineOf, Entity
  <2>2. /\ y.is = "command" /\ y.form = "plain" /\ y.command = 14
        /\ "entity" \in DOMAIN y /\ y.entity = b
    BY <1>1 DEF BaselineMessage
  <2>3. r.mode = "packet"
    BY DEF Shaped, Reader
  <2>4. Understood(proto, 14) = "spawnbaseline"
    BY FormAssumption
  <2>5. Expects(proto, r, y)
    BY <2>1, <2>2, <2>3, <2>4 DEF Expects, ExpectsCommand, FormOf, Forms, NarrowAgrees
  <2>6. /\ ~IsBlast(y) /\ ~IsZpacket(y) /\ NextMode("packet", y) = "packet"
        /\ TrackedBy(proto, r, y) = t
    BY <1>1, <2>1, <2>2 DEF IsBlast, IsZpacket, NextMode, TrackedBy, Blasts, StreamForms
  <2> QED BY <2>3, <2>5, <2>6, BeyondAlone
<1>5. NoZpackets(items)
  BY <1>2, <1>3, <1>4 DEF NoZpackets
<1>6. Through(proto, r, <<x, y>>) = Through(proto, r, <<y>>)
  BY <1>3, ThroughTwo
<1>7. Through(proto, r, <<y>>) = Reader("packet", t)
  BY <1>4, ThroughOne
<1>8. Through(proto, r, items) = Reader("packet", t)
  BY <1>2, <1>6, <1>7, Zenon
<1>9. Listed(items)
  BY <1>2, ThroughTwo
<1> QED BY <1>1, <1>5, <1>8, <1>9 DEF Leads

LEMMA PlainlyRead ==
  ASSUME proto \in Protocols, NEW r, Shaped(r),
         NEW num, NEW solid, NEW items \in Plainly(BaselineOf(num, solid))
  PROVE  Leads(r, items, num, solid) /\ NoZpackets(items)
<1>1. CASE proto = "q2pro"
  <2>1. items \in {InStreams(BaselineOf(num, solid)), InOneMessage(BaselineOf(num, solid))}
    BY <1>1 DEF Plainly
  <2> QED BY <1>1, <2>1, StreamsRead, OneMessageRead
<1>2. CASE proto = "q2repro"
  <2>1. items = InStreams(BaselineOf(num, solid))
    BY <1>2 DEF Plainly
  <2> QED BY <1>2, <2>1, StreamsRead
<1>3. CASE proto # "q2pro" /\ proto # "q2repro"
  <2>1. items = Separately(BaselineOf(num, solid))
    BY <1>3 DEF Plainly
  <2> QED BY <2>1, SeparatelyRead
<1> QED BY <1>1, <1>2, <1>3

\* A blast of one item.
LEMMA BlastBeyond ==
  ASSUME NEW r, Shaped(r), proto \in Kex, NEW blast \in Blasts, NEW command,
         Understood(proto, command) = blast, NEW y, NEW t,
         PastItem(proto, Reader(blast, r), y) = Reader(blast, t)
  PROVE  /\ Beyond(proto, r, Compressed(blast, command, <<y>>)) = Reader("packet", t)
         /\ ~IsZpacket(Compressed(blast, command, <<y>>))
<1>1. PICK x : x = Compressed(blast, command, <<y>>)
  OBVIOUS
<1>2. /\ x.is = "command" /\ x.form = blast /\ x.command = command /\ x.data[1] = y
      /\ "entity" \notin DOMAIN x
  BY <1>1 DEF Compressed
<1>3. IsBlast(x) /\ ~IsZpacket(x)
  BY <1>2 DEF IsBlast, IsZpacket, Blasts
<1>4. r.mode = "packet"
  BY DEF Shaped, Reader
<1>5. Expects(proto, r, x)
  BY <1>2, <1>4 DEF Expects, ExpectsCommand, FormOf, Forms, Blasts
<1>6. NextMode("packet", x) = blast /\ TrackedBy(proto, r, x) = r
  BY <1>2 DEF NextMode, TrackedBy, Blasts
<1>7. PastItem(proto, r, x) = Reader(blast, r)
  BY <1>4, <1>5, <1>6 DEF PastItem
<1>8. Beyond(proto, r, x) = Closed(Reader(blast, t), blast)
  BY <1>2, <1>3, <1>7 DEF Beyond
<1>9. Closed(Reader(blast, t), blast) = Reader("packet", t)
  BY DEF Closed, Reader
<1> QED BY <1>1, <1>3, <1>8, <1>9

LEMMA BlastsRead ==
  ASSUME proto \in Kex, proto \in Protocols, NEW r, Shaped(r),
         NEW num, NEW solid, NEW items, items = InBlasts(BaselineOf(num, solid))
  PROVE  Leads(r, items, num, solid) /\ NoZpackets(items)
<1>1. PICK b, x, y, k, t :
        /\ b = BaselineOf(num, solid) /\ k = Configstring
        /\ x = Compressed("configblast", 22, <<k>>)
        /\ y = Compressed("spawnbaselineblast", 23, <<b>>)
        /\ t = TrackedBaseline(proto, r, num, solid)
  OBVIOUS
<1>2. items = <<x, y>>
  BY <1>1 DEF InBlasts
<1>3. /\ "configblast" \in Blasts /\ "spawnbaselineblast" \in Blasts
      /\ Understood(proto, 22) = "configblast" /\ Understood(proto, 23) = "spawnbaselineblast"
  BY FormAssumption DEF Blasts
<1>4. Beyond(proto, r, x) = r /\ ~IsZpacket(x)
  <2>1. PastItem(proto, Reader("configblast", r), k) = Reader("configblast", r)
    BY <1>1, ListBeyond
  <2>2. Beyond(proto, r, x) = Reader("packet", r) /\ ~IsZpacket(x)
    BY <1>1, <1>3, <2>1, BlastBeyond
  <2> QED BY <2>2 DEF Shaped
<1>5. Beyond(proto, r, y) = Reader("packet", t) /\ ~IsZpacket(y)
  <2>1. PastItem(proto, Reader("spawnbaselineblast", r), BaselineOf(num, solid))
          = Reader("spawnbaselineblast", TrackedBaseline(proto, r, num, solid))
    <3>1. Shaped(r)
      OBVIOUS
    <3> QED BY ONLY <3>1, BaselineBeyond
  <2>2. PastItem(proto, Reader("spawnbaselineblast", r), b) = Reader("spawnbaselineblast", t)
    BY <1>1, <2>1, Zenon
  <2> QED BY <1>1, <1>3, <2>2, BlastBeyond
<1>6. NoZpackets(items)
  BY <1>2, <1>4, <1>5 DEF NoZpackets
<1>7. Through(proto, r, <<x, y>>) = Through(proto, r, <<y>>)
  BY <1>4, ThroughTwo
<1>8. Through(proto, r, <<y>>) = Reader("packet", t)
  BY <1>5, ThroughOne
<1>9. Through(proto, r, items) = Reader("packet", t)
  BY <1>2, <1>7, <1>8, Zenon
<1>10. Listed(items)
  BY <1>2, ThroughTwo
<1> QED BY <1>1, <1>6, <1>9, <1>10 DEF Leads

\* A zpacket, of which the parser gets what it can read by itself.
LEMMA ZpacketBeyond ==
  ASSUME NEW r, Shaped(r), proto \in Protocols, HasZpacket(proto), NEW data
  PROVE  LET x == Compressed("zpacket", ZpacketCmd(proto), data)
         IN  /\ Beyond(proto, r, x) = r
             /\ IsZpacket(x) /\ x.data = data
<1>1. PICK x : x = Compressed("zpacket", ZpacketCmd(proto), data)
  OBVIOUS
<1>2. /\ x.is = "command" /\ x.form = "zpacket" /\ x.command = ZpacketCmd(proto)
      /\ x.data = data /\ "entity" \notin DOMAIN x
  BY <1>1 DEF Compressed
<1>3. IsZpacket(x) /\ ~IsBlast(x)
  BY <1>2 DEF IsBlast, IsZpacket, Blasts
<1>4. r.mode = "packet" /\ Reader("packet", r) = r
  BY DEF Shaped, Reader
<1>5. Understood(proto, ZpacketCmd(proto)) = "zpacket"
  BY FormAssumption
<1>6. Expects(proto, r, x)
  BY <1>2, <1>4, <1>5 DEF Expects, ExpectsCommand, FormOf, Forms
<1>7. NextMode("packet", x) = "packet" /\ TrackedBy(proto, r, x) = r
  BY <1>2 DEF NextMode, TrackedBy, StreamForms, Blasts
<1>8. Beyond(proto, r, x) = r
  BY <1>3, <1>4, <1>6, <1>7, BeyondAlone
<1> QED BY <1>1, <1>2, <1>3, <1>8

LEMMA WriteGamestateFollows ==
  ASSUME SolidInv, FollowInv, NEW num, WriteGamestate(num)
  PROVE  FollowInv'
<1>1. /\ ~client.reading /\ ~server.full /\ ~server.inFrame /\ proto \in Protocols
      /\ ~server.misheard /\ ServerShape(server)
  BY DEF WriteGamestate, MayWrite, FollowInv, SolidInv
<1>2. PICK solid : /\ \E items \in Gamestates(BaselineOf(num, solid)) : Put(items)
                   /\ server' = TrackedBaseline(proto, server, num, solid)
  BY DEF WriteGamestate
<1>3. PICK b, r : b = BaselineOf(num, solid) /\ r = AtServer
  OBVIOUS
<1>4. PICK items \in Gamestates(b) : Put(items)
  BY <1>2, <1>3
<1>5. ~server'.full /\ ~server'.misheard /\ ~server'.inFrame
  BY <1>1, <1>2, SameAtServer
<1>6. Shaped(r) /\ r.mode = "packet"
  BY <1>1, <1>3 DEF AtServer, Shaped, Reader
<1>7. AtServer' = Reader("packet", TrackedBaseline(proto, r, num, solid))
  <2>1. AtServer' = Reader("packet", server')
    BY <1>5 DEF AtServer
  <2> QED BY <1>1, <1>2, <1>3, <2>1, SameAtServer
<1>8. ASSUME Leads(r, items, num, solid), NoZpackets(items) PROVE FollowInv'
  <2>1. Unwraps(proto, items)
    BY <1>8, UnwrapsMore
  <2> QED BY <1>1, <1>3, <1>4, <1>5, <1>7, <1>8, <2>1, PutFollows DEF Leads
<1>9. CASE items \in Plainly(b)
  BY <1>1, <1>3, <1>6, <1>8, <1>9, PlainlyRead
<1>10. CASE proto \in Kex /\ items = InBlasts(b)
  BY <1>1, <1>3, <1>6, <1>8, <1>10, BlastsRead
<1>11. CASE HasZpacket(proto) /\ \E g \in Plainly(b) :
              items = <<Compressed("zpacket", ZpacketCmd(proto), g)>>
  <2>1. PICK g \in Plainly(b) : items = <<Compressed("zpacket", ZpacketCmd(proto), g)>>
    BY <1>11
  <2>2. PICK x : x = Compressed("zpacket", ZpacketCmd(proto), g)
    OBVIOUS
  <2>3. Beyond(proto, r, x) = r /\ IsZpacket(x) /\ x.data = g
    BY <1>1, <1>6, <1>11, <2>2, ZpacketBeyond
  <2>4. Shaped(AtStart)
    BY DEF Shaped, AtStart, Reader
  <2>5. Leads(AtStart, g, num, solid) /\ NoZpackets(g)
    BY <1>1, <1>3, <2>4, PlainlyRead
  <2>6. Readable(proto, g)
    BY <2>5 DEF Leads, Readable, Reader, Between
  <2>7. items = <<x>>
    BY <2>1, <2>2
  <2>8. Unwraps(proto, items)
    BY <2>3, <2>5, <2>6, <2>7 DEF Unwraps
  <2>9. Listed(items) /\ Through(proto, r, items) = r
    BY <2>3, <2>7, ThroughOne
  <2>10. proto \notin Kex
    BY <1>11 DEF HasZpacket, ZpacketCmd, Kex
  <2>11. AtServer' = r
    BY <1>6, <1>7, <2>10 DEF TrackedBaseline, Tracked, Shaped
  <2> QED BY <1>1, <1>3, <1>4, <1>5, <2>8, <2>9, <2>11, PutFollows
<1>12. \/ items \in Plainly(b)
       \/ proto \in Kex /\ items = InBlasts(b)
       \/ HasZpacket(proto) /\ \E g \in Plainly(b) :
            items = <<Compressed("zpacket", ZpacketCmd(proto), g)>>
  BY <1>4 DEF Gamestates
<1> QED BY <1>9, <1>10, <1>11, <1>12

LEMMA OverfillFollows ==
  ASSUME SolidInv, FollowInv, Overfill
  PROVE  FollowInv'
<1>1. /\ ~client.reading /\ ~server.full /\ proto \in Protocols /\ ~server.misheard
      /\ ServerShape(server) /\ server' = [server EXCEPT !.full = TRUE, !.inFrame = FALSE]
      /\ UNCHANGED <<proto, client>>
  BY DEF Overfill, MayWrite, FollowInv, SolidInv, Put
<1>2. /\ client.mode = "packet" /\ ~client.inflating /\ client.error = "none"
      /\ Listed(packet) /\ Unwraps(proto, packet)
      /\ Through(proto, AtClient, packet) = AtServer
  BY <1>1 DEF FollowInv
<1>3. server'.full /\ ~server'.misheard
  BY <1>1 DEF ServerShape
<1>4. AtServer.mode \in Between
  BY DEF AtServer, Reader, Between
<1>5. PICK items : Put(items) /\ items \in {<<>>, <<Broken>>}
  BY DEF Overfill
<1>6. /\ Listed(items) /\ Unwraps(proto, items)
      /\ Through(proto, AtServer, items).mode \in Between
  <2>1. CASE items = <<>>
    BY <1>4, <2>1, ThroughNone, ListedNone DEF Unwraps
  <2>2. CASE items = <<Broken>>
    <3>1. PICK x : x = Broken
      OBVIOUS
    <3>2. x.is = "broken"
      BY <3>1 DEF Broken
    <3>3. /\ Expects(proto, AtServer, x) /\ ~IsBlast(x) /\ ~IsZpacket(x)
          /\ NextMode(AtServer.mode, x) = "packet"
      BY <1>4, <3>2 DEF Expects, IsBlast, IsZpacket, NextMode
    <3>4. Beyond(proto, AtServer, x).mode = "packet"
      <4>1. PICK m, t : m = NextMode(AtServer.mode, x) /\ t = TrackedBy(proto, AtServer, x)
        OBVIOUS
      <4>2. Beyond(proto, AtServer, x) = Reader(m, t)
        BY <3>3, <4>1, BeyondAlone
      <4> QED BY <3>3, <4>1, <4>2 DEF Reader
    <3>5. items = <<x>>
      BY <2>2, <3>1
    <3>6. Listed(items) /\ Through(proto, AtServer, items) = Beyond(proto, AtServer, x)
      BY <3>5, ThroughOne
    <3>7. Unwraps(proto, items)
      BY <3>3, <3>5 DEF Unwraps
    <3> QED BY <3>4, <3>6, <3>7 DEF Between
  <2> QED BY <1>5, <2>1, <2>2
<1>7. /\ Through(proto, AtClient, packet \o items).mode \in Between
      /\ Listed(packet \o items) /\ Unwraps(proto, packet \o items)
  <2>1. Through(proto, AtClient, packet \o items) = Through(proto, AtServer, items)
    BY <1>2, <1>6, ThroughListed
  <2>2. Listed(packet \o items)
    BY <1>2, <1>6, ListedBoth
  <2>3. Unwraps(proto, packet \o items)
    BY <1>2, <1>6, UnwrapsBoth
  <2> QED BY <1>6, <2>1, <2>2, <2>3
<1>8. AtClient' = AtClient /\ packet' = packet \o items
  BY <1>1, <1>5 DEF AtClient, Put
<1> QED BY <1>1, <1>2, <1>3, <1>7, <1>8 DEF FollowInv

-----------------------------------------------------------------------------
(* The channel, and the messages of the client                             *)
LEMMA DeliverFollows ==
  ASSUME SolidInv, FollowInv, Finished, NEW items, Deliver(items), Listed(items),
         UnwrapsTwice(proto, items), Through(proto, AtClient, items).mode \in Between
  PROVE  FollowInv'
<1>1. /\ ~client.reading /\ ~server.inFrame /\ proto \in Protocols /\ ~server.misheard
      /\ client.mode = "packet" /\ ~client.inflating /\ client.error = "none"
      /\ ServerShape(server) /\ ClientShape(client)
  BY DEF Finished, FollowInv, SolidInv
<1>2. /\ packet' = <<>> /\ server' = [server EXCEPT !.full = FALSE] /\ UNCHANGED proto
      /\ client' = [client EXCEPT !.reading = TRUE, !.raw = items, !.handed = <<>>]
  BY DEF Deliver, Emptied
<1>3. ~server'.full /\ ~server'.inFrame /\ ~server'.misheard
  BY <1>1, <1>2 DEF ServerShape
<1>4. /\ client'.reading /\ client'.raw = items /\ client'.mode = "packet"
      /\ ~client'.inflating /\ client'.error = "none"
      /\ client'.edict = client.edict /\ client'.base = client.base
  BY <1>1, <1>2 DEF ClientShape
<1>5. AtClient' = AtClient
  BY <1>1, <1>4 DEF AtClient, Reader
<1>6. Following'
  BY <1>2, <1>4, <1>5 DEF Following, FromInflated, Blasts
<1> QED BY <1>1, <1>2, <1>3, <1>4, <1>6 DEF FollowInv

\* A finished packet, broken off or not, can be read.
LEMMA PacketReadable ==
  ASSUME FollowInv, Finished
  PROVE  /\ Listed(packet) /\ Unwraps(proto, packet) /\ UnwrapsTwice(proto, packet)
         /\ Through(proto, AtClient, packet).mode \in Between
         /\ client.mode = "packet" /\ proto \in Protocols
<1>1. /\ Listed(packet) /\ Unwraps(proto, packet) /\ ~server.inFrame
      /\ client.mode = "packet" /\ proto \in Protocols
      /\ IF server.full THEN Through(proto, AtClient, packet).mode \in Between
                        ELSE Through(proto, AtClient, packet) = AtServer
  BY DEF FollowInv, Finished
<1>2. AtServer.mode \in Between
  BY DEF AtServer, Reader, Between
<1> QED BY <1>1, <1>2, UnwrapsMore

LEMMA SendPacketFollows ==
  ASSUME SolidInv, FollowInv, SendPacket
  PROVE  FollowInv'
BY PacketReadable, DeliverFollows DEF SendPacket

LEMMA SendZpacketFollows ==
  ASSUME SolidInv, FollowInv, SendZpacket
  PROVE  FollowInv'
<1>1. Finished /\ HasZpacket(proto) /\ proto \notin Kex
  BY NotInKex DEF SendZpacket
<1>2. PICK x : x = Compressed("zpacket", ZpacketCmd(proto), packet)
  OBVIOUS
<1>3. PICK items : items = <<x>>
  OBVIOUS
<1>4. Deliver(items)
  BY <1>2, <1>3 DEF SendZpacket
<1>5. AtClient = AtStart
  BY <1>1, PacketReadable, NothingTracked DEF AtClient
<1>6. Shaped(AtStart) /\ AtStart.mode \in Between
  BY DEF Shaped, AtStart, Reader, Between
<1>7. Beyond(proto, AtStart, x) = AtStart /\ x.data = packet
  BY <1>1, <1>2, <1>6, PacketReadable, ZpacketBeyond
<1>8. Listed(items) /\ Through(proto, AtStart, items) = AtStart
  BY <1>3, <1>7, ThroughOne
<1>9. Readable(proto, packet) /\ Unwraps(proto, packet)
  BY <1>1, <1>5, PacketReadable DEF Readable
<1>10. UnwrapsTwice(proto, items)
  BY <1>3, <1>7, <1>9 DEF UnwrapsTwice
<1> QED BY <1>1, <1>4, <1>5, <1>6, <1>8, <1>10, DeliverFollows

LEMMA LosePacketFollows ==
  ASSUME SolidInv, FollowInv, LosePacket
  PROVE  FollowInv'
<1>1. /\ ~client.reading /\ ~server.inFrame /\ proto \in Protocols /\ ~server.misheard
      /\ client.mode = "packet" /\ ~client.inflating /\ client.error = "none"
      /\ ServerShape(server) /\ UNCHANGED <<proto, client>> /\ proto \notin Kex
      /\ packet' = <<>> /\ server' = [server EXCEPT !.full = FALSE]
  BY DEF LosePacket, Finished, Emptied, FollowInv, SolidInv
<1>2. /\ ~server'.full /\ ~server'.inFrame /\ ~server'.misheard
      /\ server'.edict = server.edict /\ server'.base = server.base
  BY <1>1 DEF ServerShape
<1>3. AtClient' = AtServer'
  BY <1>1, <1>2 DEF AtClient, AtServer, Reader, SolidInv, UntrackedInv
<1>4. Through(proto, AtClient', <<>>) = AtClient' /\ Listed(<<>>) /\ Unwraps(proto, <<>>)
  BY ThroughNone, ListedNone DEF Unwraps
<1> QED BY <1>1, <1>2, <1>3, <1>4 DEF FollowInv

LEMMA ClientWriteFollows ==
  ASSUME SolidInv, FollowInv, NEW kind, ClientWrite(kind)
  PROVE  FollowInv'
<1>1. /\ ~client.reading /\ proto \in Protocols /\ ~server.misheard /\ ServerShape(server)
      /\ kind \in DOMAIN ClientWrites(proto) /\ UNCHANGED <<proto, packet, client>>
  BY DEF ClientWrite, FollowInv, SolidInv
<1>2. PICK command \in ClientWrites(proto)[kind] :
        server' = [server EXCEPT !.misheard = @ \/ ServerUnderstood(proto, command) # kind]
  BY DEF ClientWrite
<1>3. ServerUnderstood(proto, command) = kind
  BY <1>1, <1>2, FormAssumption
<1>4. server' = [server EXCEPT !.misheard = FALSE]
  BY <1>1, <1>2, <1>3
<1>5. /\ ~server'.misheard /\ server'.full = server.full /\ server'.inFrame = server.inFrame
      /\ server'.edict = server.edict /\ server'.base = server.base
  BY <1>1, <1>4 DEF ServerShape
<1>6. AtServer' = AtServer /\ AtClient' = AtClient
  BY <1>1, <1>5 DEF AtServer, AtClient, Reader
<1> QED BY <1>1, <1>5, <1>6 DEF FollowInv

-----------------------------------------------------------------------------
LEMMA FollowInit == Init => FollowInv
<1> SUFFICES ASSUME Init PROVE FollowInv
  OBVIOUS
<1>1. AtClient = AtServer
  BY DEF Init, AtClient, AtServer, Reader, ServerInit, ClientInit
<1>2. Through(proto, AtClient, <<>>) = AtClient /\ Listed(<<>>) /\ Unwraps(proto, <<>>)
  BY ThroughNone, ListedNone DEF Unwraps
<1> QED BY <1>1, <1>2 DEF Init, FollowInv, ServerInit, ClientInit

LEMMA FollowNext ==
  ASSUME SolidInv, SolidInv', FollowInv, [Next]_vars
  PROVE  FollowInv'
<1>1. CASE UNCHANGED vars
  BY <1>1 DEF vars, FollowInv, Following, AtClient, AtServer, FromInflated
<1>2. CASE Server
  <2>1. CASE \E kind \in UNION {DOMAIN ServerWrites(p) : p \in Protocols} : WriteMessage(kind)
    BY <2>1, WriteMessageFollows
  <2>2. CASE \E num \in Entities : WriteDelta(num) \/ WriteRemove(num) \/ WriteGamestate(num)
    BY <2>2, WriteEntityFollows, WriteGamestateFollows
  <2>3. CASE WriteFrame \/ WriteTerminator \/ Overfill
    BY <2>3, WriteFrameFollows, OverfillFollows
  <2> QED BY <1>2, <2>1, <2>2, <2>3 DEF Server
<1>3. CASE Reads
  <2>1. CASE ReadMessage \/ ReadFrame \/ ReadDelta \/ ReadRemove \/ ReadTerminator
    BY <2>1, ReadMessageFollows, ReadFrameFollows, ReadEntityFollows, ReadTerminatorFollows
  <2>2. CASE ReadConfigstring \/ ReadBaseline \/ ReadStreamEnd
             \/ \E form \in StreamForms : OpenStream(form)
    BY <2>2, ReadListsFollow, StreamsFollow
  <2>3. CASE ReadZpacket \/ ReadZpacketEnd \/ ReadBlastEnd \/ \E blast \in Blasts : ReadBlast(blast)
    BY <2>3, ReadZpacketFollows, ReadZpacketEndFollows, ReadBlastFollows, ReadBlastEndFollows
  <2> QED BY <1>3, <2>1, <2>2, <2>3 DEF Reads
<1>4. CASE ReadPacketEnd \/ ReadBroken \/ SkipPacket
  BY <1>4, ReadPacketEndFollows, ErrorsFollow
<1>5. CASE Reconnect
  <2>1. /\ proto' \in Protocols /\ server' = ServerInit /\ client' = ClientInit
        /\ packet' = <<>>
    BY <1>5 DEF Reconnect, FollowInv
  <2> QED BY <2>1, StartsFollow
<1>6. CASE SendPacket \/ SendZpacket \/ LosePacket
  BY <1>6, SendPacketFollows, SendZpacketFollows, LosePacketFollows
<1>7. CASE \E kind \in UNION {DOMAIN ClientWrites(p) : p \in Protocols} : ClientWrite(kind)
  BY <1>7, ClientWriteFollows
<1> QED BY <1>1, <1>2, <1>3, <1>4, <1>5, <1>6, <1>7 DEF Next, Client

(* The invariant that MCSession checks: what the server knows of entities, *)
(* what it meant to say and the modes it leaves the parser in are all in   *)
(* the items ahead of the client, whatever is written, wrapped, lost or    *)
(* broken off: the client_read functions and inflate_io_arg.               *)
THEOREM SessionTracked == Spec => []SessionInv
<1>1. Init => SessionInv
  BY SolidInit, HandInit, FollowInit DEF SessionInv
<1>2. SessionInv /\ [Next]_vars => SessionInv'
  <2> SUFFICES ASSUME SessionInv, [Next]_vars PROVE SessionInv'
    OBVIOUS
  <2>1. SolidInv /\ SolidInv' /\ FollowInv
    BY SolidStep DEF SessionInv
  <2>2. FollowInv'
    BY <2>1, FollowNext
  <2>3. ~Nests => HandInv'
    BY <2>1, HandNext DEF SessionInv, SolidInv
  <2> QED BY <2>1, <2>2, <2>3 DEF SessionInv
<1> QED BY <1>1, <1>2, PTL DEF Spec

(* Whatever comes next in a packet is something that the parser reads in   *)
(* the mode it is in, also after a packet broken off and in a zpacket in a *)
(* zpacket, and the packet ends where it can; and every command of either  *)
(* side is taken for what it is: the client_read and server_read functions *)
(* and their switches.                                                     *)
THEOREM AlwaysKnowsOn == Spec => []NeverConfused
<1>1. SessionInv => NeverConfused
  <2> SUFFICES ASSUME SolidInv, FollowInv PROVE NeverConfused
    BY DEF SessionInv
  <2>1. ~server.misheard
    BY DEF FollowInv
  <2> QED BY <2>1, ExpectsNext DEF NeverConfused, AtClient
<1> QED BY <1>1, SessionTracked, PTL
=============================================================================
