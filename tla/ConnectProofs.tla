--------------------------- MODULE ConnectProofs ---------------------------
(***************************************************************************)
(* Whatever is lost, repeated or late, and whatever versions are asked     *)
(* for: client and server use the same formats, and only protocols that    *)
(* the game can be played with.                                            *)
(***************************************************************************)
EXTENDS ConnectInvariant, NumberLemmas, FiniteSetTheorems, TLAPS

-----------------------------------------------------------------------------
(* Helpers *)

\* The least number of a set of numbers.
LEMMA Least ==
  ASSUME NEW S \in SUBSET Nat, S # {} PROVE Min(S) \in S /\ \A y \in S : Min(S) <= y
BY LeastElement, Zenon DEF Min

\* The parser of a challenge yields the first protocol of the client's list that the
\* challenge names, or none.
LEMMA FirstInCommon ==
  ASSUME accepts \in Seq(Spoken), NEW netvers
  PROVE  \/ /\ ParseChallengeProtocol(netvers) = "invalid"
            /\ \A i \in DOMAIN accepts : ~Contains(netvers, Netver[accepts[i]])
         \/ \E j \in DOMAIN accepts :
              /\ ParseChallengeProtocol(netvers) = accepts[j]
              /\ Contains(netvers, Netver[accepts[j]])
              /\ \A i \in DOMAIN accepts : Contains(netvers, Netver[accepts[i]]) => j <= i
<1> DEFINE common == {i \in DOMAIN accepts : Contains(netvers, Netver[accepts[i]])}
<1>1. DOMAIN accepts = 1 .. Len(accepts)
  OBVIOUS
<1>2. CASE common = {}
  BY <1>2 DEF ParseChallengeProtocol
<1>3. CASE common # {}
  <2>1. common \in SUBSET Nat
    BY <1>1
  <2>2. Min(common) \in common /\ \A i \in common : Min(common) <= i
    <3> HIDE DEF common
    <3> QED BY <1>3, <2>1, Least
  <2>3. ParseChallengeProtocol(netvers) = accepts[Min(common)]
    BY <1>3, Zenon DEF ParseChallengeProtocol
  <2> QED BY <2>2, <2>3
<1> QED BY <1>2, <1>3

LEMMA ChoiceIsSpoken ==
  ASSUME accepts \in Seq(Spoken), NEW netvers
  PROVE  ParseChallengeProtocol(netvers) \in Spoken \union {"invalid"}
<1>1. \A j \in DOMAIN accepts : accepts[j] \in Spoken
  OBVIOUS
<1> QED BY <1>1, FirstInCommon

\* A set of one number, sorted.
LEMMA SortedOne ==
  ASSUME NEW x \in Nat
  PROVE  \A n : Contains(Sorted({x}), n) <=> n = x
<1>1. Cardinality({x}) = 1
  BY FS_Singleton
<1>2. <<x>> \in SetToSeqs({x})
  BY <1>1 DEF SetToSeqs
<1>3. \A i, j \in DOMAIN <<x>> : i < j => <<x>>[i] < <<x>>[j]
  OBVIOUS
<1>4. Sorted({x}) \in SetToSeqs({x})
  BY <1>2, <1>3 DEF Sorted
<1>5. Sorted({x}) \in [1 .. 1 -> {x}]
  BY <1>1, <1>4 DEF SetToSeqs
<1>6. Len(Sorted({x})) = 1 /\ Sorted({x})[1] = x
  BY <1>5
<1> QED BY <1>6 DEF Contains

\* The numbers of the original game's protocols, sorted.
LEMMA SortedThree ==
  \A n : Contains(Sorted({34, 35, 36}), n) <=> n \in {34, 35, 36}
<1> DEFINE S == {34, 35, 36}
           w == <<34, 35, 36>>
<1>1. Cardinality(S) = 3
  <2>1. S = 34 .. 36
    OBVIOUS
  <2>2. 34 \in Int /\ 36 \in Int /\ (IF 34 > 36 THEN 0 ELSE 36 - 34 + 1) = 3
    OBVIOUS
  <2>3. Cardinality(34 .. 36) = 3
    BY <2>2, FS_Interval, Zenon
  <2> HIDE DEF S
  <2> QED BY <2>1, <2>3
<1>2. w \in SetToSeqs(S)
  BY <1>1 DEF SetToSeqs
<1>3. \A i, j \in DOMAIN w : i < j => w[i] < w[j]
  OBVIOUS
<1> HIDE DEF w
<1>4. /\ Sorted(S) \in SetToSeqs(S)
      /\ \A i, j \in DOMAIN Sorted(S) : i < j => Sorted(S)[i] < Sorted(S)[j]
  BY <1>2, <1>3, Zenon DEF Sorted
<1>5. PICK s : s = Sorted(S)
  OBVIOUS
<1>6. s \in [1 .. 3 -> S] /\ \A i, j \in 1 .. 3 : i < j => s[i] < s[j]
  BY <1>1, <1>4, <1>5 DEF SetToSeqs
<1>7. s[1] = 34 /\ s[2] = 35 /\ s[3] = 36
  <2>1. s[1] \in S /\ s[2] \in S /\ s[3] \in S /\ s[1] < s[2] /\ s[2] < s[3]
    BY <1>6
  <2> QED BY <2>1
<1>8. Len(s) = 3
  BY <1>6
<1>9. \A n : (\E i \in 1 .. 3 : s[i] = n) <=> n \in S
  BY <1>7
<1> QED BY <1>5, <1>8, <1>9 DEF Contains

\* A challenge names the protocols of the game.
LEMMA ExtrasName ==
  ASSUME game \in Games PROVE Names(ChallengeExtras, game)
<1>1. /\ Netver["vanilla"] = 34 /\ Netver["r1q2"] = 35 /\ Netver["q2pro"] = 36
      /\ Netver["q2repro"] = 1038
  BY DEF Netver
<1>2. ASSUME NEW S, {Netver[p] : p \in Accepted} = S,
             \A n : Contains(Sorted(S), n) <=> n \in S,
             \A p \in Spoken : Netver[p] \in S <=> p \in ProtocolsForGame(game)
      PROVE  Names(ChallengeExtras, game)
  BY <1>2 DEF ChallengeExtras, Names
<1>3. CASE game = "vanilla"
  <2>1. {Netver[p] : p \in Accepted} = {34, 35, 36}
    BY <1>1, <1>3 DEF Accepted, ProtocolsForGame
  <2>2. \A p \in Spoken : Netver[p] \in {34, 35, 36} <=> p \in ProtocolsForGame(game)
    BY <1>1, <1>3 DEF ProtocolsForGame, Spoken
  <2> QED BY <1>2, <2>1, <2>2, SortedThree
<1>4. CASE game \in {"extended", "extended_v2"}
  <2>1. {Netver[p] : p \in Accepted} = {36}
    BY <1>1, <1>4 DEF Accepted, ProtocolsForGame
  <2>2. \A p \in Spoken : Netver[p] \in {36} <=> p \in ProtocolsForGame(game)
    BY <1>1, <1>4 DEF ProtocolsForGame, Spoken
  <2>3. \A n : Contains(Sorted({36}), n) <=> n \in {36}
    BY SortedOne
  <2> QED BY <1>2, <2>1, <2>2, <2>3
<1>5. CASE game = "rerelease"
  <2>1. {Netver[p] : p \in Accepted} = {1038}
    BY <1>1, <1>5 DEF Accepted, ProtocolsForGame
  <2>2. \A p \in Spoken : Netver[p] \in {1038} <=> p \in ProtocolsForGame(game)
    BY <1>1, <1>5 DEF ProtocolsForGame, Spoken
  <2>3. \A n : Contains(Sorted({1038}), n) <=> n \in {1038}
    BY SortedOne
  <2> QED BY <1>2, <2>1, <2>2, <2>3
<1> QED BY <1>3, <1>4, <1>5 DEF Games, GameNumber

\* The numbers of protocols are different.
LEMMA NetverInverse ==
  \A p \in Spoken : FromNetver(Netver[p]) = p
<1> SUFFICES ASSUME NEW p \in Spoken PROVE FromNetver(Netver[p]) = p
  OBVIOUS
<1>1. p \in DOMAIN Netver
  BY DEF Netver, Spoken
<1>2. \A q \in DOMAIN Netver : Netver[q] = Netver[p] => q = p
  BY DEF Netver, Spoken
<1> QED BY <1>1, <1>2, Zenon DEF FromNetver

\* Reading back the arguments of a connect request yields what was written, as far as
\* the request has room for it, with a version within its limits.
ReadBack(c, p) ==
  /\ p.protocol = c.protocol /\ p.qport = c.qport /\ p.challenge = c.challenge
  /\ p.version \in Nat /\ p.zlib \in BOOLEAN
  /\ c.protocol # "vanilla" => p.packet_length = c.packet_length
  /\ c.protocol \in DOMAIN MinimumVersion =>
       p.version <= c.version \/ p.version <= MinimumVersion[c.protocol]
  /\ c.protocol = "q2pro" => p.nctype = c.nctype
  /\ p.zlib => c.zlib \/ c.protocol = "r1q2"
LEMMA RoundTrip ==
  ASSUME NEW c \in ConnectStruct
  PROVE  ReadBack(c, ParseConnect(ConnectArguments(c)))
<1> DEFINE args == ConnectArguments(c)
<1>1. /\ c.protocol \in Spoken /\ c.version \in Nat /\ c.packet_length \in Nat
      /\ c.zlib \in BOOLEAN /\ c.nctype \in {0, 1}
  BY DEF ConnectStruct
<1>2. /\ FromNetver(args.netver) = c.protocol /\ args.tail = ConnectTail(c)
      /\ args.qport = c.qport /\ args.challenge = c.challenge
  BY <1>1, NetverInverse DEF ConnectArguments
<1>3. DOMAIN MinimumVersion = {"r1q2", "q2pro"} /\ MinimumVersion["r1q2"] = 1903
      /\ MinimumVersion["q2pro"] = 1015
  BY DEF MinimumVersion
<1>4. \A protocol \in {"r1q2", "q2pro"} : \A n \in Nat :
        /\ Clamped(n, protocol) \in Nat
        /\ Clamped(n, protocol) <= n \/ Clamped(n, protocol) <= MinimumVersion[protocol]
  BY DEF Clamped, MinimumVersion, CurrentVersion, PLAYERFOG
<1>5. (Flag(c.zlib) # 0) = c.zlib
  BY <1>1 DEF Flag
<1> HIDE DEF args
<1>6. CASE c.protocol = "vanilla"
  <2>1. ParseConnect(args) = Connected(args, 0, FALSE, 0)
    BY <1>2, <1>6 DEF ParseConnect
  <2> QED BY <1>2, <1>3, <1>6, <2>1 DEF Connected, ReadBack, args
<1>7. CASE c.protocol = "r1q2"
  <2>1. args.tail = <<c.packet_length, c.version>>
    BY <1>2, <1>7 DEF ConnectTail, R1q2Tail
  <2>2. ParseConnect(args) = Connected(args, Clamped(c.version, "r1q2"), TRUE, 0)
    BY <1>2, <1>7, <2>1 DEF ParseConnect, R1q2ParseConnect
  <2> QED BY <1>1, <1>2, <1>3, <1>4, <1>7, <2>1, <2>2 DEF Connected, ReadBack, args
<1>8. CASE c.protocol = "q2pro"
  <2> DEFINE v == Unreserved(Clamped(c.version, "q2pro"))
  <2>1. args.tail = <<c.packet_length, c.nctype, Flag(c.zlib), c.version>>
    BY <1>2, <1>8 DEF ConnectTail, Q2proTail
  <2>2. ParseConnect(args) = Connected(args, v, c.zlib, c.nctype)
    BY <1>2, <1>5, <1>8, <2>1 DEF ParseConnect, Q2proParseConnect
  <2>3. v \in Nat /\ (v <= c.version \/ v <= 1015)
    BY <1>1, <1>3, <1>4 DEF Unreserved
  <2> HIDE DEF v
  <2> QED BY <1>1, <1>2, <1>3, <1>8, <2>1, <2>2, <2>3 DEF Connected, ReadBack, args
<1>9. CASE c.protocol = "q2repro"
  <2>1. args.tail = <<c.packet_length, Flag(c.zlib)>>
    BY <1>2, <1>9 DEF ConnectTail, Q2reproTail
  <2>2. ParseConnect(args) = Connected(args, 0, c.zlib, 1)
    BY <1>2, <1>5, <1>9, <2>1 DEF ParseConnect, Q2reproParseConnect
  <2> QED BY <1>1, <1>2, <1>3, <1>9, <2>1, <2>2 DEF Connected, ReadBack, args
<1> QED BY <1>1, <1>6, <1>7, <1>8, <1>9 DEF Spoken, args
-----------------------------------------------------------------------------
(* The invariant is kept                                                   *)

\* How a client completes its request.
LEMMA CompleteIsStruct ==
  ASSUME StateOK, choice # "invalid", NEW request \in Requests
  PROVE  CompleteConnect(Filled(request), request.deflate) \in ConnectStruct
<1>1. /\ request.version \in Nat /\ request.packet_length \in Nat
      /\ request.nctype \in {0, 1} /\ request.deflate \in BOOLEAN
  BY ConnectAssumption
<1>2. choice \in Spoken /\ heard.number \in Games \union {"none"}
  BY DEF StateOK
<1> DEFINE c == Filled(request)
<1>3. c \in ConnectStruct /\ c.protocol = choice
  BY <1>1, <1>2 DEF ConnectStruct, Filled
<1> HIDE DEF c
<1>4. CASE choice = "vanilla"
  BY <1>3, <1>4 DEF CompleteConnect, c
<1>5. CASE choice # "vanilla"
  <2>1. CurrentVersion[c.protocol] \in Nat
    BY <1>2, <1>3, <1>5 DEF CurrentVersion, PLAYERFOG, Spoken
  <2>2. c.qport % 256 \in Nat
    BY <1>3 DEF ConnectStruct
  <2>3. CompleteConnect(c, request.deflate) \in ConnectStruct
    BY <1>1, <1>3, <1>5, <2>1, <2>2 DEF CompleteConnect, ConnectStruct
  <2> QED BY <2>3 DEF c
<1> QED BY <1>4, <1>5

\* Nothing has been said yet.
LEMMA InitEstablishes == Init => ConnectInv
<1> SUFFICES ASSUME Init PROVE ConnectInv
  OBVIOUS
<1>1. StateOK
  BY ConnectAssumption DEF Init, StateOK
<1> QED BY <1>1 DEF Init, ConnectInv, HeardOK, ServerOK, ClientOK

\* A context that is set up satisfies what ServerOK and ClientOK say of it.
LEMMA SetUpKeeps ==
  ASSUME NEW c, NEW of, SetUp(c, of), UNCHANGED game, Supports(c.protocol),
         Requested(c, of) \/ ForDemo(c, of)
  PROVE  ServerOK' /\ ClientOK'
<1>1. server' = InitServerContext(c, of) /\ serverdata' = Serverdata(server') /\ client' = NoContext
  BY DEF SetUp
<1>2. server'.connect = c /\ server'.of = of
  BY <1>1 DEF InitServerContext
<1>3. Requested(c, of)' <=> Requested(c, of)
  BY DEF Requested, CanSay, ProtocolsForGame
<1>4. ForDemo(c, of)' <=> ForDemo(c, of)
  BY DEF ForDemo, ProtocolsForGame, DemoProtocol
<1>5. Supports(c.protocol)'
  BY DEF Supports
<1>6. InitServerContext(c, of)' = InitServerContext(c, of)
  BY DEF InitServerContext
<1>7. Serverdata(server)' = Serverdata(server')
  BY DEF Serverdata
<1> QED BY <1>1, <1>2, <1>3, <1>4, <1>5, <1>6, <1>7, Zenon DEF ServerOK, ClientOK

\* A context stays what it is while the game does.
LEMMA ContextKept ==
  ASSUME ServerOK, UNCHANGED game, UNCHANGED server, UNCHANGED serverdata
  PROVE  ServerOK'
<1> DEFINE c == server.connect
           of == server.of
<1>1. Requested(c, of)' <=> Requested(c, of)
  BY DEF Requested, CanSay, ProtocolsForGame
<1>2. ForDemo(c, of)' <=> ForDemo(c, of)
  BY DEF ForDemo, ProtocolsForGame, DemoProtocol
<1>3. Supports(c.protocol)' <=> Supports(c.protocol)
  BY DEF Supports
<1>4. InitServerContext(c, of)' = InitServerContext(c, of)
  BY DEF InitServerContext
<1>5. Serverdata(server)' = Serverdata(server)
  BY DEF Serverdata, Q2proServerdata, Q2reproServerdata, R1q2Serverdata, PlainServerdata, GameFlags
<1> QED BY <1>1, <1>2, <1>3, <1>4, <1>5, Zenon DEF ServerOK

\* So does what the client has heard.
LEMMA HeardKept ==
  ASSUME HeardOK, UNCHANGED <<accepts, heard, choice>>
  PROVE  HeardOK'
BY DEF HeardOK, Names, ParseChallengeProtocol

\* A protocol is chosen only if the challenge names it, that is, if it is one of the
\* game that the challenge was sent for.
LEMMA ChoiceIsNamed ==
  ASSUME StateOK, HeardOK, choice # "invalid"
  PROVE  heard.number \in Games /\ choice \in ProtocolsForGame(heard.number)
<1>1. /\ heard.number \in Games /\ Names(heard.p, heard.number)
      /\ choice = ParseChallengeProtocol(heard.p) /\ accepts \in Seq(Spoken)
  BY DEF StateOK, HeardOK
<1>2. PICK j \in DOMAIN accepts : choice = accepts[j] /\ Contains(heard.p, Netver[accepts[j]])
  BY <1>1, FirstInCommon
<1>3. choice \in Spoken
  BY <1>1, <1>2
<1>4. heard.p # <<>>
  BY <1>2 DEF Contains
<1> QED BY <1>1, <1>2, <1>3, <1>4 DEF Names

\* One step per action; a datagram brings in what was true of it when it was sent.
LEMMA StepPreserves == ConnectInv /\ [Next]_vars => ConnectInv'
<1> SUFFICES ASSUME ConnectInv, [Next]_vars PROVE ConnectInv'
  OBVIOUS
<1>1. StateOK /\ (\A m \in net : MessageOK(m)) /\ HeardOK /\ ServerOK /\ ClientOK
  BY DEF ConnectInv
<1>2. ASSUME UNCHANGED game, UNCHANGED server, UNCHANGED serverdata
      PROVE  ServerOK'
  BY <1>1, <1>2, ContextKept
<1>3. ASSUME UNCHANGED server, UNCHANGED serverdata, UNCHANGED client
      PROVE  ClientOK'
  BY <1>1, <1>3 DEF ClientOK
<1>4. ASSUME NEW m, MessageOK(m)
      PROVE  MessageOK(m)'
  BY <1>4 DEF MessageOK, Names
<1>5. ASSUME UNCHANGED <<game, accepts, heard, choice>>
      PROVE  StateOK' /\ HeardOK'
  BY <1>1, <1>5, HeardKept DEF StateOK
<1>6. CASE SendChallenge
  <2>1. MessageOK(Challenge(ChallengeExtras))
    BY <1>1, ExtrasName DEF Challenge, MessageOK, StateOK
  <2>2. \A m \in net' : MessageOK(m)'
    BY <1>1, <1>4, <1>6, <2>1 DEF SendChallenge, Send
  <2> QED BY <1>2, <1>3, <1>5, <1>6, <2>2 DEF SendChallenge, ConnectInv
<1>7. CASE OldServerSendsChallenge
  <2>1. MessageOK(Challenge(<<>>))
    BY <1>1 DEF Challenge, MessageOK, StateOK, Names
  <2>2. \A m \in net' : MessageOK(m)'
    BY <1>1, <1>4, <1>7, <2>1 DEF OldServerSendsChallenge, Send
  <2> QED BY <1>2, <1>3, <1>5, <1>7, <2>2 DEF OldServerSendsChallenge, ConnectInv
<1>8. ASSUME NEW m \in net, Lose(m) PROVE ConnectInv'
  <2>1. \A n \in net' : MessageOK(n)'
    BY <1>1, <1>4, <1>8 DEF Lose
  <2> QED BY <1>2, <1>3, <1>5, <1>8, <2>1 DEF Lose, ConnectInv
<1>9. ASSUME NEW m \in net, ParseChallenge(m) PROVE ConnectInv'
  <2>1. \A n \in net' : MessageOK(n)'
    BY <1>1, <1>4, <1>9 DEF ParseChallenge
  <2>2. m.number \in Games /\ Names(m.p, m.number) /\ m.number # "none"
    BY <1>1, <1>9 DEF ParseChallenge, MessageOK, Games, GameNumber
  <2>3. ParseChallengeProtocol(m.p) \in Spoken \union {"invalid"}
    BY <1>1, ChoiceIsSpoken DEF StateOK
  <2>4. StateOK'
    BY <1>1, <1>9, <2>2, <2>3 DEF ParseChallenge, StateOK
  <2>5. HeardOK'
    <3>1. heard' = m /\ choice' = ParseChallengeProtocol(m.p) /\ accepts' = accepts
      BY <1>9 DEF ParseChallenge
    <3> QED BY <2>2, <3>1 DEF HeardOK, ParseChallengeProtocol, Names
  <2> QED BY <1>2, <1>3, <1>9, <2>1, <2>4, <2>5 DEF ParseChallenge, ConnectInv
<1>10. ASSUME NEW m \in net, AcceptConnect(m) PROVE ConnectInv'
  <2> DEFINE c == ParseConnect(m.args)
  <2>1. m.of \in ConnectStruct /\ m.args = ConnectArguments(m.of)
    BY <1>1, <1>10 DEF AcceptConnect, MessageOK
  <2>2. Supports(c.protocol) /\ CanSay(c) /\ SetUp(c, m.of)
    BY <1>10 DEF AcceptConnect
  <2>3. c.protocol = FromNetver(m.args.netver)
    <3>1. c.protocol = m.of.protocol
      BY <2>1, RoundTrip DEF ReadBack
    <3>2. m.of.protocol \in Spoken
      BY <2>1 DEF ConnectStruct
    <3> QED BY <2>1, <3>1, <3>2, NetverInverse DEF ConnectArguments
  <2>4. Requested(c, m.of)
    BY <1>10, <2>1, <2>2, <2>3 DEF AcceptConnect, Parses, Accepted, Requested
  <2>5. ServerOK' /\ ClientOK'
    <3> HIDE DEF c
    <3> QED BY <1>10, <2>2, <2>4, SetUpKeeps DEF AcceptConnect
  <2>6. \A n \in net' : MessageOK(n)'
    BY <1>1, <1>4, <1>10 DEF AcceptConnect
  <2> QED BY <1>5, <1>10, <2>5, <2>6 DEF AcceptConnect, ConnectInv
<1>11. ASSUME NEW request \in Requests, SendConnect(request) PROVE ConnectInv'
  <2> DEFINE c == CompleteConnect(Filled(request), request.deflate)
             message == [is |-> "connect", args |-> ConnectArguments(c), of |-> c]
  <2>1. c \in ConnectStruct
    BY <1>1, <1>11, CompleteIsStruct DEF SendConnect
  <2>2. MessageOK(message)
    <3>1. choice # "invalid"
      BY <1>11 DEF SendConnect
    <3>2. /\ heard.number \in Games /\ choice \in ProtocolsForGame(heard.number)
      BY <1>1, <3>1, ChoiceIsNamed
    <3>3. c.challenge = heard.number /\ c.protocol = choice
      BY DEF CompleteConnect, Filled
    <3> HIDE DEF c
    <3> QED BY <2>1, <3>2, <3>3 DEF MessageOK
  <2>3. net' = net \union {message}
    BY <1>11 DEF SendConnect, Send
  <2>4. \A n \in net' : MessageOK(n)'
    <3> HIDE DEF message
    <3> QED BY <1>1, <1>4, <2>2, <2>3
  <2> QED BY <1>2, <1>3, <1>5, <1>11, <2>4 DEF SendConnect, ConnectInv
<1>12. ASSUME NEW p \in DemoAsked, RecordDemo(p) PROVE ConnectInv'
  <2> DEFINE c == [protocol |-> IF p = "invalid" THEN DemoProtocol(game) ELSE p,
                   version |-> 0, qport |-> 0, challenge |-> "none", zlib |-> TRUE,
                   nctype |-> 0, packet_length |-> DefaultPacketLength]
  <2>1. Supports(c.protocol) /\ SetUp(c, c)
    BY <1>12 DEF RecordDemo
  <2>2. ForDemo(c, c)
    <3>1. p # "invalid" => p \in ProtocolsForGame(game)
      BY <1>12 DEF RecordDemo
    <3>2. DemoProtocol(game) # "q2pro"
      BY <1>1 DEF DemoProtocol, StateOK, Games, GameNumber
    <3> QED BY <3>1, <3>2 DEF ForDemo
  <2>3. ServerOK' /\ ClientOK'
    <3> HIDE DEF c
    <3> QED BY <1>12, <2>1, <2>2, SetUpKeeps DEF RecordDemo
  <2>4. \A n \in net' : MessageOK(n)'
    BY <1>1, <1>4, <1>12 DEF RecordDemo
  <2> QED BY <1>5, <1>12, <2>3, <2>4 DEF RecordDemo, ConnectInv
<1>13. CASE ReadServerdata
  <2>1. \A n \in net' : MessageOK(n)'
    BY <1>1, <1>4, <1>13 DEF ReadServerdata
  <2>2. ClientOK'
    BY <1>13 DEF ReadServerdata, ClientOK, ContinueServerdata, ExtdemoContext, Q2proGame, Q2reproGame, GameOf
  <2> QED BY <1>2, <1>5, <1>13, <2>1, <2>2 DEF ReadServerdata, ConnectInv
<1>14. ASSUME NEW g \in Games, ChangeGame(g) PROVE ConnectInv'
  <2>1. \A n \in net' : MessageOK(n)'
    BY <1>1, <1>4, <1>14 DEF ChangeGame
  <2>2. StateOK'
    BY <1>1, <1>14 DEF ChangeGame, StateOK
  <2>3. HeardOK'
    BY <1>1, <1>14, HeardKept DEF ChangeGame
  <2> QED BY <1>14, <2>1, <2>2, <2>3 DEF ChangeGame, ConnectInv, ServerOK, ClientOK
<1>15. CASE UNCHANGED vars
  <2>1. \A n \in net' : MessageOK(n)'
    BY <1>1, <1>4, <1>15 DEF vars
  <2> QED BY <1>2, <1>3, <1>5, <1>15, <2>1 DEF vars, ConnectInv
<1> QED
  BY <1>6, <1>7, <1>8, <1>9, <1>10, <1>11, <1>12, <1>13, <1>14, <1>15 DEF Next
-----------------------------------------------------------------------------
(* What the invariant says of the formats *)

\* The game is told in the serverdata, by flags or by the protocol alone.
LEMMA ContextsMatch ==
  ASSUME game \in Games, NEW c, NEW of, c.version \in Nat, CanSay(c),
         c.protocol \in ProtocolsForGame(game) \union {DemoProtocol(game)},
         server = InitServerContext(c, of)
  PROVE  SameFormats(ContinueServerdata(Serverdata(server)), server)
<1> DEFINE sd == Serverdata(server)
           mine == ContinueServerdata(sd)
<1>1. /\ server.protocol = c.protocol /\ server.game = game
      /\ c.protocol \in {"vanilla", "kex"} => server.version = 0
      /\ c.protocol \in {"extdemo", "extdemo_fog"} =>
           server.version = IF game = "extended_v2" THEN PLAYERFOG ELSE EXTENDED_LIMITS
      /\ c.protocol \in {"r1q2", "q2pro", "q2repro"} => server.version = c.version
  BY DEF InitServerContext, Kex, Extdemos
<1>2. game \in {"vanilla", "extended", "extended_v2", "rerelease"}
  BY DEF Games, GameNumber
<1>3. \/ c.protocol \in {"vanilla", "r1q2"} /\ game = "vanilla"
      \/ c.protocol = "q2pro" /\ game # "rerelease"
      \/ c.protocol \in {"q2repro", "kex"} /\ game = "rerelease"
      \/ c.protocol = "extdemo" /\ game = "extended"
      \/ c.protocol = "extdemo_fog" /\ game = "extended_v2"
  BY <1>2 DEF ProtocolsForGame, DemoProtocol
<1>4. /\ FromNetver(34) = "vanilla" /\ FromNetver(35) = "r1q2" /\ FromNetver(36) = "q2pro"
      /\ FromNetver(1038) = "q2repro" /\ FromNetver(2023) = "kex"
      /\ FromNetver(3434) = "extdemo" /\ FromNetver(3436) = "extdemo_fog"
  <2>1. \A p \in {"vanilla", "r1q2", "q2pro", "q2repro", "kex", "extdemo", "extdemo_fog"} :
          /\ p \in DOMAIN Netver
          /\ \A q \in DOMAIN Netver : Netver[q] = Netver[p] => q = p
    BY DEF Netver
  <2>2. \A p \in {"vanilla", "r1q2", "q2pro", "q2repro", "kex", "extdemo", "extdemo_fog"} :
          FromNetver(Netver[p]) = p
    BY <2>1, Zenon DEF FromNetver
  <2>3. /\ Netver["vanilla"] = 34 /\ Netver["r1q2"] = 35 /\ Netver["q2pro"] = 36
        /\ Netver["q2repro"] = 1038 /\ Netver["kex"] = 2023
        /\ Netver["extdemo"] = 3434 /\ Netver["extdemo_fog"] = 3436
    BY DEF Netver
  <2> QED BY <2>2, <2>3
<1>5. /\ (GameNumber[game] >= GameNumber["extended"]) = (game # "vanilla")
      /\ (GameNumber[game] >= GameNumber["extended_v2"]) = (game \in {"extended_v2", "rerelease"})
  BY <1>2 DEF GameNumber
<1>6. /\ "vanilla" \notin Extdemos \union Kex /\ "r1q2" \notin Extdemos \union Kex
      /\ "q2pro" \notin Extdemos \union Kex /\ "q2repro" \notin Extdemos \union Kex
      /\ "kex" \in Kex \ Extdemos /\ "extdemo" \in Extdemos \ Kex /\ "extdemo_fog" \in Extdemos \ Kex
  BY DEF Extdemos, Kex
<1>7. CASE c.protocol \in {"vanilla", "r1q2"}
  <2>1. sd = [netver |-> IF c.protocol = "r1q2" THEN 35 ELSE 34, version |-> server.version,
              flags |-> NoFlags]
    BY <1>1, <1>6, <1>7 DEF Serverdata, R1q2Serverdata, PlainServerdata
  <2>2. mine = [protocol |-> c.protocol, version |-> server.version, game |-> "vanilla"]
    BY <1>4, <1>6, <1>7, <2>1 DEF ContinueServerdata
  <2> QED BY <1>1, <1>3, <1>7, <2>2 DEF SameFormats
<1>8. CASE c.protocol = "q2pro"
  <2>1. sd = Q2proServerdata(server)
    BY <1>1, <1>6, <1>8 DEF Serverdata
  <2>2. mine = [protocol |-> "q2pro", version |-> sd.version, game |-> Q2proGame(sd)]
    <3>1. sd.netver = 36
      BY <2>1 DEF Q2proServerdata
    <3> HIDE DEF sd
    <3> QED BY <1>4, <1>6, <3>1 DEF ContinueServerdata
  <2>3. sd.version = c.version
    BY <1>1, <1>8, <2>1 DEF Q2proServerdata
  <2>4. CASE c.version < EXTENDED_LIMITS
    <3>1. game = "vanilla"
      BY <1>2, <1>3, <1>8, <2>4 DEF CanSay, EXTENDED_LIMITS, EXTENDED_LIMITS_2
    <3>2. Q2proGame(sd) = "vanilla"
      <4> HIDE DEF sd
      <4> QED BY <2>3, <2>4 DEF Q2proGame, EXTENDED_LIMITS, EXTENDED_LIMITS_2
    <3> QED BY <1>1, <1>8, <2>2, <2>3, <3>1, <3>2 DEF SameFormats
  <2>5. CASE c.version >= EXTENDED_LIMITS
    <3>1. server.version >= EXTENDED_LIMITS
      BY <1>1, <1>8, <2>5
    <3>2. /\ sd.flags.extensions = (game # "vanilla")
          /\ sd.flags.extensions_v2 = (game = "extended_v2")
      BY <1>3, <1>5, <1>8, <2>1, <3>1 DEF Q2proServerdata, GameFlags
    <3>3. Q2proGame(sd) = game
      <4>1. c.version >= EXTENDED_LIMITS_2 \/ game \in {"vanilla", "extended"}
        BY <1>2, <1>3, <1>8 DEF CanSay
      <4> HIDE DEF sd
      <4>2. CASE c.version >= EXTENDED_LIMITS_2
        <5>1. Q2proGame(sd) = GameOf(sd.flags)
          BY <2>3, <4>2 DEF Q2proGame, EXTENDED_LIMITS, EXTENDED_LIMITS_2
        <5> QED BY <1>2, <1>3, <1>8, <3>2, <5>1 DEF GameOf
      <4>3. CASE ~(c.version >= EXTENDED_LIMITS_2)
        <5>1. Q2proGame(sd) = IF sd.flags.extensions THEN "extended" ELSE "vanilla"
          BY <2>3, <2>5, <4>3 DEF Q2proGame, EXTENDED_LIMITS, EXTENDED_LIMITS_2
        <5> QED BY <3>2, <4>1, <4>3, <5>1
      <4> QED BY <4>2, <4>3
    <3> QED BY <1>1, <1>8, <2>2, <2>3, <3>3 DEF SameFormats
  <2> QED BY <2>4, <2>5 DEF EXTENDED_LIMITS
<1>9. CASE c.protocol = "q2repro"
  <2>1. sd = Q2reproServerdata(server)
    BY <1>1, <1>6, <1>9 DEF Serverdata
  <2>2. sd.netver = 1038 /\ sd.version = c.version /\ sd.flags.game3_compat = FALSE
    <3>1. sd.flags = GameFlags(game # "rerelease")
      BY <2>1 DEF Q2reproServerdata
    <3>2. GameFlags(game # "rerelease").game3_compat = (game # "rerelease")
      BY DEF GameFlags
    <3>3. sd.netver = 1038 /\ sd.version = c.version
      BY <1>1, <1>9, <2>1 DEF Q2reproServerdata
    <3>4. game = "rerelease"
      BY <1>3, <1>9
    <3>5. (game # "rerelease") = FALSE
      BY <3>4
    <3> HIDE DEF sd
    <3>6. sd.flags.game3_compat = FALSE
      BY ONLY <3>1, <3>2, <3>5, Zenon
    <3> QED BY <3>3, <3>6
  <2> HIDE DEF sd
  <2>3. mine = [protocol |-> "q2repro", version |-> c.version, game |-> Q2reproGame(sd)]
    BY <1>4, <1>6, <2>2 DEF ContinueServerdata
  <2>4. Q2reproGame(sd) = "rerelease"
    BY <2>2 DEF Q2reproGame
  <2> HIDE DEF mine
  <2>5. SameFormats(mine, server)
    BY <1>1, <1>3, <1>9, <2>3, <2>4 DEF SameFormats
  <2> QED BY <2>5 DEF mine, sd
<1>10. CASE c.protocol = "kex"
  <2>1. sd = PlainServerdata(2023)
    BY <1>1, <1>6, <1>10 DEF Serverdata
  <2>2. mine = [protocol |-> "kex", version |-> 0, game |-> "rerelease"]
    BY <1>4, <1>6, <2>1 DEF ContinueServerdata, PlainServerdata
  <2> QED BY <1>1, <1>3, <1>10, <2>2 DEF SameFormats
<1>11. CASE c.protocol \in {"extdemo", "extdemo_fog"}
  <2>1. sd = PlainServerdata(IF game = "extended_v2" THEN 3436 ELSE 3434)
    BY <1>1, <1>6, <1>11 DEF Serverdata
  <2>2. mine = ExtdemoContext(IF game = "extended_v2" THEN 3436 ELSE 3434)
    BY <1>4, <1>6, <2>1 DEF ContinueServerdata, PlainServerdata
  <2>3. /\ mine.protocol = c.protocol /\ mine.game = game
        /\ mine.version = IF game = "extended_v2" THEN PLAYERFOG ELSE EXTENDED_LIMITS
    BY <1>3, <1>4, <1>11, <2>2 DEF ExtdemoContext
  <2> QED BY <1>1, <1>11, <2>3 DEF SameFormats
<1> QED BY <1>3, <1>7, <1>8, <1>9, <1>10, <1>11

\* The server's context and what its serverdata says agree.
LEMMA ServerMatches ==
  ASSUME ConnectInv, server # NoContext,
         "q2pro" \notin DemoAsked \/ server.connect.challenge # "none"
  PROVE  SameFormats(ContinueServerdata(serverdata), server)
<1> DEFINE c == server.connect
           of == server.of
<1>1. /\ server = InitServerContext(c, of) /\ serverdata = Serverdata(server)
      /\ Requested(c, of) \/ ForDemo(c, of)
      /\ game \in Games
  BY DEF ConnectInv, ServerOK, StateOK
<1>2. CASE Requested(c, of)
  <2>1. c.version \in Nat
    BY <1>2, RoundTrip DEF Requested, ReadBack
  <2> HIDE DEF c, of
  <2> QED BY <1>1, <1>2, <2>1, ContextsMatch DEF Requested
<1>3. CASE ForDemo(c, of)
  <2>1. c.protocol # "q2pro" /\ c.version \in Nat
    BY <1>3 DEF ForDemo
  <2>2. CanSay(c)
    BY <2>1 DEF CanSay
  <2> HIDE DEF c, of
  <2> QED BY <1>1, <1>3, <2>1, <2>2, ContextsMatch DEF ForDemo
<1> QED BY <1>1, <1>2, <1>3

\* The properties follow from the invariant.
LEMMA InvAgrees ==
  ASSUME ConnectInv, "q2pro" \notin DemoAsked PROVE FormatsAgree
<1> SUFFICES ASSUME client # NoContext PROVE SameFormats(client, server)
  BY DEF FormatsAgree
<1>1. server # NoContext /\ client = ContinueServerdata(serverdata)
  BY DEF ConnectInv, ClientOK
<1> QED BY <1>1, ServerMatches

\* ... a request was let through only for a protocol of the game ...
LEMMA ConnectedPlayable ==
  ASSUME ConnectInv, server # NoContext, server.connect.challenge # "none"
  PROVE  server.protocol \in ProtocolsForGame(game)
<1> DEFINE c == server.connect
           of == server.of
<1>1. server = InitServerContext(c, of) /\ Requested(c, of)
  BY DEF ConnectInv, ServerOK, ForDemo
<1>2. server.protocol = c.protocol
  <2> HIDE DEF c, of
  <2> QED BY <1>1 DEF InitServerContext
<1> QED BY <1>1, <1>2 DEF Requested

\* ... of which, and of the game, the coordinates are a function ...
LEMMA InvHeard ==
  ASSUME ConnectInv PROVE MulticastsHeard
<1> SUFFICES ASSUME client # NoContext, server.connect.challenge # "none"
             PROVE  SoundCoordinates(client) = MulticastProtocol(Accepted, game)
  BY DEF MulticastsHeard
<1>1. server # NoContext /\ client = ContinueServerdata(serverdata)
  BY DEF ConnectInv, ClientOK
<1>2. SameFormats(client, server)
  BY <1>1, ServerMatches
<1>3. server.protocol \in ProtocolsForGame(game)
  BY <1>1, ConnectedPlayable
<1>4. server.game = game /\ game \in {"vanilla", "extended", "extended_v2", "rerelease"}
  <2> DEFINE c == server.connect
             of == server.of
  <2>1. server = InitServerContext(c, of)
    BY <1>1 DEF ConnectInv, ServerOK
  <2> HIDE DEF c, of
  <2>2. server.game = game
    BY <2>1 DEF InitServerContext
  <2>3. game \in {"vanilla", "extended", "extended_v2", "rerelease"}
    BY DEF ConnectInv, StateOK, Games, GameNumber
  <2> QED BY <2>2, <2>3
<1>5. Family(server.protocol) = server.protocol /\ server.protocol \in Spoken
  BY <1>3, <1>4 DEF ProtocolsForGame, Family, Extdemos, Kex, Spoken
<1>6. client.protocol = server.protocol /\ client.game = game
  BY <1>2, <1>4, <1>5 DEF SameFormats, Family, Spoken
<1>7. MulticastProtocol(Accepted, game) =
        CASE game \in {"vanilla", "extended"} -> "short"
          [] game = "extended_v2" -> "int23"
          [] game = "rerelease" -> "float"
  <2>1. Accepted = ProtocolsForGame(game)
    BY DEF Accepted
  <2>2. Accepted \intersect ProtocolsForGame(game) # {} /\ Accepted \subseteq ProtocolsForGame(game)
    BY <1>3, <2>1
  <2> QED BY <2>2 DEF MulticastProtocol
<1>8. CASE game \in {"vanilla", "extended"}
  <2>1. client.protocol # "q2repro"
    BY <1>3, <1>6, <1>8 DEF ProtocolsForGame
  <2>2. SoundCoordinates(client) = "short"
    BY <1>6, <1>8, <2>1 DEF SoundCoordinates
  <2> QED BY <1>7, <1>8, <2>2
<1>9. CASE game = "extended_v2"
  <2>1. client.protocol = "q2pro"
    BY <1>3, <1>6, <1>9 DEF ProtocolsForGame
  <2>2. SoundCoordinates(client) = "int23"
    BY <1>6, <1>9, <2>1 DEF SoundCoordinates
  <2> QED BY <1>7, <1>9, <2>2
<1>10. CASE game = "rerelease"
  <2>1. client.protocol = "q2repro"
    BY <1>3, <1>6, <1>10 DEF ProtocolsForGame
  <2>2. SoundCoordinates(client) = "float"
    BY <1>6, <1>10, <2>1 DEF SoundCoordinates
  <2> QED BY <1>7, <1>10, <2>2
<1> QED BY <1>4, <1>8, <1>9, <1>10

\* ... and what it asked for has been read back.
LEMMA InvAsAsked ==
  ASSUME ConnectInv PROVE AsAsked
<1> SUFFICES ASSUME server # NoContext PROVE AsAsked
  BY DEF AsAsked
<1> DEFINE c == server.connect
           of == server.of
<1>1. /\ server = InitServerContext(c, of)
      /\ Requested(c, of) \/ ForDemo(c, of)
  BY DEF ConnectInv, ServerOK
<1>2. /\ c.protocol = of.protocol /\ c.qport = of.qport /\ c.challenge = of.challenge
      /\ c.protocol # "vanilla" => c.packet_length = of.packet_length
      /\ c.protocol \in DOMAIN MinimumVersion =>
           c.version <= of.version \/ c.version <= MinimumVersion[c.protocol]
      /\ c.protocol = "q2pro" => c.nctype = of.nctype
      /\ c.zlib => of.zlib \/ c.protocol = "r1q2"
  <2>1. CASE Requested(c, of)
    <3>1. of \in ConnectStruct /\ c = ParseConnect(ConnectArguments(of))
      BY <2>1 DEF Requested
    <3>2. ReadBack(of, c)
      <4> HIDE DEF c, of
      <4> QED BY <3>1, RoundTrip
    <3> HIDE DEF c, of
    <3> QED BY <3>2 DEF ReadBack
  <2>2. CASE ForDemo(c, of)
    <3>1. of = c /\ c.version = 0
      BY <2>2 DEF ForDemo
    <3> HIDE DEF c, of
    <3> QED BY <3>1
  <2> QED BY <1>1, <2>1, <2>2
<1>3. server.deflate => c.zlib
  <2> HIDE DEF c, of
  <2> QED BY <1>1 DEF InitServerContext
<1> QED BY <1>2, <1>3 DEF AsAsked

\* ... An answer to a challenge of the present game names a protocol of it ...
LEMMA InvParses ==
  ASSUME ConnectInv PROVE AnswersParse
<1> SUFFICES ASSUME NEW m \in net, m.is = "connect", m.args.challenge = game
             PROVE  Parses(m.args) /\ Supports(m.of.protocol)
  BY DEF AnswersParse
<1>1. /\ m.of \in ConnectStruct /\ m.args = ConnectArguments(m.of)
      /\ m.of.protocol \in ProtocolsForGame(m.of.challenge) /\ game \in Games
  BY DEF ConnectInv, MessageOK, StateOK
<1>2. m.of.protocol \in Spoken
  BY <1>1 DEF ConnectStruct
<1>3. m.args.netver = Netver[m.of.protocol] /\ m.of.challenge = game
  BY <1>1 DEF ConnectArguments
<1>4. Parses(m.args)
  BY <1>1, <1>2, <1>3, NetverInverse DEF Parses, Accepted
<1>5. Supports(m.of.protocol)
  BY <1>1, <1>3 DEF Supports, ProtocolsForGame, Games, GameNumber
<1> QED BY <1>4, <1>5

\* ... and the choice is the first that the client and the challenge have in common.
LEMMA InvBest ==
  ASSUME ConnectInv PROVE BestChoice
<1> SUFFICES ASSUME heard.number # "none", heard.p # <<>>, NEW i \in DOMAIN accepts,
                    accepts[i] \in ProtocolsForGame(heard.number)
             PROVE  \E j \in 1 .. i : choice = accepts[j]
  BY DEF BestChoice
<1>1. /\ Names(heard.p, heard.number) /\ choice = ParseChallengeProtocol(heard.p)
      /\ accepts \in Seq(Spoken)
  BY DEF ConnectInv, HeardOK, StateOK
<1>2. Contains(heard.p, Netver[accepts[i]])
  BY <1>1 DEF Names
<1>3. PICK j \in DOMAIN accepts : choice = accepts[j] /\ j <= i
  BY <1>1, <1>2, FirstInCommon
<1>4. j \in 1 .. i
  BY <1>1, <1>3
<1> QED BY <1>3, <1>4
-----------------------------------------------------------------------------
\* Whatever is lost, repeated or late, and whatever games are loaded: the contexts are
\* what the request or the demo they were set up for makes them.
THEOREM ContextsDescribed == Spec => []ConnectInv
<1>1. Init => ConnectInv
  BY InitEstablishes
<1>2. ConnectInv /\ [Next]_vars => ConnectInv'
  BY StepPreserves
<1> QED BY <1>1, <1>2, PTL DEF Spec

\* A client that has read the serverdata reads what the server's context writes: the same
\* family of readers and writers, minor version and game.  Not so in demos of Q2PRO
\* itself: q2proto_init_servercontext_demo leaves the version 0.
THEOREM Agreement ==
  ASSUME "q2pro" \notin DemoAsked PROVE Spec => []FormatsAgree
<1>1. ConnectInv => FormatsAgree
  BY InvAgrees
<1> QED BY <1>1, ContextsDescribed, PTL

\* A message written once for all clients is read in the coordinates it has.
THEOREM Multicast == Spec => []MulticastsHeard
<1>1. ConnectInv => MulticastsHeard
  BY InvHeard
<1> QED BY <1>1, ContextsDescribed, PTL

\* The server does what a client asked for, read back from the arguments without names.
THEOREM Asked == Spec => []AsAsked
<1>1. ConnectInv => AsAsked
  BY InvAsAsked
<1> QED BY <1>1, ContextsDescribed, PTL

\* A client that answers a challenge of the present game is not turned away.
THEOREM Answered == Spec => []AnswersParse
<1>1. ConnectInv => AnswersParse
  BY InvParses
<1> QED BY <1>1, ContextsDescribed, PTL

\* The client chooses the protocol it prefers among those of the game.
THEOREM Preferred == Spec => []BestChoice
<1>1. ConnectInv => BestChoice
  BY InvBest
<1> QED BY <1>1, ContextsDescribed, PTL
=============================================================================
