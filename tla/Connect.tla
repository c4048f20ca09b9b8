------------------------------ MODULE Connect ------------------------------
(***************************************************************************)
(* How the two sides of a connection come to speak the same protocol: the  *)
(* server's challenge lists protocols, the client picks one and asks to    *)
(* connect, the server sets up its context and says in the serverdata what *)
(* the client needs to set up its own.  Challenges and connect requests    *)
(* are datagrams that may be lost, repeated or arrive late, also after the *)
(* server has loaded another game.  A demo has only the last part.         *)
(***************************************************************************)
EXTENDS Integers, Sequences, FiniteSets, SequencesExt, FiniteSetsExt

CONSTANTS
  Lists,        \* accepted_protocols of clients, preferred ones first
  Requests,     \* [version, packet_length, nctype, deflate] of clients; version 0 is the newest
  DemoAsked,    \* protocols that demos are asked for; "invalid" for the default
  MaxMessages   \* bound: datagrams on their way

\* The protocols that connections can be made with
Spoken == {"vanilla", "r1q2", "q2pro", "q2repro"}
ASSUME ConnectAssumption ==
  /\ Lists \subseteq Seq(Spoken)
  /\ Requests \subseteq [version : Nat, packet_length : Nat, nctype : {0, 1}, deflate : BOOLEAN]

VARIABLES
  game,        \* q2proto_server_info_t::game_api
  accepts,     \* the client's accepted_protocols
  net,         \* challenges and connect requests on their way
  heard,       \* the challenge parsed last
  choice,      \* q2proto_challenge_t::server_protocol
  server,      \* q2proto_servercontext_t, and what was parsed for it
  serverdata,  \* as written
  client       \* q2proto_clientcontext_t
vars == <<game, accepts, net, heard, choice, server, serverdata, client>>
-----------------------------------------------------------------------------
(* Protocols, with the numbers that stand for them on the wire             *)
Netver ==
  [invalid |-> 0, old_demo |-> 26, vanilla |-> 34, r1q2 |-> 35, q2pro |-> 36,
   extdemo |-> 3434, extdemo_v2 |-> 3435, extdemo_fog |-> 3436, q2repro |-> 1038,
   kex_demos |-> 2022, kex |-> 2023]
FromNetver(n) ==
  IF \E p \in DOMAIN Netver : Netver[p] = n
  THEN CHOOSE p \in DOMAIN Netver : Netver[p] = n
  ELSE "invalid"
Extdemos == {"extdemo", "extdemo_v2", "extdemo_fog"}
Kex == {"kex", "kex_demos"}

GameNumber == [vanilla |-> 0, extended |-> 1, extended_v2 |-> 2, rerelease |-> 3]
Games == DOMAIN GameNumber
ProtocolsForGame(g) ==
  CASE g = "vanilla" -> {"vanilla", "r1q2", "q2pro"}
    [] g \in {"extended", "extended_v2"} -> {"q2pro"}
    [] g = "rerelease" -> {"q2repro"}
\* the application accepts what its game can be played with
Accepted == ProtocolsForGame(game)

EXTENDED_LIMITS == 1024
EXTENDED_LIMITS_2 == 1025
PLAYERFOG == 1026

\* The protocol of messages written once for all clients, by its coordinates
MulticastProtocol(protocols, g) ==
  IF protocols \intersect ProtocolsForGame(g) = {} \/ ~(protocols \subseteq ProtocolsForGame(g))
  THEN "invalid"
  ELSE CASE g \in {"vanilla", "extended"} -> "short"
         [] g = "extended_v2" -> "int23"
         [] g = "rerelease" -> "float"
-----------------------------------------------------------------------------
(* The challenge, whose number stands here for the game it was sent for    *)
Challenge(netvers) == [is |-> "challenge", number |-> game, p |-> netvers]
Sorted(numbers) ==
  CHOOSE s \in SetToSeqs(numbers) : \A i, j \in DOMAIN s : i < j => s[i] < s[j]
\* mutant: everything that can be used for connections
ChallengeExtrasAll == Sorted({34, 35, 36, 1038})
ChallengeExtras == Sorted({Netver[p] : p \in Accepted})

\* mutant: the last one of the list
ParseChallengeProtocolLast(netvers) ==
  LET common == {i \in DOMAIN netvers : \E p \in ToSet(accepts) : Netver[p] = netvers[i]}
  IN  IF common = {} THEN "invalid" ELSE FromNetver(netvers[Max(common)])
ParseChallengeProtocol(netvers) ==
  LET common == {i \in DOMAIN accepts : Contains(netvers, Netver[accepts[i]])}
  IN  IF common = {} THEN "invalid" ELSE accepts[Min(common)]
-----------------------------------------------------------------------------
(* The client's part of a connect request                                  *)
CurrentVersion == [r1q2 |-> 1905, q2pro |-> PLAYERFOG, q2repro |-> 1024]
MinimumVersion == [r1q2 |-> 1903, q2pro |-> 1015]
CompleteConnect(c, deflate) ==
  IF c.protocol = "vanilla"
  THEN c
  ELSE [protocol |-> c.protocol, challenge |-> c.challenge, packet_length |-> c.packet_length,
        version |-> IF c.version = 0 THEN CurrentVersion[c.protocol] ELSE c.version,
        zlib |-> deflate, qport |-> c.qport % 256,
        nctype |-> IF c.protocol = "q2repro" THEN 1 ELSE c.nctype]

Flag(b) == IF b THEN 1 ELSE 0
R1q2Tail(c) == <<c.packet_length, c.version>>
\* mutant: netchan type and deflate swapped
Q2proTailSwapped(c) == <<c.packet_length, Flag(c.zlib), c.nctype, c.version>>
Q2proTail(c) == <<c.packet_length, c.nctype, Flag(c.zlib), c.version>>
Q2reproTail(c) == <<c.packet_length, Flag(c.zlib)>>
ConnectTail(c) ==
  CASE c.protocol = "vanilla" -> <<>> [] c.protocol = "r1q2" -> R1q2Tail(c)
    [] c.protocol = "q2pro" -> Q2proTail(c) [] c.protocol = "q2repro" -> Q2reproTail(c)
ConnectArguments(c) ==
  [netver |-> Netver[c.protocol], qport |-> c.qport, challenge |-> c.challenge,
   tail |-> ConnectTail(c)]
-----------------------------------------------------------------------------
(* The server's                                                            *)
DefaultPacketLength == 1400
Clamped(n, protocol) ==
  IF n < MinimumVersion[protocol] THEN MinimumVersion[protocol]
  ELSE IF n > CurrentVersion[protocol] THEN CurrentVersion[protocol] ELSE n
Connected(args, version, zlib, nctype) ==
  [protocol |-> FromNetver(args.netver), qport |-> args.qport, challenge |-> args.challenge,
   version |-> version, zlib |-> zlib, nctype |-> nctype,
   packet_length |-> IF args.tail = <<>> THEN DefaultPacketLength ELSE args.tail[1]]
R1q2ParseConnect(args) == Connected(args, Clamped(args.tail[2], "r1q2"), TRUE, 0)
\* version 1016 is reserved
Unreserved(version) == IF version = 1016 THEN 1015 ELSE version
Q2proParseConnect(args) ==
  Connected(args, Unreserved(Clamped(args.tail[4], "q2pro")), args.tail[3] # 0, args.tail[2])
Q2reproParseConnect(args) == Connected(args, 0, args.tail[2] # 0, 1)
ParseConnect(args) ==
  CASE FromNetver(args.netver) = "r1q2" -> R1q2ParseConnect(args)
    [] FromNetver(args.netver) = "q2pro" -> Q2proParseConnect(args)
    [] FromNetver(args.netver) = "q2repro" -> Q2reproParseConnect(args)
    [] OTHER -> Connected(args, 0, FALSE, 0)
\* the protocol is looked for in the list before the rest is parsed
Parses(args) == FromNetver(args.netver) \in Accepted

Supports(protocol) ==
  CASE protocol \in {"vanilla", "r1q2"} -> game = "vanilla"
    [] protocol = "q2pro" -> game # "rerelease"
    [] protocol \in {"invalid", "old_demo"} -> FALSE
    [] OTHER -> TRUE
NoContext == [protocol |-> "invalid"]
InitServerContext(c, of) ==
  [protocol |-> c.protocol, game |-> game, connect |-> c, of |-> of,
   version |-> CASE c.protocol \in {"vanilla"} \union Kex -> 0
                 [] c.protocol \in Extdemos ->
                      IF game = "extended_v2" THEN PLAYERFOG ELSE EXTENDED_LIMITS
                 [] OTHER -> c.version,
   deflate |-> c.zlib /\ c.protocol \notin {"vanilla"} \union Kex]
-----------------------------------------------------------------------------
(* Serverdata: what is written, and the context that is made of it         *)
NoFlags == [extensions |-> FALSE, extensions_v2 |-> FALSE, game3_compat |-> FALSE]
GameFlags(compat) ==
  [extensions |-> GameNumber[game] >= GameNumber["extended"],
   extensions_v2 |-> GameNumber[game] >= GameNumber["extended_v2"], game3_compat |-> compat]
R1q2Serverdata(s) == [netver |-> 35, version |-> s.version, flags |-> NoFlags]
\* mutant: the flags only for the versions that know all of them
Q2proServerdataLate(s) ==
  [netver |-> 36, version |-> s.version,
   flags |-> IF s.version >= EXTENDED_LIMITS_2 THEN GameFlags(FALSE) ELSE NoFlags]
Q2proServerdata(s) ==
  [netver |-> 36, version |-> s.version,
   flags |-> IF s.version >= EXTENDED_LIMITS THEN GameFlags(FALSE) ELSE NoFlags]
Q2reproServerdata(s) ==
  [netver |-> 1038, version |-> s.version, flags |-> GameFlags(game # "rerelease")]
PlainServerdata(netver) == [netver |-> netver, version |-> 0, flags |-> NoFlags]
Serverdata(s) ==
  CASE s.protocol = "r1q2" -> R1q2Serverdata(s)
    [] s.protocol = "q2pro" -> Q2proServerdata(s)
    [] s.protocol \in Extdemos -> PlainServerdata(IF game = "extended_v2" THEN 3436 ELSE 3434)
    [] s.protocol = "q2repro" -> Q2reproServerdata(s)
    [] s.protocol \in Kex -> PlainServerdata(2023)
    [] OTHER -> PlainServerdata(34)

GameOf(flags) ==
  IF flags.extensions_v2 THEN "extended_v2" ELSE IF flags.extensions THEN "extended" ELSE "vanilla"
\* mutant: the second flag without the version that has it
Q2proGameUnversioned(sd) ==
  IF sd.version < EXTENDED_LIMITS THEN "vanilla" ELSE IF sd.flags.extensions THEN "extended" ELSE "vanilla"
Q2proGame(sd) ==
  CASE sd.version < EXTENDED_LIMITS -> "vanilla"
    [] sd.version >= EXTENDED_LIMITS_2 -> GameOf(sd.flags)
    [] OTHER -> IF sd.flags.extensions THEN "extended" ELSE "vanilla"
Q2reproGame(sd) == IF sd.flags.game3_compat THEN GameOf(sd.flags) ELSE "rerelease"
\* the readers of extended demos know themselves by the number on the wire
ExtdemoContext(netver) ==
  [protocol |-> FromNetver(netver),
   version |-> CASE netver >= 3436 -> PLAYERFOG [] netver = 3435 -> EXTENDED_LIMITS_2
                 [] OTHER -> EXTENDED_LIMITS,
   game |-> IF netver >= 3435 THEN "extended_v2" ELSE "extended"]
ContinueServerdata(sd) ==
  LET protocol == FromNetver(sd.netver)
  IN  IF protocol \in Extdemos
      THEN ExtdemoContext(sd.netver)
      ELSE [protocol |-> protocol, version |-> sd.version,
            game |-> CASE protocol = "q2pro" -> Q2proGame(sd)
                       [] protocol = "q2repro" -> Q2reproGame(sd)
                       [] protocol \in Kex -> "rerelease"
                       [] OTHER -> "vanilla"]

\* Coordinates that the client expects in sounds, whoever wrote them
SoundCoordinates(c) ==
  CASE c.protocol = "q2pro" -> IF c.game = "extended_v2" THEN "int23" ELSE "short"
    [] c.protocol = "q2repro" -> "float"
    [] OTHER -> "short"
-----------------------------------------------------------------------------
Init ==
  /\ game \in Games /\ accepts \in Lists
  /\ net = {} /\ heard = [number |-> "none"] /\ choice = "invalid"
  /\ server = NoContext /\ serverdata = NoContext /\ client = NoContext

Send(m) ==
  /\ Cardinality(net \union {m}) <= MaxMessages
  /\ net' = net \union {m}
Lose(m) ==
  /\ net' = net \ {m}
  /\ UNCHANGED <<game, accepts, heard, choice, server, serverdata, client>>

SendChallenge ==
  /\ Send(Challenge(ChallengeExtras))
  /\ UNCHANGED <<game, accepts, heard, choice, server, serverdata, client>>
\* The server may also be an original one, which knows no other protocol
OldServerSendsChallenge ==
  /\ game = "vanilla"
  /\ Send(Challenge(<<>>))
  /\ UNCHANGED <<game, accepts, heard, choice, server, serverdata, client>>

\* mutant: the choice made of an earlier challenge is not reset
ParseChallengeStale(m) ==
  /\ m.is = "challenge"
  /\ heard' = m
  /\ choice' = IF ParseChallengeProtocol(m.p) = "invalid" THEN choice
               ELSE ParseChallengeProtocol(m.p)
  /\ UNCHANGED <<game, accepts, net, server, serverdata, client>>
\* A challenge without "p=" leaves the choice invalid
ParseChallenge(m) ==
  /\ m.is = "challenge"
  /\ heard' = m
  /\ choice' = ParseChallengeProtocol(m.p)
  /\ UNCHANGED <<game, accepts, net, server, serverdata, client>>

\* What the application fills in
Filled(request) ==
  [protocol |-> choice, version |-> request.version, qport |-> 300,
   challenge |-> heard.number, packet_length |-> request.packet_length,
   zlib |-> FALSE, nctype |-> request.nctype]
SendConnect(request) ==
  /\ choice # "invalid"
  /\ LET c == CompleteConnect(Filled(request), request.deflate)
     IN  Send([is |-> "connect", args |-> ConnectArguments(c), of |-> c])
  /\ UNCHANGED <<game, accepts, heard, choice, server, serverdata, client>>

SetUp(c, of) ==
  LET s == InitServerContext(c, of)
  IN  server' = s /\ serverdata' = Serverdata(s) /\ client' = NoContext

\* The application's own check: an old minor version has no word for the game
CanSay(c) ==
  c.protocol = "q2pro" =>
    /\ game = "extended" => c.version >= EXTENDED_LIMITS
    /\ game = "extended_v2" => c.version >= EXTENDED_LIMITS_2
AcceptConnect(m) ==
  /\ m.is = "connect" /\ Parses(m.args)
  /\ LET c == ParseConnect(m.args)
     IN  Supports(c.protocol) /\ CanSay(c) /\ SetUp(c, m.of)
  /\ UNCHANGED <<game, accepts, net, heard, choice>>

DemoProtocol(g) ==
  CASE g = "vanilla" -> "vanilla" [] g = "extended" -> "extdemo"
    [] g = "extended_v2" -> "extdemo_fog" [] g = "rerelease" -> "kex"
\* Nobody asked for a demo, so the connect structure says what it says itself
RecordDemo(p) ==
  /\ p = "invalid" \/ p \in ProtocolsForGame(game)
  /\ LET c == [protocol |-> IF p = "invalid" THEN DemoProtocol(game) ELSE p,
               version |-> 0, qport |-> 0, challenge |-> "none", zlib |-> TRUE,
               nctype |-> 0, packet_length |-> DefaultPacketLength]
     IN  Supports(c.protocol) /\ SetUp(c, c)
  /\ UNCHANGED <<game, accepts, net, heard, choice>>

ReadServerdata ==
  /\ server # NoContext
  /\ client' = ContinueServerdata(serverdata)
  /\ UNCHANGED <<game, accepts, net, heard, choice, server, serverdata>>

\* What is on its way stays there, and so does what the client has heard
ChangeGame(g) ==
  /\ game' = g
  /\ server' = NoContext /\ serverdata' = NoContext /\ client' = NoContext
  /\ UNCHANGED <<accepts, net, heard, choice>>

Next ==
  \/ SendChallenge \/ OldServerSendsChallenge
  \/ \E m \in net : Lose(m) \/ ParseChallenge(m) \/ AcceptConnect(m)
  \/ \E request \in Requests : SendConnect(request)
  \/ \E p \in DemoAsked : RecordDemo(p)
  \/ ReadServerdata
  \/ \E g \in Games : ChangeGame(g)
Spec == Init /\ [][Next]_vars
-----------------------------------------------------------------------------
Family(protocol) ==
  IF protocol \in Extdemos THEN "extdemo" ELSE IF protocol \in Kex THEN "kex" ELSE protocol

SameFormats(c, s) ==
  /\ Family(c.protocol) = Family(s.protocol)
  /\ c.version = s.version
  /\ c.game = s.game

\* Once the client has read the serverdata, it reads what the server's context
\* writes: the same family of readers and writers, the same minor version and the
\* same game, on which the presence and width of fields depend.
FormatsAgree == client # NoContext => SameFormats(client, server)

\* A connected client reads the coordinates of a message that the server writes once
\* for everybody, in the multicast protocol of all protocols it accepts.
MulticastsHeard ==
  client # NoContext /\ server.connect.challenge # "none" =>
    SoundCoordinates(client) = MulticastProtocol(Accepted, game)

\* The server's context does what some request asked for, whatever else was on the
\* way: no newer version than asked (short of the oldest supported one), no deflate
\* that the client cannot undo (R1Q2 does not say), the port and netchan it named.
AsAsked ==
  server # NoContext =>
    LET c == server.connect
        of == server.of
    IN  /\ c.protocol = of.protocol /\ c.qport = of.qport /\ c.challenge = of.challenge
        /\ c.protocol # "vanilla" => c.packet_length = of.packet_length
        /\ c.protocol \in DOMAIN MinimumVersion =>
             c.version <= of.version \/ c.version <= MinimumVersion[c.protocol]
        /\ c.protocol = "q2pro" => c.nctype = of.nctype
        /\ server.deflate => of.zlib \/ c.protocol = "r1q2"

\* A client that answers a challenge of the present game with the protocol it chose
\* is not turned away by the parser of connect requests.
AnswersParse ==
  \A m \in net :
    m.is = "connect" /\ m.args.challenge = game => Parses(m.args) /\ Supports(m.of.protocol)

\* The choice is the protocol that the client prefers among those it has in common
\* with the server that sent the challenge.
BestChoice ==
  heard.number # "none" /\ heard.p # <<>> =>
    \A i \in DOMAIN accepts :
      accepts[i] \in ProtocolsForGame(heard.number) =>
        \E j \in 1 .. i : choice = accepts[j]

\* An original server, whose challenge has no "p=", is spoken to in the original
\* protocol if the client accepts that.
OriginalServersFound ==
  heard.number # "none" /\ heard.p = <<>> /\ Contains(accepts, "vanilla") => choice = "vanilla"
=============================================================================
