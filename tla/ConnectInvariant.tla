-------------------------- MODULE ConnectInvariant --------------------------
(***************************************************************************)
(* The inductive invariant behind the safety properties of Connect.        *)
(***************************************************************************)
EXTENDS Connect

ConnectStruct ==
  [protocol : Spoken, version : Nat, qport : Nat, challenge : Games \union {"none"},
   packet_length : Nat, zlib : BOOLEAN, nctype : {0, 1}]

StateOK ==
  /\ game \in Games
  /\ accepts \in Seq(Spoken)
  /\ heard.number \in Games \union {"none"}
  /\ choice \in Spoken \union {"invalid"}

\* A list of numbers names the protocols of a game, and no other that connections can
\* be made with; an original server names none.
Names(netvers, g) ==
  netvers # <<>> =>
    \A p \in Spoken : Contains(netvers, Netver[p]) <=> p \in ProtocolsForGame(g)

\* What is on its way says what was true of the game that its number stands for.
MessageOK(m) ==
  /\ m.is = "challenge" => m.number \in Games /\ Names(m.p, m.number)
  /\ m.is = "connect" =>
       /\ m.of \in ConnectStruct /\ m.args = ConnectArguments(m.of)
       /\ m.of.challenge \in Games
       /\ m.of.protocol \in ProtocolsForGame(m.of.challenge)

\* The choice is the one made of the challenge heard last.
HeardOK ==
  IF heard.number = "none"
  THEN choice = "invalid"
  ELSE Names(heard.p, heard.number) /\ choice = ParseChallengeProtocol(heard.p)

\* The contexts are described by how they came about: the server's by the request or
\* the demo it was set up for, the serverdata and the client's by the server's.
Requested(c, of) ==
  /\ of \in ConnectStruct
  /\ c = ParseConnect(ConnectArguments(of))
  /\ CanSay(c)
  /\ c.protocol \in ProtocolsForGame(game)
ForDemo(c, of) ==
  /\ of = c
  /\ c.challenge = "none" /\ c.version = 0 /\ c.zlib \in BOOLEAN
  /\ c.protocol \in ProtocolsForGame(game) \union {DemoProtocol(game)}
  /\ c.protocol = "q2pro" => "q2pro" \in DemoAsked
ServerOK ==
  server # NoContext =>
    /\ server = InitServerContext(server.connect, server.of)
    /\ serverdata = Serverdata(server)
    /\ Supports(server.connect.protocol)
    /\ Requested(server.connect, server.of) \/ ForDemo(server.connect, server.of)

ClientOK ==
  client # NoContext => server # NoContext /\ client = ContinueServerdata(serverdata)

(* Over every delay, loss and repetition of a datagram and every change of *)
(* the game, a challenge still names the protocols of the game it was made *)
(* for, the client's choice is of the challenge it read last, and each     *)
(* context is what the request or the demo behind it makes of it:          *)
(* q2proto_get_challenge_extras, q2proto_parse_challenge,                  *)
(* q2proto_parse_connect and q2proto_init_servercontext.                   *)
ConnectInv ==
  /\ StateOK
  /\ \A m \in net : MessageOK(m)
  /\ HeardOK
  /\ ServerOK
  /\ ClientOK
=============================================================================
