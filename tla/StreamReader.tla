---------------------------- MODULE StreamReader ----------------------------
(***************************************************************************)
(* q2proto_client_read() as far as gamestates go: the parse state kept in  *)
(* context->client_read between calls, and the zpacket being read from     *)
(* (has_inflate_io_arg).  One action takes one token; a call of the        *)
(* library that recurses to the next token is two actions.                 *)
(***************************************************************************)
EXTENDS GamestateWire

VARIABLES
  rd,        \* tokens read so far
  mode,      \* context->client_read
  inflating, \* context->has_inflate_io_arg
  clevel,    \* serverdata messages read on this connection
  got,       \* <<level, element>> handed to the application since then
  cerr       \* an error was returned: the application disconnects

readerVars == <<rd, mode, inflating, clevel, got, cerr>>

Modes == {"default", "ready", "configstream", "baselinestream"}

ReaderInit ==
  /\ rd = 0
  /\ mode = "default"
  /\ inflating = FALSE
  /\ clevel = 0
  /\ got = <<>>
  /\ cerr = FALSE

NextToken == wire[rd + 1]

\* The next token is of one of the kinds and is read in mode m.
Reads(m, kinds) ==
  /\ mode = m
  /\ NextToken.k \in kinds
  /\ rd' = rd + 1
  /\ UNCHANGED channel

Deliver == got' = Append(got, <<NextToken.g, NextToken.n>>)

-----------------------------------------------------------------------------
(* default_client_packet_parse: only stufftext until serverdata is read    *)

ReadBeforeServerdata ==
  /\ Reads("default", {"msg", "eop"})
  /\ UNCHANGED <<mode, inflating, clevel, got, cerr>>

\* svc_serverdata, in either parse function
ReadServerdata ==
  /\ \/ Reads("default", {"serverdata"})
     \/ Reads("ready", {"serverdata"})
  /\ mode' = "ready"
  /\ clevel' = clevel + 1
  /\ got' = <<>>
  /\ UNCHANGED <<inflating, cerr>>

-----------------------------------------------------------------------------
(* q2pro_client_read, r1q2_client_read, q2repro_client_read                *)

ReadMessage ==
  /\ Reads("ready", {"msg"})
  /\ UNCHANGED <<mode, inflating, clevel, got, cerr>>

ReadElement ==
  /\ Reads("ready", {"cfg", "base"})
  /\ Deliver
  /\ UNCHANGED <<mode, inflating, clevel, cerr>>

\* An application's I/O refuses to inflate from inflated data.
ReadZpacket ==
  /\ Reads("ready", {"zpacket"})
  /\ ~inflating
  /\ inflating' = TRUE
  /\ UNCHANGED <<mode, clevel, got, cerr>>

\* No command left in the zpacket: inflate_end, back to the raw packet.
ReadZpacketEnd ==
  /\ Reads("ready", {"zend"})
  /\ inflating
  /\ inflating' = FALSE
  /\ UNCHANGED <<mode, clevel, got, cerr>>

\* No command left in the packet: Q2P_ERR_NO_MORE_INPUT
ReadPacketEnd ==
  /\ Reads("ready", {"eop"})
  /\ ~inflating
  /\ UNCHANGED <<mode, inflating, clevel, got, cerr>>

BeginConfigstream ==
  /\ Reads("ready", {"cfgstream"})
  /\ mode' = "configstream"
  /\ UNCHANGED <<inflating, clevel, got, cerr>>

BeginBaselinestream ==
  /\ Reads("ready", {"basestream"})
  /\ mode' = "baselinestream"
  /\ UNCHANGED <<inflating, clevel, got, cerr>>

-----------------------------------------------------------------------------
(* q2pro_client_read_configstream, q2pro_client_read_baselinestream        *)

ReadStreamedConfigstring ==
  /\ Reads("configstream", {"scfg"})
  /\ Deliver
  /\ UNCHANGED <<mode, inflating, clevel, cerr>>

\* mutant: an empty string ends the message but not the stream
ConfigstreamUnended ==
  /\ Reads("configstream", {"endcfg"})
  /\ UNCHANGED <<mode, inflating, clevel, got, cerr>>

ReadConfigstreamEnd ==
  /\ Reads("configstream", {"endcfg"})
  /\ mode' = "ready"
  /\ UNCHANGED <<inflating, clevel, got, cerr>>

ReadStreamedBaseline ==
  /\ Reads("baselinestream", {"sbase"})
  /\ Deliver
  /\ UNCHANGED <<mode, inflating, clevel, cerr>>

ReadBaselinestreamEnd ==
  /\ Reads("baselinestream", {"endbase"})
  /\ mode' = "ready"
  /\ UNCHANGED <<inflating, clevel, got, cerr>>

-----------------------------------------------------------------------------
\* What each parse function can make sense of; anything else it takes for a
\* bad command or for garbage, or it runs past the end of its input.
Expected(t) ==
  CASE mode = "default"        -> t.k \in {"serverdata", "msg", "eop"}
    [] mode = "ready"          -> \/ t.k \in {"serverdata", "msg", "cfg", "base",
                                              "cfgstream", "basestream"}
                                  \/ t.k \in {"zpacket", "eop"} /\ ~inflating
                                  \/ t.k = "zend" /\ inflating
    [] mode = "configstream"   -> t.k \in {"scfg", "endcfg"}
    [] mode = "baselinestream" -> t.k \in {"sbase", "endbase"}

ReadFails ==
  /\ cerr' = TRUE
  /\ UNCHANGED <<channel, rd, mode, inflating, clevel, got>>

ReadToken ==
  \/ ReadBeforeServerdata \/ ReadServerdata
  \/ ReadMessage \/ ReadElement
  \/ ReadZpacket \/ ReadZpacketEnd \/ ReadPacketEnd
  \/ BeginConfigstream \/ ReadStreamedConfigstring \/ ReadConfigstreamEnd
  \/ BeginBaselinestream \/ ReadStreamedBaseline \/ ReadBaselinestreamEnd

\* A received token is read; after an error the application disconnects.
ClientNext ==
  /\ ~cerr
  /\ rd < sent
  /\ IF Expected(NextToken) THEN ReadToken ELSE ReadFails
=============================================================================
