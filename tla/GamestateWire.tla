--------------------------- MODULE GamestateWire ---------------------------
(***************************************************************************)
(* What the gamestate writer and the gamestate reader share: the elements  *)
(* of a gamestate, the messages they become, and the reliable channel that *)
(* carries them.                                                           *)
(*                                                                         *)
(* A gamestate is NumConfigstrings configstrings followed by NumBaselines  *)
(* spawn baselines; element i is number i of that list, as in              *)
(* context->gamestate_pos.  A token stands for one thing the writer puts   *)
(* into a packet and the reader takes out of it.                           *)
(***************************************************************************)
EXTENDS Integers, Sequences

CONSTANTS
  NumConfigstrings, \* gamestate->num_configstrings
  NumBaselines,     \* gamestate->num_spawnbaselines
  Streamed          \* TRUE: configstring/baseline streams (Q2PRO, Q2rePRO)
                    \* FALSE: one message per element (vanilla, R1Q2, extdemo)

ASSUME WireAssumption ==
  /\ NumConfigstrings \in Nat
  /\ NumBaselines \in Nat
  /\ Streamed \in BOOLEAN

VARIABLES
  wire, \* every token of the connection so far, in order
  sent  \* how many of them are in packets that were transmitted

channel == <<wire, sent>>

NumItems == NumConfigstrings + NumBaselines
Items    == 1..NumItems

(***************************************************************************)
(* Kinds of token.                                                         *)
(*   serverdata, msg   an svc_serverdata, any other self-contained message *)
(*   zpacket, zend     header of a zpacket, end of its inflated data       *)
(*   cfg, base         svc_configstring, svc_spawnbaseline message         *)
(*   torn              an svc_spawnbaseline message that breaks off        *)
(*   cfgstream .. scfg .. endcfg       a configstring stream               *)
(*   basestream .. sbase .. endbase    a baseline stream                   *)
(*   eop               the end of a packet                                 *)
(* Fields: k the kind; z whether the token lies in a zpacket; g the number *)
(* of the serverdata it follows; n the element it carries and, for a token *)
(* that carries none, the number of elements before it since serverdata.   *)
(***************************************************************************)
Kinds == {"serverdata", "msg", "zpacket", "zend", "cfg", "base", "torn",
          "cfgstream", "scfg", "endcfg", "basestream", "sbase", "endbase", "eop"}

\* Tokens that carry an element.
ItemKinds == {"cfg", "base", "scfg", "sbase"}

Token == [k : Kinds, z : BOOLEAN, g : Nat, n : 0..NumItems]

\* Stands before the first token: the state of a fresh connection.
NoToken == [k |-> "eop", z |-> FALSE, g |-> 0, n |-> 0]

TokenAt(j) == IF j = 0 THEN NoToken ELSE wire[j]
LastToken  == TokenAt(Len(wire))

Tok(kind, inZ, gen, num) == [k |-> kind, z |-> inZ, g |-> gen, n |-> num]

\* The parse state a correct reader is in after token t.
ModeAfter(t) ==
  IF t.g = 0 THEN "default"
  ELSE IF t.k \in {"cfgstream", "scfg"} THEN "configstream"
  ELSE IF t.k \in {"basestream", "sbase"} THEN "baselinestream"
  ELSE "ready"

\* Whether a reader is inside a zpacket after token t.
InflatingAfter(t) == t.k = "zpacket" \/ (t.z /\ t.k # "zend")

\* Between two messages, outside of a zpacket: where a packet may end.
AtBoundary(t) == ModeAfter(t) \in {"default", "ready"} /\ ~InflatingAfter(t)

ChannelInit ==
  /\ wire = <<>>
  /\ sent = 0
=============================================================================
