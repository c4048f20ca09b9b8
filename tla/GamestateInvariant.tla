------------------------- MODULE GamestateInvariant -------------------------
(***************************************************************************)
(* The inductive invariant behind the safety properties of                 *)
(* GamestateSystem: the log of tokens obeys a grammar, the writer stands   *)
(* at the end of it and the reader somewhere inside of it.                 *)
(***************************************************************************)
EXTENDS GamestateSystem

(***************************************************************************)
(* Where no message of the gamestate can break off: the streaming writer   *)
(* looks at the result of every write.                                     *)
(***************************************************************************)
NeverTorn == Streamed \/ Unwritable = {}

(***************************************************************************)
(* The grammar: which token may come after which.  The parse state after a *)
(* (ModeAfter, InflatingAfter) decides it, elements are counted up.        *)
(***************************************************************************)
MayFollow(a, b) ==
  /\ b.k \in {"msg", "eop"} => AtBoundary(a) /\ ~b.z /\ b.n = a.n
  /\ b.k = "serverdata" => AtBoundary(a) /\ ~b.z /\ b.n = 0
  /\ b.k = "zpacket" => ModeAfter(a) = "ready" /\ AtBoundary(a) /\ ~b.z /\ b.n = a.n
  /\ b.k = "zend" => ModeAfter(a) = "ready" /\ InflatingAfter(a) /\ b.z /\ b.n = a.n
  /\ b.k \in {"cfg", "base", "torn", "cfgstream", "basestream"} => ModeAfter(a) = "ready"
  /\ b.k \in {"scfg", "endcfg"} => ModeAfter(a) = "configstream"
  /\ b.k \in {"sbase", "endbase"} => ModeAfter(a) = "baselinestream"
  /\ b.k \in {"cfgstream", "basestream", "endcfg", "endbase"} =>
       (b.z <=> InflatingAfter(a)) /\ b.n = a.n
  /\ b.k \in ItemKinds \cup {"torn"} => (b.z <=> InflatingAfter(a)) /\ b.n = a.n + 1
  /\ b.g = (IF b.k = "serverdata" THEN a.g + 1 ELSE a.g)
  /\ b.k = "torn" => ~NeverTorn

WireInv == \A j \in 1..Len(wire) : MayFollow(TokenAt(j - 1), wire[j])

SentInv == sent = 0 \/ wire[sent].k = "eop"

(***************************************************************************)
(* The writer continues the log where it ends.                             *)
(***************************************************************************)
OpenMode ==
  CASE wpc = "cfgloop" /\ Streamed  -> "configstream"
    [] wpc = "baseloop" /\ Streamed -> "baselinestream"
    [] OTHER                        -> "ready"

WriterInv ==
  /\ LastToken.g = level
  /\ wpc = "offline" => level = 0 /\ AtBoundary(LastToken)
  /\ wpc \in Outside \ {"offline", "failed"} => level > 0 /\ AtBoundary(LastToken)
  /\ wpc \in Inside => /\ level > 0
                       /\ ModeAfter(LastToken) = OpenMode
                       /\ (InflatingAfter(LastToken) <=> zip)
  /\ wpc = "offline" => pos = 0
  /\ wpc = "done" => pos = 0 /\ LastToken.n = NumItems
  /\ wpc \in Inside \cup {"ready", "full"} => pos = LastToken.n
  /\ wpc = "endok" => pos = NumItems
  /\ wpc \in {"base", "baseloop"} => pos >= NumConfigstrings
  /\ \A i \in Items : IF i <= NumConfigstrings THEN size[i] \in StringLens
                                               ELSE size[i] \in BaselineSizes

(***************************************************************************)
(* What the deflate stream still has room for: the margin of the space     *)
(* reported covers the stream markers written without asking.              *)
(***************************************************************************)
MarkersToCome ==
  CASE wpc = "cfg"      -> 6
    [] wpc = "cfgloop"  -> 5
    [] wpc = "base"     -> 3
    [] wpc = "baseloop" -> 2
    [] OTHER            -> 0

DeflateInv ==
  /\ DeflateEnded
  /\ zip => /\ zmax = room - SVC_ZPACKET_SIZE
            /\ zout <= zraw
            /\ zout + MarkersToCome + 10 <= zmax

(***************************************************************************)
(* The reader's parse state and what it has handed over are those of the   *)
(* last token it read.                                                     *)
(***************************************************************************)
ReaderInv ==
  /\ mode = ModeAfter(TokenAt(rd))
  /\ inflating <=> InflatingAfter(TokenAt(rd))
  /\ clevel = TokenAt(rd).g
  /\ Len(got) = TokenAt(rd).n
  /\ \A i \in 1..Len(got) : got[i] = <<clevel, i>>
  /\ NeverTorn => ~cerr

IInv == TypeOK /\ WireInv /\ SentInv /\ WriterInv /\ DeflateInv /\ ReaderInv
=============================================================================
