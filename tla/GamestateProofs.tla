-------------------------- MODULE GamestateProofs --------------------------
(***************************************************************************)
(* Proofs about GamestateSystem for every gamestate, packet size, level    *)
(* count and way to deflate.                                               *)
(***************************************************************************)
EXTENDS GamestateInvariant, NumberLemmas, TLAPS

-----------------------------------------------------------------------------
(* The log of tokens                                                       *)

\* A token appended to a log is its last one and changes none before it.
LEMMA AppendToken ==
  ASSUME NEW w \in Seq(Token), NEW t \in Token
  PROVE  /\ Append(w, t) \in Seq(Token)
         /\ Len(Append(w, t)) = Len(w) + 1
         /\ Append(w, t)[Len(w) + 1] = t
         /\ \A j \in 1..Len(w) : Append(w, t)[j] = w[j]
  OBVIOUS

LEMMA TokenType ==
  ASSUME ChannelTypeOK
  PROVE  /\ NoToken \in Token
         /\ \A j \in 0..Len(wire) : TokenAt(j) \in Token
         /\ LastToken \in Token
<1>1. NumItems \in Nat
  BY WireAssumption DEF NumItems
<1>2. NoToken \in Token
  BY <1>1 DEF NoToken, Token, Kinds
<1> QED
  BY <1>2 DEF ChannelTypeOK, TokenAt, LastToken

\* What a step leaves of the log and the reader, whatever it does elsewhere.
Undisturbed ==
  WireInv' /\ SentInv' /\ ReaderInv' /\ ChannelTypeOK' /\ ReaderTypeOK'

\* A step that appends a token the grammar allows does no harm to the
\* reader, even if it transmits a packet that ends with this token.
LEMMA Extend ==
  ASSUME IInv, NEW t \in Token, MayFollow(LastToken, t),
         wire' = Append(wire, t),
         sent' = sent \/ (t.k = "eop" /\ sent' = Len(wire')),
         UNCHANGED readerVars
  PROVE  Undisturbed /\ LastToken' = t
<1> USE DEF IInv
<1>1. wire \in Seq(Token) /\ sent \in 0..Len(wire) /\ rd \in 0..sent
  BY DEF TypeOK, ChannelTypeOK, ReaderTypeOK
<1>2. /\ wire' \in Seq(Token)
      /\ Len(wire') = Len(wire) + 1
      /\ wire'[Len(wire) + 1] = t
      /\ \A j \in 1..Len(wire) : wire'[j] = wire[j]
  BY <1>1, AppendToken
<1>3. \A j \in 0..Len(wire) : TokenAt(j)' = TokenAt(j)
  BY <1>1, <1>2 DEF TokenAt
<1>4. LastToken' = t
  BY <1>1, <1>2 DEF LastToken, TokenAt
<1>5. ChannelTypeOK' /\ ReaderTypeOK'
  BY <1>1, <1>2 DEF TypeOK, ChannelTypeOK, ReaderTypeOK, readerVars
<1>6. WireInv'
  <2> SUFFICES ASSUME NEW j \in 1..Len(wire')
               PROVE  MayFollow(TokenAt(j - 1)', wire'[j])
    BY DEF WireInv, MayFollow
  <2>1. CASE j \in 1..Len(wire)
    <3>1. TokenAt(j - 1)' = TokenAt(j - 1)
      BY <1>1, <1>3, <2>1
    <3>2. wire'[j] = wire[j]
      BY <1>2, <2>1
    <3> QED
      BY <2>1, <3>1, <3>2 DEF WireInv
  <2>2. CASE j = Len(wire) + 1
    <3>1. TokenAt(j - 1)' = LastToken
      BY <1>1, <1>3, <2>2 DEF LastToken
    <3> QED
      BY <1>2, <2>2, <3>1
  <2> QED
    BY <1>1, <1>2, <2>1, <2>2
<1>7. SentInv'
  BY <1>1, <1>2 DEF SentInv
<1>8. ReaderInv'
  <2>1. TokenAt(rd)' = TokenAt(rd)
    BY <1>1, <1>3 DEF readerVars
  <2> QED
    BY <2>1 DEF ReaderInv, readerVars
<1> QED
  BY <1>4, <1>5, <1>6, <1>7, <1>8 DEF Undisturbed

\* A step that leaves channel and reader alone does none either.
LEMMA Keep ==
  ASSUME IInv, UNCHANGED channel, UNCHANGED readerVars
  PROVE  Undisturbed /\ LastToken' = LastToken
<1>1. ChannelTypeOK' /\ ReaderTypeOK'
  BY DEF IInv, TypeOK, ChannelTypeOK, ReaderTypeOK, channel, readerVars
<1>2. WireInv' /\ SentInv' /\ LastToken' = LastToken
  BY DEF IInv, WireInv, SentInv, MayFollow, LastToken, TokenAt, channel
<1>3. ReaderInv'
  BY DEF IInv, ReaderInv, TokenAt, channel, readerVars
<1> QED
  BY <1>1, <1>2, <1>3 DEF Undisturbed

-----------------------------------------------------------------------------
(* The writer                                                              *)

\* What is left to show of a step of the server once Undisturbed is known.
Continued == WriterTypeOK' /\ WriterInv' /\ DeflateInv'

LEMMA PieceType ==
  ASSUME IInv, NEW k \in Kinds, NEW num \in 0..NumItems
  PROVE  Piece(k, num) \in Token
BY DEF Piece, Tok, Token, IInv, TypeOK, WriterTypeOK

\* A write in the middle of a call, of at most n bytes of deflated data.
LEMMA WriteToStep ==
  ASSUME IInv, wpc \in Inside, NEW n \in Nat, NEW t \in Token,
         MayFollow(LastToken, t), t.k # "eop",
         WriteTo(n, t), UNCHANGED readerVars
  PROVE  /\ Undisturbed
         /\ LastToken' = t
         /\ zip' = zip /\ zmax' = zmax
         /\ room' \in 0..PacketSize
         /\ zraw' \in Nat /\ zout' \in Nat
         /\ zip => room' = room /\ zout' <= zraw' /\ zout' <= zout + n
<1>1. Undisturbed /\ LastToken' = t
  BY Extend DEF WriteTo
<1>2. PacketSize \in Nat /\ room \in 0..PacketSize /\ zraw \in Nat /\ zout \in Nat
  BY WriterAssumption DEF IInv, TypeOK, WriterTypeOK
<1>3. \A c \in CompressedSizes(n) : c \in Nat /\ c <= n
  BY DEF CompressedSizes
<1> QED
  BY <1>1, <1>2, <1>3 DEF WriteTo, IInv, DeflateInv

\* The facts every step of the writer uses.
LEMMA WriterFacts ==
  ASSUME IInv
  PROVE  /\ NumConfigstrings \in Nat /\ NumBaselines \in Nat
         /\ NumItems \in Nat /\ NumConfigstrings <= NumItems
         /\ Streamed \in BOOLEAN
         /\ pos \in 0..NumItems
         /\ LastToken \in Token
         /\ LastToken.n \in 0..NumItems
BY WireAssumption, TokenType DEF IInv, TypeOK, WriterTypeOK, NumItems, Token

LEMMA BeginWriteGamestateStep ==
  ASSUME IInv, BeginWriteGamestate, UNCHANGED readerVars
  PROVE  Undisturbed /\ Continued
<1>1. /\ level > 0 /\ AtBoundary(LastToken) /\ pos = LastToken.n
      /\ ~zip /\ LastToken.g = level
  BY DEF BeginWriteGamestate, IInv, WriterInv, DeflateInv, DeflateEnded, Inside, Outside
<1>2. PacketSize \in Nat /\ room \in 0..PacketSize
  BY WriterAssumption DEF IInv, TypeOK, WriterTypeOK
<1>3. CASE UNCHANGED <<channel, deflateVars>>
  <2>1. Undisturbed /\ LastToken' = LastToken
    BY <1>3, Keep
  <2>2. WriterTypeOK' /\ DeflateInv'
    BY <1>1, <1>3 DEF BeginWriteGamestate, WriterTypeOK, DeflateInv, DeflateEnded,
       deflateVars, IInv, TypeOK, WriterPCs, Inside, Outside
  <2>3. ModeAfter(LastToken) = "ready" /\ ~InflatingAfter(LastToken)
    BY <1>1 DEF AtBoundary, ModeAfter, IInv, TypeOK, WriterTypeOK
  <2>4. WriterInv'
    BY <1>1, <1>3, <2>1, <2>3 DEF BeginWriteGamestate, WriterInv, IInv, OpenMode,
       deflateVars, ModeAfter, InflatingAfter, Inside, Outside
  <2> QED
    BY <2>1, <2>2, <2>4 DEF Continued
<1>4. CASE ~UNCHANGED <<channel, deflateVars>>
  <2> DEFINE t == Tok("zpacket", FALSE, level, LastToken.n)
  <2>1. t \in Token /\ t.k = "zpacket" /\ ~t.z /\ t.g = level /\ t.n = LastToken.n
    BY WriterFacts DEF Tok, Token, Kinds, IInv, TypeOK, WriterTypeOK
  <2>2. ModeAfter(LastToken) = "ready"
    BY <1>1 DEF AtBoundary, ModeAfter, IInv, TypeOK, WriterTypeOK
  <2>3. MayFollow(LastToken, t)
    BY <1>1, <2>1, <2>2 DEF MayFollow, ItemKinds
  <2>4. /\ room >= MIN_COMPRESS_SIZE
        /\ zip' = TRUE /\ zmax' = room - SVC_ZPACKET_SIZE /\ zraw' = 0 /\ zout' = 0
        /\ wire' = Append(wire, t) /\ sent' = sent
    BY <1>4 DEF BeginWriteGamestate
  <2>5. Undisturbed /\ LastToken' = t
    BY <2>1, <2>3, <2>4, Extend
  <2>6. WriterTypeOK' /\ DeflateInv'
    BY <1>2, <2>4 DEF BeginWriteGamestate, WriterTypeOK, DeflateInv, DeflateEnded,
       MarkersToCome, MIN_COMPRESS_SIZE, SVC_ZPACKET_SIZE, IInv, TypeOK, WriterPCs,
       Inside, Outside
  <2>7. ModeAfter(t) = "ready" /\ InflatingAfter(t)
    <3>1. level # 0
      BY <1>1 DEF IInv, TypeOK, WriterTypeOK
    <3> QED
      BY <2>1, <3>1 DEF ModeAfter, InflatingAfter
  <2>8. WriterInv'
    BY <1>1, <2>1, <2>4, <2>5, <2>7 DEF BeginWriteGamestate, WriterInv, IInv, OpenMode,
       ModeAfter, InflatingAfter, Inside, Outside
  <2> QED
    BY <2>5, <2>6, <2>8 DEF Continued
<1> QED
  BY <1>3, <1>4

\* The parse state after a token of kind k.
ModeOf(k) == IF k \in {"cfgstream", "scfg"} THEN "configstream"
             ELSE IF k \in {"basestream", "sbase"} THEN "baselinestream"
             ELSE "ready"

\* The parse state in which a token of kind k may be written.
ModeFor(k) == IF k \in {"scfg", "endcfg"} THEN "configstream"
              ELSE IF k \in {"sbase", "endbase"} THEN "baselinestream"
              ELSE "ready"

Carried == ItemKinds \cup {"torn"}
Markers == {"cfgstream", "endcfg", "basestream", "endbase"}

\* Writing a stream marker or an element where the grammar wants it.
LEMMA WritePiece ==
  ASSUME IInv, wpc \in Inside, NEW n \in Nat,
         NEW k \in Carried \cup Markers, NEW num \in 0..NumItems,
         OpenMode = ModeFor(k),
         num = (IF k \in Carried THEN pos + 1 ELSE pos),
         k = "torn" => ~NeverTorn,
         WriteTo(n, Piece(k, num)), UNCHANGED readerVars
  PROVE  /\ Undisturbed
         /\ LastToken'.g = level /\ LastToken'.n = num
         /\ ModeAfter(LastToken') = ModeOf(k)
         /\ InflatingAfter(LastToken') <=> zip
         /\ zip' = zip /\ zmax' = zmax
         /\ room' \in 0..PacketSize
         /\ zraw' \in Nat /\ zout' \in Nat
         /\ zip => room' = room /\ zout' <= zraw' /\ zout' <= zout + n
<1> DEFINE t == Piece(k, num)
<1>1. t \in Token
  BY PieceType DEF Carried, Markers, ItemKinds, Kinds
<1>2. t.k = k /\ t.n = num /\ t.g = level /\ t.z = zip
  BY DEF Piece, Tok
<1>3. /\ level # 0 /\ LastToken.g = level /\ LastToken.n = pos
      /\ ModeAfter(LastToken) = ModeFor(k)
      /\ InflatingAfter(LastToken) <=> zip
  BY DEF IInv, WriterInv, TypeOK, WriterTypeOK
<1> HIDE DEF t
<1>4. MayFollow(LastToken, t)
  BY <1>2, <1>3 DEF MayFollow, ModeFor, Carried, Markers, ItemKinds
<1>5. t.k # "eop"
  BY <1>2 DEF Carried, Markers, ItemKinds
<1>6. ModeAfter(t) = ModeOf(k)
  BY <1>2, <1>3 DEF ModeAfter, ModeOf
<1>7. InflatingAfter(t) <=> zip
  BY <1>2 DEF InflatingAfter, Carried, Markers, ItemKinds
<1>8. WriteTo(n, t)
  BY DEF t
<1>9. LastToken' = t
  BY <1>1, <1>4, <1>5, <1>8, WriteToStep
<1> QED
  BY <1>1, <1>2, <1>4, <1>5, <1>6, <1>7, <1>8, <1>9, WriteToStep

\* What makes a step that stays inside of the call continue the log.
LEMMA StaysInside ==
  ASSUME IInv, wpc \in Inside, wpc' \in Inside, pos' \in 0..NumItems,
         LastToken'.g = level, LastToken'.n = pos',
         ModeAfter(LastToken') = OpenMode',
         InflatingAfter(LastToken') <=> zip,
         wpc' = "endok" => pos' = NumItems,
         wpc' \in {"base", "baseloop"} => pos' >= NumConfigstrings,
         zip' = zip, zmax' = zmax, room' \in 0..PacketSize, zraw' \in Nat, zout' \in Nat,
         zip => /\ room' = room /\ zout' <= zraw'
                /\ zout' + MarkersToCome' + 10 <= zmax,
         UNCHANGED <<size, err, level, msgs>>
  PROVE  Continued
<1>1. WriterTypeOK'
  BY DEF IInv, TypeOK, WriterTypeOK, WriterPCs
<1>2. WriterInv'
  BY DEF IInv, WriterInv, Inside, Outside
<1>3. DeflateInv'
  BY DEF IInv, DeflateInv, DeflateEnded
<1> QED
  BY <1>1, <1>2, <1>3 DEF Continued

\* The deflated data and the input that follows fit with a margin to spare.
LEMMA ReportedFits ==
  ASSUME IInv, zip, NEW n \in Nat \ {0},
         \E avail \in ReportedSpace : avail >= n
  PROVE  zout + OUTPUT_MARGIN + n <= zmax
BY DEF ReportedSpace, Monus, OUTPUT_MARGIN, IInv, TypeOK, WriterTypeOK, DeflateInv

\* A step inside of the call that writes nothing.
LEMMA InsideKeeps ==
  ASSUME IInv, wpc \in Inside, wpc' \in Inside, LastToken' = LastToken,
         OpenMode' = OpenMode,
         wpc' = "endok" => pos = NumItems,
         wpc' \in {"base", "baseloop"} => pos >= NumConfigstrings,
         MarkersToCome' <= MarkersToCome, MarkersToCome' \in Nat, MarkersToCome \in Nat,
         UNCHANGED <<pos, room, deflateVars>>, UNCHANGED <<size, err, level, msgs>>
  PROVE  Continued
<1>1. /\ LastToken.g = level /\ LastToken.n = pos /\ ModeAfter(LastToken) = OpenMode
      /\ InflatingAfter(LastToken) <=> zip
  BY DEF IInv, WriterInv
<1>2. /\ room \in 0..PacketSize /\ zmax \in Nat /\ zraw \in Nat /\ zout \in Nat
      /\ pos \in 0..NumItems
      /\ zip => zout <= zraw /\ zout + MarkersToCome + 10 <= zmax
  BY DEF IInv, TypeOK, WriterTypeOK, DeflateInv
<1>3. UNCHANGED <<zip, zmax, zraw, zout>>
  BY DEF deflateVars
<1>4. \A a, b, c, d \in Nat : a + b + 10 <= c /\ d <= b => a + d + 10 <= c
  OBVIOUS
<1>5. zip => zout + MarkersToCome' + 10 <= zmax
  BY <1>2, <1>4
<1> QED
  BY <1>1, <1>2, <1>3, <1>5, StaysInside

LEMMA OpenConfigstreamStep ==
  ASSUME IInv, OpenConfigstream, UNCHANGED readerVars
  PROVE  Undisturbed /\ Continued
<1>1. wpc \in Inside /\ wpc' \in Inside /\ pos' = pos
  BY DEF OpenConfigstream, Inside
<1>2. /\ wpc' = "endok" => pos = NumItems
      /\ wpc' \in {"base", "baseloop"} => pos >= NumConfigstrings
  BY WriterFacts DEF OpenConfigstream, IInv, WriterInv
<1>3. CASE Streamed
  <2>1. WriteTo(COMMAND_SIZE, Piece("cfgstream", pos)) /\ OpenMode = ModeFor("cfgstream")
    BY <1>3 DEF OpenConfigstream, OpenMode, ModeFor
  <2>2. COMMAND_SIZE \in Nat /\ "cfgstream" \notin Carried
    BY DEF COMMAND_SIZE, Carried, ItemKinds
  <2>3. /\ Undisturbed
        /\ LastToken'.g = level /\ LastToken'.n = pos
        /\ ModeAfter(LastToken') = ModeOf("cfgstream")
        /\ InflatingAfter(LastToken') <=> zip
        /\ zip' = zip /\ zmax' = zmax
        /\ room' \in 0..PacketSize
        /\ zraw' \in Nat /\ zout' \in Nat
        /\ zip => room' = room /\ zout' <= zraw' /\ zout' <= zout + COMMAND_SIZE
    BY <1>1, <2>1, <2>2, WriterFacts, WritePiece DEF Markers
  <2>4. ModeOf("cfgstream") = OpenMode'
    BY <1>3 DEF OpenConfigstream, OpenMode, ModeOf
  <2>5. zip => zout' + MarkersToCome' + 10 <= zmax
    BY <2>3 DEF OpenConfigstream, MarkersToCome, COMMAND_SIZE, IInv, DeflateInv, TypeOK, WriterTypeOK
  <2> QED
    BY <1>1, <1>2, <2>3, <2>4, <2>5, WriterFacts, StaysInside DEF OpenConfigstream
<1>4. CASE ~Streamed
  <2>1. Undisturbed /\ LastToken' = LastToken
    BY <1>4, Keep DEF OpenConfigstream
  <2>2. MarkersToCome' <= MarkersToCome /\ MarkersToCome' \in Nat /\ MarkersToCome \in Nat
    BY DEF OpenConfigstream, MarkersToCome
  <2> QED
    BY <1>1, <1>2, <1>4, <2>1, <2>2, InsideKeeps DEF OpenConfigstream, OpenMode
<1> QED
  BY <1>3, <1>4

LEMMA SkipConfigstringsStep ==
  ASSUME IInv, SkipConfigstrings, UNCHANGED readerVars
  PROVE  Undisturbed /\ Continued
<1>1. Undisturbed /\ LastToken' = LastToken
  BY Keep DEF SkipConfigstrings
<1>2. MarkersToCome' <= MarkersToCome /\ MarkersToCome' \in Nat /\ MarkersToCome \in Nat
  BY DEF SkipConfigstrings, MarkersToCome
<1> QED
  BY <1>1, <1>2, WriterFacts, InsideKeeps DEF SkipConfigstrings, OpenMode, Inside

LEMMA ConfigstringsFullStep ==
  ASSUME IInv, ConfigstringsFull, UNCHANGED readerVars
  PROVE  Undisturbed /\ Continued
<1>1. wpc \in Inside /\ wpc' \in Inside /\ pos' = pos
  BY DEF ConfigstringsFull, Inside
<1>2. /\ wpc' = "endok" => pos = NumItems
      /\ wpc' \in {"base", "baseloop"} => pos >= NumConfigstrings
  BY WriterFacts DEF ConfigstringsFull, IInv, WriterInv
<1>3. CASE Streamed
  <2>1. WriteTo(END_MARKER_SIZE, Piece("endcfg", pos)) /\ OpenMode = ModeFor("endcfg")
    BY <1>3 DEF ConfigstringsFull, OpenMode, ModeFor
  <2>2. END_MARKER_SIZE \in Nat /\ "endcfg" \notin Carried
    BY DEF END_MARKER_SIZE, Carried, ItemKinds
  <2>3. /\ Undisturbed
        /\ LastToken'.g = level /\ LastToken'.n = pos
        /\ ModeAfter(LastToken') = ModeOf("endcfg")
        /\ InflatingAfter(LastToken') <=> zip
        /\ zip' = zip /\ zmax' = zmax
        /\ room' \in 0..PacketSize
        /\ zraw' \in Nat /\ zout' \in Nat
        /\ zip => room' = room /\ zout' <= zraw' /\ zout' <= zout + END_MARKER_SIZE
    BY <1>1, <2>1, <2>2, WriterFacts, WritePiece DEF Markers
  <2>4. ModeOf("endcfg") = OpenMode'
    BY <1>3 DEF ConfigstringsFull, OpenMode, ModeOf
  <2>5. zip => zout' + MarkersToCome' + 10 <= zmax
    BY <2>3 DEF ConfigstringsFull, MarkersToCome, END_MARKER_SIZE, IInv, DeflateInv, TypeOK, WriterTypeOK
  <2> QED
    BY <1>1, <1>2, <2>3, <2>4, <2>5, WriterFacts, StaysInside DEF ConfigstringsFull
<1>4. CASE ~Streamed
  <2>1. Undisturbed /\ LastToken' = LastToken
    BY <1>4, Keep DEF ConfigstringsFull
  <2>2. MarkersToCome' <= MarkersToCome /\ MarkersToCome' \in Nat /\ MarkersToCome \in Nat
    BY DEF ConfigstringsFull, MarkersToCome
  <2> QED
    BY <1>1, <1>2, <1>4, <2>1, <2>2, InsideKeeps DEF ConfigstringsFull, OpenMode
<1> QED
  BY <1>3, <1>4

LEMMA CloseConfigstreamStep ==
  ASSUME IInv, CloseConfigstream, UNCHANGED readerVars
  PROVE  Undisturbed /\ Continued
<1>1. wpc \in Inside /\ wpc' \in Inside /\ pos' = pos
  BY DEF CloseConfigstream, Inside
<1>2. /\ wpc' = "endok" => pos = NumItems
      /\ wpc' \in {"base", "baseloop"} => pos >= NumConfigstrings
  BY WriterFacts DEF CloseConfigstream, IInv, WriterInv
<1>3. CASE Streamed
  <2>1. WriteTo(END_MARKER_SIZE, Piece("endcfg", pos)) /\ OpenMode = ModeFor("endcfg")
    BY <1>3 DEF CloseConfigstream, OpenMode, ModeFor
  <2>2. END_MARKER_SIZE \in Nat /\ "endcfg" \notin Carried
    BY DEF END_MARKER_SIZE, Carried, ItemKinds
  <2>3. /\ Undisturbed
        /\ LastToken'.g = level /\ LastToken'.n = pos
        /\ ModeAfter(LastToken') = ModeOf("endcfg")
        /\ InflatingAfter(LastToken') <=> zip
        /\ zip' = zip /\ zmax' = zmax
        /\ room' \in 0..PacketSize
        /\ zraw' \in Nat /\ zout' \in Nat
        /\ zip => room' = room /\ zout' <= zraw' /\ zout' <= zout + END_MARKER_SIZE
    BY <1>1, <2>1, <2>2, WriterFacts, WritePiece DEF Markers
  <2>4. ModeOf("endcfg") = OpenMode'
    BY <1>3 DEF CloseConfigstream, OpenMode, ModeOf
  <2>5. zip => zout' + MarkersToCome' + 10 <= zmax
    BY <2>3 DEF CloseConfigstream, MarkersToCome, END_MARKER_SIZE, IInv, DeflateInv, TypeOK, WriterTypeOK
  <2> QED
    BY <1>1, <1>2, <2>3, <2>4, <2>5, WriterFacts, StaysInside DEF CloseConfigstream
<1>4. CASE ~Streamed
  <2>1. Undisturbed /\ LastToken' = LastToken
    BY <1>4, Keep DEF CloseConfigstream
  <2>2. MarkersToCome' <= MarkersToCome /\ MarkersToCome' \in Nat /\ MarkersToCome \in Nat
    BY DEF CloseConfigstream, MarkersToCome
  <2> QED
    BY <1>1, <1>2, <1>4, <2>1, <2>2, InsideKeeps DEF CloseConfigstream, OpenMode
<1> QED
  BY <1>3, <1>4

LEMMA OpenBaselinestreamStep ==
  ASSUME IInv, OpenBaselinestream, UNCHANGED readerVars
  PROVE  Undisturbed /\ Continued
<1>1. wpc \in Inside /\ wpc' \in Inside /\ pos' = pos
  BY DEF OpenBaselinestream, Inside
<1>2. /\ wpc' = "endok" => pos = NumItems
      /\ wpc' \in {"base", "baseloop"} => pos >= NumConfigstrings
  BY WriterFacts DEF OpenBaselinestream, IInv, WriterInv
<1>3. CASE Streamed
  <2>1. WriteTo(COMMAND_SIZE, Piece("basestream", pos)) /\ OpenMode = ModeFor("basestream")
    BY <1>3 DEF OpenBaselinestream, OpenMode, ModeFor
  <2>2. COMMAND_SIZE \in Nat /\ "basestream" \notin Carried
    BY DEF COMMAND_SIZE, Carried, ItemKinds
  <2>3. /\ Undisturbed
        /\ LastToken'.g = level /\ LastToken'.n = pos
        /\ ModeAfter(LastToken') = ModeOf("basestream")
        /\ InflatingAfter(LastToken') <=> zip
        /\ zip' = zip /\ zmax' = zmax
        /\ room' \in 0..PacketSize
        /\ zraw' \in Nat /\ zout' \in Nat
        /\ zip => room' = room /\ zout' <= zraw' /\ zout' <= zout + COMMAND_SIZE
    BY <1>1, <2>1, <2>2, WriterFacts, WritePiece DEF Markers
  <2>4. ModeOf("basestream") = OpenMode'
    BY <1>3 DEF OpenBaselinestream, OpenMode, ModeOf
  <2>5. zip => zout' + MarkersToCome' + 10 <= zmax
    BY <2>3 DEF OpenBaselinestream, MarkersToCome, COMMAND_SIZE, IInv, DeflateInv, TypeOK, WriterTypeOK
  <2> QED
    BY <1>1, <1>2, <2>3, <2>4, <2>5, WriterFacts, StaysInside DEF OpenBaselinestream
<1>4. CASE ~Streamed
  <2>1. Undisturbed /\ LastToken' = LastToken
    BY <1>4, Keep DEF OpenBaselinestream
  <2>2. MarkersToCome' <= MarkersToCome /\ MarkersToCome' \in Nat /\ MarkersToCome \in Nat
    BY DEF OpenBaselinestream, MarkersToCome
  <2> QED
    BY <1>1, <1>2, <1>4, <2>1, <2>2, InsideKeeps DEF OpenBaselinestream, OpenMode
<1> QED
  BY <1>3, <1>4

LEMMA SkipBaselinesStep ==
  ASSUME IInv, SkipBaselines, UNCHANGED readerVars
  PROVE  Undisturbed /\ Continued
<1>1. Undisturbed /\ LastToken' = LastToken
  BY Keep DEF SkipBaselines
<1>2. MarkersToCome' <= MarkersToCome /\ MarkersToCome' \in Nat /\ MarkersToCome \in Nat
  BY DEF SkipBaselines, MarkersToCome
<1> QED
  BY <1>1, <1>2, WriterFacts, InsideKeeps DEF SkipBaselines, OpenMode, Inside

LEMMA BaselinesFullStep ==
  ASSUME IInv, BaselinesFull, UNCHANGED readerVars
  PROVE  Undisturbed /\ Continued
<1>1. wpc \in Inside /\ wpc' \in Inside /\ pos' = pos
  BY DEF BaselinesFull, Inside
<1>2. /\ wpc' = "endok" => pos = NumItems
      /\ wpc' \in {"base", "baseloop"} => pos >= NumConfigstrings
  BY WriterFacts DEF BaselinesFull, IInv, WriterInv
<1>3. CASE Streamed
  <2>1. WriteTo(END_MARKER_SIZE, Piece("endbase", pos)) /\ OpenMode = ModeFor("endbase")
    BY <1>3 DEF BaselinesFull, OpenMode, ModeFor
  <2>2. END_MARKER_SIZE \in Nat /\ "endbase" \notin Carried
    BY DEF END_MARKER_SIZE, Carried, ItemKinds
  <2>3. /\ Undisturbed
        /\ LastToken'.g = level /\ LastToken'.n = pos
        /\ ModeAfter(LastToken') = ModeOf("endbase")
        /\ InflatingAfter(LastToken') <=> zip
        /\ zip' = zip /\ zmax' = zmax
        /\ room' \in 0..PacketSize
        /\ zraw' \in Nat /\ zout' \in Nat
        /\ zip => room' = room /\ zout' <= zraw' /\ zout' <= zout + END_MARKER_SIZE
    BY <1>1, <2>1, <2>2, WriterFacts, WritePiece DEF Markers
  <2>4. ModeOf("endbase") = OpenMode'
    BY <1>3 DEF BaselinesFull, OpenMode, ModeOf
  <2>5. zip => zout' + MarkersToCome' + 10 <= zmax
    BY <2>3 DEF BaselinesFull, MarkersToCome, END_MARKER_SIZE, IInv, DeflateInv, TypeOK, WriterTypeOK
  <2> QED
    BY <1>1, <1>2, <2>3, <2>4, <2>5, WriterFacts, StaysInside DEF BaselinesFull
<1>4. CASE ~Streamed
  <2>1. Undisturbed /\ LastToken' = LastToken
    BY <1>4, Keep DEF BaselinesFull
  <2>2. MarkersToCome' <= MarkersToCome /\ MarkersToCome' \in Nat /\ MarkersToCome \in Nat
    BY DEF BaselinesFull, MarkersToCome
  <2> QED
    BY <1>1, <1>2, <1>4, <2>1, <2>2, InsideKeeps DEF BaselinesFull, OpenMode
<1> QED
  BY <1>3, <1>4

LEMMA CloseBaselinestreamStep ==
  ASSUME IInv, CloseBaselinestream, UNCHANGED readerVars
  PROVE  Undisturbed /\ Continued
<1>1. wpc \in Inside /\ wpc' \in Inside /\ pos' = pos
  BY DEF CloseBaselinestream, Inside
<1>2. /\ wpc' = "endok" => pos = NumItems
      /\ wpc' \in {"base", "baseloop"} => pos >= NumConfigstrings
  BY WriterFacts DEF CloseBaselinestream, IInv, WriterInv
<1>3. CASE Streamed
  <2>1. WriteTo(END_MARKER_SIZE, Piece("endbase", pos)) /\ OpenMode = ModeFor("endbase")
    BY <1>3 DEF CloseBaselinestream, OpenMode, ModeFor
  <2>2. END_MARKER_SIZE \in Nat /\ "endbase" \notin Carried
    BY DEF END_MARKER_SIZE, Carried, ItemKinds
  <2>3. /\ Undisturbed
        /\ LastToken'.g = level /\ LastToken'.n = pos
        /\ ModeAfter(LastToken') = ModeOf("endbase")
        /\ InflatingAfter(LastToken') <=> zip
        /\ zip' = zip /\ zmax' = zmax
        /\ room' \in 0..PacketSize
        /\ zraw' \in Nat /\ zout' \in Nat
        /\ zip => room' = room /\ zout' <= zraw' /\ zout' <= zout + END_MARKER_SIZE
    BY <1>1, <2>1, <2>2, WriterFacts, WritePiece DEF Markers
  <2>4. ModeOf("endbase") = OpenMode'
    BY <1>3 DEF CloseBaselinestream, OpenMode, ModeOf
  <2>5. zip => zout' + MarkersToCome' + 10 <= zmax
    BY <2>3 DEF CloseBaselinestream, MarkersToCome, END_MARKER_SIZE, IInv, DeflateInv, TypeOK, WriterTypeOK
  <2> QED
    BY <1>1, <1>2, <2>3, <2>4, <2>5, WriterFacts, StaysInside DEF CloseBaselinestream
<1>4. CASE ~Streamed
  <2>1. Undisturbed /\ LastToken' = LastToken
    BY <1>4, Keep DEF CloseBaselinestream
  <2>2. MarkersToCome' <= MarkersToCome /\ MarkersToCome' \in Nat /\ MarkersToCome \in Nat
    BY DEF CloseBaselinestream, MarkersToCome
  <2> QED
    BY <1>1, <1>2, <1>4, <2>1, <2>2, InsideKeeps DEF CloseBaselinestream, OpenMode
<1> QED
  BY <1>3, <1>4

\* The sizes of the elements and the space the writer asks for.
LEMMA ElementSizes ==
  ASSUME IInv, pos < NumItems
  PROVE  /\ pos + 1 \in 1..NumItems
         /\ pos < NumConfigstrings =>
              /\ ConfigstringSize(pos + 1) \in Nat \ {0}
              /\ ConfigstringNeed(pos + 1) \in Nat \ {0}
              /\ ConfigstringSize(pos + 1) <= ConfigstringNeed(pos + 1)
         /\ pos >= NumConfigstrings =>
              /\ BaselineSize(pos + 1) \in Nat \ {0}
              /\ BaselineNeed \in Nat \ {0}
              /\ BaselineSize(pos + 1) <= BaselineNeed
              /\ COMMAND_SIZE <= BaselineNeed
<1>1. pos + 1 \in Items /\ pos \in Nat
  BY WriterFacts DEF Items
<1>2. /\ pos < NumConfigstrings => size[pos + 1] \in Nat
      /\ pos >= NumConfigstrings => size[pos + 1] \in 1..(BaselineMax - 1)
  <2>1. IF pos + 1 <= NumConfigstrings THEN size[pos + 1] \in StringLens
                                       ELSE size[pos + 1] \in BaselineSizes
    BY <1>1 DEF IInv, WriterInv
  <2>2. (pos + 1 <= NumConfigstrings) <=> (pos < NumConfigstrings)
    BY WriterFacts
  <2>3. (pos >= NumConfigstrings) <=> ~(pos < NumConfigstrings)
    BY WriterFacts
  <2>4. StringLens \subseteq Nat /\ BaselineSizes \subseteq 1..(BaselineMax - 1)
    BY WriterAssumption
  <2> QED
    BY <2>1, <2>2, <2>3, <2>4
<1>3. BaselineMax \in Nat \ {0}
  BY WriterAssumption
<1> QED
  BY <1>1, <1>2, <1>3, WriterFacts DEF Items, ConfigstringSize, ConfigstringNeed,
     BaselineSize, BaselineNeed, END_MARKER_SIZE, COMMAND_SIZE

LEMMA WriteConfigstringStep ==
  ASSUME IInv, WriteConfigstring, UNCHANGED readerVars
  PROVE  Undisturbed /\ Continued
<1> DEFINE n == ConfigstringSize(pos + 1)
           k == IF Streamed THEN "scfg" ELSE "cfg"
<1>1. /\ wpc = "cfgloop" /\ wpc' = "cfgloop" /\ pos < NumConfigstrings
      /\ pos' = pos + 1 /\ pos < NumItems
  BY WriterFacts DEF WriteConfigstring
<1>2. n \in Nat \ {0} /\ n <= ConfigstringNeed(pos + 1)
      /\ ConfigstringNeed(pos + 1) \in Nat \ {0} /\ pos + 1 \in 1..NumItems
  BY <1>1, ElementSizes
<1>3. k \in Carried /\ k # "torn" /\ OpenMode = ModeFor(k)
      /\ ModeOf(k) = OpenMode' /\ wpc \in Inside
  BY <1>1, WriterFacts DEF Carried, ItemKinds, OpenMode, ModeFor, ModeOf, Inside
<1>4. WriteTo(n, Piece(k, pos + 1))
  BY DEF WriteConfigstring
<1> HIDE DEF n, k
<1>5. /\ Undisturbed
      /\ LastToken'.g = level /\ LastToken'.n = pos + 1
      /\ ModeAfter(LastToken') = ModeOf(k)
      /\ InflatingAfter(LastToken') <=> zip
      /\ zip' = zip /\ zmax' = zmax
      /\ room' \in 0..PacketSize
      /\ zraw' \in Nat /\ zout' \in Nat
      /\ zip => room' = room /\ zout' <= zraw' /\ zout' <= zout + n
  BY <1>2, <1>3, <1>4, WritePiece
<1>6. zip => zout + OUTPUT_MARGIN + ConfigstringNeed(pos + 1) <= zmax
  BY <1>2, ReportedFits DEF WriteConfigstring
<1>7. zip => zout' + MarkersToCome' + 10 <= zmax
  BY <1>1, <1>2, <1>5, <1>6 DEF MarkersToCome, OUTPUT_MARGIN, IInv, TypeOK, WriterTypeOK
<1> QED
  BY <1>1, <1>2, <1>3, <1>5, <1>7, StaysInside DEF WriteConfigstring

LEMMA WriteBaselineStep ==
  ASSUME IInv, WriteBaseline, UNCHANGED readerVars
  PROVE  Undisturbed /\ Continued
<1> DEFINE n == BaselineSize(pos + 1)
           k == IF Streamed THEN "sbase" ELSE "base"
<1>1. /\ wpc = "baseloop" /\ wpc' = "baseloop" /\ pos < NumItems
      /\ pos' = pos + 1 /\ pos >= NumConfigstrings
  BY DEF WriteBaseline, IInv, WriterInv
<1>2. n \in Nat \ {0} /\ n <= BaselineNeed
      /\ BaselineNeed \in Nat \ {0} /\ pos + 1 \in 1..NumItems
  BY <1>1, ElementSizes
<1>3. k \in Carried /\ k # "torn" /\ OpenMode = ModeFor(k)
      /\ ModeOf(k) = OpenMode' /\ wpc \in Inside
  BY <1>1, WriterFacts DEF Carried, ItemKinds, OpenMode, ModeFor, ModeOf, Inside
<1>4. WriteTo(n, Piece(k, pos + 1))
  BY DEF WriteBaseline
<1> HIDE DEF n, k
<1>5. /\ Undisturbed
      /\ LastToken'.g = level /\ LastToken'.n = pos + 1
      /\ ModeAfter(LastToken') = ModeOf(k)
      /\ InflatingAfter(LastToken') <=> zip
      /\ zip' = zip /\ zmax' = zmax
      /\ room' \in 0..PacketSize
      /\ zraw' \in Nat /\ zout' \in Nat
      /\ zip => room' = room /\ zout' <= zraw' /\ zout' <= zout + n
  BY <1>2, <1>3, <1>4, WritePiece
<1>6. zip => zout + OUTPUT_MARGIN + BaselineNeed <= zmax
  BY <1>2, ReportedFits DEF WriteBaseline
<1>7. zip => zout' + MarkersToCome' + 10 <= zmax
  BY <1>1, <1>2, <1>5, <1>6 DEF MarkersToCome, OUTPUT_MARGIN, IInv, TypeOK, WriterTypeOK
<1>8. pos + 1 >= NumConfigstrings
  BY <1>1, WriterFacts
<1> QED
  BY <1>1, <1>2, <1>3, <1>5, <1>7, <1>8, StaysInside DEF WriteBaseline

\* A call that fails: nothing more is asked of the writer.
LEMMA Failing ==
  ASSUME IInv, wpc \in Inside, wpc' = "failed", LastToken' = LastToken,
         pos' \in 0..NumItems, err' \in {"none", "io", "deflate", "data"},
         UNCHANGED <<size, level, msgs>>, room' = room, zip' \in BOOLEAN,
         zmax' \in Nat, zraw' \in Nat, zout' \in Nat,
         zip' => UNCHANGED deflateVars,
         zip' => err' = "data" /\ pos' + 1 \in Unwritable
  PROVE  Continued
<1>1. WriterTypeOK'
  BY DEF IInv, TypeOK, WriterTypeOK, WriterPCs, Outside
<1>2. WriterInv'
  BY DEF IInv, WriterInv, Inside, Outside
<1>3. MarkersToCome' = 0
  BY DEF MarkersToCome
<1>4. DeflateInv'
  <2>1. CASE zip'
    <3>1. /\ zip /\ zmax' = zmax /\ zout' = zout /\ zraw' = zraw
          /\ zmax = room - SVC_ZPACKET_SIZE /\ zout <= zraw
      BY <2>1 DEF deflateVars, IInv, DeflateInv
    <3>2. MarkersToCome \in Nat /\ zout \in Nat /\ zmax \in Nat
      BY DEF MarkersToCome, Inside, IInv, TypeOK, WriterTypeOK
    <3>3. zout + MarkersToCome + 10 <= zmax
      BY <3>1 DEF IInv, DeflateInv
    <3>4. zout + 0 + 10 <= zmax
      BY <3>2, <3>3
    <3> QED
      BY <2>1, <3>1, <3>4, <1>3 DEF DeflateInv, DeflateEnded
  <2>2. CASE ~zip'
    BY <2>2 DEF DeflateInv, DeflateEnded
  <2> QED
    BY <2>1, <2>2
<1> QED
  BY <1>1, <1>2, <1>4 DEF Continued

LEMMA RefuseBaselineStep ==
  ASSUME IInv, RefuseBaseline, UNCHANGED readerVars
  PROVE  Undisturbed /\ Continued
<1>1. /\ wpc = "baseloop" /\ wpc \in Inside /\ pos < NumItems
      /\ pos >= NumConfigstrings /\ pos + 1 \in Unwritable
  BY DEF RefuseBaseline, IInv, WriterInv, Inside
<1>2. CASE Streamed
  <2>1. Undisturbed /\ LastToken' = LastToken
    BY <1>2, Keep DEF RefuseBaseline
  <2> QED
    BY <1>1, <1>2, <2>1, Failing DEF RefuseBaseline, deflateVars, IInv, TypeOK, WriterTypeOK
<1>3. CASE ~Streamed
  <2>1. PICK n \in {COMMAND_SIZE, BaselineSize(pos + 1)} : WriteTo(n, Piece("torn", pos + 1))
    BY <1>3 DEF RefuseBaseline
  <2>2. wpc' = wpc /\ pos' = pos + 1
    BY <1>3 DEF RefuseBaseline
  <2>3. n \in Nat /\ n <= BaselineNeed
        /\ BaselineNeed \in Nat \ {0} /\ pos + 1 \in 1..NumItems
    BY <1>1, ElementSizes DEF COMMAND_SIZE
  <2>4. /\ "torn" \in Carried /\ OpenMode = ModeFor("torn") /\ ModeOf("torn") = OpenMode'
        /\ ~NeverTorn
    BY <1>1, <1>3, <2>2 DEF Carried, OpenMode, ModeFor, ModeOf, NeverTorn
  <2>5. /\ Undisturbed
        /\ LastToken'.g = level /\ LastToken'.n = pos + 1
        /\ ModeAfter(LastToken') = ModeOf("torn")
        /\ InflatingAfter(LastToken') <=> zip
        /\ zip' = zip /\ zmax' = zmax
        /\ room' \in 0..PacketSize
        /\ zraw' \in Nat /\ zout' \in Nat
        /\ zip => room' = room /\ zout' <= zraw' /\ zout' <= zout + n
    BY <1>1, <2>1, <2>3, <2>4, WritePiece
  <2>6. zip => zout + OUTPUT_MARGIN + BaselineNeed <= zmax
    BY <2>3, ReportedFits DEF RefuseBaseline
  <2>7. zip => zout' + MarkersToCome' + 10 <= zmax
    BY <1>1, <2>2, <2>3, <2>5, <2>6 DEF MarkersToCome, OUTPUT_MARGIN, IInv, TypeOK,
       WriterTypeOK
  <2>8. pos + 1 >= NumConfigstrings
    BY <1>1, WriterFacts
  <2> QED
    BY <1>1, <1>3, <2>2, <2>3, <2>4, <2>5, <2>7, <2>8, StaysInside DEF RefuseBaseline
<1> QED
  BY <1>2, <1>3

LEMMA UncheckedWriteFailsStep ==
  ASSUME IInv, UncheckedWriteFails, UNCHANGED readerVars
  PROVE  Undisturbed /\ Continued
<1>1. /\ wpc \in Inside /\ wpc' = "failed" /\ err' = "io" /\ ~zip
      /\ UNCHANGED <<channel, size, pos, room, deflateVars, level, msgs>>
  BY DEF UncheckedWriteFails, WriteFails, Inside
<1>2. Undisturbed /\ LastToken' = LastToken
  BY <1>1, Keep
<1> QED
  BY <1>1, <1>2, Failing DEF deflateVars, IInv, TypeOK, WriterTypeOK

LEMMA EndZpacketFailsStep ==
  ASSUME IInv, EndZpacketFails, UNCHANGED readerVars
  PROVE  Undisturbed /\ Continued
<1>1. Undisturbed /\ LastToken' = LastToken
  BY Keep DEF EndZpacketFails
<1>2. pos' \in 0..NumItems
  BY WriterFacts DEF EndZpacketFails, EndedPos
<1> QED
  BY <1>1, <1>2, Failing DEF EndZpacketFails, Inside

\* What makes a step that ends or happens outside of a call continue the log.
LEMMA StaysOutside ==
  ASSUME IInv, wpc' \in Running, pos' \in 0..NumItems, room' \in 0..PacketSize,
         err' = err, size' = size, level' \in Nat, msgs' \in Nat,
         LastToken'.g = level', AtBoundary(LastToken'),
         zip' = FALSE, zmax' \in Nat, zraw' \in Nat, zout' \in Nat,
         wpc' = "offline" => level' = 0 /\ pos' = 0,
         wpc' # "offline" => level' # 0,
         wpc' = "done" => pos' = 0 /\ LastToken'.n = NumItems,
         wpc' \in {"ready", "full"} => pos' = LastToken'.n
  PROVE  Continued
<1>1. WriterTypeOK'
  BY DEF IInv, TypeOK, WriterTypeOK, WriterPCs, Running
<1>2. wpc' \notin Inside
  BY DEF Running, Outside, Inside
<1>3. \A i \in Items : IF i <= NumConfigstrings THEN size'[i] \in StringLens
                                                ELSE size'[i] \in BaselineSizes
  BY DEF IInv, WriterInv
<1>4. WriterInv'
  BY <1>2, <1>3 DEF WriterInv, Running, Outside, Inside
<1>5. DeflateInv'
  BY DEF DeflateInv, DeflateEnded
<1> QED
  BY <1>1, <1>4, <1>5 DEF Continued

LEMMA EndWriteGamestateStep ==
  ASSUME IInv, EndWriteGamestate, UNCHANGED readerVars
  PROVE  Undisturbed /\ Continued
<1>1. /\ wpc \in Inside /\ wpc \in {"endfull", "endok"}
      /\ level # 0 /\ level \in Nat
      /\ LastToken.g = level /\ LastToken.n = pos
      /\ ModeAfter(LastToken) = "ready"
      /\ InflatingAfter(LastToken) <=> zip
      /\ pos \in 0..NumItems /\ NumItems \in Nat
      /\ wpc = "endok" => pos = NumItems
  BY WriterFacts DEF EndWriteGamestate, IInv, WriterInv, TypeOK, WriterTypeOK, OpenMode,
     Inside
<1>2. ~(zip /\ room < SVC_ZPACKET_SIZE + zout)
  <2>1. zip => zmax = room - SVC_ZPACKET_SIZE /\ zout + 0 + 10 <= zmax
    BY <1>1 DEF IInv, DeflateInv, MarkersToCome
  <2> QED
    BY <2>1, WriterAssumption DEF SVC_ZPACKET_SIZE, IInv, TypeOK, WriterTypeOK
<1>3. /\ pos' = EndedPos /\ wpc' = EndedResult
      /\ UNCHANGED <<err, size, level, msgs>>
      /\ IF zip THEN EndZpacket ELSE UNCHANGED <<channel, room, deflateVars>>
  BY <1>2 DEF EndWriteGamestate
<1>4. /\ wpc' \in {"done", "full"} /\ pos' \in 0..NumItems
      /\ wpc' = "done" => pos' = 0 /\ pos = NumItems
      /\ wpc' = "full" => pos' = pos
  BY <1>1, <1>3 DEF EndedPos, EndedResult
<1>5. CASE zip
  <2> DEFINE t == Tok("zend", TRUE, level, LastToken.n)
  <2>1. t \in Token /\ t.k = "zend" /\ t.z /\ t.g = level /\ t.n = pos
    BY <1>1 DEF Tok, Token, Kinds
  <2>2. /\ wire' = Append(wire, t) /\ sent' = sent
        /\ room' = room - SVC_ZPACKET_SIZE - zout
        /\ zip' = FALSE /\ zmax' = 0 /\ zraw' = 0 /\ zout' = 0
    BY <1>3, <1>5 DEF EndZpacket
  <2> HIDE DEF t
  <2>3. MayFollow(LastToken, t)
    BY <1>1, <1>5, <2>1 DEF MayFollow, ItemKinds
  <2>4. Undisturbed /\ LastToken' = t
    BY <2>1, <2>2, <2>3, Extend
  <2>5. ModeAfter(t) = "ready" /\ ~InflatingAfter(t)
    BY <1>1, <2>1 DEF ModeAfter, InflatingAfter
  <2>6. room' \in 0..PacketSize
    BY <1>2, <1>5, <2>2, WriterAssumption DEF SVC_ZPACKET_SIZE, IInv, TypeOK, WriterTypeOK
  <2>7. AtBoundary(LastToken')
    BY <2>4, <2>5 DEF AtBoundary
  <2> QED
    BY <1>1, <1>3, <1>4, <2>1, <2>2, <2>4, <2>6, <2>7, StaysOutside
       DEF Running, Outside, IInv, TypeOK, WriterTypeOK
<1>6. CASE ~zip
  <2>1. UNCHANGED <<room, zip, zmax, zraw, zout>>
    BY <1>3, <1>6 DEF deflateVars
  <2>2. Undisturbed /\ LastToken' = LastToken
    BY <1>3, <1>6, Keep
  <2>3. AtBoundary(LastToken')
    BY <1>1, <1>6, <2>2 DEF AtBoundary
  <2> QED
    BY <1>1, <1>3, <1>4, <1>6, <2>1, <2>2, <2>3, StaysOutside
       DEF Running, Outside, IInv, TypeOK, WriterTypeOK
<1> QED
  BY <1>5, <1>6

-----------------------------------------------------------------------------
(* The server application                                                  *)

LEMMA OutsideFacts ==
  ASSUME IInv, wpc \in Running
  PROVE  /\ zip = FALSE /\ AtBoundary(LastToken) /\ LastToken.g = level /\ level \in Nat
         /\ room \in 0..PacketSize /\ PacketSize \in Nat
         /\ zmax \in Nat /\ zraw \in Nat /\ zout \in Nat
         /\ msgs \in Nat
         /\ pos \in 0..NumItems /\ NumItems \in Nat /\ LastToken.n \in 0..NumItems
         /\ wpc = "offline" => level = 0 /\ pos = 0
         /\ wpc # "offline" => level # 0
         /\ wpc = "done" => pos = 0 /\ LastToken.n = NumItems
         /\ wpc \in {"ready", "full"} => pos = LastToken.n
BY WriterFacts, WriterAssumption DEF IInv, TypeOK, WriterTypeOK, WriterInv, DeflateInv,
   DeflateEnded, Running, Outside, Inside

\* A token between two calls, outside of a zpacket.
LEMMA BoundaryToken ==
  ASSUME NEW k \in Kinds, k \in {"msg", "eop", "serverdata"}, NEW g \in Nat,
         NEW n \in 0..NumItems
  PROVE  LET t == Tok(k, FALSE, g, n)
         IN  /\ t \in Token /\ t.k = k /\ ~t.z /\ t.g = g /\ t.n = n
             /\ AtBoundary(t)
BY DEF Tok, Token, AtBoundary, ModeAfter, InflatingAfter

LEMMA FlushStep ==
  ASSUME IInv, Flush, UNCHANGED readerVars
  PROVE  Undisturbed /\ Continued
<1> DEFINE t == Tok("eop", FALSE, level, LastToken.n)
<1>1. wpc \in Running /\ wire' = Append(wire, t) /\ sent' = Len(wire')
  BY DEF Flush
<1>2. /\ t \in Token /\ t.k = "eop" /\ ~t.z /\ t.g = level /\ t.n = LastToken.n
      /\ AtBoundary(t)
  BY <1>1, OutsideFacts, BoundaryToken DEF Kinds
<1> HIDE DEF t
<1>3. MayFollow(LastToken, t)
  BY <1>1, <1>2, OutsideFacts DEF MayFollow, ItemKinds
<1>4. Undisturbed /\ LastToken' = t
  BY <1>1, <1>2, <1>3, Extend
<1>5. wpc' = (IF wpc = "full" THEN "ready" ELSE wpc) /\ wpc' \in Running
  BY DEF Flush, Running, Outside
<1>6. UNCHANGED <<zip, zmax, zraw, zout>> /\ room' = PacketSize
  BY DEF Flush, deflateVars
<1>8. LastToken'.g = level /\ LastToken'.n = LastToken.n /\ AtBoundary(LastToken')
  BY <1>2, <1>4
<1> QED
  BY <1>1, <1>4, <1>5, <1>6, <1>8, OutsideFacts, StaysOutside DEF Flush

LEMMA WriteMessageStep ==
  ASSUME IInv, WriteMessage, UNCHANGED readerVars
  PROVE  Undisturbed /\ Continued
<1> DEFINE t == Tok("msg", FALSE, level, LastToken.n)
<1>1. wpc \in Running /\ wire' = Append(wire, t) /\ sent' = sent
  BY DEF WriteMessage
<1>2. /\ t \in Token /\ t.k = "msg" /\ ~t.z /\ t.g = level /\ t.n = LastToken.n
      /\ AtBoundary(t)
  BY <1>1, OutsideFacts, BoundaryToken DEF Kinds
<1> HIDE DEF t
<1>3. MayFollow(LastToken, t)
  BY <1>1, <1>2, OutsideFacts DEF MayFollow, ItemKinds
<1>4. Undisturbed /\ LastToken' = t
  BY <1>1, <1>2, <1>3, Extend
<1>5. room' \in 0..PacketSize
  <2>1. PICK n \in MsgSizes : room >= n /\ room' = room - n
    BY DEF WriteMessage
  <2> QED
    BY <1>1, <2>1, OutsideFacts, WriterAssumption
<1>6. UNCHANGED <<zip, zmax, zraw, zout>>
  BY DEF WriteMessage, deflateVars
<1>7. UNCHANGED <<size, pos, wpc, err, level>> /\ msgs' \in Nat
  BY <1>1, OutsideFacts DEF WriteMessage
<1>8. LastToken'.g = level /\ LastToken'.n = LastToken.n /\ AtBoundary(LastToken')
  BY <1>2, <1>4
<1> QED
  BY <1>1, <1>4, <1>5, <1>6, <1>7, <1>8, OutsideFacts, StaysOutside

LEMMA WriteServerdataStep ==
  ASSUME IInv, WriteServerdata, UNCHANGED readerVars
  PROVE  Undisturbed /\ Continued
<1> DEFINE t == Tok("serverdata", FALSE, level + 1, 0)
<1>1. /\ wpc \in Running /\ wpc \in {"offline", "done"}
      /\ wire' = Append(wire, t) /\ sent' = sent
  BY DEF WriteServerdata, Running, Outside
<1>2. /\ t \in Token /\ t.k = "serverdata" /\ ~t.z /\ t.g = level + 1 /\ t.n = 0
      /\ AtBoundary(t)
  <2>1. level + 1 \in Nat /\ 0 \in 0..NumItems
    BY <1>1, OutsideFacts
  <2> QED
    BY <2>1, BoundaryToken DEF Kinds
<1> HIDE DEF t
<1>3. MayFollow(LastToken, t)
  BY <1>1, <1>2, OutsideFacts DEF MayFollow, ItemKinds
<1>4. Undisturbed /\ LastToken' = t
  BY <1>1, <1>2, <1>3, Extend
<1>5. /\ UNCHANGED <<zip, zmax, zraw, zout>>
      /\ level' = level + 1 /\ level' # 0 /\ level' \in Nat
  BY <1>1, OutsideFacts DEF WriteServerdata, deflateVars
<1>6. UNCHANGED <<size, pos, room, err, msgs>> /\ wpc' = "full"
  BY DEF WriteServerdata
<1>7. "full" \in Running
  BY DEF Running, Outside
<1>8. LastToken'.g = level + 1 /\ LastToken'.n = 0 /\ AtBoundary(LastToken')
  BY <1>2, <1>4
<1> QED
  BY <1>1, <1>4, <1>5, <1>6, <1>7, <1>8, OutsideFacts, StaysOutside

-----------------------------------------------------------------------------
(* The reader                                                              *)

LEMMA ReaderFacts ==
  ASSUME IInv, rd < sent
  PROVE  /\ rd + 1 \in 1..Len(wire) /\ rd + 1 \in 0..sent /\ sent \in 0..Len(wire)
         /\ wire \in Seq(Token)
         /\ TokenAt(rd + 1) = NextToken
         /\ NextToken \in Token /\ TokenAt(rd) \in Token
         /\ MayFollow(TokenAt(rd), NextToken)
         /\ mode = ModeAfter(TokenAt(rd))
         /\ inflating <=> InflatingAfter(TokenAt(rd))
         /\ clevel = TokenAt(rd).g
         /\ Len(got) = TokenAt(rd).n
<1>1. /\ rd \in Nat /\ rd + 1 \in 1..Len(wire) /\ rd + 1 \in 0..sent
      /\ sent \in 0..Len(wire) /\ wire \in Seq(Token) /\ rd \in 0..Len(wire)
  BY DEF IInv, TypeOK, ChannelTypeOK, ReaderTypeOK
<1>2. (rd + 1) - 1 = rd
  BY <1>1
<1>3. TokenAt(rd + 1) = NextToken
  BY <1>1 DEF TokenAt, NextToken
<1>4. MayFollow(TokenAt(rd), NextToken)
  BY <1>1, <1>2 DEF IInv, WireInv, NextToken
<1>5. NextToken \in Token /\ TokenAt(rd) \in Token
  BY <1>1, <1>3, TokenType DEF IInv, TypeOK
<1> QED
  BY <1>1, <1>3, <1>4, <1>5 DEF IInv, ReaderInv

\* The grammar leaves no token the reader does not expect, but torn ones.
LEMMA NothingUnexpected ==
  ASSUME IInv, rd < sent, NeverTorn
  PROVE  Expected(NextToken)
<1> DEFINE t == NextToken
           a == TokenAt(rd)
<1>1. /\ MayFollow(a, t) /\ t.k \in Kinds
      /\ mode = ModeAfter(a) /\ (inflating <=> InflatingAfter(a))
  BY ReaderFacts DEF Token
<1>2. mode \in Modes
  BY DEF IInv, TypeOK, ReaderTypeOK
<1> HIDE DEF t, a
<1>3. t.k # "torn"
  BY <1>1 DEF MayFollow
<1>4. CASE mode = "default"
  <2>1. t.k \in {"serverdata", "msg", "eop"}
    BY <1>1, <1>3, <1>4 DEF MayFollow, Kinds
  <2> QED
    BY <1>4, <2>1 DEF Expected, t
<1>5. CASE mode = "ready"
  <2>1. /\ t.k \in {"serverdata", "msg", "cfg", "base", "cfgstream", "basestream",
                     "zpacket", "eop", "zend"}
        /\ t.k \in {"zpacket", "eop"} => ~inflating
        /\ t.k = "zend" => inflating
    BY <1>1, <1>3, <1>5 DEF MayFollow, Kinds, AtBoundary
  <2> QED
    BY <1>5, <2>1 DEF Expected, t
<1>6. CASE mode = "configstream"
  <2>1. t.k \in {"scfg", "endcfg"}
    BY <1>1, <1>3, <1>6 DEF MayFollow, Kinds, AtBoundary
  <2> QED
    BY <1>6, <2>1 DEF Expected, t
<1>7. CASE mode = "baselinestream"
  <2>1. t.k \in {"sbase", "endbase"}
    BY <1>1, <1>3, <1>7 DEF MayFollow, Kinds, AtBoundary
  <2> QED
    BY <1>7, <2>1 DEF Expected, t
<1> QED
  BY <1>2, <1>4, <1>5, <1>6, <1>7 DEF Modes

\* What makes a step of the reader follow the log.
LEMMA Advance ==
  ASSUME IInv, rd < sent, rd' = rd + 1, UNCHANGED channel, cerr' = cerr,
         mode' = ModeAfter(NextToken),
         inflating' \in BOOLEAN, inflating' <=> InflatingAfter(NextToken),
         clevel' = NextToken.g,
         got' \in Seq(Nat \X Nat), Len(got') = NextToken.n,
         \A i \in 1..Len(got') : got'[i] = <<clevel', i>>
  PROVE  Undisturbed /\ LastToken' = LastToken
<1>1. TokenAt(rd)' = NextToken
  BY ReaderFacts DEF TokenAt, channel
<1>2. mode' \in Modes /\ clevel' \in Nat
  BY ReaderFacts DEF Modes, ModeAfter, Token
<1>3. ReaderTypeOK' /\ ChannelTypeOK'
  BY <1>2, ReaderFacts DEF ReaderTypeOK, ChannelTypeOK, IInv, TypeOK, channel
<1>4. ReaderInv'
  BY <1>1 DEF ReaderInv, IInv
<1>5. WireInv' /\ SentInv' /\ LastToken' = LastToken
  BY DEF IInv, WireInv, SentInv, MayFollow, LastToken, TokenAt, channel
<1> QED
  BY <1>3, <1>4, <1>5 DEF Undisturbed

\* Tokens that carry no element: nothing is handed over.
LEMMA AdvanceMarker ==
  ASSUME IInv, rd < sent, rd' = rd + 1, UNCHANGED channel, cerr' = cerr,
         NextToken.k \notin Carried \cup {"serverdata"},
         mode' = ModeAfter(NextToken),
         inflating' \in BOOLEAN, inflating' <=> InflatingAfter(NextToken),
         UNCHANGED <<clevel, got>>
  PROVE  Undisturbed /\ LastToken' = LastToken
<1>1. NextToken.g = TokenAt(rd).g /\ NextToken.n = TokenAt(rd).n
  BY ReaderFacts DEF MayFollow, Carried, ItemKinds, Token, Kinds
<1>2. /\ clevel = NextToken.g /\ Len(got) = NextToken.n
      /\ got \in Seq(Nat \X Nat) /\ \A i \in 1..Len(got) : got[i] = <<clevel, i>>
  BY <1>1, ReaderFacts DEF IInv, TypeOK, ReaderTypeOK, ReaderInv
<1> QED
  BY <1>2, Advance

\* Tokens that carry one: it is the next element of the gamestate.
LEMMA AdvanceElement ==
  ASSUME IInv, rd < sent, rd' = rd + 1, UNCHANGED channel, cerr' = cerr,
         NextToken.k \in ItemKinds,
         mode' = ModeAfter(NextToken),
         inflating' \in BOOLEAN, inflating' <=> InflatingAfter(NextToken),
         Deliver, UNCHANGED clevel
  PROVE  Undisturbed /\ LastToken' = LastToken
<1>1. NextToken.g = TokenAt(rd).g /\ NextToken.n = TokenAt(rd).n + 1
  BY ReaderFacts DEF MayFollow, ItemKinds
<1>2. /\ clevel = NextToken.g /\ Len(got) + 1 = NextToken.n
      /\ got \in Seq(Nat \X Nat) /\ \A i \in 1..Len(got) : got[i] = <<clevel, i>>
      /\ clevel \in Nat
  BY <1>1, ReaderFacts DEF IInv, TypeOK, ReaderTypeOK, ReaderInv
<1>3. <<NextToken.g, NextToken.n>> \in Nat \X Nat
  BY <1>2
<1>4. /\ got' \in Seq(Nat \X Nat) /\ Len(got') = Len(got) + 1
      /\ got'[Len(got) + 1] = <<NextToken.g, NextToken.n>>
      /\ \A i \in 1..Len(got) : got'[i] = got[i]
  BY <1>2, <1>3 DEF Deliver
<1>5. \A i \in 1..Len(got') : got'[i] = <<clevel', i>>
  <2>1. Len(got) \in Nat /\ clevel' = clevel
    BY <1>2
  <2> TAKE i \in 1..Len(got')
  <2>2. CASE i \in 1..Len(got)
    BY <1>2, <1>4, <2>1, <2>2
  <2>3. CASE i = Len(got) + 1
    BY <1>2, <1>4, <2>1, <2>3
  <2> QED
    BY <1>4, <2>1, <2>2, <2>3
<1> QED
  BY <1>2, <1>4, <1>5, Advance

\* Every token is read as the grammar has it.
LEMMA ReadTokenStep ==
  ASSUME IInv, rd < sent, ReadToken
  PROVE  Undisturbed /\ LastToken' = LastToken
<1> DEFINE t == NextToken
           a == TokenAt(rd)
<1>1. /\ MayFollow(a, t) /\ t \in Token /\ a \in Token
      /\ mode = ModeAfter(a) /\ (inflating <=> InflatingAfter(a))
      /\ inflating \in BOOLEAN
  BY ReaderFacts DEF IInv, TypeOK, ReaderTypeOK
<1>2. t.k # "serverdata" => t.g = a.g
  BY <1>1 DEF MayFollow
<1>3. mode # "default" => a.g # 0
  <2>1. a.g = 0 => ModeAfter(a) = "default"
    BY DEF ModeAfter
  <2> QED
    BY <1>1, <2>1
<1> HIDE DEF t, a
<1>4. CASE ReadBeforeServerdata
  <2>1. /\ mode = "default" /\ t.k \in {"msg", "eop"} /\ rd' = rd + 1
        /\ UNCHANGED <<channel, mode, inflating, clevel, got, cerr>>
    BY <1>4 DEF ReadBeforeServerdata, Reads, t
  <2>2. a.g = 0
    BY <1>1, <2>1 DEF ModeAfter
  <2>3. ModeAfter(t) = "default" /\ ~InflatingAfter(t) /\ ~inflating
    BY <1>1, <1>2, <2>1, <2>2 DEF ModeAfter, InflatingAfter, MayFollow, AtBoundary
  <2> QED
    BY <1>1, <2>1, <2>3, AdvanceMarker DEF t, Carried, ItemKinds
<1>5. CASE ReadServerdata
  <2>1. /\ t.k = "serverdata" /\ rd' = rd + 1 /\ mode' = "ready"
        /\ clevel' = clevel + 1 /\ got' = <<>>
        /\ UNCHANGED <<channel, inflating, cerr>>
    BY <1>5 DEF ReadServerdata, Reads, t
  <2>2. clevel' = t.g /\ t.g # 0 /\ t.n = 0
    BY <1>1, <2>1, ReaderFacts DEF MayFollow, a, Token
  <2>3. ModeAfter(t) = "ready" /\ ~InflatingAfter(t) /\ ~inflating
    BY <1>1, <2>1, <2>2 DEF ModeAfter, InflatingAfter, MayFollow, AtBoundary
  <2>4. got' \in Seq(Nat \X Nat) /\ Len(got') = 0
    BY <2>1
  <2>5. \A i \in 1..Len(got') : got'[i] = <<clevel', i>>
    BY <2>4
  <2> QED
    BY <1>1, <2>1, <2>2, <2>3, <2>4, <2>5, Advance DEF t
<1>6. CASE ReadMessage
  <2>1. /\ mode = "ready" /\ t.k = "msg" /\ rd' = rd + 1
        /\ UNCHANGED <<channel, mode, inflating, clevel, got, cerr>>
    BY <1>6 DEF ReadMessage, Reads, t
  <2>2. ModeAfter(t) = "ready" /\ ~InflatingAfter(t) /\ ~inflating
    BY <1>1, <1>2, <1>3, <2>1 DEF ModeAfter, InflatingAfter, MayFollow, AtBoundary
  <2> QED
    BY <1>1, <2>1, <2>2, AdvanceMarker DEF t, Carried, ItemKinds
<1>7. CASE ReadElement
  <2>1. /\ mode = "ready" /\ t.k \in {"cfg", "base"} /\ rd' = rd + 1 /\ Deliver
        /\ UNCHANGED <<channel, mode, inflating, clevel, cerr>>
    BY <1>7 DEF ReadElement, Reads, t
  <2>2. ModeAfter(t) = "ready" /\ (InflatingAfter(t) <=> inflating)
    BY <1>1, <1>2, <1>3, <2>1 DEF ModeAfter, InflatingAfter, MayFollow, ItemKinds
  <2> QED
    BY <1>1, <2>1, <2>2, AdvanceElement DEF t, ItemKinds
<1>8. CASE ReadZpacket
  <2>1. /\ mode = "ready" /\ t.k = "zpacket" /\ rd' = rd + 1 /\ inflating'
        /\ inflating' \in BOOLEAN /\ UNCHANGED <<channel, mode, clevel, got, cerr>>
    BY <1>8 DEF ReadZpacket, Reads, t
  <2>2. ModeAfter(t) = "ready" /\ InflatingAfter(t)
    BY <1>1, <1>2, <1>3, <2>1 DEF ModeAfter, InflatingAfter
  <2> QED
    BY <2>1, <2>2, AdvanceMarker DEF t, Carried, ItemKinds
<1>9. CASE ReadZpacketEnd
  <2>1. /\ mode = "ready" /\ t.k = "zend" /\ rd' = rd + 1 /\ ~inflating'
        /\ inflating' \in BOOLEAN /\ UNCHANGED <<channel, mode, clevel, got, cerr>>
    BY <1>9 DEF ReadZpacketEnd, Reads, t
  <2>2. ModeAfter(t) = "ready" /\ ~InflatingAfter(t)
    BY <1>1, <1>2, <1>3, <2>1 DEF ModeAfter, InflatingAfter
  <2> QED
    BY <2>1, <2>2, AdvanceMarker DEF t, Carried, ItemKinds
<1>10. CASE ReadPacketEnd
  <2>1. /\ mode = "ready" /\ t.k = "eop" /\ rd' = rd + 1
        /\ UNCHANGED <<channel, mode, inflating, clevel, got, cerr>>
    BY <1>10 DEF ReadPacketEnd, Reads, t
  <2>2. ModeAfter(t) = "ready" /\ ~InflatingAfter(t) /\ ~inflating
    BY <1>1, <1>2, <1>3, <2>1 DEF ModeAfter, InflatingAfter, MayFollow, AtBoundary
  <2> QED
    BY <1>1, <2>1, <2>2, AdvanceMarker DEF t, Carried, ItemKinds
<1>11. CASE BeginConfigstream
  <2>1. /\ mode = "ready" /\ t.k = "cfgstream" /\ rd' = rd + 1 /\ mode' = "configstream"
        /\ UNCHANGED <<channel, inflating, clevel, got, cerr>>
    BY <1>11 DEF BeginConfigstream, Reads, t
  <2>2. ModeAfter(t) = "configstream" /\ (InflatingAfter(t) <=> inflating)
    BY <1>1, <1>2, <1>3, <2>1 DEF ModeAfter, InflatingAfter, MayFollow
  <2> QED
    BY <1>1, <2>1, <2>2, AdvanceMarker DEF t, Carried, ItemKinds
<1>12. CASE BeginBaselinestream
  <2>1. /\ mode = "ready" /\ t.k = "basestream" /\ rd' = rd + 1
        /\ mode' = "baselinestream"
        /\ UNCHANGED <<channel, inflating, clevel, got, cerr>>
    BY <1>12 DEF BeginBaselinestream, Reads, t
  <2>2. ModeAfter(t) = "baselinestream" /\ (InflatingAfter(t) <=> inflating)
    BY <1>1, <1>2, <1>3, <2>1 DEF ModeAfter, InflatingAfter, MayFollow
  <2> QED
    BY <1>1, <2>1, <2>2, AdvanceMarker DEF t, Carried, ItemKinds
<1>13. CASE ReadStreamedConfigstring
  <2>1. /\ mode = "configstream" /\ t.k = "scfg" /\ rd' = rd + 1 /\ Deliver
        /\ UNCHANGED <<channel, mode, inflating, clevel, cerr>>
    BY <1>13 DEF ReadStreamedConfigstring, Reads, t
  <2>2. ModeAfter(t) = "configstream" /\ (InflatingAfter(t) <=> inflating)
    BY <1>1, <1>2, <2>1 DEF ModeAfter, InflatingAfter, MayFollow, ItemKinds
  <2> QED
    BY <1>1, <2>1, <2>2, AdvanceElement DEF t, ItemKinds
<1>14. CASE ReadStreamedBaseline
  <2>1. /\ mode = "baselinestream" /\ t.k = "sbase" /\ rd' = rd + 1 /\ Deliver
        /\ UNCHANGED <<channel, mode, inflating, clevel, cerr>>
    BY <1>14 DEF ReadStreamedBaseline, Reads, t
  <2>2. ModeAfter(t) = "baselinestream" /\ (InflatingAfter(t) <=> inflating)
    BY <1>1, <1>2, <2>1 DEF ModeAfter, InflatingAfter, MayFollow, ItemKinds
  <2> QED
    BY <1>1, <2>1, <2>2, AdvanceElement DEF t, ItemKinds
<1>15. CASE ReadConfigstreamEnd
  <2>1. /\ mode = "configstream" /\ t.k = "endcfg" /\ rd' = rd + 1 /\ mode' = "ready"
        /\ UNCHANGED <<channel, inflating, clevel, got, cerr>>
    BY <1>15 DEF ReadConfigstreamEnd, Reads, t
  <2>2. ModeAfter(t) = "ready" /\ (InflatingAfter(t) <=> inflating)
    BY <1>1, <1>2, <1>3, <2>1 DEF ModeAfter, InflatingAfter, MayFollow
  <2> QED
    BY <1>1, <2>1, <2>2, AdvanceMarker DEF t, Carried, ItemKinds
<1>16. CASE ReadBaselinestreamEnd
  <2>1. /\ mode = "baselinestream" /\ t.k = "endbase" /\ rd' = rd + 1 /\ mode' = "ready"
        /\ UNCHANGED <<channel, inflating, clevel, got, cerr>>
    BY <1>16 DEF ReadBaselinestreamEnd, Reads, t
  <2>2. ModeAfter(t) = "ready" /\ (InflatingAfter(t) <=> inflating)
    BY <1>1, <1>2, <1>3, <2>1 DEF ModeAfter, InflatingAfter, MayFollow
  <2> QED
    BY <1>1, <2>1, <2>2, AdvanceMarker DEF t, Carried, ItemKinds
<1> QED
  BY <1>4, <1>5, <1>6, <1>7, <1>8, <1>9, <1>10, <1>11, <1>12, <1>13, <1>14, <1>15, <1>16
     DEF ReadToken

LEMMA ClientStep ==
  ASSUME IInv, ClientNext
  PROVE  Undisturbed /\ LastToken' = LastToken
<1>1. rd < sent
  BY DEF ClientNext
<1>2. CASE Expected(NextToken)
  BY <1>1, <1>2, ReadTokenStep DEF ClientNext
<1>3. CASE ~Expected(NextToken)
  <2>1. UNCHANGED <<channel, rd, mode, inflating, clevel, got>> /\ cerr' = TRUE
    BY <1>3 DEF ClientNext, ReadFails
  <2>2. ~NeverTorn
    BY <1>1, <1>3, NothingUnexpected
  <2>3. ChannelTypeOK' /\ ReaderTypeOK'
    BY <2>1 DEF IInv, TypeOK, ChannelTypeOK, ReaderTypeOK, channel
  <2>4. WireInv' /\ SentInv' /\ LastToken' = LastToken
    BY <2>1 DEF IInv, WireInv, SentInv, MayFollow, LastToken, TokenAt, channel
  <2>5. ReaderInv'
    BY <2>1, <2>2 DEF IInv, ReaderInv, TokenAt, channel
  <2> QED
    BY <2>3, <2>4, <2>5 DEF Undisturbed
<1> QED
  BY <1>2, <1>3

-----------------------------------------------------------------------------
(* The system                                                              *)

LEMMA InitialState == Init => IInv
<1> SUFFICES ASSUME Init PROVE IInv
  OBVIOUS
<1> USE DEF Init
<1>1. /\ NumConfigstrings \in Nat /\ NumItems \in Nat /\ PacketSize \in Nat
  BY WireAssumption, WriterAssumption DEF NumItems
<1>2. size \in [Items -> Nat]
  <2>1. /\ size \in [Items -> StringLens \cup BaselineSizes]
        /\ StringLens \cup BaselineSizes \subseteq Nat
    BY WriterAssumption DEF WriterInit
  <2> QED
    BY <2>1
<1>3. wire = <<>> /\ Len(wire) = 0 /\ sent = 0 /\ wire \in Seq(Token)
  BY DEF ChannelInit
<1>4. TypeOK
  <2>1. /\ pos \in 0..NumItems /\ room \in 0..PacketSize
        /\ level \in Nat /\ msgs \in Nat /\ err = "none"
    BY <1>1 DEF WriterInit
  <2>5. zip \in BOOLEAN /\ zmax \in Nat /\ zraw \in Nat /\ zout \in Nat
    BY DEF WriterInit
  <2>6. wpc \in WriterPCs
    BY DEF WriterInit, WriterPCs, Outside
  <2>2. got \in Seq(Nat \X Nat)
    BY DEF ReaderInit
  <2>3. /\ rd = 0 /\ mode \in Modes /\ inflating \in BOOLEAN /\ clevel \in Nat
        /\ cerr \in BOOLEAN /\ reconnects \in Nat
    BY DEF ReaderInit, Modes
  <2> QED
    BY <1>2, <1>3, <2>1, <2>5, <2>6, <2>2, <2>3
       DEF TypeOK, ChannelTypeOK, WriterTypeOK, ReaderTypeOK
<1>5. WireInv /\ SentInv
  BY <1>3 DEF WireInv, SentInv
<1>6. LastToken = NoToken /\ NoToken.g = 0 /\ NoToken.n = 0 /\ AtBoundary(NoToken)
      /\ ModeAfter(NoToken) = "default" /\ ~InflatingAfter(NoToken)
  BY <1>3 DEF LastToken, TokenAt, NoToken, AtBoundary, ModeAfter, InflatingAfter
<1>7. WriterInv /\ DeflateInv
  BY <1>6 DEF WriterInv, DeflateInv, DeflateEnded, WriterInit, Outside, Inside
<1>8. ReaderInv
  BY <1>3, <1>6 DEF ReaderInv, ReaderInit, TokenAt
<1> QED
  BY <1>4, <1>5, <1>7, <1>8 DEF IInv

LEMMA ServerStep ==
  ASSUME IInv, Server
  PROVE  IInv'
<1>1. ServerNext /\ UNCHANGED readerVars /\ reconnects' = reconnects
  BY DEF Server
<1>2. Undisturbed /\ Continued
  BY <1>1, BeginWriteGamestateStep, OpenConfigstreamStep, SkipConfigstringsStep,
     WriteConfigstringStep, ConfigstringsFullStep, CloseConfigstreamStep,
     OpenBaselinestreamStep, SkipBaselinesStep, WriteBaselineStep, RefuseBaselineStep,
     BaselinesFullStep, CloseBaselinestreamStep, UncheckedWriteFailsStep,
     EndWriteGamestateStep, EndZpacketFailsStep, FlushStep, WriteMessageStep,
     WriteServerdataStep DEF ServerNext, WriterStep
<1> QED
  BY <1>1, <1>2 DEF IInv, TypeOK, Undisturbed, Continued

LEMMA ReconnectStep ==
  ASSUME IInv, Reconnect
  PROVE  IInv'
<1>1. /\ NumItems \in Nat /\ PacketSize \in Nat
  BY WriterFacts, WriterAssumption
<1>2. wire' = <<>> /\ Len(wire') = 0 /\ sent' = 0 /\ wire' \in Seq(Token)
  BY DEF Reconnect
<1>3. TypeOK'
  <2>1. /\ pos' \in 0..NumItems /\ room' \in 0..PacketSize
        /\ level' \in Nat /\ msgs' \in Nat /\ err' = "none"
    BY <1>1 DEF Reconnect
  <2>5. zip' \in BOOLEAN /\ zmax' \in Nat /\ zraw' \in Nat /\ zout' \in Nat
    BY DEF Reconnect
  <2>6. wpc' \in WriterPCs
    BY DEF Reconnect, WriterPCs, Outside
  <2>2. got' \in Seq(Nat \X Nat)
    BY DEF Reconnect
  <2>3. /\ rd' = 0 /\ mode' \in Modes /\ inflating' \in BOOLEAN /\ clevel' \in Nat
        /\ cerr' \in BOOLEAN
    BY DEF Reconnect, Modes
  <2>4. size' \in [Items -> Nat] /\ reconnects' \in Nat
    BY DEF Reconnect, IInv, TypeOK, WriterTypeOK
  <2> QED
    BY <1>2, <2>1, <2>5, <2>6, <2>2, <2>3, <2>4
       DEF TypeOK, ChannelTypeOK, WriterTypeOK, ReaderTypeOK
<1>4. WireInv' /\ SentInv'
  BY <1>2 DEF WireInv, SentInv
<1>5. /\ LastToken' = NoToken /\ NoToken.g = 0 /\ NoToken.n = 0 /\ AtBoundary(NoToken)
      /\ ModeAfter(NoToken) = "default" /\ ~InflatingAfter(NoToken)
  BY <1>2 DEF LastToken, TokenAt, NoToken, AtBoundary, ModeAfter, InflatingAfter
<1>6. WriterInv' /\ DeflateInv'
  BY <1>5 DEF Reconnect, WriterInv, DeflateInv, DeflateEnded, Outside, Inside, IInv
<1>7. TokenAt(rd)' = NoToken
  BY <1>2 DEF Reconnect, TokenAt
<1>8. ReaderInv'
  BY <1>2, <1>5, <1>7 DEF Reconnect, ReaderInv
<1> QED
  BY <1>3, <1>4, <1>6, <1>8 DEF IInv

LEMMA Stutter ==
  ASSUME IInv, UNCHANGED <<writerVars, reconnects>>, Undisturbed, LastToken' = LastToken
  PROVE  IInv'
<1>1. UNCHANGED writerVars /\ reconnects' = reconnects
  OBVIOUS
<1>2. TypeOK'
  BY <1>1 DEF IInv, TypeOK, WriterTypeOK, Undisturbed, writerVars
<1>3. WriterInv'
  BY <1>1 DEF IInv, WriterInv, writerVars, OpenMode
<1>4. DeflateInv'
  BY <1>1 DEF IInv, DeflateInv, DeflateEnded, MarkersToCome, writerVars
<1> QED
  BY <1>2, <1>3, <1>4 DEF IInv, Undisturbed

LEMMA NextStep == IInv /\ [Next]_vars => IInv'
<1> SUFFICES ASSUME IInv, [Next]_vars PROVE IInv'
  OBVIOUS
<1>1. CASE Server
  BY <1>1, ServerStep
<1>2. CASE Client
  BY <1>2, ClientStep, Stutter DEF Client
<1>3. CASE Reconnect
  BY <1>3, ReconnectStep
<1>4. CASE UNCHANGED vars
  BY <1>4, Keep, Stutter DEF vars
<1> QED
  BY <1>1, <1>2, <1>3, <1>4 DEF Next

(***************************************************************************)
(* The invariant holds in every reachable state.                           *)
(***************************************************************************)
THEOREM Invariance == Spec => []IInv
BY InitialState, NextStep, PTL DEF Spec

(***************************************************************************)
(* Type correctness: in particular no packet is ever written beyond its    *)
(* size, whatever was deflated into it.                                    *)
(***************************************************************************)
THEOREM TypeCorrectness == Spec => []TypeOK
<1>1. IInv => TypeOK
  BY DEF IInv
<1> QED
  BY <1>1, Invariance, PTL

(***************************************************************************)
(* The client application is handed a prefix of the gamestate, each        *)
(* element once, whatever the packets, zpackets, errors and reconnects.    *)
(***************************************************************************)
THEOREM ElementsInOrder == Spec => []InOrderOnce
<1>1. IInv => InOrderOnce
  <2> SUFFICES ASSUME IInv PROVE InOrderOnce
    OBVIOUS
  <2>1. TokenAt(rd) \in Token
    BY TokenType DEF IInv, TypeOK, ChannelTypeOK, ReaderTypeOK
  <2> QED
    BY <2>1, WriterFacts DEF InOrderOnce, IInv, ReaderInv, Token
<1> QED
  BY <1>1, Invariance, PTL

(***************************************************************************)
(* When write_gamestate returned SUCCESS a client that read everything has *)
(* the whole gamestate of the current serverdata.                          *)
(***************************************************************************)
THEOREM Completeness == Spec => []SuccessIsComplete
<1>1. IInv => SuccessIsComplete
  BY DEF SuccessIsComplete, IInv, WriterInv, ReaderInv, LastToken
<1> QED
  BY <1>1, Invariance, PTL

(***************************************************************************)
(* Where no message can break off every packet can be parsed.              *)
(***************************************************************************)
THEOREM Parsable ==
  ASSUME NeverTorn
  PROVE  Spec => []NeverConfused
<1>1. IInv => NeverConfused
  BY DEF IInv, ReaderInv, NeverConfused
<1> QED
  BY <1>1, Invariance, PTL

(***************************************************************************)
(* No deflate stream outlives the call that began it but in one way out of *)
(* it, where a baseline was refused that the protocol cannot express:      *)
(* neither a full packet, nor the end of the gamestate, nor a failure of   *)
(* deflate leaves one behind, and no write that was not asked for fails.   *)
(***************************************************************************)
THEOREM DeflateIsEnded == Spec => []DeflateEnded
<1>1. IInv => DeflateEnded
  BY DEF IInv, DeflateInv
<1> QED
  BY <1>1, Invariance, PTL

-----------------------------------------------------------------------------
(* Every element counted as written has a token                            *)

\* Element i has a message of its own among the first j tokens of the level
\* that is current there.
Present(i, j) == \E l \in 1..j : /\ wire[l].g = TokenAt(j).g
                                 /\ wire[l].n = i
                                 /\ wire[l].k \in ItemKinds

Accounted(j) == \A i \in 1..TokenAt(j).n : Present(i, j)

\* One more token keeps the account.
LEMMA AccountExtends ==
  ASSUME IInv, NeverTorn, NEW j \in 1..Len(wire), Accounted(j - 1)
  PROVE  Accounted(j)
<1> DEFINE a == TokenAt(j - 1)
           b == wire[j]
<1>1. /\ MayFollow(a, b) /\ b = TokenAt(j) /\ a \in Token /\ b \in Token
      /\ j - 1 \in 0..Len(wire) /\ j - 1 \in Nat /\ j \in Nat
  <2>1. wire \in Seq(Token) /\ j - 1 \in 0..Len(wire) /\ j # 0
    BY DEF IInv, TypeOK, ChannelTypeOK
  <2>2. a \in Token
    BY <2>1, TokenType DEF IInv, TypeOK
  <2> QED
    BY <2>1, <2>2 DEF IInv, WireInv, TokenAt
<1>2. j \in 1..j /\ \A l \in 1..(j - 1) : l \in 1..j
  BY <1>1
<1>3. b.k # "torn" /\ b.k \in Kinds /\ a.n \in Nat /\ b.n \in Nat
  BY <1>1, WriterFacts DEF MayFollow, Token
<1>4. \A i \in 1..a.n : b.g = a.g => Present(i, j)
  BY <1>1, <1>2 DEF Accounted, Present
<1> HIDE DEF a, b
<1>5. CASE b.k = "serverdata"
  <2>1. b.n = 0
    BY <1>1, <1>5 DEF MayFollow
  <2> QED
    BY <1>1, <2>1 DEF Accounted
<1>6. CASE b.k \in ItemKinds
  <2>1. b.n = a.n + 1 /\ b.g = a.g
    BY <1>1, <1>6 DEF MayFollow, ItemKinds
  <2>2. Present(b.n, j)
    <3>1. wire[j].g = TokenAt(j).g /\ wire[j].n = b.n /\ wire[j].k \in ItemKinds
      BY <1>1, <1>6 DEF b
    <3> QED
      BY <1>2, <3>1 DEF Present
  <2>3. \A i \in 1..b.n : i \in 1..a.n \/ i = b.n
    BY <1>3, <2>1
  <2> QED
    BY <1>1, <1>4, <2>1, <2>2, <2>3 DEF Accounted
<1>7. CASE b.k \notin ItemKinds \cup {"serverdata"}
  <2>1. b.n = a.n /\ b.g = a.g
    BY <1>1, <1>3, <1>7 DEF MayFollow, ItemKinds, Kinds
  <2> QED
    BY <1>1, <1>4, <2>1 DEF Accounted
<1> QED
  BY <1>5, <1>6, <1>7

\* From the first token on: a first one that breaks the account would be one
\* that does not extend it.
LEMMA AllAccounted ==
  ASSUME IInv, NeverTorn
  PROVE  Accounted(Len(wire))
<1>1. Len(wire) \in Nat
  BY DEF IInv, TypeOK, ChannelTypeOK
<1>2. Accounted(0)
  BY DEF Accounted, TokenAt, NoToken
<1>3. PICK S : S = {j \in 0..Len(wire) : ~Accounted(j)}
  OBVIOUS
<1>4. S = {}
  <2> SUFFICES ASSUME S # {} PROVE FALSE
    OBVIOUS
  <2>1. S \in SUBSET Nat
    BY <1>1, <1>3
  <2>2. PICK j \in S : \A i \in S : j <= i
    BY <2>1, LeastElement
  <2>3. j \in 0..Len(wire) /\ ~Accounted(j) /\ j # 0
    BY <1>2, <1>3, <2>2
  <2>4. j \in 1..Len(wire) /\ j - 1 \in 0..Len(wire) /\ ~(j <= j - 1)
    BY <1>1, <2>3
  <2>5. Accounted(j - 1)
    BY <1>3, <2>2, <2>4
  <2> QED
    BY <2>3, <2>4, <2>5, AccountExtends
<1> QED
  BY <1>1, <1>3, <1>4

(***************************************************************************)
(* q2proto_server.h:274: when write_gamestate reports SUCCESS every        *)
(* element of the gamestate has a message in the log since serverdata,     *)
(* where no message can break off.                                         *)
(***************************************************************************)
THEOREM SuccessIsHonest ==
  ASSUME NeverTorn
  PROVE  Spec => []SuccessIsWritten
<1>1. IInv => SuccessIsWritten
  <2> SUFFICES ASSUME IInv, wpc = "done" PROVE SuccessIsWritten
    BY DEF SuccessIsWritten
  <2>1. LastToken.n = NumItems /\ LastToken.g = level
    BY DEF IInv, WriterInv
  <2>2. \A i \in Items : Present(i, Len(wire))
    BY <2>1, AllAccounted DEF Accounted, Items, LastToken
  <2> QED
    BY <2>1, <2>2 DEF SuccessIsWritten, Present, LastToken
<1> QED
  BY <1>1, Invariance, PTL

-----------------------------------------------------------------------------
(* What a step does to gamestate_pos                                       *)

\* A step that moves it has put an element into the packet, or has ended.
Moves ==
  pos' # pos =>
    \/ pos' = pos + 1 /\ wire' # wire /\ LastToken'.n = pos' /\ LastToken'.k \in ItemKinds
    \/ pos' = 0 /\ (pos = NumItems \/ wpc' = "offline")

\* An element written as a token of its own.
LEMMA MovesByPiece ==
  ASSUME IInv, NEW n, NEW k \in ItemKinds, WriteTo(n, Piece(k, pos + 1)), pos < NumItems,
         pos' = pos + 1
  PROVE  Moves
<1> DEFINE t == Piece(k, pos + 1)
<1>1. t \in Token /\ t.k = k /\ t.n = pos + 1
  <2>1. pos + 1 \in 0..NumItems /\ k \in Kinds
    BY WriterFacts DEF ItemKinds, Kinds
  <2> QED
    BY <2>1, PieceType DEF Piece, Tok
<1>2. wire' = Append(wire, t)
  BY DEF WriteTo
<1> HIDE DEF t
<1>3. wire \in Seq(Token)
  BY DEF IInv, TypeOK, ChannelTypeOK
<1>4. /\ Len(wire') = Len(wire) + 1 /\ wire'[Len(wire) + 1] = t
      /\ Len(wire) \in Nat
  BY <1>1, <1>2, <1>3, AppendToken
<1>5. wire' # wire
  BY <1>4
<1>6. LastToken' = t
  BY <1>4 DEF LastToken, TokenAt
<1> QED
  BY <1>1, <1>5, <1>6 DEF Moves

LEMMA ServerMoves ==
  ASSUME IInv, NeverTorn, ServerNext
  PROVE  Moves
<1>1. CASE WriteConfigstring
  <2>1. (IF Streamed THEN "scfg" ELSE "cfg") \in ItemKinds
    BY DEF ItemKinds
  <2>2. pos < NumItems
    BY <1>1, WriterFacts DEF WriteConfigstring
  <2> QED
    BY <1>1, <2>1, <2>2, MovesByPiece DEF WriteConfigstring
<1>2. CASE WriteBaseline
  <2>1. (IF Streamed THEN "sbase" ELSE "base") \in ItemKinds
    BY DEF ItemKinds
  <2> QED
    BY <1>2, <2>1, MovesByPiece DEF WriteBaseline
<1>3. CASE RefuseBaseline
  BY <1>3 DEF RefuseBaseline, NeverTorn, Moves
<1>4. CASE EndWriteGamestate \/ EndZpacketFails
  <2>1. pos' = EndedPos
    BY <1>4 DEF EndWriteGamestate, EndZpacketFails
  <2> QED
    BY <2>1 DEF EndedPos, Moves, IInv, WriterInv
<1>5. CASE pos' = pos
  BY <1>5 DEF Moves
<1> QED
  BY <1>1, <1>2, <1>3, <1>4, <1>5 DEF ServerNext, WriterStep, BeginWriteGamestate,
     OpenConfigstream, SkipConfigstrings, ConfigstringsFull, CloseConfigstream,
     OpenBaselinestream, SkipBaselines, BaselinesFull, CloseBaselinestream,
     UncheckedWriteFails, WriteFails, Flush, WriteMessage, WriteServerdata

LEMMA NextMoves ==
  ASSUME IInv, NeverTorn, [Next]_vars
  PROVE  Moves
<1>1. CASE Server
  BY <1>1, ServerMoves DEF Server
<1>2. CASE Client
  BY <1>2 DEF Client, writerVars, Moves
<1>3. CASE Reconnect
  BY <1>3 DEF Reconnect, Moves
<1>4. CASE UNCHANGED vars
  BY <1>4 DEF vars, writerVars, Moves
<1> QED
  BY <1>1, <1>2, <1>3, <1>4 DEF Next

(***************************************************************************)
(* gamestate_pos never runs ahead of the packet: it moves by one, over an  *)
(* element just written, and back to 0 only when all is written or the     *)
(* connection is gone; where no message can break off.                     *)
(***************************************************************************)
THEOREM PosIsWritten ==
  ASSUME NeverTorn
  PROVE  Spec => PosFollowsWire
<1>1. IInv /\ [Next]_vars => [Moves]_vars
  BY NextMoves
<1> QED
  BY <1>1, Invariance, PTL DEF Spec, PosFollowsWire, Moves

-----------------------------------------------------------------------------
(* The abstract specification                                              *)

\* Delivering an element is what the abstract specification allows.
LEMMA DeliverIsHandOver ==
  ASSUME IInv, rd < sent, NextToken.k \in ItemKinds, Deliver, UNCHANGED clevel,
         mode # "default"
  PROVE  Transfer!HandOver
<1>1. /\ MayFollow(TokenAt(rd), NextToken)
      /\ NextToken \in Token /\ TokenAt(rd) \in Token
      /\ mode = ModeAfter(TokenAt(rd)) /\ clevel = TokenAt(rd).g
      /\ Len(got) = TokenAt(rd).n
  BY ReaderFacts
<1>2. NextToken.g = clevel /\ NextToken.n = Len(got) + 1
  BY <1>1 DEF MayFollow, ItemKinds
<1>3. clevel > 0
  BY <1>1 DEF ModeAfter, Token
<1>4. Len(got) < NumItems
  BY <1>1, <1>2, WriterFacts DEF Token
<1> QED
  BY <1>2, <1>3, <1>4 DEF Transfer!HandOver, Deliver

LEMMA ClientRefines ==
  ASSUME IInv, ClientNext
  PROVE  [Transfer!Next]_<<clevel, got>>
<1>1. rd < sent
  BY DEF ClientNext
<1>2. CASE Deliver /\ NextToken.k \in ItemKinds /\ mode # "default" /\ clevel' = clevel
  BY <1>1, <1>2, DeliverIsHandOver DEF Transfer!Next
<1>3. CASE ReadServerdata
  BY <1>3 DEF ReadServerdata, Transfer!Next, Transfer!StartLevel
<1>4. CASE UNCHANGED <<clevel, got>>
  BY <1>4
<1> QED
  BY <1>2, <1>3, <1>4 DEF ClientNext, ReadFails, ReadToken, Reads, ReadBeforeServerdata,
     ReadMessage, ReadElement, ReadZpacket, ReadZpacketEnd, ReadPacketEnd,
     BeginConfigstream, ReadStreamedConfigstring, ReadConfigstreamEnd,
     BeginBaselinestream, ReadStreamedBaseline, ReadBaselinestreamEnd, ItemKinds

LEMMA NextRefines ==
  IInv /\ [Next]_vars => [Transfer!Next]_<<clevel, got>>
<1> SUFFICES ASSUME IInv, [Next]_vars PROVE [Transfer!Next]_<<clevel, got>>
  OBVIOUS
<1>1. CASE Server
  BY <1>1 DEF Server, readerVars
<1>2. CASE Client
  BY <1>2, ClientRefines DEF Client
<1>3. CASE Reconnect
  BY <1>3 DEF Reconnect, Transfer!Next, Transfer!Disconnect
<1>4. CASE UNCHANGED vars
  BY <1>4 DEF vars, readerVars
<1> QED
  BY <1>1, <1>2, <1>3, <1>4 DEF Next

(***************************************************************************)
(* GamestateSystem implements GamestateTransfer: to the application the    *)
(* packets, the zpackets and the resumed calls are invisible.              *)
(***************************************************************************)
THEOREM Refinement == Spec => TransferSpec
<1>1. Init => Transfer!Init
  BY DEF Init, ReaderInit, Transfer!Init
<1> QED
  BY <1>1, NextRefines, Invariance, PTL DEF Spec, TransferSpec, Transfer!Spec
=============================================================================
