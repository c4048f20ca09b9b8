--------------------------- MODULE DownloadServer ---------------------------
(***************************************************************************)
(* Stateful downloads on the server: q2proto_server_download_begin, _data, *)
(* _finish, _abort and _end for every protocol, the deflate stream they    *)
(* keep, and the application that calls them and writes the messages.      *)
(*                                                                         *)
(* Byte i of the file is the number i.  A compressed message is given by   *)
(* the bytes that went into it; its size is that of the deflated data.     *)
(* One call of the library is one action.                                  *)
(***************************************************************************)
EXTENDS Integers, Sequences

CONSTANTS
  Protocol,      \* "vanilla", "r1q2" or "q2pro" (which is Q2rePRO as well)
  EnableDeflate, \* features.enable_deflate
  RawSupported,  \* features.download_compress_raw
  CompressModes, \* q2proto_download_compress_t values the application uses
  TotalSizes,    \* sizes of the files
  PacketRooms,   \* values of packet_remaining
  Ratios,        \* how many bytes go into one deflated byte
  MaxInt16,      \* INT16_MAX, smaller where a run needs to reach it
  SizeModulus,   \* SIZE_MAX + 1, smaller where a run needs to reach it
  MayRetry,      \* the application calls _data again after an error
  MaxDownloads,  \* bound: files requested
  MaxWire        \* bound: messages on their way

ASSUME DownloadAssumption ==
  /\ Protocol \in {"vanilla", "r1q2", "q2pro"}
  /\ EnableDeflate \in BOOLEAN /\ RawSupported \in BOOLEAN
  /\ CompressModes \subseteq {"never", "auto", "raw"}
  /\ "raw" \in CompressModes => Protocol = "q2pro"
  /\ TotalSizes \subseteq Nat /\ PacketRooms \subseteq Nat
  /\ Ratios \subseteq Nat \ {0}
  /\ MaxInt16 \in Nat \ {0} /\ SizeModulus \in Nat \ {0}
  /\ MayRetry \in BOOLEAN
  /\ MaxDownloads \in Nat /\ MaxWire \in Nat

VARIABLES
  phase,       \* where the application is with the download; see Phases
  total,       \* state->total_size
  transferred, \* state->transferred
  compress,    \* state->compress
  valid,       \* state->deflate_io_valid
  zio,         \* the deflate I/O argument: "none", "open", or "broken" by an error
  zmax,        \* max_deflated it was begun with
  data,        \* the application's data pointer: bytes of the file consumed
  remaining,   \* the application's count of remaining bytes
  wire,        \* download messages on their way to the client
  downloads    \* files requested so far

serverVars == <<phase, total, transferred, compress, valid, zio, zmax, data,
                remaining, wire, downloads>>

(***************************************************************************)
(* "idle"  no download state   "active"  begun, _data may be called        *)
(* "failed"  a call returned an error   "complete", "stopped"  the last    *)
(* message is written, _end is still to be called   "overrun"  the message *)
(* did not fit the packet                                                  *)
(***************************************************************************)
Phases == {"idle", "active", "failed", "complete", "stopped", "overrun"}

DOWNLOAD_SIZE  == 4
ZDOWNLOAD_SIZE == IF Protocol = "r1q2" THEN 6 ELSE 4
OUTPUT_MARGIN  == 16

Least(a, b) == IF a < b THEN a ELSE b
Monus(a, b) == IF a > b THEN a - b ELSE 0

\* n bytes of the file, from where data points to
Chunk(n) == [i \in 1..n |-> data + i]

\* A download message.  starts, ends: the data begins, ends a deflate stream.
Message(zipped, bytes, size, percent, starts, ends) ==
  [zipped |-> zipped, bytes |-> bytes, size |-> size, percent |-> percent,
   starts |-> starts, ends |-> ends]

AbortMessage(percent) == Message(FALSE, <<>>, -1, percent, FALSE, FALSE)

\* mutant: clamped one too low
PercentBelow(sent) == Least((100 * sent) \div total, 99)

\* (100 * transferred) / total_size, computed in size_t
Percent(sent) == ((100 * sent) % SizeModulus) \div total

ServerInit ==
  /\ phase = "idle"
  /\ total = 0 /\ transferred = 0
  /\ compress = "none"
  /\ valid = FALSE
  /\ zio = "none"
  /\ zmax = 0
  /\ data = 0 /\ remaining = 0
  /\ wire = <<>>
  /\ downloads = 0

-----------------------------------------------------------------------------
CompressionOf(mode, size) ==
  IF size > 0 /\ mode = "raw" THEN "raw"
  ELSE IF size > 0 /\ mode = "auto" /\ EnableDeflate /\ Protocol # "vanilla"
    THEN "deflate"
  ELSE "none"

\* An error from _begin makes the application send an abort message.
DownloadBegin ==
  /\ phase = "idle"
  /\ downloads < MaxDownloads
  /\ downloads' = downloads + 1
  /\ \E size \in TotalSizes, mode \in CompressModes :
       /\ total' = size
       /\ data' = 0 /\ remaining' = size
       /\ transferred' = 0
       /\ IF size > 0 /\ mode = "raw" /\ ~RawSupported
            THEN /\ phase' = "stopped"
                 /\ compress' = "none"
                 /\ wire' = Append(wire, AbortMessage(0))
            ELSE /\ phase' = "active"
                 /\ compress' = CompressionOf(mode, size)
                 /\ UNCHANGED wire
  /\ valid' = FALSE
  /\ UNCHANGED <<zio, zmax>>

\* The application may ask for more data.
MayCall ==
  /\ phase = "active" \/ (phase = "failed" /\ MayRetry)
  /\ Len(wire) < MaxWire

\* mutant: adds up the sizes of the messages, which are those of deflated data
CompleteStructBySize(left, room, zipped, bytes, size, starts, ends) ==
  /\ transferred' = transferred + size
  /\ phase' = IF left = 0 THEN "complete" ELSE "active"
  /\ wire' = Append(wire, Message(zipped, bytes, size, Least(Percent(total - left), 100),
                                  starts, ends))

\* mutant: the percentage counts the message twice
CompleteStructAhead(left, room, zipped, bytes, size, starts, ends) ==
  /\ transferred' = total - left
  /\ phase' = IF left = 0 THEN "complete" ELSE "active"
  /\ wire' = Append(wire, Message(zipped, bytes, size,
                                  Least(Percent(total - left + Len(bytes)), 100),
                                  starts, ends))

(***************************************************************************)
(* q2proto_download_common_complete_struct, and the application writes the *)
(* message, or fails to because there is no room for it.                   *)
(***************************************************************************)
CompleteStruct(left, room, zipped, bytes, size, starts, ends) ==
  /\ transferred' = total - left
  /\ IF size + (IF zipped THEN ZDOWNLOAD_SIZE ELSE DOWNLOAD_SIZE) > room
       THEN /\ phase' = "overrun"
            /\ UNCHANGED wire
       ELSE /\ phase' = IF transferred' = total THEN "complete" ELSE "active"
            /\ wire' = Append(wire, Message(zipped, bytes, size,
                                            Least(Percent(total - left), 100),
                                            starts, ends))

\* mutants: the caller's pointer is not updated; the header is counted as
\* file data
ConsumeNoData(n) ==
  /\ data' = data
  /\ remaining' = remaining - n

ConsumeHeader(n) ==
  /\ data' = data + n
  /\ remaining' = Monus(remaining, n + DOWNLOAD_SIZE)

Consume(n) ==
  /\ data' = data + n
  /\ remaining' = remaining - n

\* mutant: the message's header is forgotten
PlainDataNoHeader ==
  /\ MayCall
  /\ remaining > 0
  /\ \E room \in PacketRooms :
       /\ room >= DOWNLOAD_SIZE
       /\ compress = "none" \/ room <= ZDOWNLOAD_SIZE
       /\ LET n == Least(room, remaining) IN
            /\ Consume(n)
            /\ CompleteStruct(remaining - n, room, FALSE, Chunk(n), n, FALSE, FALSE)
  /\ UNCHANGED <<total, compress, valid, zio, zmax, downloads>>

\* q2proto_download_common_data; below 4 bytes nothing happens
PlainData ==
  /\ MayCall
  /\ remaining > 0
  /\ \E room \in PacketRooms :
       /\ room >= DOWNLOAD_SIZE
       /\ compress = "none" \/ room <= ZDOWNLOAD_SIZE
       /\ LET n == Least(Least(room - DOWNLOAD_SIZE, remaining), MaxInt16) IN
            /\ Consume(n)
            /\ CompleteStruct(remaining - n, room, FALSE, Chunk(n), n, FALSE, FALSE)
  /\ UNCHANGED <<total, compress, valid, zio, zmax, downloads>>

\* Q2PROTO_DOWNLOAD_DATA_RAW_DEFLATE: the file is a deflate stream already
RawData ==
  /\ MayCall
  /\ remaining > 0
  /\ compress = "raw"
  /\ \E room \in PacketRooms :
       /\ room > ZDOWNLOAD_SIZE
       /\ LET n == Least(Least(room - ZDOWNLOAD_SIZE, remaining), MaxInt16) IN
            /\ Consume(n)
            /\ CompleteStruct(remaining - n, room, TRUE, Chunk(n), n,
                              data = 0, n = remaining)
  /\ UNCHANGED <<total, compress, valid, zio, zmax, downloads>>

-----------------------------------------------------------------------------
(***************************************************************************)
(* Deflating.  q2protoio_write_raw takes as much as fits: at best, the     *)
(* output is smaller than the input by one of the ratios.                  *)
(***************************************************************************)
Deflations(max) ==
  {LET n == Least(k * Monus(max, OUTPUT_MARGIN), remaining)
   IN  [consumed |-> n, size |-> (n + k - 1) \div k] : k \in Ratios}

MaxCompressed(room) == Least(room - ZDOWNLOAD_SIZE, MaxInt16)

\* mutant: deflate_io_valid stays set
R1q2DataStillValid ==
  /\ MayCall
  /\ remaining > 0
  /\ compress = "deflate" /\ Protocol = "r1q2"
  /\ \E room \in PacketRooms :
       /\ room > ZDOWNLOAD_SIZE
       /\ \E d \in Deflations(MaxCompressed(room)) :
            /\ Consume(d.consumed)
            /\ CompleteStruct(remaining - d.consumed, room, TRUE,
                              Chunk(d.consumed), d.size, TRUE, TRUE)
       /\ zmax' = MaxCompressed(room)
  /\ valid' = TRUE
  /\ zio' = "none"
  /\ UNCHANGED <<total, compress, downloads>>

\* r1q2_download_data: every message is a deflate stream of its own
R1q2Data ==
  /\ MayCall
  /\ remaining > 0
  /\ compress = "deflate" /\ Protocol = "r1q2"
  /\ \E room \in PacketRooms :
       /\ room > ZDOWNLOAD_SIZE
       /\ \E d \in Deflations(MaxCompressed(room)) :
            /\ Consume(d.consumed)
            /\ CompleteStruct(remaining - d.consumed, room, TRUE,
                              Chunk(d.consumed), d.size, TRUE, TRUE)
       /\ zmax' = MaxCompressed(room)
  /\ valid' = FALSE
  /\ zio' = "none"
  /\ UNCHANGED <<total, compress, downloads>>

\* q2pro_download_data, q2repro_download_data: one stream for all messages;
\* the size its output is limited to stays that of the first packet
Q2proData ==
  /\ MayCall
  /\ remaining > 0
  /\ compress = "deflate" /\ Protocol = "q2pro"
  /\ zio # "broken"
  /\ \E room \in PacketRooms :
       /\ room > ZDOWNLOAD_SIZE
       /\ zmax' = IF valid THEN zmax ELSE MaxCompressed(room)
       /\ \E d \in Deflations(zmax') :
            LET finished == d.consumed = remaining IN
              /\ Consume(d.consumed)
              /\ CompleteStruct(remaining - d.consumed, room, TRUE,
                                Chunk(d.consumed), d.size, ~valid, finished)
              /\ valid' = ~finished
              /\ zio' = IF finished THEN "none" ELSE "open"
  /\ UNCHANGED <<total, compress, downloads>>

\* q2protoio_deflate_begin fails.  R1Q2 has ended the stream of an earlier
\* call by then, but not marked it so.
DeflateBeginFails ==
  /\ MayCall
  /\ remaining > 0
  /\ compress = "deflate"
  /\ \E room \in PacketRooms : room > ZDOWNLOAD_SIZE
  /\ Protocol = "q2pro" => ~valid
  /\ phase' = "failed"
  /\ zio' = "none"
  /\ UNCHANGED <<total, transferred, compress, valid, zmax, data, remaining, wire,
                 downloads>>

\* q2protoio_write_raw fails, or q2protoio_deflate_get_data does when the bytes
\* are consumed already.
DeflateFails ==
  /\ MayCall
  /\ remaining > 0
  /\ compress = "deflate"
  /\ \E room \in PacketRooms :
       /\ room > ZDOWNLOAD_SIZE
       /\ zmax' = IF valid /\ Protocol = "q2pro" THEN zmax ELSE MaxCompressed(room)
       /\ \E n \in {0} \cup {d.consumed : d \in Deflations(zmax')} : Consume(n)
  /\ valid' = TRUE
  /\ zio' = "broken"
  /\ phase' = "failed"
  /\ UNCHANGED <<total, transferred, compress, wire, downloads>>

-----------------------------------------------------------------------------
\* mutant: percent keeps the 0 of the memset
DownloadFinishUnset ==
  /\ phase = "active"
  /\ total = 0
  /\ wire' = Append(wire, Message(FALSE, <<>>, 0, 0, FALSE, FALSE))
  /\ phase' = "complete"
  /\ UNCHANGED <<total, transferred, compress, valid, zio, zmax, data, remaining,
                 downloads>>

\* q2proto_server_download_finish: nothing needs to be transferred
DownloadFinish ==
  /\ phase = "active"
  /\ total = 0
  /\ wire' = Append(wire, Message(FALSE, <<>>, 0, 100, FALSE, FALSE))
  /\ phase' = "complete"
  /\ UNCHANGED <<total, transferred, compress, valid, zio, zmax, data, remaining,
                 downloads>>

\* q2proto_server_download_abort, after an error or because the client asked
DownloadAbort ==
  /\ phase \in {"active", "failed"}
  /\ wire' = Append(wire, AbortMessage(IF total = 0 THEN 0 ELSE Percent(transferred)))
  /\ phase' = "stopped"
  /\ UNCHANGED <<total, transferred, compress, valid, zio, zmax, data, remaining,
                 downloads>>

\* mutant: the stream is not ended
EndDeflateNot == UNCHANGED <<valid, zio>>

\* q2proto_server_download_end
EndDeflate ==
  /\ valid' = FALSE
  /\ zio' = IF valid THEN "none" ELSE zio

DownloadEnd ==
  /\ phase \in {"complete", "stopped"}
  /\ phase' = "idle"
  /\ EndDeflate
  /\ UNCHANGED <<total, transferred, compress, zmax, data, remaining, wire, downloads>>

DataCall ==
  \/ PlainData \/ RawData \/ R1q2Data \/ Q2proData

DataFails ==
  \/ DeflateBeginFails \/ DeflateFails

ServerNext ==
  \/ DataCall \/ DataFails
  \/ DownloadFinish \/ DownloadAbort \/ DownloadEnd
=============================================================================
