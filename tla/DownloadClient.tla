--------------------------- MODULE DownloadClient ---------------------------
(***************************************************************************)
(* Reading download messages: svc_download, the zdownload messages of R1Q2 *)
(* and those of Q2PRO/Q2rePRO, whose inflate stream is kept in the context *)
(* from message to message; and the application that stores the file.      *)
(***************************************************************************)
EXTENDS DownloadServer

VARIABLES
  cphase,    \* the client's download; see ClientPhases
  file,      \* bytes the application has stored
  inflating, \* context->has_zdownload_inflate_io_arg
  zat,       \* bytes of the stream that have been inflated
  csize,     \* size field of the last message handed over
  clen       \* how many bytes that message really held

clientVars == <<cphase, file, inflating, zat, csize, clen>>

ClientPhases == {"idle", "receiving", "complete", "aborted", "error"}

ClientInit ==
  /\ cphase = "idle"
  /\ file = <<>>
  /\ inflating = FALSE
  /\ zat = 0
  /\ csize = 0 /\ clen = 0

\* assignment to an int16_t
ToInt16(n) == ((n + MaxInt16 + 1) % (2 * (MaxInt16 + 1))) - (MaxInt16 + 1)

\* The application: a negative size means there will not be any more data,
\* 100 percent that the file is complete.
Store(bytes, size, percent) ==
  /\ csize' = size
  /\ clen' = IF size = -1 THEN -1 ELSE Len(bytes)
  /\ IF size < 0
       THEN /\ cphase' = "aborted"
            /\ UNCHANGED file
       ELSE /\ cphase' = IF percent = 100 THEN "complete" ELSE "receiving"
            /\ file' = file \o bytes

\* mutant: nothing is reset
DownloadResetNot == UNCHANGED <<inflating, zat>>

\* q2proto_client_download_reset
DownloadReset ==
  /\ inflating' = FALSE
  /\ zat' = 0

\* q2proto_common_client_read_download
ReadDownload(m) ==
  /\ ~m.zipped
  /\ Store(m.bytes, m.size, m.percent)
  /\ IF cphase' = "receiving" THEN UNCHANGED <<inflating, zat>> ELSE DownloadReset

\* uncompressed_len, 16 bits of what the server put in
UncompressedLen(m) == Len(m.bytes) % (2 * (MaxInt16 + 1))

\* r1q2_client_read_zdownload: begins and ends a stream.  Bytes beyond
\* uncompressed_len are not read.
R1q2ReadZdownload(m) ==
  /\ m.zipped /\ Protocol = "r1q2"
  /\ Store(SubSeq(m.bytes, 1, UncompressedLen(m)), ToInt16(UncompressedLen(m)), m.percent)
  /\ UNCHANGED <<inflating, zat>>

(***************************************************************************)
(* q2pro_client_read_zdownload, q2repro_client_read_zdownload.  Data from  *)
(* the middle of a stream inflates only after what comes before it, and    *)
(* the beginning of a stream only in a fresh one.  An error leaves the     *)
(* inflate stream as it is.                                                *)
(***************************************************************************)
Inflates(m) ==
  IF inflating THEN ~m.starts /\ (m.bytes # <<>> => m.bytes[1] = zat + 1)
               ELSE m.starts

Q2proReadZdownload(m) ==
  /\ m.zipped /\ Protocol = "q2pro"
  /\ IF Inflates(m)
       THEN /\ Store(m.bytes, ToInt16(Len(m.bytes)), m.percent)
            /\ IF m.ends \/ cphase' # "receiving"
                 THEN DownloadReset
                 ELSE /\ inflating' = TRUE
                      /\ zat' = zat + Len(m.bytes)
       ELSE /\ cphase' = "error"
            /\ UNCHANGED <<file, inflating, zat, csize, clen>>

\* The next message is read, and the application resets the state when the
\* download is over (q2proto_client.h:166).
ClientNext ==
  /\ cphase = "receiving"
  /\ wire # <<>>
  /\ LET m == Head(wire) IN
       ReadDownload(m) \/ R1q2ReadZdownload(m) \/ Q2proReadZdownload(m)
  /\ wire' = Tail(wire)
=============================================================================
