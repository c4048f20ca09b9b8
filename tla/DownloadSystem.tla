--------------------------- MODULE DownloadSystem ---------------------------
(***************************************************************************)
(* Server and client of downloads over the reliable channel.               *)
(***************************************************************************)
EXTENDS DownloadClient

vars == <<serverVars, clientVars>>

Init == ServerInit /\ ClientInit

\* The client asks for a file and the server begins to send it.  A client
\* has one download at a time.
Request ==
  /\ DownloadBegin
  /\ cphase # "receiving"
  /\ cphase # "error"
  /\ wire = <<>>
  /\ cphase' = "receiving"
  /\ file' = <<>>
  /\ csize' = 0 /\ clen' = 0
  /\ UNCHANGED <<inflating, zat>>

\* The connection ends: both applications clean up, messages are lost.
Drop ==
  /\ cphase \in {"receiving", "error"}
  /\ phase' = "idle"
  /\ EndDeflate
  /\ wire' = <<>>
  /\ cphase' = "idle"
  /\ file' = <<>>
  /\ DownloadReset
  /\ csize' = 0 /\ clen' = 0
  /\ UNCHANGED <<total, transferred, compress, zmax, data, remaining, downloads>>

Server == ServerNext /\ UNCHANGED clientVars

Client ==
  /\ ClientNext
  /\ UNCHANGED <<phase, total, transferred, compress, valid, zio, zmax, data,
                 remaining, downloads>>

Next == Request \/ Drop \/ Server \/ Client

Spec == Init /\ [][Next]_vars

(***************************************************************************)
(* Fairness: the application goes on asking for data until the download is *)
(* over, aborts it if that fails, and ends it; the client reads what       *)
(* arrives.  Nothing has to fail, to be dropped or to be requested.        *)
(***************************************************************************)
FairSpec ==
  /\ Spec
  /\ WF_vars((DataCall \/ DownloadFinish) /\ UNCHANGED clientVars)
  /\ WF_vars(phase = "failed" /\ DownloadAbort /\ UNCHANGED clientVars)
  /\ WF_vars(DownloadEnd /\ UNCHANGED clientVars)
  /\ WF_vars(Client)

-----------------------------------------------------------------------------
Bytes == 1..Len(file)

(***************************************************************************)
(* Types of everything the library and the two applications keep.          *)
(***************************************************************************)
TypeOK ==
  /\ phase \in Phases
  /\ total \in Nat /\ transferred \in 0..total
  /\ compress \in {"none", "deflate", "raw"}
  /\ valid \in BOOLEAN
  /\ zio \in {"none", "open", "broken"}
  /\ zmax \in Nat
  /\ data \in 0..total /\ remaining = total - data
  /\ downloads \in 0..MaxDownloads
  /\ \A i \in DOMAIN wire :
       /\ wire[i].percent \in 0..100
       /\ wire[i].size \in -1..MaxInt16
       /\ wire[i].bytes \in Seq(1..total)
  /\ cphase \in ClientPhases
  /\ file \in Seq(1..total)
  /\ inflating \in BOOLEAN
  /\ zat \in 0..total

(***************************************************************************)
(* What the client has stored is the beginning of the file, with nothing   *)
(* missing, doubled or out of order, however the bytes were cut into       *)
(* messages and whether or not they were deflated (the data and remaining  *)
(* of q2proto_server_download_data against what the readers inflate).      *)
(***************************************************************************)
FileIntact == \A i \in Bytes : file[i] = i

(***************************************************************************)
(* A client that was told 100 percent has all of the file: the percentage  *)
(* of q2proto_download_common_complete_struct is never rounded up to 100.  *)
(***************************************************************************)
CompleteIsWhole == cphase = "complete" => Len(file) = total

(***************************************************************************)
(* When q2proto_server_download_data has returned DOWNLOAD_COMPLETE, or    *)
(* _finish was called, the client that reads everything knows: the last    *)
(* message says 100 percent.                                               *)
(***************************************************************************)
CompleteIsReported ==
  phase = "complete" /\ wire = <<>> /\ cphase # "idle" => cphase = "complete"

(***************************************************************************)
(* The client does not stop reading before the server has stopped sending, *)
(* so no message of a download is left for the next one to find.           *)
(***************************************************************************)
OverForBoth ==
  cphase \in {"complete", "aborted"} =>
    wire = <<>> /\ phase \in {"complete", "stopped", "idle"}

(***************************************************************************)
(* Everything inflates: the zdownload messages of a download find the      *)
(* inflate stream in the context where the one before left it, and the     *)
(* first of the next download finds none.                                  *)
(***************************************************************************)
AlwaysInflates == cphase # "error"

(***************************************************************************)
(* deflate_io_valid follows the deflate stream: none is leaked and none    *)
(* outlives its download, whatever fails and whatever the application      *)
(* calls next (q2proto_server_download_data, _abort and _end).             *)
(***************************************************************************)
DeflateTracked ==
  /\ zio # "none" => valid
  /\ phase = "idle" => ~valid

(***************************************************************************)
(* "Whether deflate I/O arg is valid" (q2proto_server.h:314): where        *)
(* deflate_io_valid says so, there is a stream to be ended.                *)
(***************************************************************************)
DeflateIoValid == valid => zio # "none"

(***************************************************************************)
(* No stream is ended twice, except in one case: R1Q2 is called again      *)
(* after a call that failed and left its stream behind, ends that stream,  *)
(* and fails to begin another; it returns before it clears                 *)
(* deflate_io_valid (q2proto_proto_r1q2.c:1569-1576), so the next call or  *)
(* q2proto_server_download_end ends the stream again.                      *)
(***************************************************************************)
EndedOnce ==
  [][DeflateIoValid /\ ~DeflateIoValid' =>
       Protocol = "r1q2" /\ zio = "broken" /\ phase' = "failed"]_vars

(***************************************************************************)
(* "Maximum size useable for download packet": the message filled in fits  *)
(* in the packet_remaining that q2proto_server_download_data was given.    *)
(* The deflated messages of Q2PRO do only if no later packet has less room *)
(* than the first (q2proto_proto_q2pro.c:2571; SteadyRooms).               *)
(***************************************************************************)
FitsPacket == phase # "overrun"

(***************************************************************************)
(* "Chunk size": the size a reader fills in is the number of bytes of data *)
(* it hands over.                                                          *)
(***************************************************************************)
SizeIsLength == csize = clen

(***************************************************************************)
(* q2proto_server_download_get_progress never runs ahead of what has been  *)
(* sent nor lags behind: what is stored and what is on its way make up     *)
(* the amount transferred.                                                 *)
(***************************************************************************)
InFlight[i \in 0..Len(wire)] ==
  IF i = 0 THEN 0 ELSE InFlight[i - 1] + Len(wire[i].bytes)

ProgressIsExact ==
  cphase \in {"receiving", "complete"} /\ phase # "overrun" =>
    transferred = Len(file) + InFlight[Len(wire)]

(***************************************************************************)
(* A download keeps the promises of FileTransfer.                          *)
(***************************************************************************)
Status == IF cphase \in {"aborted", "error"} THEN "stopped" ELSE cphase

Transfer == INSTANCE FileTransfer WITH
  Sizes <- TotalSizes, status <- Status, size <- total, file <- file

TransferSpec == Transfer!Spec

(***************************************************************************)
(* Every download comes to an end for the client: complete, aborted, or    *)
(* with the connection.  Each call makes progress if there is room for     *)
(* more than the message header and the margin of the deflate helper.      *)
(***************************************************************************)
DownloadsEnd == cphase = "receiving" ~> cphase # "receiving"
=============================================================================
