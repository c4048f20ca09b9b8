----------------------------- MODULE MCDownload -----------------------------
(***************************************************************************)
(* DownloadSystem for TLC; the .cfg files give the sizes.                  *)
(***************************************************************************)
EXTENDS DownloadInvariant
=============================================================================
