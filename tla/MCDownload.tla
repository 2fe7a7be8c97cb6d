----------------------------- MODULE MCDownload -----------------------------
(* Download for TLC.                                                       *)
EXTENDS Download
=============================================================================
