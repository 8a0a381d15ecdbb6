---------------------------- MODULE MCDownloads ----------------------------
(***************************************************************************)
(* Values for TLC: the file is replaced by a shorter one.                  *)
(***************************************************************************)
EXTENDS Downloads

Shrinking == <<3, 2>>
=============================================================================
