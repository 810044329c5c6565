---------------------------- MODULE MCLocalFile ----------------------------
(***************************************************************************)
(* The local-file backend for TLC.                                         *)
(***************************************************************************)
EXTENDS LocalFileBackend
=============================================================================
