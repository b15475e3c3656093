----------------------------- MODULE MCSplitter -----------------------------
(***************************************************************************)
(* Instances of Splitter for TLC.                                          *)
(***************************************************************************)
EXTENDS Splitter
=============================================================================
