------------------------------ MODULE MCLFQueue ------------------------------
(***************************************************************************)
(* Instances of LFQueue for TLC.                                           *)
(***************************************************************************)
EXTENDS LFQueue
=============================================================================
