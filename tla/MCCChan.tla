------------------------------- MODULE MCCChan -------------------------------
(***************************************************************************)
(* Instances of CChan for TLC.                                             *)
(*                                                                         *)
(* Two readers let a signal meet a waiter, a timed waiter and one that     *)
(* comes in between.  Five sends double the ring three times (1, 2, 4, 8)  *)
(* when nobody receives, and let first and next wrap around a ring of four *)
(* before it doubles.                                                      *)
(***************************************************************************)
EXTENDS CChan
=============================================================================
