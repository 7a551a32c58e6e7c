------------------------------ MODULE MCDoRedis ------------------------------
(***************************************************************************)
(* Instances of DoRedis for TLC.                                           *)
(*                                                                         *)
(* Of three attempts two may be refused; of three messages one has a       *)
(* predecessor and a successor.                                            *)
(***************************************************************************)
EXTENDS DoRedis
=============================================================================
