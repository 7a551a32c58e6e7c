------------------------------- MODULE MCApptpl -------------------------------
(***************************************************************************)
(* Instances of Apptpl for TLC.                                            *)
(*                                                                         *)
(* Two parsers are the fewest that share a struct and a channel and can    *)
(* start at different times.  The second packet meets a channel at its     *)
(* limit, so the capture is also stopped while it sleeps.                  *)
(***************************************************************************)
EXTENDS Apptpl
=============================================================================
