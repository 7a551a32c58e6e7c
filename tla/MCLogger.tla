------------------------------- MODULE MCLogger -------------------------------
(***************************************************************************)
(* Instances of Logger for TLC.                                            *)
(*                                                                         *)
(* One line fills a file, so every line but the first finds a rotation     *)
(* due; with two backups the fourth line is the first to erase one.        *)
(***************************************************************************)
EXTENDS Logger
=============================================================================
