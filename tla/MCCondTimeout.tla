---------------------------- MODULE MCCondTimeout ----------------------------
(***************************************************************************)
(* Instances of CondTimeout for TLC: clock readings on both sides of every *)
(* carry, and the timeouts of the tests (100 ms) and of apptpl (200 ms).   *)
(***************************************************************************)
EXTENDS CondTimeout

MCInstants ==
    {0, 1, 899999, 900000, 900001, 799999, 800000, 800001, 999999,
     1000000, 1000001, 1199999, 1200000, 2000000, 2200000, 3000000}

MCTimeouts == {0, 1, 100, 200, 999, 1000, 1200}
=============================================================================
