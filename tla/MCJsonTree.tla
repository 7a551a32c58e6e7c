----------------------------- MODULE MCJsonTree -----------------------------
(***************************************************************************)
(* Five items, two keys that differ by case, strings of two lengths.  Each *)
(* caller uses a part of the library; together they use all of it.         *)
(***************************************************************************)
EXTENDS JsonTree

MCLower(k) == IF k = "A" THEN "a" ELSE k

MCCallers ==
    {[uses |-> {"list"}, kinds |-> {"array", "string"}, keys |-> {}, texts |-> {1}, calls |-> 6],
     [uses |-> {"object"}, kinds |-> {"object", "string"}, keys |-> {"a", "A"}, texts |-> {1}, calls |-> 5],
     [uses |-> {"list", "object", "reference", "copy"}, kinds |-> {"array", "object", "string"},
      keys |-> {"a"}, texts |-> {1}, calls |-> 4],
     [uses |-> {"list", "copy", "value"}, kinds |-> {"array", "string", "number"},
      keys |-> {}, texts |-> {1, 2}, calls |-> 3]}
=============================================================================
