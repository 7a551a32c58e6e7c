----------------------------- MODULE MCHttpApi ------------------------------
(***************************************************************************)
(* Every path with GET, HEAD where it matters, one path that is not there, *)
(* and one command that is not served, beside a client that asks for       *)
(* little.                                                                 *)
(***************************************************************************)
EXTENDS HttpApi

MCPaths == {"/", "/help", "/status", "/version", "/stats", "/config", "/dump"}
MCKeyOf(p) == p
MCHashOf(p) == CASE p = "/" -> 0 [] p = "/help" -> 4 [] p = "/status" -> 2 [] p = "/version" -> 1
                 [] p = "/stats" -> 6 [] OTHER -> 3
MCRank(p) == 0
Ask1(cmd, path) == [cmd |-> cmd, path |-> path]
MCRequests(c) ==
    IF c = "c1" THEN {Ask1("GET", p) : p \in MCPaths \union {"/unknown"}}
                     \union {Ask1("HEAD", "/status"), Ask1("HEAD", "/stats"), Ask1("POST", "/config")}
    ELSE {Ask1("GET", "/version"), Ask1("POST", "/status")}
=============================================================================
