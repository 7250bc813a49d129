----------------------------- MODULE MCRequests -----------------------------
(***************************************************************************)
(* Two requests of two organisations, one of which changes its dataset,    *)
(* over two server connections: a request may need both at once.           *)
(***************************************************************************)
EXTENDS Requests, TLC

Symmetric == Permutations(Requests) \cup Permutations(Backends)
=============================================================================
