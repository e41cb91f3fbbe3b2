------------------------------- MODULE MCProxy -------------------------------
(* Instances of the proxy for TLC. *)
EXTENDS HttpProxy, ProxyRefinement, TLC

Symmetry == Permutations(Servers)
=============================================================================
