---------------------------- MODULE MCXioServer ----------------------------
(***************************************************************************)
(* XioServer for TLC: the threads of the pool and the requests are         *)
(* interchangeable.                                                        *)
(***************************************************************************)
EXTENDS XioServer, TLC

Symmetry == Permutations(Workers) \cup Permutations(Requests) \cup Permutations(Conns)
=============================================================================
