---------------------------- MODULE MCXioClient ----------------------------
(***************************************************************************)
(* Small instances of XioClient for TLC.                                   *)
(***************************************************************************)
EXTENDS XioClient, TLC

\* Threads and requests are interchangeable.  Used only where no liveness
\* property is checked.
Symmetry == Permutations(Threads) \cup Permutations(Requests)
=============================================================================
