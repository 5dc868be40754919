---------------------------- MODULE MCIOExecutor ----------------------------
(***************************************************************************)
(* Small instances of IOExecutor for TLC.                                  *)
(***************************************************************************)
EXTENDS IOExecutor, TLC

\* Client threads, and jobs of the same kind, are interchangeable.  Used only
\* where no liveness property is checked.
Symmetry ==
  UNION {Permutations(S) : S \in {Submitters, UnalignedWrites, FdJobs \ UnalignedWrites,
                                  Jobs \ FdJobs}}
=============================================================================
