------------------------------ MODULE IOService ------------------------------
(***************************************************************************)
(* What the I/O engine promises its clients, with no queues, contexts or   *)
(* threads: a job handed to submitTask() is refused or accepted, an        *)
(* accepted job is reported exactly once, and the engine closes only when  *)
(* nothing accepted is left.                                               *)
(***************************************************************************)
CONSTANT Jobs

VARIABLES
  phase,   \* new, calling, refused, accepted, reported
  closed   \* the engine no longer serves anything

svcVars == <<phase, closed>>

SvcInit ==
  /\ phase = [j \in Jobs |-> "new"]
  /\ closed = FALSE

Move(j, from, to) ==
  /\ phase[j] = from
  /\ phase' = [phase EXCEPT ![j] = to]
  /\ UNCHANGED closed

Call(j)   == Move(j, "new", "calling")
Refuse(j) == Move(j, "calling", "refused")
Accept(j) == ~closed /\ Move(j, "calling", "accepted")
Report(j) == ~closed /\ Move(j, "accepted", "reported")

Close ==
  /\ ~closed
  /\ \A j \in Jobs : phase[j] # "accepted"
  /\ closed' = TRUE
  /\ UNCHANGED phase

SvcNext ==
  \/ \E j \in Jobs : Call(j) \/ Refuse(j) \/ Accept(j) \/ Report(j)
  \/ Close

SvcSpec == SvcInit /\ [][SvcNext]_svcVars
=============================================================================
