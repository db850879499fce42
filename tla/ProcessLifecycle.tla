-------------------------- MODULE ProcessLifecycle --------------------------
(***************************************************************************)
(* What the kernel promises its processes: a process is created ready, it  *)
(* runs, blocks and is woken, and after its exit it never runs again.      *)
(* There is exactly one running process at any time, and process 0 never   *)
(* blocks and never exits, so a process that gives up the processor always *)
(* has a successor.                                                        *)
(***************************************************************************)
CONSTANT Process, First

VARIABLE status

Status == {"none", "ready", "running", "blocked", "exited"}

TypeOK == status \in [Process -> Status]

Init == status = [p \in Process |-> IF p = First THEN "running" ELSE "none"]

\* A running process creates another one and goes on.
Create(p) ==
  /\ status[p] = "none"
  /\ status' = [status EXCEPT ![p] = "ready"]

\* p gives the processor to q and takes the status `left'.
HandOver(p, q, left) ==
  /\ status[p] = "running"
  /\ status[q] = "ready"
  /\ status' = [status EXCEPT ![p] = left, ![q] = "running"]

Preempt(p, q) == HandOver(p, q, "ready")

Block(p, q) == p # First /\ HandOver(p, q, "blocked")

Exit(p, q) == p # First /\ HandOver(p, q, "exited")

Wake(p) ==
  /\ status[p] = "blocked"
  /\ status' = [status EXCEPT ![p] = "ready"]

Next ==
  \/ \E p \in Process : Create(p) \/ Wake(p)
  \/ \E p, q \in Process : Preempt(p, q) \/ Block(p, q) \/ Exit(p, q)

Spec == Init /\ [][Next]_status
=============================================================================
