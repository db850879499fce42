----------------------------- MODULE Scheduler -----------------------------
(***************************************************************************)
(* The scheduler of the kernel (kernel/scheduler.cc): one executing task   *)
(* and the tasks that are ready, ordered by their virtual run time.  Every *)
(* operation is a function from a scheduler to a scheduler, because the    *)
(* kernel calls several of them inside one system call.                    *)
(*                                                                         *)
(* active_tasks is an avl_tree keyed by vruntime.  avl_tree::insert puts a *)
(* task behind the tasks with the same key and smallest() is the leftmost  *)
(* node, so the tree is modelled by its in-order sequence (AvlTree shows   *)
(* that the one implements the other).                                     *)
(***************************************************************************)
EXTENDS Integers, SequencesExt

CONSTANTS
  Pid,      \* the process identifiers, an initial segment of Nat
  NoTask    \* nullptr

ASSUME PidAssumption == Pid \subseteq Nat /\ 0 \in Pid /\ NoTask \notin Pid

(***************************************************************************)
(* The two assertions of the scheduler a caller can reach.  wwassert       *)
(* prints its message and loops forever: `halted' keeps the message.       *)
(***************************************************************************)
Running  == "running"
PidZero  == "pid 0 cannot be removed"
NoneLeft == "no task to schedule"

SchedulerType ==
  [ executing_task : Pid \cup {NoTask},
    active_tasks   : Seq(Pid),
    vruntime       : [Pid -> Nat],
    halted         : {Running, PidZero, NoneLeft} ]

Maximum(a, b) == IF a >= b THEN a ELSE b

(***************************************************************************)
(* avl_tree::insert: behind every task whose key is not greater.           *)
(***************************************************************************)
InsertPosition(seq, key, k) ==
  LET later == {i \in DOMAIN seq : key[seq[i]] > k}
  IN  IF later = {} THEN Len(seq) + 1 ELSE Min(later)

Insert(seq, key, p) == InsertAt(seq, InsertPosition(seq, key, key[p]), p)

\* Mutant: the key changes after the task has gone back to the tree.
RequeueThenCharge(s, charge) ==
  LET p == s.executing_task
  IN  [s EXCEPT !.active_tasks = Insert(s.active_tasks, s.vruntime, p),
                !.vruntime[p] = @ + charge,
                !.executing_task = NoTask]

(***************************************************************************)
(* The first half of schedule(): the executing task is charged for the     *)
(* time since it was chosen and goes back to the tree.  vruntime is        *)
(* changed while the task is outside the tree.                             *)
(***************************************************************************)
Requeue(s, charge) ==
  LET p == s.executing_task
      v == [s.vruntime EXCEPT ![p] = @ + charge]
  IN  [s EXCEPT !.vruntime = v,
                !.active_tasks = Insert(s.active_tasks, v, p),
                !.executing_task = NoTask]

(***************************************************************************)
(* The second half of schedule(): the smallest task leaves the tree and    *)
(* executes.                                                               *)
(***************************************************************************)
PickNext(s) ==
  IF s.active_tasks = << >>
  THEN [s EXCEPT !.halted = NoneLeft]
  ELSE [s EXCEPT !.executing_task = Head(s.active_tasks),
                 !.active_tasks = Tail(s.active_tasks)]

\* scheduler::schedule
Schedule(s, charge) ==
  PickNext(IF s.executing_task = NoTask THEN s ELSE Requeue(s, charge))

\* Mutant: without max(..., 1).
ChargeNothing(spent, priority) == IF priority = 0 THEN 0 ELSE spent \div priority

(***************************************************************************)
(* The virtual time schedule() charges for `spent' microseconds.  On       *)
(* AArch64 a division by priority 0 yields 0.                              *)
(***************************************************************************)
Charge(spent, priority) ==
  IF priority = 0 THEN 1 ELSE Maximum(spent \div priority, 1)

\* Mutant: without max(..., 1), the subtraction wraps around (here: below 0).
EntryBelowZero(s) ==
  IF s.active_tasks # << >>
  THEN s.vruntime[Head(s.active_tasks)] - 1
  ELSE IF s.executing_task # NoTask THEN s.vruntime[s.executing_task] - 1 ELSE 0

(***************************************************************************)
(* scheduler::add_task: the newcomer is placed just before the task that   *)
(* would be chosen next.  Only the first process of all finds nothing      *)
(* executing, and is then chosen at once.                                  *)
(***************************************************************************)
EntryVruntime(s) ==
  IF s.active_tasks # << >>
  THEN Maximum(s.vruntime[Head(s.active_tasks)], 1) - 1
  ELSE IF s.executing_task # NoTask
       THEN Maximum(s.vruntime[s.executing_task], 1) - 1
       ELSE 0

\* Mutant: a newcomer preempts the executing task.
AddAndRun(s, p) ==
  LET v == [s.vruntime EXCEPT ![p] = EntryVruntime(s)]
  IN  Schedule([s EXCEPT !.vruntime = v,
                         !.active_tasks = Insert(s.active_tasks, v, p)], 1)

AddTask(s, p) ==
  LET v == [s.vruntime EXCEPT ![p] = EntryVruntime(s)]
      added == [s EXCEPT !.vruntime = v,
                         !.active_tasks = Insert(s.active_tasks, v, p)]
  IN  IF s.executing_task = NoTask THEN PickNext(added) ELSE added

\* Mutant: executing_task is not cleared, so schedule() puts the task back.
RemoveAndRequeue(s) ==
  IF s.executing_task = 0 THEN [s EXCEPT !.halted = PidZero] ELSE Schedule(s, 1)

\* Mutant: process 0 may leave the scheduler.
RemoveAny(s) == PickNext([s EXCEPT !.executing_task = NoTask])

(***************************************************************************)
(* scheduler::remove_task.  Both callers pass the executing task, so the   *)
(* search of the tree in its second half is not reached.                   *)
(***************************************************************************)
RemoveTask(s) ==
  IF s.executing_task = 0
  THEN [s EXCEPT !.halted = PidZero]
  ELSE PickNext([s EXCEPT !.executing_task = NoTask])

(***************************************************************************)
(* scheduler::contains_task looks a task up by its key alone: find_exact   *)
(* returns any task of the tree that has the same vruntime.                *)
(***************************************************************************)
ContainsTask(s, p) ==
  \E q \in Range(s.active_tasks) : s.vruntime[q] = s.vruntime[p]

=============================================================================
