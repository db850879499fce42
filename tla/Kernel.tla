------------------------------- MODULE Kernel -------------------------------
(***************************************************************************)
(* Processes, semaphores, timed signals and preemption: kernel/process.cc  *)
(* on top of the scheduler of kernel/scheduler.cc.                         *)
(*                                                                         *)
(* The machine has one core and the kernel runs with interrupts masked, so *)
(* a system call of the executing task is one action.  The timer interrupt *)
(* may come between any two of them.  process.cc's schedule(), which the   *)
(* timer interrupt and exit run, contains a loop over the expired clocks:  *)
(* its iterations are actions of their own, and `mode' keeps every other   *)
(* action out until it ends.                                               *)
(*                                                                         *)
(* Abstracted: register contents and return values, address spaces, files. *)
(* A call that only returns an error (a semaphore that does not exist, the *)
(* deletion of one a task waits for, exec of a missing file) is therefore  *)
(* a stuttering step.                                                      *)
(***************************************************************************)
EXTENDS Scheduler

CONSTANTS
  SemId,           \* semaphore identifiers, an initial segment of Nat
  Initial,         \* the counts semaphores are created with (int64_t)
  Delays,          \* delays of timed signals, in time units
  Elapsed,         \* time that may pass between two readings of the clock
  Spent,           \* microseconds a task may have executed when charged
  Priorities,      \* arguments of set_priority
  MaxCount,        \* bound: a semaphore's count
  MaxClocks,       \* bound: pending timed signals
  MaxVruntime      \* bound: the virtual time at which a task is preempted

DefaultPriority == 1000      \* task_info::priority
PriorityRange   == 65536     \* it is a uint16_t

ASSUME KernelAssumption ==
  /\ SemId \subseteq Nat
  /\ Initial \subseteq Int
  /\ Delays \subseteq Int
  /\ Elapsed \subseteq Nat
  /\ Spent \subseteq Nat
  /\ Priorities \subseteq Nat
  /\ MaxCount \in Nat /\ MaxClocks \in Nat /\ MaxVruntime \in Nat

VARIABLES
  scheduler,          \* p_scheduler
  p_tasks,            \* the keys of p_tasks: the live processes
  priority,           \* task_info::priority
  pid_counter,
  p_semaphores,       \* the keys of p_semaphores
  count,              \* semaphore::count
  waiting_tasks,      \* semaphore::waiting_tasks, blocked processes, oldest first
  semaphore_counter,
  p_clock_tree,       \* pending timed signals in order of expiration
  mode                \* "user", or "schedule" inside process.cc's schedule()

semVars == <<p_semaphores, count, waiting_tasks, semaphore_counter>>
procVars == <<p_tasks, priority, pid_counter>>
vars == <<scheduler, procVars, semVars, p_clock_tree, mode>>

(***************************************************************************)
(* A pending timed signal: the semaphore and the time left.  Only the      *)
(* order and the distance to the present matter.                           *)
(***************************************************************************)
Clock == [semaphore_id : SemId, left : Int]

TypeOK ==
  /\ scheduler \in SchedulerType
  /\ p_tasks \subseteq Pid
  /\ priority \in [Pid -> 0 .. PriorityRange - 1]
  /\ pid_counter \in Nat
  /\ p_semaphores \subseteq SemId
  /\ count \in [SemId -> Int]
  /\ waiting_tasks \in [SemId -> Seq(Pid)]
  /\ semaphore_counter \in Nat
  /\ p_clock_tree \in Seq(Clock)
  /\ mode \in {"user", "schedule"}

current == scheduler.executing_task

(***************************************************************************)
(* main() creates /app/init, process 0, and calls schedule().              *)
(***************************************************************************)
Init ==
  /\ scheduler = AddTask([executing_task |-> NoTask, active_tasks |-> << >>,
                          vruntime |-> [p \in Pid |-> 0], halted |-> Running], 0)
  /\ p_tasks = {0}
  /\ priority = [p \in Pid |-> DefaultPriority]
  /\ pid_counter = 1
  /\ p_semaphores = {}
  /\ count = [s \in SemId |-> 0]
  /\ waiting_tasks = [s \in SemId |-> << >>]
  /\ semaphore_counter = 0
  /\ p_clock_tree = << >>
  /\ mode = "schedule"

(***************************************************************************)
(* The executing task runs in user mode, with interrupts enabled.          *)
(***************************************************************************)
User == mode = "user" /\ scheduler.halted = Running

-----------------------------------------------------------------------------
(* Processes                                                               *)

\* fork_current_task: the child does not inherit the parent's priority.
Fork ==
  /\ User
  /\ pid_counter \in Pid
  /\ pid_counter' = pid_counter + 1
  /\ p_tasks' = p_tasks \cup {pid_counter}
  /\ priority' = [priority EXCEPT ![pid_counter] = DefaultPriority]
  /\ scheduler' = AddTask(scheduler, pid_counter)
  /\ UNCHANGED <<semVars, p_clock_tree, mode>>

(***************************************************************************)
(* replace_current_task: a new task_info takes over the pid and, through   *)
(* scheduler::replace_task, the vruntime; its other fields start afresh.   *)
(***************************************************************************)
Exec ==
  /\ User
  /\ priority' = [priority EXCEPT ![current] = DefaultPriority]
  /\ UNCHANGED <<scheduler, p_tasks, pid_counter, semVars, p_clock_tree, mode>>

\* Time passes for every pending timed signal alike.
After(clocks, t) == [i \in DOMAIN clocks |-> [clocks[i] EXCEPT !.left = @ - t]]

(***************************************************************************)
(* current_task_exit: remove_task chooses a successor, which schedule()    *)
(* charges and puts back again.                                            *)
(***************************************************************************)
Exit(t) ==
  /\ User
  /\ scheduler' = RemoveTask(scheduler)
  /\ IF scheduler'.halted = Running
     THEN /\ p_tasks' = p_tasks \ {current}
          /\ p_clock_tree' = After(p_clock_tree, t)
          /\ mode' = "schedule"
     ELSE UNCHANGED <<p_tasks, p_clock_tree, mode>>
  /\ UNCHANGED <<priority, pid_counter, semVars>>

\* current_task_set_priority: a uint64_t is stored in a uint16_t.
SetPriority(n) ==
  /\ User
  /\ priority' = [priority EXCEPT ![current] = n % PriorityRange]
  /\ UNCHANGED <<scheduler, p_tasks, pid_counter, semVars, p_clock_tree, mode>>

\* get_task_stat, the TASK_STAT system call: it changes nothing.
TaskStat(p) ==
  IF p \notin p_tasks
  THEN IF p < pid_counter THEN "TERMINATED" ELSE "INVALID"
  ELSE IF ContainsTask(scheduler, p) THEN "ACTIVE" ELSE "WAITING"

-----------------------------------------------------------------------------
(* Semaphores                                                              *)

CreateSemaphore(init) ==
  /\ User
  /\ semaphore_counter \in SemId
  /\ semaphore_counter' = semaphore_counter + 1
  /\ p_semaphores' = p_semaphores \cup {semaphore_counter}
  /\ count' = [count EXCEPT ![semaphore_counter] = init]
  /\ UNCHANGED <<scheduler, procVars, waiting_tasks, p_clock_tree, mode>>

\* delete_semaphore: refused (-2) while a task waits.
DeleteSemaphore(id) ==
  /\ User
  /\ id \in p_semaphores
  /\ waiting_tasks[id] = << >>
  /\ p_semaphores' = p_semaphores \ {id}
  /\ count' = [count EXCEPT ![id] = 0]
  /\ UNCHANGED <<scheduler, procVars, waiting_tasks, semaphore_counter,
                 p_clock_tree, mode>>

(***************************************************************************)
(* current_task_wait_semaphore.  The task is removed from the scheduler    *)
(* before it is queued.                                                    *)
(***************************************************************************)
WaitPass(id) ==
  /\ User
  /\ id \in p_semaphores
  /\ count[id] > 0
  /\ count' = [count EXCEPT ![id] = @ - 1]
  /\ UNCHANGED <<scheduler, procVars, p_semaphores, waiting_tasks,
                 semaphore_counter, p_clock_tree, mode>>

WaitBlock(id) ==
  /\ User
  /\ id \in p_semaphores
  /\ count[id] <= 0
  /\ scheduler' = RemoveTask(scheduler)
  /\ waiting_tasks' = IF scheduler'.halted = Running
                      THEN [waiting_tasks EXCEPT ![id] = Append(@, current)]
                      ELSE waiting_tasks
  /\ UNCHANGED <<procVars, p_semaphores, count, semaphore_counter,
                 p_clock_tree, mode>>

\* Mutant: the woken task stays in the queue.
SignalWithoutPop(id) ==
  IF waiting_tasks[id] # << >>
  THEN /\ scheduler' = AddTask(scheduler, Last(waiting_tasks[id]))
       /\ UNCHANGED <<count, waiting_tasks>>
  ELSE /\ count' = IF count[id] = -1 THEN count ELSE [count EXCEPT ![id] = @ + 1]
       /\ UNCHANGED <<scheduler, waiting_tasks>>

(***************************************************************************)
(* signal_semaphore, with the count of 1 both callers use.  A task that    *)
(* waits is woken, the last one first; otherwise the count grows, unless   *)
(* it is ~0ull, that is -1.                                                *)
(***************************************************************************)
SignalSemaphore(id) ==
  IF waiting_tasks[id] # << >>
  THEN /\ scheduler' = AddTask(scheduler, Last(waiting_tasks[id]))
       /\ waiting_tasks' = [waiting_tasks EXCEPT ![id] = Front(@)]
       /\ UNCHANGED count
  ELSE /\ count' = IF count[id] = -1 THEN count ELSE [count EXCEPT ![id] = @ + 1]
       /\ UNCHANGED <<scheduler, waiting_tasks>>

\* Bound: every pending timed signal will find room below MaxCount.
Pending(id) == {i \in DOMAIN p_clock_tree : p_clock_tree[i].semaphore_id = id}

BelowMaxCount(id) == count[id] + Cardinality(Pending(id)) < MaxCount

\* current_task_signal_semaphore
Signal(id) ==
  /\ User
  /\ id \in p_semaphores
  /\ BelowMaxCount(id)
  /\ SignalSemaphore(id)
  /\ UNCHANGED <<procVars, p_semaphores, semaphore_counter, p_clock_tree, mode>>

(***************************************************************************)
(* current_task_signal_semaphore_after_microseconds.  A negative delay     *)
(* stands for a sum of time and delay that wraps around.                   *)
(***************************************************************************)
\* Mutant: a first-in first-out queue.
ClockAtEnd(left) == Len(p_clock_tree) + 1

ClockPosition(left) ==
  LET later == {i \in DOMAIN p_clock_tree : p_clock_tree[i].left > left}
  IN  IF later = {} THEN Len(p_clock_tree) + 1 ELSE Min(later)

SignalAfter(id, delay) ==
  /\ User
  /\ id \in p_semaphores
  /\ Len(p_clock_tree) < MaxClocks
  /\ BelowMaxCount(id)
  /\ p_clock_tree' = InsertAt(p_clock_tree, ClockPosition(delay),
                              [semaphore_id |-> id, left |-> delay])
  /\ UNCHANGED <<scheduler, procVars, semVars, mode>>

-----------------------------------------------------------------------------
(* The timer interrupt and schedule()                                      *)

\* The executing task has not reached the bound on virtual time.
BelowMaxVruntime == scheduler.vruntime[current] < MaxVruntime

\* on_timeout
Timeout(t) ==
  /\ User
  /\ BelowMaxVruntime
  /\ p_clock_tree' = After(p_clock_tree, t)
  /\ mode' = "schedule"
  /\ UNCHANGED <<scheduler, procVars, semVars>>

Scheduling == mode = "schedule" /\ scheduler.halted = Running

Expired == p_clock_tree # << >> /\ Head(p_clock_tree).left <= 0

\* Mutant: an expired clock adds to the count and wakes nobody.
ExpireClockSilently ==
  /\ Scheduling
  /\ Expired
  /\ p_clock_tree' = Tail(p_clock_tree)
  /\ LET id == Head(p_clock_tree).semaphore_id
     IN  count' = IF id \in p_semaphores THEN [count EXCEPT ![id] = @ + 1] ELSE count
  /\ UNCHANGED <<scheduler, waiting_tasks, procVars, p_semaphores,
                 semaphore_counter, mode>>

\* One iteration of signal_semaphore_by_clocks.
ExpireClock ==
  /\ Scheduling
  /\ Expired
  /\ p_clock_tree' = Tail(p_clock_tree)
  /\ LET id == Head(p_clock_tree).semaphore_id
     IN  IF id \in p_semaphores
         THEN SignalSemaphore(id)
         ELSE UNCHANGED <<scheduler, count, waiting_tasks>>
  /\ UNCHANGED <<procVars, p_semaphores, semaphore_counter, mode>>

\* The rest of schedule(): choose a task, arm the timer, return to user mode.
Dispatch(spent) ==
  /\ Scheduling
  /\ ~Expired
  /\ scheduler' = Schedule(scheduler, Charge(spent, priority[current]))
  /\ mode' = "user"
  /\ UNCHANGED <<procVars, semVars, p_clock_tree>>

\* A failed assertion: while(true).
Halt == scheduler.halted # Running /\ UNCHANGED vars

-----------------------------------------------------------------------------
SystemCall ==
  \/ Fork
  \/ Exec
  \/ \E t \in Elapsed : Exit(t)
  \/ \E n \in Priorities : SetPriority(n)
  \/ \E init \in Initial : CreateSemaphore(init)
  \/ \E id \in SemId :
       \/ DeleteSemaphore(id)
       \/ WaitPass(id)
       \/ WaitBlock(id)
       \/ Signal(id)
       \/ \E delay \in Delays : SignalAfter(id, delay)

\* At least one unit of time passes between two timer interrupts.
Tick == \E t \in Elapsed \ {0} : Timeout(t)

InSchedule == ExpireClock \/ \E spent \in Spent : Dispatch(spent)

Next == SystemCall \/ Tick \/ InSchedule \/ Halt

(***************************************************************************)
(* schedule() arms the timer before it returns to user mode, where         *)
(* interrupts are enabled, and the code between two assertions of the      *)
(* kernel runs to its end.  Nothing is assumed about the system calls a    *)
(* program makes.                                                          *)
(***************************************************************************)
Fairness == WF_vars(Tick) /\ WF_vars(InSchedule)

Spec == Init /\ [][Next]_vars /\ Fairness

-----------------------------------------------------------------------------
(* Safety                                                                  *)

(***************************************************************************)
(* Every live process is in exactly one place: it executes, or it is ready *)
(* (once), or it waits for one semaphore that exists (once).  Nothing else *)
(* is in these places.  fork, exit, wait, signal and the clocks move tasks *)
(* between them with separate calls on two data structures.                *)
(***************************************************************************)
OnePlace ==
  LET ready == Range(scheduler.active_tasks)
      wait(id) == Range(waiting_tasks[id])
  IN  /\ p_tasks = {current} \cup ready \cup UNION {wait(id) : id \in SemId}
      /\ current \notin ready
      /\ IsInjective(scheduler.active_tasks)
      /\ \A id \in SemId :
           /\ IsInjective(waiting_tasks[id])
           /\ wait(id) \cap ({current} \cup ready) = {}
           /\ id \notin p_semaphores => waiting_tasks[id] = << >>
           /\ \A other \in SemId \ {id} : wait(id) \cap wait(other) = {}

(***************************************************************************)
(* No wakeup is lost: no process waits for a semaphore whose count is      *)
(* positive, whichever of a signal, a timed signal and a wait came first.  *)
(***************************************************************************)
NoLostWakeup == \A id \in SemId : waiting_tasks[id] # << >> => count[id] <= 0

(***************************************************************************)
(* The ready tasks stay ordered by virtual time, on which the search of    *)
(* the tree relies, though vruntime is a field of the tasks in the tree.   *)
(***************************************************************************)
ReadyInOrder ==
  \A i, j \in DOMAIN scheduler.active_tasks :
    i <= j => scheduler.vruntime[scheduler.active_tasks[i]]
                <= scheduler.vruntime[scheduler.active_tasks[j]]

(***************************************************************************)
(* The assertion "no task to schedule." never fails: when the executing    *)
(* task blocks or exits another one is ready, because process 0 cannot     *)
(* leave the scheduler.                                                    *)
(***************************************************************************)
NeverIdle == scheduler.halted # NoneLeft /\ current # NoTask

(***************************************************************************)
(* Sleepers wake on time: when schedule() returns to user mode, no timed   *)
(* signal is overdue, in whatever order the signals were asked for.  The   *)
(* loop over the clocks looks at the first one only, and stops there if it *)
(* has not expired; that a signal finds its sleeper is NoLostWakeup.       *)
(***************************************************************************)
NothingOverdue ==
  [][mode = "schedule" /\ mode' = "user"
       => \A i \in DOMAIN p_clock_tree' : p_clock_tree'[i].left > 0]_vars

(***************************************************************************)
(* TASK_STAT answers TERMINATED for good: the shell takes it as the end of *)
(* a child.  The process is never seen again, nor is its pid given to      *)
(* another one.                                                            *)
(***************************************************************************)
TerminatedForGood ==
  [][\A p \in Pid : TaskStat(p) = "TERMINATED"
       => TaskStat(p)' = "TERMINATED" /\ current' # p]_vars

(***************************************************************************)
(* What the scheduler and the semaphores promise a process.                *)
(***************************************************************************)
StatusOf(p) ==
  IF p >= pid_counter THEN "none"
  ELSE IF p \notin p_tasks THEN "exited"
  ELSE IF p = current THEN "running"
  ELSE IF p \in Range(scheduler.active_tasks) THEN "ready"
  ELSE "blocked"

Lifecycle == INSTANCE ProcessLifecycle
               WITH Process <- Pid, First <- 0,
                    status <- [p \in Pid |-> StatusOf(p)]

ImplementsLifecycle == Lifecycle!Spec

-----------------------------------------------------------------------------
(* Liveness.  The timer stops at the bound on virtual time, and a kernel   *)
(* that has halted does nothing any more.  The task at the bound executes, *)
(* so every ready one has reached it, too.                                 *)

Stopped == scheduler.halted # Running \/ ~BelowMaxVruntime

(***************************************************************************)
(* If processes stop being created and woken, every ready process gets the *)
(* processor: each tick charges the executing task at least 1.             *)
(***************************************************************************)
Arrival == Range(scheduler.active_tasks)' \ (Range(scheduler.active_tasks) \cup {current}) # {}

QuietReadyRuns ==
  <>[][~Arrival]_vars =>
    \A p \in Pid : p \in Range(scheduler.active_tasks) ~> (current = p \/ Stopped)
=============================================================================
