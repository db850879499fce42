---------------------------- MODULE KernelProofs ----------------------------
(***************************************************************************)
(* Proofs that the invariants of Kernel hold, and that it implements       *)
(* ProcessLifecycle, for any number of processes and semaphores and for    *)
(* any choice of the other constants.  The second half is about the tree   *)
(* that the scheduler and the clocks are kept in: for any set of elements  *)
(* and keys AvlTree stays one tree, and implements OrderedQueue, and       *)
(* insertions keep it balanced.                                            *)
(***************************************************************************)
EXTENDS Kernel, AvlTree, ListLemmas

-----------------------------------------------------------------------------
(* The operations of the scheduler: what each does to the set of tasks it  *)
(* holds, that it keeps a task once, and that it keeps the ready tasks     *)
(* ordered by virtual time.                                                *)

(***************************************************************************)
(* avl_tree::insert: behind the tasks with the same key or a smaller one,  *)
(* before those with a larger key.                                         *)
(***************************************************************************)
LEMMA InsertPositionType ==
  ASSUME NEW seq \in Seq(Pid), NEW key \in [Pid -> Nat], NEW k \in Nat
  PROVE  /\ InsertPosition(seq, key, k) \in 1 .. Len(seq) + 1
         /\ \A j \in DOMAIN seq : j < InsertPosition(seq, key, k) => key[seq[j]] <= k
         /\ InsertPosition(seq, key, k) \in DOMAIN seq
              => key[seq[InsertPosition(seq, key, k)]] > k
<1> DEFINE later == {i \in DOMAIN seq : key[seq[i]] > k}
<1>1. DOMAIN seq = 1 .. Len(seq) /\ Len(seq) \in Nat /\ \A j \in DOMAIN seq : seq[j] \in Pid
  OBVIOUS
<1>2. \A j \in DOMAIN seq : key[seq[j]] \in Nat
  BY <1>1
<1>3. CASE later = {}
  <2>1. InsertPosition(seq, key, k) = Len(seq) + 1
    BY <1>3 DEF InsertPosition
  <2>2. \A j \in DOMAIN seq : key[seq[j]] <= k
    BY <1>2, <1>3
  <2> QED BY <1>1, <2>1, <2>2
<1>4. CASE later # {}
  <2>1. InsertPosition(seq, key, k) = Min(later)
    BY <1>4 DEF InsertPosition
  <2>2. later \subseteq Nat
    BY <1>1
  <2>3. Min(later) \in later /\ \A y \in later : Min(later) <= y
    BY <1>4, <2>2, MinProperties
  <2>4. PICK m \in later : m = Min(later) /\ \A y \in later : m <= y
    BY <2>3
  <2>5. m \in DOMAIN seq /\ key[seq[m]] > k
    BY <2>4
  <2>6. \A j \in DOMAIN seq : j \in later \/ key[seq[j]] <= k
    BY <1>2
  <2>7. \A j \in DOMAIN seq : j < m => key[seq[j]] <= k
    <3> HIDE DEF later
    <3> QED BY <1>1, <2>4, <2>5, <2>6
  <2> QED BY <1>1, <2>1, <2>4, <2>5, <2>7
<1> QED BY <1>3, <1>4

\* The ready tasks in the order of their keys.
SortedBy(seq, key) ==
  \A i, j \in DOMAIN seq : i <= j => key[seq[i]] <= key[seq[j]]

LEMMA InsertKeepsOrder ==
  ASSUME NEW seq \in Seq(Pid), NEW key \in [Pid -> Nat], NEW p \in Pid,
         SortedBy(seq, key)
  PROVE  SortedBy(Insert(seq, key, p), key)
<1> DEFINE pos == InsertPosition(seq, key, key[p])
           t == InsertAt(seq, pos, p)
<1>1. /\ pos \in 1 .. Len(seq) + 1
      /\ \A j \in DOMAIN seq : j < pos => key[seq[j]] <= key[p]
      /\ pos \in DOMAIN seq => key[seq[pos]] > key[p]
  BY InsertPositionType
<1> HIDE DEF pos
<1>6. /\ InsertAt(seq, pos, p) \in Seq(Pid)
      /\ Len(InsertAt(seq, pos, p)) = Len(seq) + 1
      /\ \A j \in 1 .. Len(seq) + 1 : InsertAt(seq, pos, p)[j] =
           IF j < pos THEN seq[j] ELSE IF j = pos THEN p ELSE seq[j - 1]
  <2>1. seq \in Seq(Pid) /\ p \in Pid /\ pos \in 1 .. Len(seq) + 1
    BY <1>1
  <2> QED
    BY ONLY <2>1, InsertAtElements
<1>2. /\ t \in Seq(Pid) /\ Len(t) = Len(seq) + 1
      /\ \A j \in 1 .. Len(seq) + 1 :
           t[j] = IF j < pos THEN seq[j] ELSE IF j = pos THEN p ELSE seq[j - 1]
  BY ONLY <1>6
<1> HIDE DEF t
<1>3. /\ DOMAIN t = 1 .. Len(seq) + 1 /\ DOMAIN seq = 1 .. Len(seq) /\ Len(seq) \in Nat
      /\ \A j \in DOMAIN seq : seq[j] \in Pid /\ key[seq[j]] \in Nat
  BY <1>2
<1>4. \A j \in DOMAIN seq : j >= pos => key[p] <= key[seq[j]]
  BY <1>1, <1>3 DEF SortedBy
<1>5. \A i, j \in DOMAIN t : i <= j => key[t[i]] <= key[t[j]]
  <2> SUFFICES ASSUME NEW i \in DOMAIN t, NEW j \in DOMAIN t, i <= j
               PROVE  key[t[i]] <= key[t[j]]
    OBVIOUS
  <2>1. CASE j < pos
    <3>1. i \in DOMAIN seq /\ j \in DOMAIN seq /\ i < pos
      BY <1>1, <1>3, <2>1
    <3>2. t[i] = seq[i] /\ t[j] = seq[j]
      BY <1>2, <1>3, <2>1, <3>1
    <3> QED BY <3>1, <3>2 DEF SortedBy
  <2>2. CASE j = pos
    BY <1>1, <1>2, <1>3, <2>2
  <2>3. CASE j > pos /\ i > pos
    <3>1. t[i] = seq[i - 1] /\ i - 1 \in DOMAIN seq
      BY <1>1, <1>2, <1>3, <2>3, SMTT(30)
    <3>2. t[j] = seq[j - 1] /\ j - 1 \in DOMAIN seq
      BY <1>1, <1>2, <1>3, <2>3, SMTT(30)
    <3>3. i - 1 <= j - 1
      BY <1>3
    <3> QED BY <3>1, <3>2, <3>3 DEF SortedBy
  <2>4. CASE j > pos /\ i = pos
    <3>1. t[i] = p /\ t[j] = seq[j - 1] /\ j - 1 \in DOMAIN seq /\ j - 1 >= pos
      BY <1>1, <1>2, <1>3, <2>4, SMTT(30)
    <3> QED BY <3>1, <1>4
  <2>5. CASE j > pos /\ i < pos
    <3>1. /\ t[i] = seq[i] /\ t[j] = seq[j - 1]
          /\ i \in DOMAIN seq /\ j - 1 \in DOMAIN seq /\ i <= j - 1
      BY <1>1, <1>2, <1>3, <2>5, SMTT(30)
    <3> QED BY <3>1 DEF SortedBy
  <2> QED BY <1>1, <1>3, <2>1, <2>2, <2>3, <2>4, <2>5
<1> QED BY <1>5 DEF SortedBy, Insert, t, pos

LEMMA InsertTask ==
  ASSUME NEW seq \in Seq(Pid), NEW key \in [Pid -> Nat], NEW p \in Pid
  PROVE  /\ Insert(seq, key, p) \in Seq(Pid)
         /\ Insert(seq, key, p) # << >>
         /\ Range(Insert(seq, key, p)) = Range(seq) \cup {p}
         /\ IsInjective(seq) /\ p \notin Range(seq) => IsInjective(Insert(seq, key, p))
<1> DEFINE pos == InsertPosition(seq, key, key[p])
<1>1. pos \in 1 .. Len(seq) + 1
  BY InsertPositionType
<1>2. /\ InsertAt(seq, pos, p) \in Seq(Pid)
      /\ Len(InsertAt(seq, pos, p)) = Len(seq) + 1
  BY <1>1, InsertAtElements
<1>3. /\ Range(InsertAt(seq, pos, p)) = Range(seq) \cup {p}
      /\ IsInjective(seq) /\ p \notin Range(seq) => IsInjective(InsertAt(seq, pos, p))
  BY <1>1, InsertAtRange
<1>4. InsertAt(seq, pos, p) # << >>
  BY <1>2
<1> QED BY <1>2, <1>3, <1>4 DEF Insert

-----------------------------------------------------------------------------
(***************************************************************************)
(* A scheduler between two operations, and the tasks it holds.             *)
(***************************************************************************)
Sound(s) ==
  /\ s \in SchedulerType
  /\ s.executing_task \in Pid
  /\ s.executing_task \notin Range(s.active_tasks)
  /\ IsInjective(s.active_tasks)
  /\ SortedBy(s.active_tasks, s.vruntime)

Held(s) == {s.executing_task} \cup Range(s.active_tasks)

\* The leftmost task of the tree leaves it.
LEMMA HeadTail ==
  ASSUME NEW seq \in Seq(Pid), seq # << >>, IsInjective(seq),
         NEW key \in [Pid -> Nat], SortedBy(seq, key)
  PROVE  /\ Head(seq) \in Pid
         /\ Tail(seq) \in Seq(Pid)
         /\ IsInjective(Tail(seq))
         /\ Head(seq) \notin Range(Tail(seq))
         /\ {Head(seq)} \cup Range(Tail(seq)) = Range(seq)
         /\ SortedBy(Tail(seq), key)
<1> DEFINE h == Head(seq)
           t == Tail(seq)
<1>1. h \in Pid /\ t \in Seq(Pid) /\ Len(t) = Len(seq) - 1 /\ h = seq[1]
  BY HeadTailProperties
<1>2. \A i \in 1 .. Len(t) : t[i] = seq[i + 1]
  BY HeadTailProperties
<1>3. /\ DOMAIN seq = 1 .. Len(seq) /\ DOMAIN t = 1 .. Len(t)
      /\ Len(seq) \in Nat /\ Len(seq) >= 1
  BY <1>1
<1> HIDE DEF h, t
<1>4. \A i \in DOMAIN t : i + 1 \in DOMAIN seq /\ t[i] = seq[i + 1]
  BY <1>1, <1>2, <1>3
<1>5. IsInjective(t)
  BY <1>3, <1>4 DEF IsInjective
<1>6. 1 \in DOMAIN seq /\ \A i \in DOMAIN t : i + 1 # 1
  BY <1>3
<1>7. h \notin Range(t)
  <2>1. \A i \in DOMAIN t : t[i] # h
    BY <1>1, <1>4, <1>6 DEF IsInjective
  <2> QED BY <2>1 DEF Range
<1>8. \A j \in DOMAIN seq : j = 1 \/ (j - 1 \in DOMAIN t /\ t[j - 1] = seq[j])
  <2> SUFFICES ASSUME NEW j \in DOMAIN seq, j # 1
               PROVE  j - 1 \in DOMAIN t /\ t[j - 1] = seq[j]
    OBVIOUS
  <2>1. j \in Int /\ j - 1 \in 1 .. Len(t)
    BY <1>1, <1>3, SMTT(30)
  <2>2. t[j - 1] = seq[(j - 1) + 1] /\ (j - 1) + 1 = j
    BY <1>2, <2>1
  <2> QED
    BY <1>3, <2>1, <2>2
<1>9. {h} \cup Range(t) \subseteq Range(seq)
  BY <1>1, <1>4, <1>6 DEF Range
<1>10. Range(seq) \subseteq {h} \cup Range(t)
  <2> SUFFICES ASSUME NEW j \in DOMAIN seq PROVE seq[j] \in {h} \cup Range(t)
    BY DEF Range
  <2>1. CASE j = 1
    BY <1>1, <2>1
  <2>2. CASE j # 1
    BY <1>8, <2>2 DEF Range
  <2> QED BY <2>1, <2>2
<1>11. SortedBy(t, key)
  BY <1>3, <1>4 DEF SortedBy
<1> QED
  BY <1>1, <1>5, <1>7, <1>9, <1>10, <1>11 DEF h, t

LEMMA PickNextSound ==
  ASSUME NEW s \in SchedulerType, s.active_tasks # << >>,
         IsInjective(s.active_tasks), SortedBy(s.active_tasks, s.vruntime)
  PROVE  /\ Sound(PickNext(s))
         /\ Held(PickNext(s)) = Range(s.active_tasks)
         /\ PickNext(s).halted = s.halted
<1>1. s.active_tasks \in Seq(Pid) /\ s.vruntime \in [Pid -> Nat]
  BY DEF SchedulerType
<1> DEFINE h == Head(s.active_tasks)
           t == Tail(s.active_tasks)
<1>2. /\ h \in Pid /\ t \in Seq(Pid) /\ IsInjective(t) /\ h \notin Range(t)
      /\ {h} \cup Range(t) = Range(s.active_tasks) /\ SortedBy(t, s.vruntime)
  BY <1>1, HeadTail
<1>3. PickNext(s) = [s EXCEPT !.executing_task = h, !.active_tasks = t]
  BY DEF PickNext
<1> HIDE DEF h, t
<1>4. /\ PickNext(s).executing_task = h /\ PickNext(s).active_tasks = t
      /\ PickNext(s).vruntime = s.vruntime /\ PickNext(s).halted = s.halted
      /\ PickNext(s) \in SchedulerType
  BY <1>2, <1>3 DEF SchedulerType
<1> QED
  BY <1>2, <1>4 DEF Sound, Held

\* schedule() exchanges tasks between the processor and the tree.
LEMMA ScheduleSound ==
  ASSUME NEW s, Sound(s), NEW charge \in Nat
  PROVE  /\ Sound(Schedule(s, charge))
         /\ Held(Schedule(s, charge)) = Held(s)
         /\ Schedule(s, charge).halted = s.halted
<1> DEFINE p == s.executing_task
           v == [s.vruntime EXCEPT ![p] = @ + charge]
           a == Insert(s.active_tasks, v, p)
           r == Requeue(s, charge)
<1>1. /\ s \in SchedulerType /\ s.active_tasks \in Seq(Pid) /\ p \in Pid
      /\ s.vruntime \in [Pid -> Nat] /\ p # NoTask
  BY PidAssumption DEF Sound, SchedulerType
<1>2. v \in [Pid -> Nat]
  BY <1>1
<1>3. \A q \in Pid : q # p => v[q] = s.vruntime[q]
  BY <1>1
<1>4. \A i \in DOMAIN s.active_tasks : s.active_tasks[i] \in Pid \ {p}
  BY <1>1 DEF Sound, Range
<1> HIDE DEF v
<1>5. SortedBy(s.active_tasks, v)
  BY <1>3, <1>4 DEF Sound, SortedBy
<1>6. /\ a \in Seq(Pid) /\ a # << >> /\ Range(a) = Range(s.active_tasks) \cup {p}
      /\ IsInjective(a)
  BY <1>1, <1>2, InsertTask DEF Sound
<1>7. SortedBy(a, v)
  BY <1>1, <1>2, <1>5, InsertKeepsOrder
<1> HIDE DEF a
<1>8. r = [s EXCEPT !.vruntime = v, !.active_tasks = a, !.executing_task = NoTask]
  BY DEF Requeue, v, a
<1>9. /\ r \in SchedulerType /\ r.active_tasks = a /\ r.vruntime = v
      /\ r.halted = s.halted
  BY <1>1, <1>2, <1>6, <1>8 DEF SchedulerType
<1>10. Schedule(s, charge) = PickNext(r)
  BY <1>1 DEF Schedule
<1> HIDE DEF r
<1> QED
  BY <1>6, <1>7, <1>9, <1>10, PickNextSound DEF Held

\* add_task adds one task to the tree and leaves the processor alone.
LEMMA AddTaskSound ==
  ASSUME NEW s, Sound(s), NEW p \in Pid, p \notin Held(s)
  PROVE  /\ Sound(AddTask(s, p))
         /\ AddTask(s, p).executing_task = s.executing_task
         /\ Range(AddTask(s, p).active_tasks) = Range(s.active_tasks) \cup {p}
         /\ AddTask(s, p).halted = s.halted
<1> DEFINE v == [s.vruntime EXCEPT ![p] = EntryVruntime(s)]
           a == Insert(s.active_tasks, v, p)
<1>1. /\ s \in SchedulerType /\ s.active_tasks \in Seq(Pid)
      /\ s.executing_task \in Pid /\ s.executing_task # NoTask
      /\ s.vruntime \in [Pid -> Nat]
  BY PidAssumption DEF Sound, SchedulerType
<1>2. EntryVruntime(s) \in Nat
  <2>1. \A n \in Nat : Maximum(n, 1) - 1 \in Nat
    BY DEF Maximum
  <2>2. s.active_tasks # << >> => s.vruntime[Head(s.active_tasks)] \in Nat
    BY <1>1, HeadTailProperties
  <2> QED BY <1>1, <2>1, <2>2 DEF EntryVruntime
<1>3. v \in [Pid -> Nat] /\ \A q \in Pid : q # p => v[q] = s.vruntime[q]
  BY <1>1, <1>2
<1>4. \A i \in DOMAIN s.active_tasks : s.active_tasks[i] \in Pid \ {p}
  BY <1>1 DEF Held, Range
<1> HIDE DEF v
<1>5. SortedBy(s.active_tasks, v)
  BY <1>3, <1>4 DEF Sound, SortedBy
<1>6. /\ a \in Seq(Pid) /\ Range(a) = Range(s.active_tasks) \cup {p} /\ IsInjective(a)
  BY <1>1, <1>3, InsertTask DEF Sound, Held
<1>7. SortedBy(a, v)
  BY <1>1, <1>3, <1>5, InsertKeepsOrder
<1> HIDE DEF a
<1>8. AddTask(s, p) = [s EXCEPT !.vruntime = v, !.active_tasks = a]
  BY <1>1 DEF AddTask, v, a
<1>9. /\ AddTask(s, p) \in SchedulerType /\ AddTask(s, p).active_tasks = a
      /\ AddTask(s, p).vruntime = v /\ AddTask(s, p).halted = s.halted
      /\ AddTask(s, p).executing_task = s.executing_task
  BY <1>1, <1>3, <1>6, <1>8 DEF SchedulerType
<1> QED
  BY <1>1, <1>6, <1>7, <1>9 DEF Sound, Held

\* remove_task: a ready task takes the place of the executing one.
LEMMA RemoveTaskSound ==
  ASSUME NEW s, Sound(s), s.executing_task # 0, s.active_tasks # << >>
  PROVE  /\ Sound(RemoveTask(s))
         /\ Held(RemoveTask(s)) = Range(s.active_tasks)
         /\ RemoveTask(s).halted = s.halted
<1> DEFINE r == [s EXCEPT !.executing_task = NoTask]
<1>1. /\ r \in SchedulerType /\ r.active_tasks = s.active_tasks
      /\ r.vruntime = s.vruntime /\ r.halted = s.halted
  BY DEF Sound, SchedulerType
<1>2. RemoveTask(s) = PickNext(r)
  BY DEF RemoveTask
<1> HIDE DEF r
<1> QED
  BY <1>1, <1>2, PickNextSound DEF Sound

\* remove_task of process 0 stops the kernel and changes nothing else.
LEMMA RemoveTaskZero ==
  ASSUME NEW s, Sound(s), s.executing_task = 0
  PROVE  /\ Sound(RemoveTask(s))
         /\ RemoveTask(s).executing_task = s.executing_task
         /\ RemoveTask(s).active_tasks = s.active_tasks
         /\ RemoveTask(s).vruntime = s.vruntime
         /\ RemoveTask(s).halted = PidZero
<1>1. RemoveTask(s) = [s EXCEPT !.halted = PidZero]
  BY DEF RemoveTask
<1>2. s \in SchedulerType
  BY DEF Sound
<1>3. /\ RemoveTask(s) \in SchedulerType
      /\ RemoveTask(s).executing_task = s.executing_task
      /\ RemoveTask(s).active_tasks = s.active_tasks
      /\ RemoveTask(s).vruntime = s.vruntime
      /\ RemoveTask(s).halted = PidZero
  BY <1>1, <1>2 DEF SchedulerType
<1> QED
  BY <1>3 DEF Sound

LEMMA ChargeType ==
  ASSUME NEW spent \in Nat, NEW n \in Nat
  PROVE  Charge(spent, n) \in Nat
<1>1. CASE n = 0
  BY <1>1 DEF Charge
<1>2. CASE n # 0
  <2>1. spent \div n \in Int
    BY <1>2
  <2> QED BY <1>2, <2>1 DEF Charge, Maximum
<1> QED BY <1>1, <1>2

-----------------------------------------------------------------------------
(* The queue of a semaphore.                                               *)

LEMMA AppendWaiter ==
  ASSUME NEW seq \in Seq(Pid), NEW p \in Pid, IsInjective(seq), p \notin Range(seq)
  PROVE  /\ Append(seq, p) \in Seq(Pid)
         /\ Append(seq, p) # << >>
         /\ IsInjective(Append(seq, p))
         /\ Range(Append(seq, p)) = Range(seq) \cup {p}
<1> DEFINE t == Append(seq, p)
<1>1. /\ t \in Seq(Pid) /\ t # << >> /\ Len(t) = Len(seq) + 1
      /\ \A i \in 1 .. Len(seq) : t[i] = seq[i]
      /\ t[Len(seq) + 1] = p
  BY AppendProperties
<1>2. Len(seq) \in Nat /\ DOMAIN seq = 1 .. Len(seq) /\ DOMAIN t = 1 .. Len(seq) + 1
  BY <1>1
<1> HIDE DEF t
<1>3. \A i \in DOMAIN t : (i \in DOMAIN seq /\ t[i] = seq[i]) \/ (i = Len(seq) + 1 /\ t[i] = p)
  BY <1>1, <1>2
<1>4. \A i \in DOMAIN seq : i \in DOMAIN t /\ t[i] = seq[i]
  BY <1>1, <1>2
<1>5. Len(seq) + 1 \in DOMAIN t
  BY <1>2
<1>6. Range(t) = Range(seq) \cup {p}
  BY <1>1, <1>3, <1>4, <1>5 DEF Range
<1>7. \A i \in DOMAIN seq : seq[i] # p
  BY DEF Range
<1>8. IsInjective(t)
  BY <1>3, <1>7 DEF IsInjective
<1> QED BY <1>1, <1>6, <1>8 DEF t

LEMMA LastWaiter ==
  ASSUME NEW seq \in Seq(Pid), seq # << >>, IsInjective(seq)
  PROVE  /\ Last(seq) \in Pid
         /\ Front(seq) \in Seq(Pid)
         /\ IsInjective(Front(seq))
         /\ Last(seq) \notin Range(Front(seq))
         /\ Range(seq) = Range(Front(seq)) \cup {Last(seq)}
<1> DEFINE t == Front(seq)
           n == Len(seq)
<1>1. n \in Nat /\ n >= 1 /\ DOMAIN seq = 1 .. n /\ \A i \in 1 .. n : seq[i] \in Pid
  OBVIOUS
<1>2. /\ SubSeq(seq, 1, n - 1) \in Seq(Pid)
      /\ Len(SubSeq(seq, 1, n - 1)) = IF 1 <= n - 1 THEN n - 1 - 1 + 1 ELSE 0
      /\ \A i \in 1 .. n - 1 - 1 + 1 : SubSeq(seq, 1, n - 1)[i] = seq[1 + i - 1]
  BY <1>1, SubSeqProperties
<1>3. /\ t \in Seq(Pid) /\ Len(t) = n - 1 /\ DOMAIN t = 1 .. n - 1
      /\ \A i \in 1 .. n - 1 : t[i] = seq[i]
  BY <1>1, <1>2 DEF Front
<1> HIDE DEF t, n
<1>4. \A i \in DOMAIN t : i \in DOMAIN seq /\ t[i] = seq[i] /\ i # n
  BY <1>1, <1>3
<1>5. \A i \in DOMAIN seq : i = n \/ i \in DOMAIN t
  BY <1>1, <1>3
<1>6. n \in DOMAIN seq /\ seq[n] \in Pid
  BY <1>1
<1>7. IsInjective(t)
  BY <1>4 DEF IsInjective
<1>8. \A i \in DOMAIN t : t[i] # seq[n]
  BY <1>4, <1>6 DEF IsInjective
<1>9. seq[n] \notin Range(t)
  BY <1>8 DEF Range
<1>10. Range(seq) = Range(t) \cup {seq[n]}
  BY <1>4, <1>5, <1>6 DEF Range
<1>11. Last(seq) = seq[n]
  BY DEF Last, n
<1> QED BY <1>3, <1>6, <1>7, <1>9, <1>10, <1>11 DEF t

-----------------------------------------------------------------------------
(* Pending timed signals.                                                  *)

LEMMA AfterType ==
  ASSUME NEW clocks \in Seq(Clock), NEW t \in Nat
  PROVE  After(clocks, t) \in Seq(Clock)
<1>1. /\ Len(clocks) \in Nat /\ DOMAIN clocks = 1 .. Len(clocks)
      /\ \A i \in DOMAIN clocks : clocks[i] \in Clock
  OBVIOUS
<1>2. \A c \in Clock : [c EXCEPT !.left = @ - t] \in Clock
  BY DEF Clock
<1>3. After(clocks, t) \in [1 .. Len(clocks) -> Clock]
  BY <1>1, <1>2 DEF After
<1> QED BY <1>1, <1>3

LEMMA ClockPositionType ==
  ASSUME p_clock_tree \in Seq(Clock), NEW left \in Int
  PROVE  ClockPosition(left) \in 1 .. Len(p_clock_tree) + 1
<1> DEFINE later == {i \in DOMAIN p_clock_tree : p_clock_tree[i].left > left}
<1>1. /\ Len(p_clock_tree) \in Nat
      /\ DOMAIN p_clock_tree = 1 .. Len(p_clock_tree)
      /\ later \subseteq Nat /\ later \subseteq 1 .. Len(p_clock_tree)
  OBVIOUS
<1>2. CASE later = {}
  BY <1>1, <1>2 DEF ClockPosition
<1>3. CASE later # {}
  <2>1. Min(later) \in later
    BY <1>1, <1>3, MinProperties
  <2>2. ClockPosition(left) = Min(later)
    BY <1>3 DEF ClockPosition
  <2>3. Min(later) \in 1 .. Len(p_clock_tree)
    BY ONLY <1>1, <2>1
  <2> QED BY <1>1, <2>2, <2>3
<1> QED BY <1>2, <1>3

-----------------------------------------------------------------------------
(***************************************************************************)
(* The inductive invariant.  OnePlace alone is not inductive: fork needs   *)
(* that the next pid is not in use, a new semaphore that nobody waits for  *)
(* it, and the choice of a successor that process 0 is in the scheduler.   *)
(***************************************************************************)
Waiters(id) == Range(waiting_tasks[id])

QueuesApart ==
  \A id \in SemId :
    /\ IsInjective(waiting_tasks[id])
    /\ Waiters(id) \cap Held(scheduler) = {}
    /\ \A other \in SemId : other # id => Waiters(id) \cap Waiters(other) = {}

NobodyLost ==
  \A p \in Pid :
    p \in p_tasks <=> p \in Held(scheduler) \/ \E id \in SemId : p \in Waiters(id)

CountersAhead ==
  /\ \A p \in p_tasks : p < pid_counter
  /\ \A id \in p_semaphores : id < semaphore_counter
  /\ \A id \in SemId \ p_semaphores : waiting_tasks[id] = << >>

IInv ==
  /\ TypeOK
  /\ Sound(scheduler)
  /\ scheduler.halted # NoneLeft
  /\ 0 \in Held(scheduler)
  /\ QueuesApart
  /\ NobodyLost
  /\ CountersAhead
  /\ NoLostWakeup

LEMMA HeldType ==
  ASSUME NEW s, Sound(s)
  PROVE  Held(s) \subseteq Pid /\ s.executing_task \in Held(s)
         /\ s.active_tasks \in Seq(Pid) /\ s.executing_task \in Pid
         /\ s \in SchedulerType
<1>1. s.active_tasks \in Seq(Pid) /\ s \in SchedulerType /\ s.executing_task \in Pid
  BY DEF Sound, SchedulerType
<1>2. Range(s.active_tasks) \subseteq Pid
  BY <1>1, RangeOfSeq
<1> QED BY <1>1, <1>2 DEF Held

LEMMA InitIInv == Init => IInv
<1> SUFFICES ASSUME Init PROVE IInv
  OBVIOUS
<1> DEFINE s0 == [executing_task |-> NoTask, active_tasks |-> << >>,
                  vruntime |-> [p \in Pid |-> 0], halted |-> Running]
           v == [s0.vruntime EXCEPT ![0] = 0]
           a == Insert(<< >>, v, 0)
           s1 == [s0 EXCEPT !.vruntime = v, !.active_tasks = a]
<1>1. 0 \in Pid /\ << >> \in Seq(Pid) /\ v \in [Pid -> Nat] /\ s0 \in SchedulerType
  BY PidAssumption DEF SchedulerType, Running
<1>2. SortedBy(<< >>, v) /\ IsInjective(<< >>) /\ Range(<< >>) = {}
  BY DEF SortedBy, IsInjective, Range
<1>3. /\ a \in Seq(Pid) /\ a # << >> /\ Range(a) = {0} /\ IsInjective(a)
      /\ SortedBy(a, v)
  BY <1>1, <1>2, InsertTask, InsertKeepsOrder
<1>4. scheduler = PickNext(s1)
  BY DEF Init, AddTask, EntryVruntime
<1> HIDE DEF v, a
<1>5. s1 \in SchedulerType /\ s1.active_tasks = a /\ s1.vruntime = v /\ s1.halted = Running
  BY <1>1, <1>3 DEF SchedulerType
<1> HIDE DEF s1
<1>6. Sound(scheduler) /\ Held(scheduler) = {0} /\ scheduler.halted = Running
  BY <1>3, <1>4, <1>5, PickNextSound
<1>7. \A id \in SemId : waiting_tasks[id] = << >> /\ Waiters(id) = {}
  BY <1>2 DEF Init, Waiters
<1>8. TypeOK
  BY <1>1, <1>6, KernelAssumption DEF Init, TypeOK, Sound, PriorityRange, DefaultPriority
<1>9. QueuesApart /\ NobodyLost /\ CountersAhead /\ NoLostWakeup
  BY <1>2, <1>6, <1>7 DEF Init, QueuesApart, NobodyLost, CountersAhead, NoLostWakeup
<1> QED
  BY <1>6, <1>8, <1>9 DEF IInv, Running, NoneLeft

-----------------------------------------------------------------------------
(* One lemma for each action.                                              *)

LEMMA ForkIInv == ASSUME IInv, Fork PROVE IInv'
<1> DEFINE child == pid_counter
<1>1. /\ child \in Pid /\ child \notin p_tasks
      /\ \A id \in SemId : child \notin Waiters(id)
      /\ child \notin Held(scheduler)
  BY PidAssumption DEF Fork, IInv, CountersAhead, NobodyLost
<1>2. /\ Sound(scheduler)' /\ scheduler'.executing_task = scheduler.executing_task
      /\ Range(scheduler'.active_tasks) = Range(scheduler.active_tasks) \cup {child}
      /\ scheduler'.halted = scheduler.halted
  BY <1>1, AddTaskSound DEF Fork, IInv
<1>3. Held(scheduler)' = Held(scheduler) \cup {child}
  BY <1>2 DEF Held
<1>4. TypeOK'
  <2>1. scheduler' \in SchedulerType
    BY <1>2 DEF Sound
  <2>2. p_tasks' \subseteq Pid /\ pid_counter' \in Nat
    BY <1>1 DEF IInv, TypeOK, Fork
  <2>3. priority' \in [Pid -> 0 .. PriorityRange - 1]
    <3>1. DefaultPriority \in 0 .. PriorityRange - 1
      BY DEF PriorityRange, DefaultPriority
    <3> QED BY <1>1, <3>1 DEF IInv, TypeOK, Fork
  <2> QED BY <2>1, <2>2, <2>3 DEF IInv, TypeOK, Fork, semVars
<1>5. UNCHANGED <<waiting_tasks, count, p_semaphores, semaphore_counter>>
  BY DEF Fork, semVars
<1>6. \A id \in SemId : Waiters(id)' = Waiters(id)
  BY <1>5 DEF Waiters
<1>7. QueuesApart'
  BY <1>1, <1>3, <1>5, <1>6 DEF IInv, QueuesApart
<1>8. NobodyLost'
  BY <1>1, <1>3, <1>6 DEF IInv, NobodyLost, Fork
<1>9. CountersAhead'
  <2>1. \A p \in p_tasks' : p < pid_counter'
    BY PidAssumption, <1>1 DEF IInv, CountersAhead, Fork, TypeOK
  <2> QED BY <1>5, <2>1 DEF IInv, CountersAhead
<1>10. NoLostWakeup'
  BY <1>5 DEF IInv, NoLostWakeup
<1> QED
  BY <1>2, <1>3, <1>4, <1>7, <1>8, <1>9, <1>10 DEF IInv

LEMMA ExitIInv == ASSUME IInv, NEW t \in Elapsed, Exit(t) PROVE IInv'
<1>1. Sound(scheduler) /\ 0 \in Held(scheduler) /\ scheduler.halted = Running
  BY DEF IInv, Exit, User
<1>2. UNCHANGED <<waiting_tasks, count, p_semaphores, semaphore_counter, pid_counter, priority>>
  BY DEF Exit, semVars
<1>3. \A id \in SemId : Waiters(id)' = Waiters(id)
  BY <1>2 DEF Waiters
<1>4. NoLostWakeup'
  BY <1>2 DEF IInv, NoLostWakeup
<1>5. CASE current = 0
  <2>1. /\ Sound(scheduler)' /\ Held(scheduler)' = Held(scheduler)
        /\ scheduler'.halted = PidZero
    BY <1>1, <1>5, RemoveTaskZero DEF Exit, current, Held
  <2>2. UNCHANGED <<p_tasks, p_clock_tree, mode>>
    BY <2>1 DEF Exit, Running, PidZero
  <2>3. TypeOK'
    BY <1>2, <2>1, <2>2 DEF IInv, TypeOK, Sound
  <2>4. QueuesApart' /\ NobodyLost' /\ CountersAhead'
    BY <1>2, <1>3, <2>1, <2>2 DEF IInv, QueuesApart, NobodyLost, CountersAhead
  <2> QED
    BY <1>1, <1>4, <2>1, <2>3, <2>4 DEF IInv, PidZero, NoneLeft
<1>6. CASE current # 0
  <2>1. 0 \in Range(scheduler.active_tasks)
    BY <1>1, <1>6 DEF Held, current
  <2>2. scheduler.active_tasks # << >>
    BY <2>1 DEF Range
  <2>3. /\ Sound(scheduler)' /\ Held(scheduler)' = Range(scheduler.active_tasks)
        /\ scheduler'.halted = Running
    BY <1>1, <1>6, <2>2, RemoveTaskSound DEF Exit, current
  <2>4. Held(scheduler)' = Held(scheduler) \ {current}
    BY <1>1, <2>3 DEF Held, Sound, current
  <2>5. /\ p_tasks' = p_tasks \ {current} /\ p_clock_tree' = After(p_clock_tree, t)
        /\ mode' = "schedule"
    BY <2>3 DEF Exit
  <2>6. TypeOK'
    BY <1>2, <2>3, <2>5, AfterType, KernelAssumption DEF IInv, TypeOK, Sound
  <2>7. QueuesApart'
    BY <1>2, <1>3, <2>4 DEF IInv, QueuesApart
  <2>8. current \in Held(scheduler) /\ \A id \in SemId : current \notin Waiters(id)
    BY DEF Held, current, IInv, QueuesApart
  <2>9. NobodyLost'
    BY <1>3, <2>4, <2>5, <2>8 DEF IInv, NobodyLost
  <2>10. CountersAhead'
    BY <1>2, <2>5 DEF IInv, CountersAhead
  <2>11. 0 \in Held(scheduler)'
    BY <2>1, <2>3
  <2> QED
    BY <1>4, <2>3, <2>6, <2>7, <2>9, <2>10, <2>11 DEF IInv, Running, NoneLeft
<1> QED BY <1>5, <1>6

\* exec and set_priority change a priority, no task's place.
LEMMA PriorityIInv ==
  ASSUME IInv, priority' \in [Pid -> 0 .. PriorityRange - 1],
         UNCHANGED <<scheduler, p_tasks, pid_counter, semVars, p_clock_tree, mode>>
  PROVE  IInv'
<1>1. UNCHANGED <<waiting_tasks, count, p_semaphores, semaphore_counter>>
  BY DEF semVars
<1>2. TypeOK'
  BY <1>1 DEF IInv, TypeOK
<1>3. Sound(scheduler)' /\ Held(scheduler)' = Held(scheduler)
  BY DEF IInv, Sound, Held
<1>4. \A id \in SemId : Waiters(id)' = Waiters(id)
  BY <1>1 DEF Waiters
<1> QED
  BY <1>1, <1>2, <1>3, <1>4 DEF IInv, QueuesApart, NobodyLost, CountersAhead, NoLostWakeup

\* The timer, and the insertion of a timed signal.
LEMMA ClockIInv ==
  ASSUME IInv, p_clock_tree' \in Seq(Clock), mode' \in {"user", "schedule"},
         UNCHANGED <<scheduler, procVars, semVars>>
  PROVE  IInv'
<1>1. UNCHANGED <<waiting_tasks, count, p_semaphores, semaphore_counter,
                  p_tasks, pid_counter, priority>>
  BY DEF semVars, procVars
<1>2. TypeOK'
  BY <1>1 DEF IInv, TypeOK
<1>3. Sound(scheduler)' /\ Held(scheduler)' = Held(scheduler)
  BY DEF IInv, Sound, Held
<1>4. \A id \in SemId : Waiters(id)' = Waiters(id)
  BY <1>1 DEF Waiters
<1> QED
  BY <1>1, <1>2, <1>3, <1>4 DEF IInv, QueuesApart, NobodyLost, CountersAhead, NoLostWakeup

LEMMA CreateSemaphoreIInv ==
  ASSUME IInv, NEW init \in Initial, CreateSemaphore(init) PROVE IInv'
<1> DEFINE id == semaphore_counter
<1>1. /\ id \in SemId /\ id \notin p_semaphores /\ id \in Nat
      /\ waiting_tasks[id] = << >>
  BY KernelAssumption DEF CreateSemaphore, IInv, CountersAhead
<1>2. UNCHANGED <<scheduler, p_tasks, pid_counter, priority, waiting_tasks, p_clock_tree, mode>>
  BY DEF CreateSemaphore, procVars
<1>3. TypeOK'
  BY <1>1, <1>2, KernelAssumption DEF CreateSemaphore, IInv, TypeOK
<1>4. Sound(scheduler)' /\ Held(scheduler)' = Held(scheduler)
  BY <1>2 DEF IInv, Sound, Held
<1>5. \A s \in SemId : Waiters(s)' = Waiters(s)
  BY <1>2 DEF Waiters
<1>6. CountersAhead'
  <2>1. \A s \in p_semaphores' : s < semaphore_counter'
    BY <1>1, KernelAssumption DEF CreateSemaphore, IInv, CountersAhead, TypeOK
  <2> QED BY <1>1, <1>2, <2>1 DEF CreateSemaphore, IInv, CountersAhead
<1>7. NoLostWakeup'
  <2>1. \A s \in SemId : s # id => count'[s] = count[s]
    BY DEF CreateSemaphore, IInv, TypeOK
  <2> QED BY <1>1, <1>2, <2>1 DEF IInv, NoLostWakeup
<1> QED
  BY <1>2, <1>3, <1>4, <1>5, <1>6, <1>7 DEF IInv, QueuesApart, NobodyLost

LEMMA DeleteSemaphoreIInv ==
  ASSUME IInv, NEW id \in SemId, DeleteSemaphore(id) PROVE IInv'
<1>1. UNCHANGED <<scheduler, p_tasks, pid_counter, priority, waiting_tasks,
                  semaphore_counter, p_clock_tree, mode>>
  BY DEF DeleteSemaphore, procVars
<1>2. TypeOK'
  BY <1>1 DEF DeleteSemaphore, IInv, TypeOK
<1>3. Sound(scheduler)' /\ Held(scheduler)' = Held(scheduler)
  BY <1>1 DEF IInv, Sound, Held
<1>4. \A s \in SemId : Waiters(s)' = Waiters(s)
  BY <1>1 DEF Waiters
<1>5. CountersAhead'
  BY <1>1 DEF DeleteSemaphore, IInv, CountersAhead
<1>6. NoLostWakeup'
  <2>1. count'[id] = 0 /\ \A s \in SemId : s # id => count'[s] = count[s]
    BY DEF DeleteSemaphore, IInv, TypeOK
  <2> QED BY <1>1, <2>1 DEF IInv, NoLostWakeup
<1> QED
  BY <1>1, <1>2, <1>3, <1>4, <1>5, <1>6 DEF IInv, QueuesApart, NobodyLost

LEMMA WaitPassIInv ==
  ASSUME IInv, NEW id \in SemId, WaitPass(id) PROVE IInv'
<1>1. UNCHANGED <<scheduler, p_tasks, pid_counter, priority, waiting_tasks,
                  p_semaphores, semaphore_counter, p_clock_tree, mode>>
  BY DEF WaitPass, procVars
<1>2. TypeOK'
  BY <1>1 DEF WaitPass, IInv, TypeOK
<1>3. Sound(scheduler)' /\ Held(scheduler)' = Held(scheduler)
  BY <1>1 DEF IInv, Sound, Held
<1>4. \A s \in SemId : Waiters(s)' = Waiters(s)
  BY <1>1 DEF Waiters
<1>5. NoLostWakeup'
  <2>1. waiting_tasks[id] = << >>
    BY DEF WaitPass, IInv, NoLostWakeup, TypeOK
  <2>2. \A s \in SemId : s # id => count'[s] = count[s]
    BY DEF WaitPass, IInv, TypeOK
  <2> QED BY <1>1, <2>1, <2>2 DEF IInv, NoLostWakeup
<1> QED
  BY <1>1, <1>2, <1>3, <1>4, <1>5 DEF IInv, QueuesApart, NobodyLost, CountersAhead

LEMMA WaitBlockIInv ==
  ASSUME IInv, NEW id \in SemId, WaitBlock(id) PROVE IInv'
<1>1. Sound(scheduler) /\ 0 \in Held(scheduler) /\ scheduler.halted = Running
  BY DEF IInv, WaitBlock, User
<1>2. UNCHANGED <<p_tasks, pid_counter, priority, count, p_semaphores,
                  semaphore_counter, p_clock_tree, mode>>
  BY DEF WaitBlock, procVars
<1>3. CASE current = 0
  <2>1. /\ Sound(scheduler)' /\ Held(scheduler)' = Held(scheduler)
        /\ scheduler'.halted = PidZero
    BY <1>1, <1>3, RemoveTaskZero DEF WaitBlock, current, Held
  <2>2. waiting_tasks' = waiting_tasks
    BY <2>1 DEF WaitBlock, Running, PidZero
  <2>3. TypeOK'
    BY <1>2, <2>1, <2>2 DEF IInv, TypeOK, Sound
  <2>4. \A s \in SemId : Waiters(s)' = Waiters(s)
    BY <2>2 DEF Waiters
  <2>5. QueuesApart' /\ NobodyLost' /\ CountersAhead' /\ NoLostWakeup'
    BY <1>2, <2>1, <2>2, <2>4
       DEF IInv, QueuesApart, NobodyLost, CountersAhead, NoLostWakeup
  <2> QED
    BY <1>1, <2>1, <2>3, <2>5 DEF IInv, PidZero, NoneLeft
<1>4. CASE current # 0
  <2>1. 0 \in Range(scheduler.active_tasks)
    BY <1>1, <1>4 DEF Held, current
  <2>2. scheduler.active_tasks # << >>
    BY <2>1 DEF Range
  <2>3. /\ Sound(scheduler)' /\ Held(scheduler)' = Range(scheduler.active_tasks)
        /\ scheduler'.halted = Running
    BY <1>1, <1>4, <2>2, RemoveTaskSound DEF WaitBlock, current
  <2>4. Held(scheduler)' = Held(scheduler) \ {current}
    BY <1>1, <2>3 DEF Held, Sound, current
  <2>5. /\ current \in Pid /\ current \in Held(scheduler)
        /\ \A s \in SemId : current \notin Waiters(s)
    BY <1>1 DEF Held, Sound, current, IInv, QueuesApart
  <2>6. waiting_tasks' = [waiting_tasks EXCEPT ![id] = Append(@, current)]
    BY <2>3 DEF WaitBlock
  <2>7. waiting_tasks[id] \in Seq(Pid) /\ IsInjective(waiting_tasks[id])
    BY DEF IInv, TypeOK, QueuesApart
  <2>8. /\ waiting_tasks'[id] \in Seq(Pid)
        /\ IsInjective(waiting_tasks'[id])
        /\ Waiters(id)' = Waiters(id) \cup {current}
    BY <2>5, <2>6, <2>7, AppendWaiter DEF Waiters, IInv, TypeOK
  <2>9. \A s \in SemId : s # id => waiting_tasks'[s] = waiting_tasks[s]
    BY <2>6 DEF IInv, TypeOK
  <2>10. \A s \in SemId : s # id => Waiters(s)' = Waiters(s)
    BY <2>9 DEF Waiters
  <2>11. TypeOK'
    <3>1. waiting_tasks' \in [SemId -> Seq(Pid)]
      BY <2>6, <2>8 DEF IInv, TypeOK
    <3> QED BY <1>2, <2>3, <3>1 DEF IInv, TypeOK, Sound
  <2>12. QueuesApart'
    <3> SUFFICES ASSUME NEW s \in SemId
                 PROVE  /\ IsInjective(waiting_tasks'[s])
                        /\ Waiters(s)' \cap Held(scheduler)' = {}
                        /\ \A o \in SemId : o # s => Waiters(s)' \cap Waiters(o)' = {}
      BY DEF QueuesApart
    <3>1. CASE s = id
      BY <2>4, <2>5, <2>8, <2>10, <3>1 DEF IInv, QueuesApart
    <3>2. CASE s # id
      BY <2>4, <2>5, <2>8, <2>9, <2>10, <3>2 DEF IInv, QueuesApart
    <3> QED BY <3>1, <3>2
  <2>13. NobodyLost'
    BY <1>2, <2>4, <2>5, <2>8, <2>10 DEF IInv, NobodyLost
  <2>14. CountersAhead'
    BY <1>2, <2>9 DEF IInv, CountersAhead, WaitBlock
  <2>15. NoLostWakeup'
    BY <1>2, <2>9 DEF IInv, NoLostWakeup, WaitBlock
  <2> QED
    BY <2>1, <2>3, <2>11, <2>12, <2>13, <2>14, <2>15 DEF IInv, Running, NoneLeft
<1> QED BY <1>3, <1>4

(***************************************************************************)
(* signal_semaphore, from a system call or from the loop over the clocks.  *)
(***************************************************************************)
LEMMA SignalIInv ==
  ASSUME IInv, NEW id \in p_semaphores, SignalSemaphore(id),
         p_clock_tree' \in Seq(Clock), mode' = mode,
         UNCHANGED <<procVars, p_semaphores, semaphore_counter>>
  PROVE  IInv'
<1>1. UNCHANGED <<p_tasks, pid_counter, priority, p_semaphores, semaphore_counter, mode>>
  BY DEF procVars
<1>2. id \in SemId
  BY DEF IInv, TypeOK
<1>3. CASE waiting_tasks[id] = << >>
  <2>1. /\ UNCHANGED <<scheduler, waiting_tasks>>
        /\ count' = IF count[id] = -1 THEN count ELSE [count EXCEPT ![id] = @ + 1]
    BY <1>3 DEF SignalSemaphore
  <2>2. count' \in [SemId -> Int] /\ \A s \in SemId : s # id => count'[s] = count[s]
    BY <1>2, <2>1 DEF IInv, TypeOK
  <2>3. TypeOK'
    BY <1>1, <2>1, <2>2 DEF IInv, TypeOK
  <2>4. Sound(scheduler)' /\ Held(scheduler)' = Held(scheduler)
    BY <2>1 DEF IInv, Sound, Held
  <2>5. \A s \in SemId : Waiters(s)' = Waiters(s)
    BY <2>1 DEF Waiters
  <2>6. NoLostWakeup'
    BY <1>3, <2>1, <2>2 DEF IInv, NoLostWakeup
  <2>7. QueuesApart' /\ NobodyLost' /\ CountersAhead'
    BY <1>1, <2>1, <2>4, <2>5 DEF IInv, QueuesApart, NobodyLost, CountersAhead
  <2>8. 0 \in Held(scheduler)' /\ scheduler'.halted # NoneLeft
    BY <2>1, <2>4 DEF IInv
  <2> QED
    BY <2>3, <2>4, <2>6, <2>7, <2>8 DEF IInv
<1>4. CASE waiting_tasks[id] # << >>
  <2> DEFINE p == Last(waiting_tasks[id])
  <2>1. /\ scheduler' = AddTask(scheduler, p)
        /\ waiting_tasks' = [waiting_tasks EXCEPT ![id] = Front(@)]
        /\ count' = count
    BY <1>4 DEF SignalSemaphore
  <2>2. waiting_tasks[id] \in Seq(Pid) /\ IsInjective(waiting_tasks[id])
    BY <1>2 DEF IInv, TypeOK, QueuesApart
  <2>3. /\ p \in Pid /\ Front(waiting_tasks[id]) \in Seq(Pid)
        /\ IsInjective(Front(waiting_tasks[id]))
        /\ p \notin Range(Front(waiting_tasks[id]))
        /\ Waiters(id) = Range(Front(waiting_tasks[id])) \cup {p}
    BY <1>4, <2>2, LastWaiter DEF Waiters
  <2> HIDE DEF p
  <2>4. p \in Waiters(id) /\ p \notin Held(scheduler)
    BY <1>2, <2>3 DEF IInv, QueuesApart
  <2>5. /\ Sound(scheduler)' /\ Held(scheduler)' = Held(scheduler) \cup {p}
        /\ scheduler'.halted = scheduler.halted
    BY <2>1, <2>3, <2>4, AddTaskSound DEF IInv, Held
  <2>6. /\ waiting_tasks'[id] = Front(waiting_tasks[id])
        /\ \A s \in SemId : s # id => waiting_tasks'[s] = waiting_tasks[s]
    BY <1>2, <2>1 DEF IInv, TypeOK
  <2>7. /\ Waiters(id)' = Waiters(id) \ {p}
        /\ \A s \in SemId : s # id => Waiters(s)' = Waiters(s)
    BY <2>3, <2>6 DEF Waiters
  <2>8. TypeOK'
    <3>1. waiting_tasks' \in [SemId -> Seq(Pid)]
      BY <2>1, <2>3 DEF IInv, TypeOK
    <3> QED BY <1>1, <2>1, <2>5, <3>1 DEF IInv, TypeOK, Sound
  <2>9. QueuesApart'
    <3> SUFFICES ASSUME NEW s \in SemId
                 PROVE  /\ IsInjective(waiting_tasks'[s])
                        /\ Waiters(s)' \cap Held(scheduler)' = {}
                        /\ \A o \in SemId : o # s => Waiters(s)' \cap Waiters(o)' = {}
      BY DEF QueuesApart
    <3>1. CASE s = id
      BY <1>2, <2>3, <2>5, <2>6, <2>7, <3>1 DEF IInv, QueuesApart
    <3>2. CASE s # id
      <4>1. p \notin Waiters(s)
        BY <1>2, <2>4, <3>2 DEF IInv, QueuesApart
      <4> QED BY <1>2, <2>5, <2>6, <2>7, <3>2, <4>1 DEF IInv, QueuesApart
    <3> QED BY <3>1, <3>2
  <2>10. NobodyLost'
    BY <1>1, <1>2, <2>4, <2>5, <2>7 DEF IInv, NobodyLost
  <2>11. CountersAhead'
    BY <1>1, <1>2, <2>6 DEF IInv, CountersAhead
  <2>12. NoLostWakeup'
    <3>1. count[id] <= 0
      BY <1>2, <1>4 DEF IInv, NoLostWakeup
    <3> QED BY <1>2, <2>1, <2>6, <3>1 DEF IInv, NoLostWakeup
  <2>13. 0 \in Held(scheduler)' /\ scheduler'.halted # NoneLeft
    BY <2>5 DEF IInv
  <2> QED
    BY <2>5, <2>8, <2>9, <2>10, <2>11, <2>12, <2>13 DEF IInv
<1> QED BY <1>3, <1>4

LEMMA ExpireClockIInv == ASSUME IInv, ExpireClock PROVE IInv'
<1> DEFINE id == Head(p_clock_tree).semaphore_id
<1>1. p_clock_tree' \in Seq(Clock)
  BY HeadTailProperties DEF ExpireClock, Expired, IInv, TypeOK
<1>2. UNCHANGED <<procVars, p_semaphores, semaphore_counter, mode>>
  BY DEF ExpireClock
<1>3. CASE id \in p_semaphores
  BY <1>1, <1>2, <1>3, SignalIInv DEF ExpireClock
<1>4. CASE id \notin p_semaphores
  <2>1. UNCHANGED <<scheduler, count, waiting_tasks>>
    BY <1>4 DEF ExpireClock
  <2> QED
    BY <1>1, <1>2, <2>1, ClockIInv DEF semVars, IInv, TypeOK
<1> QED BY <1>3, <1>4

LEMMA DispatchIInv == ASSUME IInv, NEW spent \in Spent, Dispatch(spent) PROVE IInv'
<1>1. UNCHANGED <<p_tasks, pid_counter, priority, p_semaphores, count, waiting_tasks,
                  semaphore_counter, p_clock_tree>>
  BY DEF Dispatch, procVars, semVars
<1>2. current \in Pid /\ priority[current] \in Nat
  <2>1. current \in Pid
    BY DEF IInv, Sound, current
  <2>2. priority[current] \in 0 .. PriorityRange - 1
    BY <2>1 DEF IInv, TypeOK
  <2>3. 0 .. PriorityRange - 1 \subseteq Nat
    BY DEF PriorityRange
  <2> QED BY <2>1, <2>2, <2>3
<1>3. Charge(spent, priority[current]) \in Nat
  BY <1>2, ChargeType, KernelAssumption
<1>4. /\ Sound(scheduler)' /\ Held(scheduler)' = Held(scheduler)
      /\ scheduler'.halted = scheduler.halted
  BY <1>3, ScheduleSound DEF Dispatch, IInv
<1>5. TypeOK'
  BY <1>1, <1>4 DEF IInv, TypeOK, Dispatch, Sound
<1>6. \A s \in SemId : Waiters(s)' = Waiters(s)
  BY <1>1 DEF Waiters
<1> QED
  BY <1>1, <1>4, <1>5, <1>6 DEF IInv, QueuesApart, NobodyLost, CountersAhead, NoLostWakeup

LEMMA StutterIInv == ASSUME IInv, UNCHANGED vars PROVE IInv'
BY ClockIInv DEF IInv, TypeOK, vars

LEMMA SetPriorityRange ==
  ASSUME IInv, NEW n \in Priorities, SetPriority(n)
  PROVE  priority' \in [Pid -> 0 .. PriorityRange - 1]
<1>1. n \in Nat
  BY KernelAssumption
<1>2. PriorityRange \in Nat /\ PriorityRange > 0
  BY DEF PriorityRange
<1>3. n % PriorityRange \in 0 .. PriorityRange - 1
  BY ONLY <1>1, <1>2
<1> QED
  BY <1>3 DEF SetPriority, IInv, TypeOK

LEMMA ExecPriority ==
  ASSUME IInv, Exec
  PROVE  priority' \in [Pid -> 0 .. PriorityRange - 1]
<1>1. DefaultPriority \in 0 .. PriorityRange - 1
  BY DEF PriorityRange, DefaultPriority
<1> QED
  BY <1>1 DEF Exec, IInv, TypeOK

LEMMA SignalAfterIInv ==
  ASSUME IInv, NEW id \in SemId, NEW delay \in Delays, SignalAfter(id, delay)
  PROVE  IInv'
<1> DEFINE c == [semaphore_id |-> id, left |-> delay]
           i == ClockPosition(delay)
<1>1. p_clock_tree \in Seq(Clock) /\ c \in Clock /\ delay \in Int
  BY KernelAssumption DEF IInv, TypeOK, Clock
<1>2. i \in 1 .. Len(p_clock_tree) + 1
  BY <1>1, ClockPositionType
<1> HIDE DEF c, i
<1>3. InsertAt(p_clock_tree, i, c) \in Seq(Clock)
  BY <1>1, <1>2, InsertAtElements
<1>4. p_clock_tree' \in Seq(Clock)
  BY <1>3 DEF SignalAfter, c, i
<1>5. mode' \in {"user", "schedule"} /\ UNCHANGED <<scheduler, procVars, semVars>>
  BY DEF SignalAfter, IInv, TypeOK
<1> QED
  BY <1>4, <1>5, ClockIInv

LEMMA TimeoutIInv == ASSUME IInv, NEW t \in Elapsed, Timeout(t) PROVE IInv'
<1>1. p_clock_tree' \in Seq(Clock)
  BY AfterType, KernelAssumption DEF Timeout, IInv, TypeOK
<1> QED
  BY <1>1, ClockIInv DEF Timeout

LEMMA NextIInv == ASSUME IInv, [Next]_vars PROVE IInv'
<1>1. CASE Fork
  BY <1>1, ForkIInv
<1>2. CASE Exec
  BY <1>2, ExecPriority, PriorityIInv DEF Exec
<1>3. ASSUME NEW t \in Elapsed, Exit(t) PROVE IInv'
  BY <1>3, ExitIInv
<1>4. ASSUME NEW n \in Priorities, SetPriority(n) PROVE IInv'
  BY <1>4, SetPriorityRange, PriorityIInv DEF SetPriority
<1>5. ASSUME NEW init \in Initial, CreateSemaphore(init) PROVE IInv'
  BY <1>5, CreateSemaphoreIInv
<1>6. ASSUME NEW id \in SemId, DeleteSemaphore(id) PROVE IInv'
  BY <1>6, DeleteSemaphoreIInv
<1>7. ASSUME NEW id \in SemId, WaitPass(id) PROVE IInv'
  BY <1>7, WaitPassIInv
<1>8. ASSUME NEW id \in SemId, WaitBlock(id) PROVE IInv'
  BY <1>8, WaitBlockIInv
<1>9. ASSUME NEW id \in SemId, Signal(id) PROVE IInv'
  <2>1. p_clock_tree' \in Seq(Clock)
    BY <1>9 DEF Signal, IInv, TypeOK
  <2> QED BY <1>9, <2>1, SignalIInv DEF Signal
<1>10. ASSUME NEW id \in SemId, NEW delay \in Delays, SignalAfter(id, delay) PROVE IInv'
  BY <1>10, SignalAfterIInv
<1>11. CASE Tick
  BY <1>11, TimeoutIInv DEF Tick
<1>12. CASE InSchedule
  BY <1>12, ExpireClockIInv, DispatchIInv DEF InSchedule
<1>13. CASE Halt
  BY <1>13, StutterIInv DEF Halt
<1>14. CASE UNCHANGED vars
  BY <1>14, StutterIInv
<1> QED
  BY <1>1, <1>2, <1>3, <1>4, <1>5, <1>6, <1>7, <1>8, <1>9, <1>10, <1>11, <1>12,
     <1>13, <1>14 DEF Next, SystemCall

\* The inductive invariant holds in every state the kernel reaches.
THEOREM Inductive == Spec => []IInv
<1>1. Init => IInv
  BY InitIInv
<1>2. IInv /\ [Next]_vars => IInv'
  BY NextIInv
<1> QED
  BY <1>1, <1>2, PTL DEF Spec

-----------------------------------------------------------------------------
(* The invariants the runs check.                                          *)

(***************************************************************************)
(* Every variable keeps its type: priorities stay 16 bits wide and virtual *)
(* times never go below zero.                                              *)
(***************************************************************************)
THEOREM TypeCorrect == Spec => []TypeOK
<1>1. IInv => TypeOK
  BY DEF IInv
<1> QED
  BY <1>1, Inductive, PTL

(***************************************************************************)
(* A live process executes, is ready or waits for one semaphore, in one    *)
(* place only, whatever the interleaving of calls, clocks and ticks.       *)
(***************************************************************************)
THEOREM OnePlaceHolds == Spec => []OnePlace
<1>1. IInv => OnePlace
  <2> SUFFICES ASSUME IInv PROVE OnePlace
    OBVIOUS
  <2>1. /\ Sound(scheduler) /\ Held(scheduler) \subseteq Pid
        /\ current = scheduler.executing_task
    BY HeldType DEF IInv, current
  <2>2. \A id \in SemId : waiting_tasks[id] \in Seq(Pid) /\ Waiters(id) \subseteq Pid
    BY RangeOfSeq DEF IInv, TypeOK, Waiters
  <2>3. p_tasks \subseteq Pid
    BY DEF IInv, TypeOK
  <2>4. p_tasks = Held(scheduler) \cup UNION {Waiters(id) : id \in SemId}
    BY <2>1, <2>2, <2>3 DEF IInv, NobodyLost
  <2>5. current \notin Range(scheduler.active_tasks) /\ IsInjective(scheduler.active_tasks)
    BY <2>1 DEF Sound
  <2> QED
    BY <2>1, <2>4, <2>5 DEF OnePlace, IInv, QueuesApart, CountersAhead, Held, Waiters
<1> QED
  BY <1>1, Inductive, PTL

(***************************************************************************)
(* No process waits for a semaphore with a positive count.                 *)
(***************************************************************************)
THEOREM NoLostWakeupHolds == Spec => []NoLostWakeup
<1>1. IInv => NoLostWakeup
  BY DEF IInv
<1> QED
  BY <1>1, Inductive, PTL

(***************************************************************************)
(* The assertion "no task to schedule." of scheduler.cc:113 cannot fail.   *)
(***************************************************************************)
THEOREM NeverIdleHolds == Spec => []NeverIdle
<1>1. IInv => NeverIdle
  BY PidAssumption DEF IInv, NeverIdle, Sound, current
<1> QED
  BY <1>1, Inductive, PTL

(***************************************************************************)
(* The tree of ready tasks stays ordered by virtual time.                  *)
(***************************************************************************)
THEOREM ReadyInOrderHolds == Spec => []ReadyInOrder
<1>1. IInv => ReadyInOrder
  BY DEF IInv, Sound, SortedBy, ReadyInOrder
<1> QED
  BY <1>1, Inductive, PTL

-----------------------------------------------------------------------------
(* Action properties                                                       *)

(***************************************************************************)
(* A process that TASK_STAT has reported TERMINATED never executes, and    *)
(* its pid is not given to another one.                                    *)
(***************************************************************************)
LEMMA TerminatedStep ==
  ASSUME IInv, [Next]_vars, NEW p \in Pid, p \notin p_tasks, p < pid_counter
  PROVE  p \notin p_tasks' /\ p < pid_counter'
<1>1. pid_counter \in Nat /\ p \in Nat
  BY PidAssumption DEF IInv, TypeOK
<1>2. CASE Fork
  BY <1>1, <1>2 DEF Fork
<1>3. ASSUME NEW t \in Elapsed, Exit(t) PROVE p \notin p_tasks' /\ p < pid_counter'
  BY <1>3 DEF Exit
<1>4. CASE UNCHANGED procVars
  BY <1>4 DEF procVars
<1>5. CASE Exec
  BY <1>5 DEF Exec
<1>6. ASSUME NEW n \in Priorities, SetPriority(n)
      PROVE  p \notin p_tasks' /\ p < pid_counter'
  BY <1>6 DEF SetPriority
<1>7. ASSUME NEW init \in Initial, CreateSemaphore(init) PROVE UNCHANGED procVars
  BY <1>7 DEF CreateSemaphore
<1>8. ASSUME NEW id \in SemId,
             \/ DeleteSemaphore(id) \/ WaitPass(id) \/ WaitBlock(id) \/ Signal(id)
             \/ \E delay \in Delays : SignalAfter(id, delay)
      PROVE  UNCHANGED procVars
  BY <1>8 DEF DeleteSemaphore, WaitPass, WaitBlock, Signal, SignalAfter
<1>9. CASE Tick \/ InSchedule \/ Halt \/ UNCHANGED vars
  <2>1. UNCHANGED procVars
    BY <1>9 DEF Tick, Timeout, InSchedule, ExpireClock, Dispatch, Halt, vars
  <2> QED
    BY <2>1, <1>4
<1> QED
  BY <1>2, <1>3, <1>4, <1>5, <1>6, <1>7, <1>8, <1>9 DEF Next, SystemCall

THEOREM TerminatedForGoodHolds == Spec => TerminatedForGood
<1>1. IInv /\ IInv' /\ [Next]_vars
        => [\A p \in Pid : TaskStat(p) = "TERMINATED"
              => TaskStat(p)' = "TERMINATED" /\ current' # p]_vars
  <2> SUFFICES ASSUME IInv, IInv', [Next]_vars,
                      NEW p \in Pid, TaskStat(p) = "TERMINATED"
               PROVE  TaskStat(p)' = "TERMINATED" /\ current' # p
    OBVIOUS
  <2>1. p \notin p_tasks /\ p < pid_counter
    BY DEF TaskStat
  <2>2. p \notin p_tasks' /\ p < pid_counter'
    BY <2>1, TerminatedStep
  <2>3. current' \in p_tasks'
    BY DEF IInv, NobodyLost, Held, Sound, SchedulerType, current
  <2> QED
    BY <2>2, <2>3 DEF TaskStat
<1>2. IInv /\ [Next]_vars => IInv'
  BY NextIInv
<1> QED
  BY <1>1, <1>2, Inductive, PTL DEF Spec, TerminatedForGood

-----------------------------------------------------------------------------
(***************************************************************************)
(* The clocks stay in order of expiration: the second invariant, which the *)
(* loop of signal_semaphore_by_clocks relies on when it stops at the first *)
(* clock that has not expired.                                             *)
(***************************************************************************)
InOrder(clocks) ==
  \A i, j \in 1 .. Len(clocks) : i < j => clocks[i].left <= clocks[j].left

ClocksInOrder == InOrder(p_clock_tree)

LEMMA AfterInOrder ==
  ASSUME NEW clocks \in Seq(Clock), InOrder(clocks), NEW t \in Nat
  PROVE  InOrder(After(clocks, t))
<1> DEFINE later == After(clocks, t)
<1>1. /\ Len(clocks) \in Nat /\ DOMAIN clocks = 1 .. Len(clocks)
      /\ \A i \in 1 .. Len(clocks) : clocks[i] \in Clock
  OBVIOUS
<1>2. later \in Seq(Clock) /\ DOMAIN later = 1 .. Len(clocks)
  BY <1>1, AfterType DEF After
<1>3. Len(later) = Len(clocks)
  BY <1>1, <1>2
<1>4. \A i \in 1 .. Len(clocks) :
        later[i].left = clocks[i].left - t /\ clocks[i].left \in Int
  BY <1>1 DEF After, Clock
<1> HIDE DEF later
<1>5. InOrder(later)
  BY <1>3, <1>4 DEF InOrder
<1> QED
  BY <1>5 DEF later

LEMMA TailInOrder ==
  ASSUME NEW clocks \in Seq(Clock), clocks # << >>, InOrder(clocks)
  PROVE  InOrder(Tail(clocks))
<1>1. /\ Len(clocks) \in Nat \ {0} /\ Len(Tail(clocks)) = Len(clocks) - 1
      /\ \A i \in 1 .. Len(clocks) - 1 : Tail(clocks)[i] = clocks[i + 1]
  BY HeadTailProperties
<1> QED
  BY <1>1 DEF InOrder

\* avl_tree::insert puts a clock behind all that expire no later.
LEMMA InsertInOrder ==
  ASSUME p_clock_tree \in Seq(Clock), ClocksInOrder,
         NEW c \in Clock
  PROVE  InOrder(InsertAt(p_clock_tree, ClockPosition(c.left), c))
<1> DEFINE n == Len(p_clock_tree)
           i == ClockPosition(c.left)
           t == InsertAt(p_clock_tree, i, c)
           later == {k \in DOMAIN p_clock_tree : p_clock_tree[k].left > c.left}
<1>1. /\ n \in Nat /\ DOMAIN p_clock_tree = 1 .. n /\ c.left \in Int
      /\ \A k \in 1 .. n : p_clock_tree[k].left \in Int
  <2>1. \A d \in Clock : d.left \in Int
    BY DEF Clock
  <2>2. /\ n \in Nat /\ DOMAIN p_clock_tree = 1 .. n
        /\ \A k \in 1 .. n : p_clock_tree[k] \in Clock
    OBVIOUS
  <2> QED
    BY <2>1, <2>2
<1>2. i \in 1 .. n + 1
  BY <1>1, ClockPositionType
<1>3. /\ Len(t) = n + 1
      /\ \A j \in 1 .. n + 1 :
           t[j] = IF j < i THEN p_clock_tree[j]
                  ELSE IF j = i THEN c ELSE p_clock_tree[j - 1]
  BY <1>2, InsertAtElements
<1>4. /\ \A k \in 1 .. n : k < i => p_clock_tree[k].left <= c.left
      /\ i <= n => p_clock_tree[i].left > c.left
  <2>1. CASE later = {}
    BY <1>1, <2>1 DEF ClockPosition
  <2>2. CASE later # {}
    <3>1. i = Min(later) /\ later \subseteq Nat
      BY <1>1, <2>2 DEF ClockPosition
    <3>2. Min(later) \in later /\ \A k \in later : Min(later) <= k
      BY <2>2, <3>1, MinProperties
    <3>3. i \in later /\ \A k \in later : i <= k
      BY <3>1, <3>2
    <3> HIDE DEF i
    <3>4. \A k \in 1 .. n : k < i => k \notin later
      BY <1>2, <3>3
    <3> QED
      BY <1>1, <3>3, <3>4
  <2> QED
    BY <2>1, <2>2
<1>5. \A j, k \in 1 .. n : j <= k => p_clock_tree[j].left <= p_clock_tree[k].left
  BY <1>1 DEF ClocksInOrder, InOrder
<1>6. \A k \in 1 .. n : k >= i => p_clock_tree[k].left > c.left
  <2> SUFFICES ASSUME NEW k \in 1 .. n, k >= i PROVE p_clock_tree[k].left > c.left
    OBVIOUS
  <2> HIDE DEF i
  <2>1. i \in 1 .. n /\ i <= k
    BY <1>1, <1>2
  <2>2. p_clock_tree[i].left <= p_clock_tree[k].left
    BY <1>5, <2>1
  <2> QED
    BY <1>1, <1>4, <2>1, <2>2
<1> HIDE DEF i, t, n
<1>7. InOrder(t)
  <2> SUFFICES ASSUME NEW j \in 1 .. n + 1, NEW k \in 1 .. n + 1, j < k
               PROVE  t[j].left <= t[k].left
    BY <1>3 DEF InOrder
  <2>1. CASE k < i
    BY <1>1, <1>2, <1>3, <1>5, <2>1
  <2>2. CASE k = i
    BY <1>1, <1>2, <1>3, <1>4, <2>2
  <2>3. CASE j < i /\ i < k
    <3>1. t[j] = p_clock_tree[j] /\ t[k] = p_clock_tree[k - 1]
          /\ j \in 1 .. n /\ k - 1 \in 1 .. n /\ j <= k - 1
      BY <1>1, <1>2, <1>3, <2>3
    <3> QED
      BY <1>5, <3>1
  <2>4. CASE j = i
    <3>1. t[j] = c /\ t[k] = p_clock_tree[k - 1]
          /\ k - 1 \in 1 .. n /\ k - 1 >= i
      BY <1>1, <1>2, <1>3, <2>4
    <3> QED
      BY <1>1, <1>6, <3>1
  <2>5. CASE j > i
    <3>1. t[j] = p_clock_tree[j - 1] /\ t[k] = p_clock_tree[k - 1]
          /\ j - 1 \in 1 .. n /\ k - 1 \in 1 .. n /\ j - 1 <= k - 1
      BY <1>1, <1>2, <1>3, <2>5
    <3> QED
      BY <1>5, <3>1
  <2> QED
    BY <1>1, <1>2, <2>1, <2>2, <2>3, <2>4, <2>5
<1> QED
  BY <1>7 DEF t, i

LEMMA InitClocksInOrder == Init => ClocksInOrder
BY DEF Init, ClocksInOrder, InOrder

LEMMA NextClocksInOrder ==
  ASSUME IInv, ClocksInOrder, [Next]_vars PROVE ClocksInOrder'
<1>1. p_clock_tree \in Seq(Clock)
  BY DEF IInv, TypeOK
<1>2. CASE UNCHANGED p_clock_tree
  BY <1>2 DEF ClocksInOrder
<1>3. ASSUME NEW t \in Elapsed, p_clock_tree' = After(p_clock_tree, t)
      PROVE  ClocksInOrder'
  BY <1>1, <1>3, AfterInOrder, KernelAssumption DEF ClocksInOrder
<1>4. ASSUME NEW t \in Elapsed, Exit(t) PROVE ClocksInOrder'
  <2>1. p_clock_tree' = After(p_clock_tree, t) \/ UNCHANGED p_clock_tree
    BY <1>4 DEF Exit
  <2> QED
    BY <1>2, <1>3, <2>1
<1>5. ASSUME NEW id \in SemId, NEW delay \in Delays, SignalAfter(id, delay)
      PROVE  ClocksInOrder'
  <2> DEFINE c == [semaphore_id |-> id, left |-> delay]
  <2>1. c \in Clock /\ c.left = delay
    BY KernelAssumption DEF Clock
  <2> HIDE DEF c
  <2>2. p_clock_tree' = InsertAt(p_clock_tree, ClockPosition(c.left), c)
    BY <1>5, <2>1 DEF SignalAfter, c
  <2> QED
    BY <1>1, <2>1, <2>2, InsertInOrder DEF ClocksInOrder
<1>6. CASE Tick
  BY <1>3, <1>6 DEF Tick, Timeout
<1>7. CASE ExpireClock
  BY <1>1, <1>7, TailInOrder DEF ExpireClock, Expired, ClocksInOrder
<1>8. ASSUME NEW spent \in Spent, Dispatch(spent) PROVE UNCHANGED p_clock_tree
  BY <1>8 DEF Dispatch
<1>9. CASE Fork \/ Exec
  BY <1>2, <1>9 DEF Fork, Exec
<1>10. ASSUME NEW n \in Priorities, SetPriority(n) PROVE UNCHANGED p_clock_tree
  BY <1>10 DEF SetPriority
<1>11. ASSUME NEW init \in Initial, CreateSemaphore(init) PROVE UNCHANGED p_clock_tree
  BY <1>11 DEF CreateSemaphore
<1>12. ASSUME NEW id \in SemId,
              DeleteSemaphore(id) \/ WaitPass(id) \/ WaitBlock(id) \/ Signal(id)
       PROVE  UNCHANGED p_clock_tree
  BY <1>12 DEF DeleteSemaphore, WaitPass, WaitBlock, Signal
<1>13. CASE Halt \/ UNCHANGED vars
  BY <1>2, <1>13 DEF Halt, vars
<1> QED
  BY <1>2, <1>4, <1>5, <1>6, <1>7, <1>8, <1>9, <1>10, <1>11, <1>12, <1>13
     DEF Next, SystemCall, InSchedule

(***************************************************************************)
(* When schedule() returns to a program, no timed signal is overdue.       *)
(***************************************************************************)
THEOREM NothingOverdueHolds == Spec => NothingOverdue
<1>1. IInv /\ ClocksInOrder /\ [Next]_vars
        => [mode = "schedule" /\ mode' = "user"
              => \A i \in DOMAIN p_clock_tree' : p_clock_tree'[i].left > 0]_vars
  <2> SUFFICES ASSUME IInv, ClocksInOrder, [Next]_vars,
                      mode = "schedule", mode' = "user"
               PROVE  \A i \in DOMAIN p_clock_tree' : p_clock_tree'[i].left > 0
    OBVIOUS
  <2>1. PICK spent \in Spent : Dispatch(spent)
    BY Zenon DEF Next, SystemCall, Fork, Exec, Exit, SetPriority, CreateSemaphore,
           DeleteSemaphore, WaitPass, WaitBlock, Signal, SignalAfter, User, Tick, Timeout,
           InSchedule, ExpireClock, Halt, vars
  <2>2. p_clock_tree' = p_clock_tree /\ ~Expired
    BY <2>1 DEF Dispatch
  <2>3. /\ p_clock_tree \in Seq(Clock) /\ Len(p_clock_tree) \in Nat
        /\ DOMAIN p_clock_tree = 1 .. Len(p_clock_tree)
        /\ \A i \in DOMAIN p_clock_tree : p_clock_tree[i].left \in Int
    <3>1. \A d \in Clock : d.left \in Int
      BY DEF Clock
    <3>2. p_clock_tree \in Seq(Clock)
      BY DEF IInv, TypeOK
    <3>3. /\ Len(p_clock_tree) \in Nat
          /\ DOMAIN p_clock_tree = 1 .. Len(p_clock_tree)
          /\ \A i \in DOMAIN p_clock_tree : p_clock_tree[i] \in Clock
      BY <3>2
    <3> QED
      BY <3>1, <3>2, <3>3
  <2> SUFFICES ASSUME NEW i \in 1 .. Len(p_clock_tree)
               PROVE  p_clock_tree[i].left > 0
    BY <2>2, <2>3
  <2>4. p_clock_tree # << >> /\ 1 \in 1 .. Len(p_clock_tree)
        /\ Head(p_clock_tree) = p_clock_tree[1]
    BY <2>3
  <2>5. p_clock_tree[1].left > 0
    BY <2>2, <2>3, <2>4 DEF Expired
  <2>6. p_clock_tree[1].left <= p_clock_tree[i].left
    BY <2>3, <2>4 DEF ClocksInOrder, InOrder
  <2> QED
    BY <2>3, <2>4, <2>5, <2>6
<1>2. IInv /\ [Next]_vars => IInv'
  BY NextIInv
<1>3. IInv /\ ClocksInOrder /\ [Next]_vars => ClocksInOrder'
  BY NextClocksInOrder
<1>4. Init => IInv /\ ClocksInOrder
  BY InitIInv, InitClocksInOrder
<1> QED
  BY <1>1, <1>2, <1>3, <1>4, PTL DEF Spec, NothingOverdue

-----------------------------------------------------------------------------
(***************************************************************************)
(* The kernel implements the life cycle of processes, for any number of    *)
(* processes and semaphores: whatever the scheduler, the semaphores and    *)
(* the clocks do to their queues, what a process sees is a step of         *)
(* ProcessLifecycle, or nothing.                                           *)
(***************************************************************************)
status == [p \in Pid |-> StatusOf(p)]

LEMMA HandOverStep ==
  ASSUME NEW p \in Pid, NEW q \in Pid, p # q, NEW left,
         StatusOf(p) = "running", StatusOf(q) = "ready",
         StatusOf(p)' = left, StatusOf(q)' = "running",
         \A r \in Pid \ {p, q} : StatusOf(r)' = StatusOf(r)
  PROVE  Lifecycle!HandOver(p, q, left)
<1>1. status[p] = "running" /\ status[q] = "ready"
  BY DEF status
<1>2. status' = [status EXCEPT ![p] = left, ![q] = "running"]
  BY DEF status
<1> QED
  BY <1>1, <1>2 DEF Lifecycle!HandOver, status

LEMMA ReadyStep ==
  ASSUME NEW p \in Pid, StatusOf(p) \in {"none", "blocked"}, StatusOf(p)' = "ready",
         \A r \in Pid \ {p} : StatusOf(r)' = StatusOf(r)
  PROVE  Lifecycle!Next
<1>1. status[p] \in {"none", "blocked"}
  BY DEF status
<1>2. status' = [status EXCEPT ![p] = "ready"]
  BY DEF status
<1>3. Lifecycle!Create(p) \/ Lifecycle!Wake(p)
  BY <1>1, <1>2 DEF Lifecycle!Create, Lifecycle!Wake, status
<1> QED
  BY <1>3 DEF Lifecycle!Next

LEMMA SameStatus ==
  ASSUME \A p \in Pid : StatusOf(p)' = StatusOf(p)
  PROVE  UNCHANGED status
BY DEF status

LEMMA SamePlaces ==
  ASSUME UNCHANGED <<p_tasks, pid_counter>>,
         scheduler'.executing_task = scheduler.executing_task,
         scheduler'.active_tasks = scheduler.active_tasks
  PROVE  UNCHANGED status
<1>1. \A p \in Pid : StatusOf(p)' = StatusOf(p)
  BY DEF StatusOf, current
<1> QED
  BY <1>1, SameStatus

-----------------------------------------------------------------------------
(* The actions of the kernel                                               *)

LEMMA InitLifecycle == Init => Lifecycle!Init
<1> SUFFICES ASSUME Init PROVE Lifecycle!Init
  OBVIOUS
<1>1. IInv /\ p_tasks = {0} /\ pid_counter = 1
  BY InitIInv DEF Init
<1>2. current = 0
  BY <1>1, PidAssumption DEF IInv, NobodyLost, Held, Sound, SchedulerType, current
<1>3. \A p \in Pid : StatusOf(p) = IF p = 0 THEN "running" ELSE "none"
  BY <1>1, <1>2, PidAssumption DEF StatusOf
<1> QED
  BY <1>3 DEF Lifecycle!Init

LEMMA ForkLifecycle == ASSUME IInv, Fork PROVE Lifecycle!Next
<1> PICK child \in Pid : child = pid_counter
  BY DEF Fork
<1>1. child \notin p_tasks /\ child \in Nat /\ child \notin Held(scheduler)
  BY PidAssumption DEF Fork, IInv, CountersAhead, NobodyLost
<1>2. /\ scheduler'.executing_task = scheduler.executing_task
      /\ Range(scheduler'.active_tasks) = Range(scheduler.active_tasks) \cup {child}
  BY <1>1, AddTaskSound DEF Fork, IInv
<1>3. pid_counter' = child + 1 /\ p_tasks' = p_tasks \cup {child}
  BY DEF Fork
<1>4. StatusOf(child) = "none"
  BY <1>1 DEF StatusOf
<1>5. StatusOf(child)' = "ready"
  BY <1>1, <1>2, <1>3 DEF StatusOf, Held, current
<1>6. \A r \in Pid \ {child} : StatusOf(r)' = StatusOf(r)
  BY <1>1, <1>2, <1>3, PidAssumption DEF StatusOf, current
<1> QED
  BY <1>1, <1>4, <1>5, <1>6, ReadyStep

(***************************************************************************)
(* exit and wait: the executing task leaves the scheduler, which chooses a *)
(* successor among the ready ones.                                         *)
(***************************************************************************)
LEMMA LeaveStep ==
  ASSUME IInv, current # 0, UNCHANGED pid_counter,
         Sound(scheduler'), Held(scheduler') = Range(scheduler.active_tasks),
         p_tasks' \in {p_tasks, p_tasks \ {current}}
  PROVE  Lifecycle!Next
<1> PICK p \in Pid : p = current
  BY DEF IInv, Sound, current
<1> PICK q \in Pid : q = current'
  BY DEF Sound, current
<1> DEFINE ready == Range(scheduler.active_tasks)
<1>1. /\ p \notin ready /\ ready \subseteq Pid
      /\ p \in p_tasks /\ ready \subseteq p_tasks
  BY HeldType DEF IInv, Sound, Held, current, NobodyLost
<1>2. /\ q \in ready /\ Range(scheduler'.active_tasks) = ready \ {q}
  BY DEF Sound, Held, current
<1>3. p # q
  BY <1>1, <1>2
<1>4. \A r \in p_tasks : r \in Nat /\ r < pid_counter /\ ~(r >= pid_counter)
  BY PidAssumption DEF IInv, TypeOK, CountersAhead
<1>5. StatusOf(p) = "running" /\ StatusOf(q) = "ready"
  BY <1>1, <1>2, <1>3, <1>4 DEF StatusOf
<1>6. StatusOf(q)' = "running"
  BY <1>1, <1>2, <1>3, <1>4 DEF StatusOf
<1>7. StatusOf(p)' \in {"blocked", "exited"}
  BY <1>1, <1>2, <1>3, <1>4 DEF StatusOf
<1>8. \A r \in Pid \ {p, q} : StatusOf(r)' = StatusOf(r)
  BY <1>1, <1>2, <1>3 DEF StatusOf
<1>9. Lifecycle!HandOver(p, q, "blocked") \/ Lifecycle!HandOver(p, q, "exited")
  BY <1>1, <1>3, <1>5, <1>6, <1>7, <1>8, HandOverStep
<1>10. Lifecycle!Block(p, q) \/ Lifecycle!Exit(p, q)
  BY <1>9 DEF Lifecycle!Block, Lifecycle!Exit
<1> QED
  BY <1>1, <1>3, <1>10 DEF Lifecycle!Next

LEMMA ExitLifecycle ==
  ASSUME IInv, NEW t \in Elapsed, Exit(t) PROVE Lifecycle!Next \/ UNCHANGED status
<1>1. Sound(scheduler) /\ 0 \in Held(scheduler) /\ UNCHANGED pid_counter
      /\ scheduler.halted = Running /\ scheduler' = RemoveTask(scheduler)
  BY DEF IInv, Exit, User
<1>2. CASE current = 0
  <2>1. /\ scheduler'.executing_task = scheduler.executing_task
        /\ scheduler'.active_tasks = scheduler.active_tasks
        /\ scheduler'.halted = PidZero
    BY <1>1, <1>2, RemoveTaskZero DEF current
  <2>2. UNCHANGED p_tasks
    BY <2>1 DEF Exit, Running, PidZero
  <2> QED
    BY <1>1, <2>1, <2>2, SamePlaces
<1>3. CASE current # 0
  <2>1. scheduler.active_tasks # << >>
    BY <1>1, <1>3 DEF Held, current, Range
  <2>2. /\ Sound(scheduler') /\ Held(scheduler') = Range(scheduler.active_tasks)
        /\ scheduler'.halted = Running
    BY <1>1, <1>3, <2>1, RemoveTaskSound DEF current
  <2>3. p_tasks' = p_tasks \ {current}
    BY <2>2 DEF Exit
  <2> QED
    BY <1>1, <1>3, <2>2, <2>3, LeaveStep
<1> QED
  BY <1>2, <1>3

LEMMA WaitBlockLifecycle ==
  ASSUME IInv, NEW id \in SemId, WaitBlock(id) PROVE Lifecycle!Next \/ UNCHANGED status
<1>1. Sound(scheduler) /\ 0 \in Held(scheduler) /\ UNCHANGED <<p_tasks, pid_counter>>
      /\ scheduler' = RemoveTask(scheduler)
  BY DEF IInv, WaitBlock, procVars
<1>2. CASE current = 0
  <2>1. /\ scheduler'.executing_task = scheduler.executing_task
        /\ scheduler'.active_tasks = scheduler.active_tasks
    BY <1>1, <1>2, RemoveTaskZero DEF current
  <2> QED
    BY <1>1, <2>1, SamePlaces
<1>3. CASE current # 0
  <2>1. scheduler.active_tasks # << >>
    BY <1>1, <1>3 DEF Held, current, Range
  <2>2. Sound(scheduler') /\ Held(scheduler') = Range(scheduler.active_tasks)
    BY <1>1, <1>3, <2>1, RemoveTaskSound DEF current
  <2> QED
    BY <1>1, <1>3, <2>2, LeaveStep
<1> QED
  BY <1>2, <1>3

(***************************************************************************)
(* A signal, from a system call or from a clock, wakes one task or none.   *)
(***************************************************************************)
LEMMA SignalLifecycle ==
  ASSUME IInv, NEW id \in SemId, SignalSemaphore(id), UNCHANGED <<p_tasks, pid_counter>>
  PROVE  Lifecycle!Next \/ UNCHANGED status
<1>1. CASE waiting_tasks[id] = << >>
  <2>1. UNCHANGED scheduler
    BY <1>1 DEF SignalSemaphore
  <2> QED
    BY <2>1, SamePlaces
<1>2. CASE waiting_tasks[id] # << >>
  <2>1. waiting_tasks[id] \in Seq(Pid) /\ IsInjective(waiting_tasks[id])
    BY DEF IInv, TypeOK, QueuesApart
  <2>2. PICK p \in Pid : p = Last(waiting_tasks[id]) /\ p \in Waiters(id)
    BY <1>2, <2>1, LastWaiter DEF Waiters
  <2>3. scheduler' = AddTask(scheduler, p)
    BY <1>2, <2>2 DEF SignalSemaphore
  <2>4. p \notin Held(scheduler) /\ p \in p_tasks
    BY <2>2 DEF IInv, QueuesApart, NobodyLost
  <2>5. /\ scheduler'.executing_task = scheduler.executing_task
        /\ Range(scheduler'.active_tasks) = Range(scheduler.active_tasks) \cup {p}
    BY <2>3, <2>4, AddTaskSound DEF IInv
  <2>6. p \in Nat /\ pid_counter \in Nat /\ ~(p >= pid_counter)
    BY <2>4, PidAssumption DEF IInv, TypeOK, CountersAhead
  <2>7. StatusOf(p) = "blocked"
    BY <2>4, <2>6 DEF StatusOf, Held, current
  <2>8. StatusOf(p)' = "ready"
    BY <2>4, <2>5, <2>6 DEF StatusOf, Held, current
  <2>9. \A r \in Pid \ {p} : StatusOf(r)' = StatusOf(r)
    BY <2>5 DEF StatusOf, current
  <2> QED
    BY <2>7, <2>8, <2>9, ReadyStep
<1> QED
  BY <1>1, <1>2

\* schedule() chooses the executing task again, or preempts it.
LEMMA DispatchLifecycle ==
  ASSUME IInv, NEW spent \in Spent, Dispatch(spent)
  PROVE  Lifecycle!Next \/ UNCHANGED status
<1> PICK p \in Pid : p = current
  BY DEF IInv, Sound, current
<1>1. UNCHANGED <<p_tasks, pid_counter>>
  BY DEF Dispatch, procVars
<1>2. priority[p] \in Nat
  <2>1. priority[p] \in 0 .. PriorityRange - 1
    BY DEF IInv, TypeOK
  <2>2. 0 .. PriorityRange - 1 \subseteq Nat
    BY DEF PriorityRange
  <2> QED BY <2>1, <2>2
<1>3. Charge(spent, priority[p]) \in Nat
  BY <1>2, ChargeType, KernelAssumption
<1>4. Sound(scheduler') /\ Held(scheduler') = Held(scheduler)
  BY <1>3, ScheduleSound DEF Dispatch, IInv
<1> PICK q \in Pid : q = current'
  BY <1>4 DEF Sound, current
<1>5. /\ p \notin Range(scheduler.active_tasks) /\ q \notin Range(scheduler'.active_tasks)
      /\ Held(scheduler) \subseteq p_tasks /\ Held(scheduler) \subseteq Pid
  BY <1>4, HeldType DEF IInv, Sound, current, NobodyLost
<1>6. \A r \in p_tasks : r \in Nat /\ ~(r >= pid_counter)
  BY PidAssumption DEF IInv, TypeOK, CountersAhead
<1>7. CASE p = q
  <2>1. Range(scheduler'.active_tasks) = Range(scheduler.active_tasks)
    BY <1>4, <1>5, <1>7 DEF Held, current
  <2>2. \A r \in Pid : StatusOf(r)' = StatusOf(r)
    BY <1>1, <1>7, <2>1 DEF StatusOf, current
  <2> QED
    BY <2>2, SameStatus
<1>8. CASE p # q
  <2>1. p \in Range(scheduler'.active_tasks) /\ q \in Range(scheduler.active_tasks)
    BY <1>4, <1>8 DEF Held, current
  <2>2. \A r \in Pid \ {p, q} :
          r \in Range(scheduler'.active_tasks) <=> r \in Range(scheduler.active_tasks)
    BY <1>4 DEF Held, current
  <2>3. p \in p_tasks /\ q \in p_tasks
    BY <1>5, <2>1 DEF Held, current
  <2>4. StatusOf(p) = "running" /\ StatusOf(q) = "ready"
    BY <1>5, <1>6, <1>8, <2>1, <2>3 DEF StatusOf
  <2>5. StatusOf(p)' = "ready" /\ StatusOf(q)' = "running"
    BY <1>1, <1>6, <1>8, <2>1, <2>3 DEF StatusOf, current
  <2>6. \A r \in Pid \ {p, q} : StatusOf(r)' = StatusOf(r)
    BY <1>1, <2>2 DEF StatusOf, current
  <2>7. Lifecycle!HandOver(p, q, "ready")
    BY <1>8, <2>4, <2>5, <2>6, HandOverStep
  <2> QED
    BY <2>7 DEF Lifecycle!Next, Lifecycle!Preempt
<1> QED
  BY <1>7, <1>8

LEMMA ExpireClockLifecycle ==
  ASSUME IInv, ExpireClock PROVE Lifecycle!Next \/ UNCHANGED status
<1> DEFINE id == Head(p_clock_tree).semaphore_id
<1>1. UNCHANGED <<p_tasks, pid_counter>>
  BY DEF ExpireClock, procVars
<1>2. CASE id \in p_semaphores
  <2>1. id \in SemId /\ SignalSemaphore(id)
    BY <1>2 DEF ExpireClock, IInv, TypeOK
  <2> QED
    BY <1>1, <2>1, SignalLifecycle
<1>3. CASE id \notin p_semaphores
  <2>1. UNCHANGED scheduler
    BY <1>3 DEF ExpireClock
  <2> QED
    BY <1>1, <2>1, SamePlaces
<1> QED
  BY <1>2, <1>3

LEMMA NextLifecycle ==
  ASSUME IInv, [Next]_vars PROVE Lifecycle!Next \/ UNCHANGED status
<1>1. CASE UNCHANGED <<scheduler, p_tasks, pid_counter>>
  BY <1>1, SamePlaces
<1>2. CASE Fork
  BY <1>2, ForkLifecycle
<1>3. CASE Exec \/ Halt \/ UNCHANGED vars \/ Tick
  BY <1>1, <1>3 DEF Exec, Halt, vars, procVars, Tick, Timeout
<1>4. ASSUME NEW t \in Elapsed, Exit(t) PROVE Lifecycle!Next \/ UNCHANGED status
  BY <1>4, ExitLifecycle
<1>5. ASSUME NEW n \in Priorities, SetPriority(n)
      PROVE  UNCHANGED <<scheduler, p_tasks, pid_counter>>
  BY <1>5 DEF SetPriority
<1>6. ASSUME NEW init \in Initial, CreateSemaphore(init)
      PROVE  UNCHANGED <<scheduler, p_tasks, pid_counter>>
  BY <1>6 DEF CreateSemaphore, procVars
<1>7. ASSUME NEW id \in SemId,
             \/ DeleteSemaphore(id) \/ WaitPass(id)
             \/ \E delay \in Delays : SignalAfter(id, delay)
      PROVE  UNCHANGED <<scheduler, p_tasks, pid_counter>>
  BY <1>7 DEF DeleteSemaphore, WaitPass, SignalAfter, procVars
<1>8. ASSUME NEW id \in SemId, WaitBlock(id) PROVE Lifecycle!Next \/ UNCHANGED status
  BY <1>8, WaitBlockLifecycle
<1>9. ASSUME NEW id \in SemId, Signal(id) PROVE Lifecycle!Next \/ UNCHANGED status
  BY <1>9, SignalLifecycle DEF Signal, procVars
<1>10. CASE InSchedule
  BY <1>10, ExpireClockLifecycle, DispatchLifecycle DEF InSchedule
<1> QED
  BY <1>1, <1>2, <1>3, <1>4, <1>5, <1>6, <1>7, <1>8, <1>9, <1>10 DEF Next, SystemCall

(***************************************************************************)
(* Every behaviour of the kernel is one of the life cycle: exactly one     *)
(* process runs, a process that gives up the processor has a successor,    *)
(* process 0 neither blocks nor exits, and the end of a process is final.  *)
(***************************************************************************)
THEOREM LifecycleImplemented == Spec => ImplementsLifecycle
<1>1. Init => Lifecycle!Init
  BY InitLifecycle
<1>2. IInv /\ [Next]_vars => [Lifecycle!Next]_[p \in Pid |-> StatusOf(p)]
  BY NextLifecycle DEF status
<1> QED
  BY <1>1, <1>2, Inductive, PTL DEF Spec, ImplementsLifecycle, Lifecycle!Spec

\* The subtree of a covers the position of b.
Covers(pos, lo, hi, a, b) == lo[a] <= pos[b] /\ pos[b] <= hi[a]

(***************************************************************************)
(* Each node has a position, and a subtree that fills the positions from   *)
(* lo to hi; of two subtrees one is inside the other, or they are apart.   *)
(***************************************************************************)
Places(D, N, pos, lo, hi) ==
  /\ N \in Nat
  /\ pos \in [D -> 1 .. N] /\ lo \in [D -> 1 .. N] /\ hi \in [D -> 1 .. N]
  /\ \A n \in D : lo[n] <= pos[n] /\ pos[n] <= hi[n]
  /\ \A k \in 1 .. N : \E n \in D : pos[n] = k
  /\ \A a, b \in D : Covers(pos, lo, hi, a, b) => lo[a] <= lo[b] /\ hi[b] <= hi[a]
  /\ \A a, b \in D : Covers(pos, lo, hi, a, b) /\ Covers(pos, lo, hi, b, a) => a = b

\* What the left pointers say: the left subtree fills what lies before the node.
LeftPlaces(D, l, u, pos, lo, hi) ==
  \A n \in D :
    /\ l[n] = Null => lo[n] = pos[n]
    /\ l[n] # Null => u[l[n]] = n /\ lo[l[n]] = lo[n] /\ hi[l[n]] = pos[n] - 1

\* What the right pointers say: the right subtree fills what lies behind it.
RightPlaces(D, r, u, pos, lo, hi) ==
  \A n \in D :
    /\ r[n] = Null => hi[n] = pos[n]
    /\ r[n] # Null => u[r[n]] = n /\ hi[r[n]] = hi[n] /\ lo[r[n]] = pos[n] + 1

\* What the parent pointers say: whatever covers a node covers its parent too.
UpPlaces(D, l, r, u, N, pos, lo, hi) ==
  \A n \in D :
    /\ u[n] = Null => lo[n] = 1 /\ hi[n] = N
    /\ u[n] # Null => n = l[u[n]] \/ n = r[u[n]]
    /\ \A a \in D : Covers(pos, lo, hi, a, n) /\ a # n
         => u[n] # Null /\ Covers(pos, lo, hi, a, u[n])

(***************************************************************************)
(* Pointers l, r and u, to the left, to the right and up, that make one    *)
(* tree of the nodes D.                                                    *)
(***************************************************************************)
Shape(D, l, r, u, N, pos, lo, hi) ==
  /\ Null \notin D
  /\ l \in [D -> D \cup {Null}] /\ r \in [D -> D \cup {Null}] /\ u \in [D -> D \cup {Null}]
  /\ Places(D, N, pos, lo, hi)
  /\ LeftPlaces(D, l, u, pos, lo, hi)
  /\ RightPlaces(D, r, u, pos, lo, hi)
  /\ UpPlaces(D, l, r, u, N, pos, lo, hi)

\* What a shape says of one node and of two.
LEMMA ShapeFacts ==
  ASSUME NEW D, NEW l, NEW r, NEW u, NEW N, NEW pos, NEW lo, NEW hi,
         Shape(D, l, r, u, N, pos, lo, hi)
  PROVE  /\ N \in Nat
         /\ \A n \in D :
              /\ pos[n] \in 1 .. N /\ lo[n] \in 1 .. N /\ hi[n] \in 1 .. N
              /\ lo[n] <= pos[n] /\ pos[n] <= hi[n]
              /\ l[n] \in D \cup {Null} /\ r[n] \in D \cup {Null} /\ u[n] \in D \cup {Null}
              /\ l[n] # Null => l[n] # n /\ l[n] # r[n] /\ l[n] # u[n]
              /\ r[n] # Null => r[n] # n /\ r[n] # u[n]
              /\ u[n] # Null => /\ u[n] # n /\ lo[u[n]] <= lo[n] /\ hi[n] <= hi[u[n]]
                                /\ hi[n] - lo[n] < hi[u[n]] - lo[u[n]]
                                /\ (n = l[u[n]] <=> n # r[u[n]])
         /\ \A a, b \in D : pos[a] = pos[b] => a = b
<1>1. N \in Nat
  BY DEF Shape, Places
<1>2. ASSUME NEW n \in D
      PROVE  /\ pos[n] \in 1 .. N /\ lo[n] \in 1 .. N /\ hi[n] \in 1 .. N
             /\ lo[n] <= pos[n] /\ pos[n] <= hi[n]
             /\ l[n] \in D \cup {Null} /\ r[n] \in D \cup {Null} /\ u[n] \in D \cup {Null}
  BY DEF Shape, Places
<1>3. ASSUME NEW n \in D, l[n] # Null
      PROVE  l[n] \in D /\ u[l[n]] = n /\ hi[l[n]] = pos[n] - 1 /\ lo[l[n]] = lo[n]
  BY <1>2, <1>3 DEF Shape, LeftPlaces
<1>4. ASSUME NEW n \in D, r[n] # Null
      PROVE  r[n] \in D /\ u[r[n]] = n /\ hi[r[n]] = hi[n] /\ lo[r[n]] = pos[n] + 1
  BY <1>2, <1>4 DEF Shape, RightPlaces
<1>5. ASSUME NEW n \in D, l[n] # Null
      PROVE  l[n] # n /\ l[n] # r[n]
  <2>1. hi[l[n]] < pos[n]
    BY <1>1, <1>2, <1>3, <1>5
  <2>2. r[n] # Null => hi[l[n]] < lo[r[n]] /\ lo[r[n]] <= hi[r[n]]
    BY <1>1, <1>2, <1>3, <1>4, <1>5
  <2> QED BY <2>1, <2>2, <1>1, <1>2, <1>3, <1>5
<1>6. ASSUME NEW n \in D, r[n] # Null
      PROVE  r[n] # n
  BY <1>1, <1>2, <1>4, <1>6
<1>7. ASSUME NEW n \in D, u[n] # Null
      PROVE  /\ u[n] \in D /\ u[n] # n /\ lo[u[n]] <= lo[n] /\ hi[n] <= hi[u[n]]
             /\ hi[n] - lo[n] < hi[u[n]] - lo[u[n]]
             /\ (n = l[u[n]] <=> n # r[u[n]])
  <2>1. u[n] \in D /\ (n = l[u[n]] \/ n = r[u[n]]) /\ n # Null
    BY <1>2, <1>7 DEF Shape, UpPlaces
  <2> DEFINE p == u[n]
  <2>2. p \in D /\ (n = l[p] \/ n = r[p])
    BY <2>1
  <2> HIDE DEF p
  <2>3. CASE n = l[p]
    <3>1. n # r[p] /\ n # p
      BY <2>1, <2>2, <2>3, <1>5
    <3>2. lo[n] = lo[p] /\ hi[n] = pos[p] - 1
      BY <2>1, <2>2, <2>3, <1>3
    <3>3. pos[p] <= hi[p] /\ pos[p] \in Int /\ hi[p] \in Int /\ lo[p] \in Int
      BY <1>1, <1>2, <2>2
    <3>4. lo[p] <= lo[n] /\ hi[n] <= hi[p] /\ hi[n] - lo[n] < hi[p] - lo[p]
      BY <3>2, <3>3
    <3> QED BY <3>1, <3>4, <2>2, <2>3 DEF p
  <2>4. CASE n # l[p]
    <3>1. n = r[p]
      BY <2>2, <2>4
    <3>2. n # p
      BY <2>1, <2>2, <3>1, <1>6
    <3>3. hi[n] = hi[p] /\ lo[n] = pos[p] + 1
      BY <2>1, <2>2, <3>1, <1>4
    <3>4. lo[p] <= pos[p] /\ pos[p] \in Int /\ hi[p] \in Int /\ lo[p] \in Int
      BY <1>1, <1>2, <2>2
    <3>5. lo[p] <= lo[n] /\ hi[n] <= hi[p] /\ hi[n] - lo[n] < hi[p] - lo[p]
      BY <3>3, <3>4
    <3> QED BY <3>1, <3>2, <3>5, <2>2, <2>4 DEF p
  <2> QED BY <2>3, <2>4
<1>8. ASSUME NEW n \in D
      PROVE  /\ l[n] # Null => l[n] # u[n]
             /\ r[n] # Null => r[n] # u[n]
  <2>1. ASSUME u[n] # Null PROVE hi[n] - lo[n] < hi[u[n]] - lo[u[n]]
    BY <1>7, <2>1
  <2>2. ASSUME NEW c \in D, u[c] = n PROVE hi[c] - lo[c] < hi[n] - lo[n] /\ c # n
    <3>1. u[c] # Null
      BY <2>2 DEF Shape
    <3> QED BY <1>7, <3>1, <2>2
  <2>3. \A m \in D : hi[m] \in Int /\ lo[m] \in Int
    BY <1>1, <1>2
  <2>4. ASSUME NEW c \in D, u[c] = n PROVE c # u[n]
    <3>1. SUFFICES ASSUME c = u[n] PROVE FALSE
      OBVIOUS
    <3>2. u[n] # Null
      BY <3>1 DEF Shape
    <3> QED BY <2>1, <2>2, <2>3, <2>4, <3>1, <3>2
  <2> QED BY <1>3, <1>4, <2>4
<1>9. ASSUME NEW a \in D, NEW b \in D, pos[a] = pos[b]
      PROVE  a = b
  <2>1. Covers(pos, lo, hi, a, b) /\ Covers(pos, lo, hi, b, a)
    BY <1>2, <1>9 DEF Covers
  <2> QED BY <2>1 DEF Shape, Places
<1> QED BY <1>1, <1>2, <1>5, <1>6, <1>7, <1>8, <1>9

-----------------------------------------------------------------------------
\* The same places, counted from the right.
Mirrored(D, N, pos, lo, hi, pos2, lo2, hi2) ==
  /\ pos2 = [n \in D |-> N + 1 - pos[n]]
  /\ lo2 = [n \in D |-> N + 1 - hi[n]]
  /\ hi2 = [n \in D |-> N + 1 - lo[n]]

\* A tree seen in a mirror is a tree.
LEMMA MirrorShape ==
  ASSUME NEW D, NEW l, NEW r, NEW u, NEW N, NEW pos, NEW lo, NEW hi,
         Shape(D, l, r, u, N, pos, lo, hi),
         NEW pos2, NEW lo2, NEW hi2, Mirrored(D, N, pos, lo, hi, pos2, lo2, hi2)
  PROVE  /\ Shape(D, r, l, u, N, pos2, lo2, hi2)
         /\ Mirrored(D, N, pos2, lo2, hi2, pos, lo, hi)
<1>0. /\ N \in Nat
      /\ pos \in [D -> 1 .. N] /\ lo \in [D -> 1 .. N] /\ hi \in [D -> 1 .. N]
      /\ \A k \in 1 .. N : \E n \in D : pos[n] = k
      /\ \A a, b \in D : Covers(pos, lo, hi, a, b) => lo[a] <= lo[b] /\ hi[b] <= hi[a]
      /\ \A a, b \in D : Covers(pos, lo, hi, a, b) /\ Covers(pos, lo, hi, b, a) => a = b
  BY DEF Shape, Places
<1>1. \A n \in D : /\ pos[n] \in 1 .. N /\ lo[n] \in 1 .. N /\ hi[n] \in 1 .. N
                   /\ lo[n] <= pos[n] /\ pos[n] <= hi[n]
                   /\ l[n] \in D \cup {Null} /\ r[n] \in D \cup {Null} /\ u[n] \in D \cup {Null}
  BY ShapeFacts
<1>i. /\ N \in Int
      /\ \A n \in D : /\ pos[n] \in Int /\ lo[n] \in Int /\ hi[n] \in Int
                      /\ 1 <= lo[n] /\ lo[n] <= pos[n] /\ pos[n] <= hi[n] /\ hi[n] <= N
  BY <1>0, <1>1
<1>2. \A n \in D : pos2[n] = N + 1 - pos[n] /\ lo2[n] = N + 1 - hi[n] /\ hi2[n] = N + 1 - lo[n]
  BY DEF Mirrored
<1>3. pos2 \in [D -> 1 .. N] /\ lo2 \in [D -> 1 .. N] /\ hi2 \in [D -> 1 .. N]
  <2>1. \A n \in D : /\ N + 1 - pos[n] \in 1 .. N /\ N + 1 - hi[n] \in 1 .. N
                     /\ N + 1 - lo[n] \in 1 .. N
    BY <1>0, <1>1
  <2> QED BY <2>1 DEF Mirrored
<1>4. \A a, b \in D : Covers(pos2, lo2, hi2, a, b) <=> Covers(pos, lo, hi, a, b)
  <2> TAKE a, b \in D
  <2>1. pos[b] \in Int /\ lo[a] \in Int /\ hi[a] \in Int /\ N \in Int
    BY <1>0, <1>1
  <2>2. pos2[b] = N + 1 - pos[b] /\ lo2[a] = N + 1 - hi[a] /\ hi2[a] = N + 1 - lo[a]
    BY <1>2
  <2> QED BY <2>1, <2>2 DEF Covers
<1>5. Places(D, N, pos2, lo2, hi2)
  <2>1. \A n \in D : lo2[n] <= pos2[n] /\ pos2[n] <= hi2[n]
    BY <1>i, <1>2
  <2>2. ASSUME NEW k \in 1 .. N PROVE \E n \in D : pos2[n] = k
    <3>1. N + 1 - k \in 1 .. N
      BY <1>0
    <3>2. PICK n \in D : pos[n] = N + 1 - k
      BY <3>1, <1>0
    <3>3. pos2[n] = N + 1 - (N + 1 - k)
      BY <3>2, <1>2
    <3> QED BY <3>3, <1>i
  <2>3. ASSUME NEW a \in D, NEW b \in D, Covers(pos2, lo2, hi2, a, b)
        PROVE  lo2[a] <= lo2[b] /\ hi2[b] <= hi2[a]
    <3>1. lo[a] <= lo[b] /\ hi[b] <= hi[a]
      BY <1>0, <1>4, <2>3
    <3> QED BY <3>1, <1>i, <1>2
  <2> QED BY <1>0, <1>3, <1>4, <2>1, <2>2, <2>3 DEF Places
<1>6. LeftPlaces(D, r, u, pos2, lo2, hi2)
  <2> SUFFICES ASSUME NEW n \in D
               PROVE  /\ r[n] = Null => lo2[n] = pos2[n]
                      /\ r[n] # Null => u[r[n]] = n /\ lo2[r[n]] = lo2[n] /\ hi2[r[n]] = pos2[n] - 1
    BY DEF LeftPlaces
  <2>1. /\ r[n] = Null => hi[n] = pos[n]
        /\ r[n] # Null => r[n] \in D /\ u[r[n]] = n /\ hi[r[n]] = hi[n] /\ lo[r[n]] = pos[n] + 1
    BY <1>1 DEF Shape, RightPlaces
  <2> QED BY <2>1, <1>i, <1>2
<1>7. RightPlaces(D, l, u, pos2, lo2, hi2)
  <2> SUFFICES ASSUME NEW n \in D
               PROVE  /\ l[n] = Null => hi2[n] = pos2[n]
                      /\ l[n] # Null => u[l[n]] = n /\ hi2[l[n]] = hi2[n] /\ lo2[l[n]] = pos2[n] + 1
    BY DEF RightPlaces
  <2>1. /\ l[n] = Null => lo[n] = pos[n]
        /\ l[n] # Null => l[n] \in D /\ u[l[n]] = n /\ lo[l[n]] = lo[n] /\ hi[l[n]] = pos[n] - 1
    BY <1>1 DEF Shape, LeftPlaces
  <2> QED BY <2>1, <1>i, <1>2
<1>8. UpPlaces(D, r, l, u, N, pos2, lo2, hi2)
  <2>1. ASSUME NEW n \in D
        PROVE  /\ u[n] = Null => lo2[n] = 1 /\ hi2[n] = N
               /\ u[n] # Null => n = l[u[n]] \/ n = r[u[n]]
    <3>1. /\ u[n] = Null => lo[n] = 1 /\ hi[n] = N
          /\ u[n] # Null => n = l[u[n]] \/ n = r[u[n]]
      BY DEF Shape, UpPlaces
    <3>2. ASSUME u[n] = Null PROVE lo2[n] = 1 /\ hi2[n] = N
      <4>1. lo2[n] = N + 1 - N /\ hi2[n] = N + 1 - 1
        BY <1>2, <3>1, <3>2
      <4> QED BY <4>1, <1>i
    <3> QED BY <3>1, <3>2
  <2>2. ASSUME NEW n \in D, NEW a \in D, Covers(pos2, lo2, hi2, a, n), a # n
        PROVE  u[n] # Null /\ Covers(pos2, lo2, hi2, a, u[n])
    <3>1. u[n] # Null /\ Covers(pos, lo, hi, a, u[n])
      BY <1>4, <2>2 DEF Shape, UpPlaces
    <3>2. u[n] \in D
      BY <3>1, <1>1
    <3> QED BY <3>1, <3>2, <1>4
  <2> QED BY <2>1, <2>2 DEF UpPlaces
<1>9. Shape(D, r, l, u, N, pos2, lo2, hi2)
  BY <1>5, <1>6, <1>7, <1>8 DEF Shape
<1>10. Mirrored(D, N, pos2, lo2, hi2, pos, lo, hi)
  <2>1. \A n \in D : /\ N + 1 - pos2[n] = pos[n] /\ N + 1 - hi2[n] = lo[n]
                     /\ N + 1 - lo2[n] = hi[n]
    BY <1>i, <1>2
  <2>2. /\ [n \in D |-> N + 1 - pos2[n]] = pos
        /\ [n \in D |-> N + 1 - hi2[n]] = lo
        /\ [n \in D |-> N + 1 - lo2[n]] = hi
    BY <2>1, <1>0
  <2> QED BY <2>2 DEF Mirrored
<1> QED BY <1>9, <1>10

\* A tree has an image.
LEMMA MirrorExists ==
  ASSUME NEW D, NEW N, NEW pos, NEW lo, NEW hi
  PROVE  \E pos2, lo2, hi2 : Mirrored(D, N, pos, lo, hi, pos2, lo2, hi2)
BY DEF Mirrored

-----------------------------------------------------------------------------
(* A rotation                                                              *)

(***************************************************************************)
(* The links that rotate_clockwise sets: t, on the left of n, takes the    *)
(* place of n, n goes to its right and what t had there to the left of n.  *)
(***************************************************************************)
Rotated(D, l, r, u, n, t, l2, r2, u2) ==
  /\ l2 \in [D -> D \cup {Null}] /\ r2 \in [D -> D \cup {Null}] /\ u2 \in [D -> D \cup {Null}]
  /\ \A m \in D :
       /\ l2[m] = (IF m = n THEN r[t] ELSE IF m = u[n] /\ l[m] = n THEN t ELSE l[m])
       /\ r2[m] = (IF m = t THEN n ELSE IF m = u[n] /\ r[m] = n THEN t ELSE r[m])
       /\ u2[m] = (IF m = n THEN t ELSE IF m = t THEN u[n] ELSE IF m = r[t] THEN n ELSE u[m])

\* What it does to the places.
Turned(D, pos, lo, hi, n, t, lo2, hi2) ==
  /\ lo2 = [lo EXCEPT ![n] = pos[t] + 1]
  /\ hi2 = [hi EXCEPT ![t] = hi[n]]

\* After a rotation the pointers make one tree of the same nodes, in the same order.
LEMMA RotateShape ==
  ASSUME NEW D, NEW l, NEW r, NEW u, NEW N, NEW pos, NEW lo, NEW hi,
         Shape(D, l, r, u, N, pos, lo, hi),
         NEW n \in D, NEW t \in D, l[n] = t,
         NEW l2, NEW r2, NEW u2, Rotated(D, l, r, u, n, t, l2, r2, u2),
         NEW lo2, NEW hi2, Turned(D, pos, lo, hi, n, t, lo2, hi2)
  PROVE  Shape(D, l2, r2, u2, N, pos, lo2, hi2)
<1>0. /\ N \in Nat /\ Null \notin D
      /\ pos \in [D -> 1 .. N] /\ lo \in [D -> 1 .. N] /\ hi \in [D -> 1 .. N]
      /\ \A k \in 1 .. N : \E m \in D : pos[m] = k
      /\ \A a, b \in D : Covers(pos, lo, hi, a, b) => lo[a] <= lo[b] /\ hi[b] <= hi[a]
      /\ \A a, b \in D : Covers(pos, lo, hi, a, b) /\ Covers(pos, lo, hi, b, a) => a = b
  BY DEF Shape, Places
<1>1. \A m \in D : /\ pos[m] \in 1 .. N /\ lo[m] \in 1 .. N /\ hi[m] \in 1 .. N
                   /\ lo[m] <= pos[m] /\ pos[m] <= hi[m]
                   /\ l[m] \in D \cup {Null} /\ r[m] \in D \cup {Null} /\ u[m] \in D \cup {Null}
                   /\ l[m] # Null => l[m] # m /\ l[m] # r[m] /\ l[m] # u[m]
                   /\ r[m] # Null => r[m] # m /\ r[m] # u[m]
                   /\ u[m] # Null => u[m] # m
  BY ShapeFacts
<1>2. /\ t # n /\ u[t] = n /\ hi[t] = pos[n] - 1 /\ lo[t] = lo[n]
      /\ r[n] = Null => hi[n] = pos[n]
      /\ l[t] = Null => lo[t] = pos[t]
      /\ r[t] = Null => hi[t] = pos[t]
  BY <1>0, <1>1 DEF Shape, LeftPlaces, RightPlaces
<1>3. /\ \A m \in D : lo2[m] = IF m = n THEN pos[t] + 1 ELSE lo[m]
      /\ \A m \in D : hi2[m] = IF m = t THEN hi[n] ELSE hi[m]
  BY <1>0 DEF Turned
<1>4. lo2 \in [D -> 1 .. N] /\ hi2 \in [D -> 1 .. N]
  <2>1. pos[t] + 1 \in 1 .. N /\ hi[n] \in 1 .. N
    BY <1>0, <1>1, <1>2
  <2> QED BY <1>0, <2>1 DEF Turned
<1>5. /\ l2 \in [D -> D \cup {Null}] /\ r2 \in [D -> D \cup {Null}] /\ u2 \in [D -> D \cup {Null}]
      /\ \A m \in D :
           /\ l2[m] = (IF m = n THEN r[t] ELSE IF m = u[n] /\ l[m] = n THEN t ELSE l[m])
           /\ r2[m] = (IF m = t THEN n ELSE IF m = u[n] /\ r[m] = n THEN t ELSE r[m])
           /\ u2[m] = (IF m = n THEN t ELSE IF m = t THEN u[n] ELSE IF m = r[t] THEN n ELSE u[m])
  BY DEF Rotated
<1>6. /\ Covers(pos, lo, hi, n, t) /\ ~Covers(pos, lo2, hi2, n, t) /\ Covers(pos, lo2, hi2, t, n)
      /\ \A m \in D : Covers(pos, lo, hi, m, m)
  BY <1>0, <1>1, <1>2, <1>3 DEF Covers
<1>7. \A a \in D \ {n, t} : \A b \in D : Covers(pos, lo2, hi2, a, b) <=> Covers(pos, lo, hi, a, b)
  BY <1>3 DEF Covers
\* Of the nodes that n covered, t covers all; n covers those after t.
<1>8. \A b \in D : Covers(pos, lo2, hi2, t, b) <=> Covers(pos, lo, hi, n, b)
  BY <1>2, <1>3 DEF Covers
<1>9. \A b \in D : Covers(pos, lo2, hi2, n, b) <=> Covers(pos, lo, hi, n, b) /\ pos[b] > pos[t]
  BY <1>0, <1>1, <1>2, <1>3 DEF Covers
<1>10. \A a, b, c \in D : Covers(pos, lo, hi, a, b) /\ Covers(pos, lo, hi, b, c)
                            => Covers(pos, lo, hi, a, c)
  <2> TAKE a, b, c \in D
  <2>1. Covers(pos, lo, hi, a, b) => lo[a] <= lo[b] /\ hi[b] <= hi[a]
    BY <1>0
  <2>2. /\ pos[c] \in Int /\ lo[a] \in Int /\ lo[b] \in Int /\ hi[a] \in Int /\ hi[b] \in Int
    BY <1>1
  <2> QED BY <2>1, <2>2 DEF Covers
\* What has t below it, and is neither t nor n, has n below it.
<1>11. \A a \in D \ {n, t} : Covers(pos, lo, hi, a, t) => Covers(pos, lo, hi, a, n)
  BY <1>2 DEF Shape, UpPlaces
\* No other node that n covers reaches over t.
<1>12. ASSUME NEW b \in D \ {n, t}, Covers(pos, lo, hi, n, b), pos[b] > pos[t]
       PROVE  lo[b] > pos[t]
  <2> SUFFICES ASSUME lo[b] <= pos[t] PROVE FALSE
    BY <1>1
  <2>1. Covers(pos, lo, hi, b, t)
    BY <1>0, <1>1, <1>12 DEF Covers
  <2>2. Covers(pos, lo, hi, b, n)
    BY <2>1, <1>11
  <2> QED BY <2>2, <1>0, <1>12
<1>13. Places(D, N, pos, lo2, hi2)
  <2>1. \A m \in D : lo2[m] <= pos[m] /\ pos[m] <= hi2[m]
    <3>1. /\ pos[t] \in Int /\ pos[n] \in Int /\ hi[n] \in Int /\ hi[t] \in Int
          /\ pos[t] <= hi[t] /\ hi[t] = pos[n] - 1 /\ pos[n] <= hi[n]
      BY <1>0, <1>1, <1>2
    <3>2. pos[t] + 1 <= pos[n] /\ pos[t] <= hi[n]
      BY <3>1
    <3> QED BY <3>2, <1>1, <1>3
  <2>2. ASSUME NEW a \in D, NEW b \in D, Covers(pos, lo2, hi2, a, b)
        PROVE  lo2[a] <= lo2[b] /\ hi2[b] <= hi2[a]
    <3>0. /\ lo[a] \in Int /\ lo[b] \in Int /\ hi[a] \in Int /\ hi[b] \in Int /\ pos[t] \in Int
          /\ lo[n] \in Int /\ hi[n] \in Int /\ lo[t] <= pos[t] /\ hi[t] < hi[n] /\ pos[n] <= hi[n]
          /\ pos[n] \in Int /\ pos[t] < pos[n]
      BY <1>0, <1>1, <1>2
    <3>1. CASE a = t
      <4>1. Covers(pos, lo, hi, n, b)
        BY <1>8, <2>2, <3>1
      <4>2. lo[n] <= lo[b] /\ hi[b] <= hi[n]
        BY <4>1, <1>0
      <4> QED BY <4>2, <3>0, <3>1, <1>2, <1>3
    <3>2. CASE a = n
      <4>1. Covers(pos, lo, hi, n, b) /\ pos[b] > pos[t]
        BY <1>9, <2>2, <3>2
      <4>2. lo[n] <= lo[b] /\ hi[b] <= hi[n]
        BY <4>1, <1>0
      <4>3. b # t
        BY <4>1, <1>1
      <4>4. b # n => lo[b] > pos[t]
        BY <4>1, <4>3, <1>12
      <4> QED BY <4>2, <4>3, <4>4, <3>0, <3>2, <1>2, <1>3
    <3>3. CASE a # t /\ a # n
      <4>1. Covers(pos, lo, hi, a, b)
        BY <1>7, <2>2, <3>3
      <4>2. lo[a] <= lo[b] /\ hi[b] <= hi[a]
        BY <4>1, <1>0
      <4>3. b = t => Covers(pos, lo, hi, a, n)
        BY <4>1, <3>3, <1>11
      <4>4. b = t => hi[n] <= hi[a]
        BY <4>3, <1>0
      <4> QED BY <4>2, <4>4, <3>0, <3>3, <1>2, <1>3
    <3> QED BY <3>1, <3>2, <3>3
  <2>3. ASSUME NEW a \in D, NEW b \in D,
               Covers(pos, lo2, hi2, a, b), Covers(pos, lo2, hi2, b, a), a # b
        PROVE  FALSE
    <3>1. \A x \in D : \A y \in D : x # y /\ Covers(pos, lo2, hi2, x, y)
             => Covers(pos, lo, hi, x, y) \/ (x = t /\ Covers(pos, lo, hi, n, y))
      BY <1>7, <1>8, <1>9
    <3>2. ~(Covers(pos, lo, hi, a, b) /\ Covers(pos, lo, hi, b, a))
      BY <2>3, <1>0
    <3>3. \A y \in D : y # t /\ Covers(pos, lo2, hi2, t, y) /\ Covers(pos, lo2, hi2, y, t) => FALSE
      <4> SUFFICES ASSUME NEW y \in D, y # t, Covers(pos, lo2, hi2, t, y), Covers(pos, lo2, hi2, y, t)
                   PROVE  FALSE
        OBVIOUS
      <4>1. y # n
        BY <1>6
      <4>2. Covers(pos, lo, hi, y, t)
        BY <4>1, <1>7
      <4>3. Covers(pos, lo, hi, y, n) /\ Covers(pos, lo, hi, n, y)
        BY <4>1, <4>2, <1>8, <1>11
      <4> QED BY <4>1, <4>3, <1>0
    <3> QED BY <2>3, <3>1, <3>2, <3>3
  <2> QED BY <1>0, <1>4, <2>1, <2>2, <2>3 DEF Places
<1>14. LeftPlaces(D, l2, u2, pos, lo2, hi2)
  <2> SUFFICES ASSUME NEW m \in D
               PROVE  /\ l2[m] = Null => lo2[m] = pos[m]
                      /\ l2[m] # Null => u2[l2[m]] = m /\ lo2[l2[m]] = lo2[m] /\ hi2[l2[m]] = pos[m] - 1
    BY DEF LeftPlaces
  <2>1. /\ l[m] = Null => lo[m] = pos[m]
        /\ l[m] # Null => l[m] \in D /\ u[l[m]] = m /\ lo[l[m]] = lo[m] /\ hi[l[m]] = pos[m] - 1
    BY <1>1 DEF Shape, LeftPlaces
  <2>2. /\ r[t] # Null => r[t] \in D /\ u[r[t]] = t /\ hi[r[t]] = hi[t] /\ lo[r[t]] = pos[t] + 1
    BY <1>1 DEF Shape, RightPlaces
  <2>3. CASE m = n
    <3>1. l2[n] = r[t] /\ lo2[n] = pos[t] + 1 /\ hi[t] = pos[n] - 1
      BY <1>2, <1>3, <1>5
    <3>2. pos[t] \in Int /\ pos[n] \in Int
      BY <1>1
    <3>3. CASE r[t] = Null
      <4>1. pos[t] = pos[n] - 1
        BY <3>1, <3>3, <1>2
      <4> QED BY <2>3, <3>1, <3>2, <3>3, <4>1
    <3>4. CASE r[t] # Null
      <4>1. r[t] \in D /\ r[t] # t
        BY <2>2, <3>4, <1>1
      <4>2. r[t] # n
        BY <2>2, <3>4, <1>1, <1>2
      <4>3. u2[r[t]] = n /\ lo2[r[t]] = lo[r[t]] /\ hi2[r[t]] = hi[r[t]]
        BY <4>1, <4>2, <1>3, <1>5
      <4> QED BY <2>2, <2>3, <3>1, <3>4, <4>3
    <3> QED BY <3>3, <3>4
  <2>4. CASE m = u[n] /\ l[m] = n
    BY <2>1, <2>4, <1>0, <1>1, <1>2, <1>3, <1>5
  <2>5. CASE m # n /\ ~(m = u[n] /\ l[m] = n)
    <3>1. l2[m] = l[m]
      BY <2>5, <1>5
    <3>2. l[m] # Null => l[m] # n /\ l[m] # t /\ l[m] # r[t]
      BY <2>1, <2>2, <2>5, <1>0, <1>1, <1>2
    <3> QED BY <3>1, <3>2, <2>1, <2>5, <1>3, <1>5
  <2> QED BY <2>3, <2>4, <2>5
<1>15. RightPlaces(D, r2, u2, pos, lo2, hi2)
  <2> SUFFICES ASSUME NEW m \in D
               PROVE  /\ r2[m] = Null => hi2[m] = pos[m]
                      /\ r2[m] # Null => u2[r2[m]] = m /\ hi2[r2[m]] = hi2[m] /\ lo2[r2[m]] = pos[m] + 1
    BY DEF RightPlaces
  <2>1. /\ r[m] = Null => hi[m] = pos[m]
        /\ r[m] # Null => r[m] \in D /\ u[r[m]] = m /\ hi[r[m]] = hi[m] /\ lo[r[m]] = pos[m] + 1
    BY <1>1 DEF Shape, RightPlaces
  <2>2. r[t] # Null => r[t] \in D /\ u[r[t]] = t
    BY <1>1 DEF Shape, RightPlaces
  <2>3. CASE m = t
    BY <2>3, <1>0, <1>1, <1>2, <1>3, <1>5
  <2>4. CASE m = u[n] /\ r[m] = n
    <3>1. m # t /\ m # n
      BY <2>4, <1>0, <1>1, <1>2
    <3>2. r2[m] = t /\ u2[t] = m
      BY <2>4, <3>1, <1>2, <1>5
    <3> QED BY <2>1, <2>4, <3>1, <3>2, <1>0, <1>1, <1>2, <1>3
  <2>5. CASE m # t /\ ~(m = u[n] /\ r[m] = n)
    <3>1. r2[m] = r[m]
      BY <2>5, <1>5
    <3>2. r[m] # Null => r[m] # n /\ r[m] # t /\ r[m] # r[t]
      <4>1. r[m] # Null => r[m] # n
        BY <2>1, <2>5
      <4>2. r[m] # Null => r[m] # t
        <5>1. r[n] # l[n]
          BY <1>0, <1>1
        <5> QED BY <5>1, <2>1, <1>2
      <4>3. r[m] # Null => r[m] # r[t]
        BY <2>1, <2>2, <2>5
      <4> QED BY <4>1, <4>2, <4>3
    <3> QED BY <3>1, <3>2, <2>1, <2>5, <1>3, <1>5
  <2> QED BY <2>3, <2>4, <2>5
<1>16. UpPlaces(D, l2, r2, u2, N, pos, lo2, hi2)
  <2>1. ASSUME NEW m \in D
        PROVE  /\ u2[m] = Null => lo2[m] = 1 /\ hi2[m] = N
               /\ u2[m] # Null => m = l2[u2[m]] \/ m = r2[u2[m]]
    <3>1. /\ u[m] = Null => lo[m] = 1 /\ hi[m] = N
          /\ u[m] # Null => u[m] \in D /\ (m = l[u[m]] \/ m = r[u[m]])
      BY <1>1 DEF Shape, UpPlaces
    <3>2. /\ u[n] = Null => lo[n] = 1 /\ hi[n] = N
          /\ u[n] # Null => u[n] \in D /\ u[n] # n /\ u[n] # t /\ (n = l[u[n]] \/ n = r[u[n]])
      BY <1>1, <1>2 DEF Shape, UpPlaces
    <3>3. CASE m = n
      BY <3>3, <1>0, <1>2, <1>5
    <3>4. CASE m = t
      BY <3>2, <3>4, <1>0, <1>2, <1>3, <1>5
    <3>5. CASE m # n /\ m # t /\ m = r[t]
      BY <3>5, <1>0, <1>5
    <3>6. CASE m # n /\ m # t /\ m # r[t]
      <4>1. u2[m] = u[m] /\ lo2[m] = lo[m] /\ hi2[m] = hi[m]
        BY <3>6, <1>3, <1>5
      <4>2. u[m] # Null => m # l[n]
        BY <3>6
      <4>3. ASSUME u[m] # Null, m = l[u[m]] PROVE m = l2[u[m]]
        BY <3>1, <3>6, <4>3, <1>5
      <4>4. ASSUME u[m] # Null, m = r[u[m]] PROVE m = r2[u[m]]
        BY <3>1, <3>6, <4>4, <1>5
      <4> QED BY <3>1, <4>1, <4>3, <4>4
    <3> QED BY <3>3, <3>4, <3>5, <3>6
  <2>2. ASSUME NEW m \in D, NEW a \in D, Covers(pos, lo2, hi2, a, m), a # m
        PROVE  u2[m] # Null /\ Covers(pos, lo2, hi2, a, u2[m])
    <3>0. \A b, c \in D : Covers(pos, lo, hi, b, c) /\ b # c
             => u[c] \in D /\ u[c] # Null /\ Covers(pos, lo, hi, b, u[c])
      BY <1>1 DEF Shape, UpPlaces
    <3>1. CASE m = n
      <4>1. u2[m] = t
        BY <3>1, <1>5
      <4>2. a # t => Covers(pos, lo2, hi2, a, t)
        <5>1. SUFFICES ASSUME a # t PROVE Covers(pos, lo2, hi2, a, t)
          OBVIOUS
        <5>2. Covers(pos, lo, hi, a, n)
          BY <5>1, <2>2, <3>1, <1>7
        <5>3. Covers(pos, lo, hi, a, t)
          BY <5>2, <1>6, <1>10
        <5> QED BY <5>1, <5>3, <2>2, <3>1, <1>7
      <4>3. Covers(pos, lo2, hi2, t, t)
        BY <1>6, <1>8
      <4> QED BY <4>1, <4>2, <4>3, <1>0
    <3>2. CASE m = t
      <4>1. a # n /\ a # t
        BY <2>2, <3>2, <1>6
      <4>2. Covers(pos, lo, hi, a, n)
        BY <4>1, <2>2, <3>2, <1>7, <1>11
      <4>3. u[n] \in D /\ u[n] # Null /\ Covers(pos, lo, hi, a, u[n])
        BY <4>1, <4>2, <3>0
      <4> QED BY <4>1, <4>3, <3>2, <1>2, <1>5, <1>7
    <3>3. CASE m = r[t] /\ m # n /\ m # t
      <4>1. u2[m] = n /\ u[m] = t
        BY <3>3, <1>5 DEF Shape, RightPlaces
      <4>2. Covers(pos, lo2, hi2, t, n) /\ Covers(pos, lo2, hi2, n, n)
        BY <1>0, <1>1, <1>2, <1>3 DEF Covers
      <4>3. ASSUME a # n, a # t PROVE Covers(pos, lo2, hi2, a, n)
        <5>1. Covers(pos, lo, hi, a, m)
          BY <4>3, <2>2, <1>7
        <5>2. Covers(pos, lo, hi, a, n)
          BY <5>1, <4>1, <4>3, <3>0, <2>2, <1>11
        <5> QED BY <5>2, <4>3, <1>7
      <4> QED BY <4>1, <4>2, <4>3, <1>0
    <3>4. CASE m # n /\ m # t /\ m # r[t]
      <4>1. u2[m] = u[m]
        BY <3>4, <1>5
      <4>2. CASE a # n /\ a # t
        <5>1. Covers(pos, lo, hi, a, m)
          BY <4>2, <2>2, <1>7
        <5>2. u[m] \in D /\ u[m] # Null /\ Covers(pos, lo, hi, a, u[m])
          BY <5>1, <3>0, <2>2
        <5> QED BY <5>2, <4>1, <4>2, <1>7
      <4>3. CASE a = t
        <5>1. Covers(pos, lo, hi, n, m)
          BY <4>3, <2>2, <1>8
        <5>2. u[m] \in D /\ u[m] # Null /\ Covers(pos, lo, hi, n, u[m])
          BY <5>1, <3>0, <3>4
        <5> QED BY <5>2, <4>1, <4>3, <1>8
      <4>4. CASE a = n
        <5>1. Covers(pos, lo, hi, n, m) /\ pos[m] > pos[t]
          BY <4>4, <2>2, <1>9
        <5>2. u[m] \in D /\ u[m] # Null /\ Covers(pos, lo, hi, n, u[m])
          BY <5>1, <3>0, <3>4
        <5>3. m = l[u[m]] \/ m = r[u[m]]
          BY <5>2 DEF Shape, UpPlaces
        <5>4. pos[u[m]] > pos[t]
          <6> DEFINE q == u[m]
          <6>1. q \in D /\ u[m] = q /\ Covers(pos, lo, hi, n, q) /\ (m = l[q] \/ m = r[q])
            BY <5>2, <5>3
          <6> HIDE DEF q
          <6>2. q # t
            <7>1. SUFFICES ASSUME q = t PROVE FALSE
              OBVIOUS
            <7>2. m = l[t]
              BY <6>1, <7>1, <3>4
            <7>3. hi[m] = pos[t] - 1
              BY <7>2, <1>0 DEF Shape, LeftPlaces
            <7> QED BY <7>3, <5>1, <1>0, <1>1
          <6>3. CASE q = n
            BY <6>3, <6>1, <1>0, <1>1, <1>2
          <6>4. CASE q # n
            <7>1. SUFFICES ASSUME pos[q] <= pos[t] PROVE FALSE
              BY <6>1, <1>1
            <7>2. Covers(pos, lo, hi, q, m)
              <8>1. lo[q] <= lo[m] /\ hi[m] <= hi[q]
                <9>1. u[m] # Null
                  BY <5>2
                <9> QED BY <9>1, <6>1, ShapeFacts
              <8> QED BY <8>1, <6>1, <1>0, <1>1 DEF Covers
            <7>3. Covers(pos, lo, hi, q, t)
              <8>1. /\ lo[q] <= pos[q] /\ pos[m] <= hi[q] /\ pos[t] < pos[m] /\ pos[q] <= pos[t]
                BY <7>1, <7>2, <6>1, <5>1, <1>1 DEF Covers
              <8> QED BY <8>1, <6>1, <1>0, <1>1 DEF Covers
            <7>4. Covers(pos, lo, hi, q, n)
              BY <7>3, <6>1, <6>2, <6>4, <1>11
            <7> QED BY <7>4, <6>1, <6>4, <1>0
          <6> QED BY <6>3, <6>4 DEF q
        <5> QED BY <5>2, <5>4, <4>1, <4>4, <1>9
      <4> QED BY <4>2, <4>3, <4>4
    <3> QED BY <3>1, <3>2, <3>3, <3>4
  <2> QED BY <2>1, <2>2 DEF UpPlaces
<1> QED BY <1>0, <1>5, <1>13, <1>14, <1>15, <1>16 DEF Shape

(***************************************************************************)
(* rotate_counterclockwise is the image of it: t, on the right of n, takes *)
(* the place of n.                                                         *)
(***************************************************************************)
TurnedBack(D, pos, lo, hi, n, t, lo2, hi2) ==
  /\ lo2 = [lo EXCEPT ![t] = lo[n]]
  /\ hi2 = [hi EXCEPT ![n] = pos[t] - 1]

\* The same of a rotation the other way, by its mirror image.
LEMMA RotateBackShape ==
  ASSUME NEW D, NEW l, NEW r, NEW u, NEW N, NEW pos, NEW lo, NEW hi,
         Shape(D, l, r, u, N, pos, lo, hi),
         NEW n \in D, NEW t \in D, r[n] = t,
         NEW l2, NEW r2, NEW u2, Rotated(D, r, l, u, n, t, r2, l2, u2),
         NEW lo2, NEW hi2, TurnedBack(D, pos, lo, hi, n, t, lo2, hi2)
  PROVE  Shape(D, l2, r2, u2, N, pos, lo2, hi2)
<1>1. PICK mpos, mlo, mhi : Mirrored(D, N, pos, lo, hi, mpos, mlo, mhi)
  BY MirrorExists
<1>2. Shape(D, r, l, u, N, mpos, mlo, mhi)
  BY <1>1, MirrorShape
<1>3. PICK mlo2, mhi2 : Turned(D, mpos, mlo, mhi, n, t, mlo2, mhi2)
  BY DEF Turned
<1>4. Shape(D, r2, l2, u2, N, mpos, mlo2, mhi2)
  BY <1>2, <1>3, RotateShape
<1>5. /\ N \in Int /\ pos \in [D -> 1 .. N] /\ lo \in [D -> 1 .. N] /\ hi \in [D -> 1 .. N]
  BY DEF Shape, Places
<1>6. PICK pos3, lo3, hi3 : Mirrored(D, N, mpos, mlo2, mhi2, pos3, lo3, hi3)
  BY MirrorExists
<1>7. Shape(D, l2, r2, u2, N, pos3, lo3, hi3)
  BY <1>4, <1>6, MirrorShape
<1>8. /\ mpos = [m \in D |-> N + 1 - pos[m]]
      /\ mlo = [m \in D |-> N + 1 - hi[m]]
      /\ mhi = [m \in D |-> N + 1 - lo[m]]
  BY <1>1 DEF Mirrored
<1>9. /\ mlo2 = [mlo EXCEPT ![n] = mpos[t] + 1]
      /\ mhi2 = [mhi EXCEPT ![t] = mhi[n]]
  BY <1>3 DEF Turned
<1>10. /\ pos3 = [m \in D |-> N + 1 - mpos[m]]
       /\ lo3 = [m \in D |-> N + 1 - mhi2[m]]
       /\ hi3 = [m \in D |-> N + 1 - mlo2[m]]
  BY <1>6 DEF Mirrored
<1>11. \A m \in D : pos[m] \in Int /\ lo[m] \in Int /\ hi[m] \in Int
  BY <1>5
<1>12. \A m \in D : /\ mpos[m] = N + 1 - pos[m]
                    /\ mlo[m] = N + 1 - hi[m]
                    /\ mhi[m] = N + 1 - lo[m]
                    /\ mlo2[m] = (IF m = n THEN mpos[t] + 1 ELSE mlo[m])
                    /\ mhi2[m] = (IF m = t THEN mhi[n] ELSE mhi[m])
  BY <1>8, <1>9
<1>13. \A m \in D : /\ pos3[m] = pos[m]
                    /\ lo3[m] = (IF m = t THEN lo[n] ELSE lo[m])
                    /\ hi3[m] = (IF m = n THEN pos[t] - 1 ELSE hi[m])
  <2> TAKE m \in D
  <2>1. pos3[m] = N + 1 - mpos[m] /\ lo3[m] = N + 1 - mhi2[m] /\ hi3[m] = N + 1 - mlo2[m]
    BY <1>10
  <2> QED BY <2>1, <1>5, <1>11, <1>12
<1>14. pos3 = pos /\ lo3 = lo2 /\ hi3 = hi2
  <2>1. DOMAIN pos3 = D /\ DOMAIN lo3 = D /\ DOMAIN hi3 = D
    BY <1>10
  <2>2. pos3 = pos
    BY <2>1, <1>5, <1>10, <1>13
  <2>3. lo3 = lo2
    <3>1. lo2 = [m \in D |-> IF m = t THEN lo[n] ELSE lo[m]]
      BY <1>5 DEF TurnedBack
    <3>2. lo3 = [m \in D |-> lo3[m]]
      BY <1>10
    <3>3. [m \in D |-> lo3[m]] = [m \in D |-> IF m = t THEN lo[n] ELSE lo[m]]
      BY <1>13
    <3> QED BY <3>1, <3>2, <3>3, Zenon
  <2>4. hi3 = hi2
    <3>1. hi2 = [m \in D |-> IF m = n THEN pos[t] - 1 ELSE hi[m]]
      BY <1>5 DEF TurnedBack
    <3>2. hi3 = [m \in D |-> hi3[m]]
      BY <1>10
    <3>3. [m \in D |-> hi3[m]] = [m \in D |-> IF m = n THEN pos[t] - 1 ELSE hi[m]]
      BY <1>13
    <3> QED BY <3>1, <3>2, <3>3, Zenon
  <2> QED BY <2>2, <2>3, <2>4
<1> QED BY <1>7, <1>14

-----------------------------------------------------------------------------
(* A new leaf                                                              *)

(***************************************************************************)
(* A leaf n to the left of p: it takes the position of p, and p and what   *)
(* follows move on by one.                                                 *)
(***************************************************************************)
LeafLinked(D, l, r, u, p, n, l2, r2, u2) ==
  LET E == D \cup {n}
  IN  /\ l2 \in [E -> E \cup {Null}] /\ r2 \in [E -> E \cup {Null}] /\ u2 \in [E -> E \cup {Null}]
      /\ \A m \in E :
           /\ l2[m] = (IF m = n THEN Null ELSE IF m = p THEN n ELSE l[m])
           /\ r2[m] = (IF m = n THEN Null ELSE r[m])
           /\ u2[m] = (IF m = n THEN p ELSE u[m])

\* A position after one is put in at i.
Moved(k, i) == IF k >= i THEN k + 1 ELSE k

\* Room for the node n at position i, below the node that has the position now.
Widened(D, pos, lo, hi, i, n, pos2, lo2, hi2) ==
  LET E == D \cup {n}
  IN  /\ pos2 = [m \in E |-> IF m = n THEN i ELSE Moved(pos[m], i)]
      /\ lo2 = [m \in E |-> IF m = n THEN i ELSE Moved(lo[m], i + 1)]
      /\ hi2 = [m \in E |-> IF m = n THEN i ELSE Moved(hi[m], i)]

\* A leaf that becomes the left child of p leaves one tree.
LEMMA LeafShape ==
  ASSUME NEW D, NEW l, NEW r, NEW u, NEW N, NEW pos, NEW lo, NEW hi,
         Shape(D, l, r, u, N, pos, lo, hi),
         NEW p \in D, l[p] = Null, NEW n, n \notin D, n # Null,
         NEW l2, NEW r2, NEW u2, LeafLinked(D, l, r, u, p, n, l2, r2, u2),
         NEW pos2, NEW lo2, NEW hi2, Widened(D, pos, lo, hi, pos[p], n, pos2, lo2, hi2)
  PROVE  Shape(D \cup {n}, l2, r2, u2, N + 1, pos2, lo2, hi2)
<1> DEFINE E == D \cup {n}
           i == pos[p]
<1>0. /\ N \in Nat /\ Null \notin D
      /\ \A k \in 1 .. N : \E m \in D : pos[m] = k
      /\ \A a, b \in D : Covers(pos, lo, hi, a, b) => lo[a] <= lo[b] /\ hi[b] <= hi[a]
      /\ \A a, b \in D : Covers(pos, lo, hi, a, b) /\ Covers(pos, lo, hi, b, a) => a = b
  BY DEF Shape, Places
<1>1. \A m \in D : /\ pos[m] \in Int /\ lo[m] \in Int /\ hi[m] \in Int
                   /\ 1 <= lo[m] /\ lo[m] <= pos[m] /\ pos[m] <= hi[m] /\ hi[m] <= N
                   /\ l[m] \in D \cup {Null} /\ r[m] \in D \cup {Null} /\ u[m] \in D \cup {Null}
                   /\ l[m] # Null => l[m] # m /\ l[m] # r[m] /\ l[m] # u[m]
                   /\ r[m] # Null => r[m] # m /\ r[m] # u[m]
                   /\ u[m] # Null => u[m] # m
  BY ShapeFacts, <1>0
<1>2. lo[p] = pos[p]
  BY DEF Shape, LeftPlaces
<1>3. \A m \in D : pos[m] = i => m = p
  BY ShapeFacts
<1>4. i \in 1 .. N /\ i \in Int /\ lo[p] = i
  <2>1. /\ pos[p] \in Int /\ lo[p] \in Int /\ hi[p] \in Int
        /\ 1 <= lo[p] /\ lo[p] <= pos[p] /\ pos[p] <= hi[p] /\ hi[p] <= N
    BY <1>1
  <2> QED BY <2>1, <1>0, <1>2
<1>5. /\ pos2[n] = i /\ lo2[n] = i /\ hi2[n] = i
      /\ \A m \in D : /\ pos2[m] = (IF pos[m] >= i THEN pos[m] + 1 ELSE pos[m])
                      /\ lo2[m] = (IF lo[m] >= i + 1 THEN lo[m] + 1 ELSE lo[m])
                      /\ hi2[m] = (IF hi[m] >= i THEN hi[m] + 1 ELSE hi[m])
  BY DEF Widened, Moved
<1>6. /\ l2 \in [E -> E \cup {Null}] /\ r2 \in [E -> E \cup {Null}] /\ u2 \in [E -> E \cup {Null}]
      /\ l2[n] = Null /\ r2[n] = Null /\ u2[n] = p
      /\ \A m \in D : /\ l2[m] = (IF m = p THEN n ELSE l[m])
                      /\ r2[m] = r[m] /\ u2[m] = u[m]
  BY DEF LeafLinked
<1>p. p \in D
  OBVIOUS
<1> HIDE DEF i
<1>7. \A m \in D : /\ pos2[m] \in Int /\ lo2[m] \in Int /\ hi2[m] \in Int
                   /\ 1 <= lo2[m] /\ lo2[m] <= pos2[m] /\ pos2[m] <= hi2[m] /\ hi2[m] <= N + 1
                   /\ pos2[m] # i
  BY <1>0, <1>1, <1>4, <1>5
<1>8. pos2 \in [E -> 1 .. N + 1] /\ lo2 \in [E -> 1 .. N + 1] /\ hi2 \in [E -> 1 .. N + 1]
  <2>1. \A m \in E : /\ pos2[m] \in 1 .. N + 1 /\ lo2[m] \in 1 .. N + 1 /\ hi2[m] \in 1 .. N + 1
    BY <1>0, <1>4, <1>5, <1>7
  <2>2. /\ pos2 = [m \in E |-> pos2[m]] /\ lo2 = [m \in E |-> lo2[m]]
        /\ hi2 = [m \in E |-> hi2[m]]
    BY DEF Widened
  <2> QED BY <2>1, <2>2
\* Two old nodes are as they were; n is below what is above p, and nothing is below n.
<1>9. \A a, b \in D : Covers(pos2, lo2, hi2, a, b) <=> Covers(pos, lo, hi, a, b)
  <2> TAKE a, b \in D
  <2>1. /\ pos[b] \in Int /\ lo[a] \in Int /\ hi[a] \in Int
        /\ pos2[b] = (IF pos[b] >= i THEN pos[b] + 1 ELSE pos[b])
        /\ lo2[a] = (IF lo[a] >= i + 1 THEN lo[a] + 1 ELSE lo[a])
        /\ hi2[a] = (IF hi[a] >= i THEN hi[a] + 1 ELSE hi[a])
    BY <1>1, <1>5
  <2> QED BY <2>1, <1>4 DEF Covers
<1>10. \A a \in D : Covers(pos2, lo2, hi2, a, n) <=> Covers(pos, lo, hi, a, p)
  <2> TAKE a \in D
  <2>1. /\ lo[a] \in Int /\ hi[a] \in Int
        /\ lo2[a] = (IF lo[a] >= i + 1 THEN lo[a] + 1 ELSE lo[a])
        /\ hi2[a] = (IF hi[a] >= i THEN hi[a] + 1 ELSE hi[a])
    BY <1>1, <1>5
  <2> QED BY <2>1, <1>4, <1>5 DEF Covers, i
<1>11. \A b \in E : Covers(pos2, lo2, hi2, n, b) => b = n
  BY <1>4, <1>5, <1>7 DEF Covers
<1>12. Places(E, N + 1, pos2, lo2, hi2)
  <2>1. \A m \in E : lo2[m] <= pos2[m] /\ pos2[m] <= hi2[m]
    BY <1>4, <1>5, <1>7
  <2>2. ASSUME NEW k \in 1 .. N + 1 PROVE \E m \in E : pos2[m] = k
    <3>1. CASE k = i
      BY <3>1, <1>5
    <3>2. CASE k < i
      <4>1. k \in 1 .. N
        <5>1. i \in Int /\ i <= N /\ N \in Int
          BY <1>0, <1>4
        <5> QED BY <5>1, <3>2
      <4>2. PICK m \in D : pos[m] = k
        BY <4>1, <1>0
      <4> QED BY <4>2, <3>2, <1>4, <1>5
    <3>3. CASE k > i
      <4>1. k - 1 \in 1 .. N /\ k - 1 >= i
        <5>1. i \in Int /\ i >= 1 /\ N \in Int
          BY <1>0, <1>4
        <5> QED BY <5>1, <3>3
      <4>2. PICK m \in D : pos[m] = k - 1
        BY <4>1, <1>0
      <4>3. pos2[m] = k - 1 + 1
        BY <4>1, <4>2, <1>5
      <4> QED BY <4>3, <4>1
    <3> QED BY <3>1, <3>2, <3>3, <1>4
  <2>3. ASSUME NEW a \in E, NEW b \in E, Covers(pos2, lo2, hi2, a, b)
        PROVE  lo2[a] <= lo2[b] /\ hi2[b] <= hi2[a]
    <3>1. CASE a = n
      BY <3>1, <2>3, <1>4, <1>5, <1>11
    <3>2. CASE a \in D /\ b = n
      BY <3>2, <2>3, <1>5 DEF Covers
    <3>3. CASE a \in D /\ b \in D
      <4>1. lo[a] <= lo[b] /\ hi[b] <= hi[a]
        BY <3>3, <2>3, <1>0, <1>9
      <4> QED BY <4>1, <3>3, <1>1, <1>4, <1>5
    <3> QED BY <3>1, <3>2, <3>3
  <2>4. ASSUME NEW a \in E, NEW b \in E, Covers(pos2, lo2, hi2, a, b), Covers(pos2, lo2, hi2, b, a)
        PROVE  a = b
    <3>1. CASE a = n \/ b = n
      BY <3>1, <2>4, <1>11
    <3>2. CASE a \in D /\ b \in D
      BY <3>2, <2>4, <1>0, <1>9
    <3> QED BY <3>1, <3>2
  <2>5. N + 1 \in Nat
    BY <1>0
  <2> HIDE DEF E
  <2> QED BY <1>8, <2>1, <2>2, <2>3, <2>4, <2>5 DEF Places
<1>13. LeftPlaces(E, l2, u2, pos2, lo2, hi2)
  <2> SUFFICES ASSUME NEW m \in E
               PROVE  /\ l2[m] = Null => lo2[m] = pos2[m]
                      /\ l2[m] # Null => u2[l2[m]] = m /\ lo2[l2[m]] = lo2[m] /\ hi2[l2[m]] = pos2[m] - 1
    BY DEF LeftPlaces
  <2>1. CASE m = n
    BY <2>1, <1>5, <1>6
  <2>2. CASE m = p
    <3>1. l2[m] = n /\ u2[n] = m /\ lo2[n] = i /\ hi2[n] = i
      BY <2>2, <1>5, <1>6, <1>p
    <3>2. pos2[m] = i + 1 /\ lo2[m] = i
      BY <2>2, <1>p, <1>4, <1>5 DEF i
    <3> QED BY <3>1, <3>2, <1>4
  <2>3. CASE m \in D /\ m # p
    <3>1. /\ l[m] = Null => lo[m] = pos[m]
          /\ l[m] # Null => l[m] \in D /\ u[l[m]] = m /\ lo[l[m]] = lo[m] /\ hi[l[m]] = pos[m] - 1
      BY <2>3, <1>1 DEF Shape, LeftPlaces
    <3>2. l2[m] = l[m]
      BY <2>3, <1>6
    <3>3. pos[m] # i
      BY <2>3, <1>3 DEF i
    <3>4. CASE l[m] = Null
      BY <3>1, <3>2, <3>3, <3>4, <2>3, <1>1, <1>4, <1>5
    <3>5. CASE l[m] # Null
      <4>1. u2[l[m]] = m
        BY <3>1, <3>5, <1>6
      <4>2. lo2[l[m]] = lo2[m]
        BY <3>1, <3>5, <2>3, <1>5
      <4>3. hi2[l[m]] = pos2[m] - 1
        BY <3>1, <3>3, <3>5, <2>3, <1>1, <1>4, <1>5
      <4> QED BY <4>1, <4>2, <4>3, <3>2, <3>5
    <3> QED BY <3>4, <3>5
  <2> QED BY <2>1, <2>2, <2>3
<1>14. RightPlaces(E, r2, u2, pos2, lo2, hi2)
  <2> SUFFICES ASSUME NEW m \in E
               PROVE  /\ r2[m] = Null => hi2[m] = pos2[m]
                      /\ r2[m] # Null => u2[r2[m]] = m /\ hi2[r2[m]] = hi2[m] /\ lo2[r2[m]] = pos2[m] + 1
    BY DEF RightPlaces
  <2>1. CASE m = n
    BY <2>1, <1>5, <1>6
  <2>2. CASE m \in D
    <3>1. /\ r[m] = Null => hi[m] = pos[m]
          /\ r[m] # Null => r[m] \in D /\ u[r[m]] = m /\ hi[r[m]] = hi[m] /\ lo[r[m]] = pos[m] + 1
      BY <2>2, <1>1 DEF Shape, RightPlaces
    <3>2. r2[m] = r[m]
      BY <2>2, <1>6
    <3>3. CASE r[m] = Null
      BY <3>1, <3>2, <3>3, <2>2, <1>1, <1>4, <1>5
    <3>4. CASE r[m] # Null
      <4>1. u2[r[m]] = m
        BY <3>1, <3>4, <1>6
      <4>2. hi2[r[m]] = hi2[m]
        BY <3>1, <3>4, <2>2, <1>5
      <4>3. lo2[r[m]] = pos2[m] + 1
        BY <3>1, <3>4, <2>2, <1>1, <1>4, <1>5
      <4> QED BY <4>1, <4>2, <4>3, <3>2, <3>4
    <3> QED BY <3>3, <3>4
  <2> QED BY <2>1, <2>2
<1>15. UpPlaces(E, l2, r2, u2, N + 1, pos2, lo2, hi2)
  <2>0. p # Null
    BY <1>0, <1>p
  <2>1. ASSUME NEW m \in E
        PROVE  /\ u2[m] = Null => lo2[m] = 1 /\ hi2[m] = N + 1
               /\ u2[m] # Null => m = l2[u2[m]] \/ m = r2[u2[m]]
    <3>1. CASE m = n
      BY <3>1, <2>0, <1>6, <1>p
    <3>2. CASE m \in D
      <4>1. /\ u[m] = Null => lo[m] = 1 /\ hi[m] = N
            /\ u[m] # Null => u[m] \in D /\ (m = l[u[m]] \/ m = r[u[m]])
        BY <3>2, <1>1 DEF Shape, UpPlaces
      <4>2. u[m] = Null => lo2[m] = 1 /\ hi2[m] = N + 1
        BY <4>1, <3>2, <1>4, <1>5
      <4>3. u[m] # Null => u[m] # p \/ m # l[p]
        BY <3>2, <1>0
      <4> QED BY <4>1, <4>2, <4>3, <3>2, <1>6
    <3> QED BY <3>1, <3>2
  <2>2. ASSUME NEW m \in E, NEW a \in E, Covers(pos2, lo2, hi2, a, m), a # m
        PROVE  u2[m] # Null /\ Covers(pos2, lo2, hi2, a, u2[m])
    <3>1. a \in D
      BY <2>2, <1>11
    <3>2. CASE m = n
      BY <3>1, <3>2, <2>0, <2>2, <1>6, <1>9, <1>10, <1>p
    <3>3. CASE m \in D
      <4>1. u[m] # Null /\ Covers(pos, lo, hi, a, u[m])
        BY <3>1, <3>3, <2>2, <1>9 DEF Shape, UpPlaces
      <4>2. u[m] \in D
        BY <4>1, <3>3, <1>1
      <4> QED BY <4>1, <4>2, <3>1, <3>3, <1>6, <1>9
    <3> QED BY <3>2, <3>3
  <2> QED BY <2>1, <2>2 DEF UpPlaces
<1>16. Null \notin E
  BY <1>0
<1> HIDE DEF E
<1>17. Shape(E, l2, r2, u2, N + 1, pos2, lo2, hi2)
  BY <1>6, <1>12, <1>13, <1>14, <1>15, <1>16 DEF Shape
<1> QED BY <1>17 DEF E

(***************************************************************************)
(* A leaf n to the right of p: it takes the position after that of p.      *)
(***************************************************************************)
WidenedBack(D, pos, lo, hi, i, n, pos2, lo2, hi2) ==
  LET E == D \cup {n}
  IN  /\ pos2 = [m \in E |-> IF m = n THEN i ELSE Moved(pos[m], i)]
      /\ lo2 = [m \in E |-> IF m = n THEN i ELSE Moved(lo[m], i)]
      /\ hi2 = [m \in E |-> IF m = n THEN i ELSE Moved(hi[m], i - 1)]

\* So does one that becomes its right child, by the mirror image.
LEMMA LeafBackShape ==
  ASSUME NEW D, NEW l, NEW r, NEW u, NEW N, NEW pos, NEW lo, NEW hi,
         Shape(D, l, r, u, N, pos, lo, hi),
         NEW p \in D, r[p] = Null, NEW n, n \notin D, n # Null,
         NEW l2, NEW r2, NEW u2, LeafLinked(D, r, l, u, p, n, r2, l2, u2),
         NEW pos2, NEW lo2, NEW hi2, WidenedBack(D, pos, lo, hi, pos[p] + 1, n, pos2, lo2, hi2)
  PROVE  Shape(D \cup {n}, l2, r2, u2, N + 1, pos2, lo2, hi2)
<1> DEFINE E == D \cup {n}
<1>1. PICK mpos, mlo, mhi : Mirrored(D, N, pos, lo, hi, mpos, mlo, mhi)
  BY MirrorExists
<1>2. Shape(D, r, l, u, N, mpos, mlo, mhi)
  BY <1>1, MirrorShape
<1>3. PICK mpos2, mlo2, mhi2 : Widened(D, mpos, mlo, mhi, mpos[p], n, mpos2, mlo2, mhi2)
  BY DEF Widened
<1>4. Shape(E, r2, l2, u2, N + 1, mpos2, mlo2, mhi2)
  BY <1>2, <1>3, LeafShape
<1>5. /\ N \in Int /\ pos \in [D -> 1 .. N] /\ lo \in [D -> 1 .. N] /\ hi \in [D -> 1 .. N]
  BY DEF Shape, Places
<1>6. PICK pos3, lo3, hi3 : Mirrored(E, N + 1, mpos2, mlo2, mhi2, pos3, lo3, hi3)
  BY MirrorExists
<1>7. Shape(E, l2, r2, u2, N + 1, pos3, lo3, hi3)
  BY <1>4, <1>6, MirrorShape
<1>8. \A m \in D : pos[m] \in Int /\ lo[m] \in Int /\ hi[m] \in Int
  BY <1>5
<1>9. \A m \in D : /\ mpos[m] = N + 1 - pos[m]
                   /\ mlo[m] = N + 1 - hi[m]
                   /\ mhi[m] = N + 1 - lo[m]
  BY <1>1 DEF Mirrored
<1>10. \A m \in E : /\ mpos2[m] = (IF m = n THEN mpos[p] ELSE Moved(mpos[m], mpos[p]))
                    /\ mlo2[m] = (IF m = n THEN mpos[p] ELSE Moved(mlo[m], mpos[p] + 1))
                    /\ mhi2[m] = (IF m = n THEN mpos[p] ELSE Moved(mhi[m], mpos[p]))
  BY <1>3 DEF Widened
<1>11. /\ pos3 = [m \in E |-> N + 1 + 1 - mpos2[m]]
       /\ lo3 = [m \in E |-> N + 1 + 1 - mhi2[m]]
       /\ hi3 = [m \in E |-> N + 1 + 1 - mlo2[m]]
  BY <1>6 DEF Mirrored
<1>12. \A m \in E :
         /\ N + 1 + 1 - mpos2[m] = (IF m = n THEN pos[p] + 1 ELSE Moved(pos[m], pos[p] + 1))
         /\ N + 1 + 1 - mhi2[m] = (IF m = n THEN pos[p] + 1 ELSE Moved(lo[m], pos[p] + 1))
         /\ N + 1 + 1 - mlo2[m] = (IF m = n THEN pos[p] + 1 ELSE Moved(hi[m], (pos[p] + 1) - 1))
  <2> TAKE m \in E
  <2>1. mpos[p] = N + 1 - pos[p] /\ pos[p] \in Int
    BY <1>8, <1>9
  <2>2. CASE m = n
    BY <2>1, <2>2, <1>5, <1>10
  <2>3. CASE m # n
    <3>1. m \in D
      BY <2>3
    <3>2. /\ mpos2[m] = Moved(mpos[m], mpos[p]) /\ mlo2[m] = Moved(mlo[m], mpos[p] + 1)
          /\ mhi2[m] = Moved(mhi[m], mpos[p])
      BY <2>3, <1>10
    <3>3. /\ pos[m] \in Int /\ lo[m] \in Int /\ hi[m] \in Int
          /\ mpos[m] = N + 1 - pos[m] /\ mlo[m] = N + 1 - hi[m] /\ mhi[m] = N + 1 - lo[m]
      BY <3>1, <1>8, <1>9
    <3> QED BY <2>1, <2>3, <3>2, <3>3, <1>5 DEF Moved
  <2> QED BY <2>2, <2>3
<1>13. pos3 = pos2 /\ lo3 = lo2 /\ hi3 = hi2
  <2>1. /\ pos2 = [m \in E |-> IF m = n THEN pos[p] + 1 ELSE Moved(pos[m], pos[p] + 1)]
        /\ lo2 = [m \in E |-> IF m = n THEN pos[p] + 1 ELSE Moved(lo[m], pos[p] + 1)]
        /\ hi2 = [m \in E |-> IF m = n THEN pos[p] + 1 ELSE Moved(hi[m], (pos[p] + 1) - 1)]
    BY Zenon DEF WidenedBack
  <2>2. /\ [m \in E |-> N + 1 + 1 - mpos2[m]]
             = [m \in E |-> IF m = n THEN pos[p] + 1 ELSE Moved(pos[m], pos[p] + 1)]
        /\ [m \in E |-> N + 1 + 1 - mhi2[m]]
             = [m \in E |-> IF m = n THEN pos[p] + 1 ELSE Moved(lo[m], pos[p] + 1)]
        /\ [m \in E |-> N + 1 + 1 - mlo2[m]]
             = [m \in E |-> IF m = n THEN pos[p] + 1 ELSE Moved(hi[m], (pos[p] + 1) - 1)]
    <3> HIDE DEF E
    <3> QED BY <1>12
  <2> QED BY <2>1, <2>2, <1>11, Zenon
<1> QED BY <1>7, <1>13

-----------------------------------------------------------------------------
(* A node less                                                             *)

\* The child c of n, or none, takes the place of n.
Spliced(D, l, r, u, n, c, l2, r2, u2) ==
  LET E == D \ {n}
  IN  /\ l2 \in [E -> E \cup {Null}] /\ r2 \in [E -> E \cup {Null}] /\ u2 \in [E -> E \cup {Null}]
      /\ \A m \in E :
           /\ l2[m] = (IF l[m] = n THEN c ELSE l[m])
           /\ r2[m] = (IF r[m] = n THEN c ELSE r[m])
           /\ u2[m] = (IF m = c THEN u[n] ELSE u[m])

\* A position after the one at i is gone.
Back(k, i) == IF k > i THEN k - 1 ELSE k

\* Positions without the node n, which had position i.
Narrowed(D, pos, lo, hi, i, n, pos2, lo2, hi2) ==
  LET E == D \ {n}
  IN  /\ pos2 = [m \in E |-> Back(pos[m], i)]
      /\ lo2 = [m \in E |-> Back(lo[m], i)]
      /\ hi2 = [m \in E |-> Back(hi[m], i - 1)]

\* A node without a left child can be taken out: its right child takes its place.
LEMMA SpliceShape ==
  ASSUME NEW D, NEW l, NEW r, NEW u, NEW N, NEW pos, NEW lo, NEW hi,
         Shape(D, l, r, u, N, pos, lo, hi),
         NEW n \in D, l[n] = Null,
         NEW l2, NEW r2, NEW u2, Spliced(D, l, r, u, n, r[n], l2, r2, u2),
         NEW pos2, NEW lo2, NEW hi2, Narrowed(D, pos, lo, hi, pos[n], n, pos2, lo2, hi2)
  PROVE  Shape(D \ {n}, l2, r2, u2, N - 1, pos2, lo2, hi2)
<1> DEFINE E == D \ {n}
           i == pos[n]
           c == r[n]
<1>0. /\ N \in Nat /\ Null \notin D
      /\ \A k \in 1 .. N : \E m \in D : pos[m] = k
      /\ \A a, b \in D : Covers(pos, lo, hi, a, b) => lo[a] <= lo[b] /\ hi[b] <= hi[a]
      /\ \A a, b \in D : Covers(pos, lo, hi, a, b) /\ Covers(pos, lo, hi, b, a) => a = b
  BY DEF Shape, Places
<1>1. \A m \in D : /\ pos[m] \in Int /\ lo[m] \in Int /\ hi[m] \in Int
                   /\ 1 <= lo[m] /\ lo[m] <= pos[m] /\ pos[m] <= hi[m] /\ hi[m] <= N
                   /\ l[m] \in D \cup {Null} /\ r[m] \in D \cup {Null} /\ u[m] \in D \cup {Null}
                   /\ l[m] # Null => l[m] # m /\ l[m] # r[m] /\ l[m] # u[m]
                   /\ r[m] # Null => r[m] # m /\ r[m] # u[m]
                   /\ u[m] # Null => u[m] # m
  BY ShapeFacts, <1>0
<1>2. /\ lo[n] = i
      /\ c = Null => hi[n] = i
      /\ c # Null => c \in E /\ u[c] = n /\ hi[c] = hi[n] /\ lo[c] = i + 1
  BY <1>1 DEF Shape, LeftPlaces, RightPlaces
<1>3. \A m \in E : pos[m] # i
  BY ShapeFacts
<1>4. i \in Int /\ 1 <= i /\ i <= N /\ N \in Int /\ hi[n] \in Int /\ i <= hi[n]
  <2>1. /\ pos[n] \in Int /\ lo[n] \in Int /\ hi[n] \in Int
        /\ 1 <= lo[n] /\ lo[n] <= pos[n] /\ pos[n] <= hi[n] /\ hi[n] <= N
    BY <1>1
  <2> QED BY <2>1, <1>0
<1>5. \A m \in E : /\ pos2[m] = (IF pos[m] > i THEN pos[m] - 1 ELSE pos[m])
                   /\ lo2[m] = (IF lo[m] > i THEN lo[m] - 1 ELSE lo[m])
                   /\ hi2[m] = (IF hi[m] >= i THEN hi[m] - 1 ELSE hi[m])
  <2>1. \A m \in E : /\ pos2[m] = (IF pos[m] > i THEN pos[m] - 1 ELSE pos[m])
                     /\ lo2[m] = (IF lo[m] > i THEN lo[m] - 1 ELSE lo[m])
                     /\ hi2[m] = (IF hi[m] > i - 1 THEN hi[m] - 1 ELSE hi[m])
    BY DEF Narrowed, Back
  <2>2. \A m \in E : hi[m] > i - 1 <=> hi[m] >= i
    BY <1>1, <1>4
  <2> QED BY <2>1, <2>2
<1>6. /\ l2 \in [E -> E \cup {Null}] /\ r2 \in [E -> E \cup {Null}] /\ u2 \in [E -> E \cup {Null}]
      /\ \A m \in E : /\ l2[m] = (IF l[m] = n THEN c ELSE l[m])
                      /\ r2[m] = (IF r[m] = n THEN c ELSE r[m])
                      /\ u2[m] = (IF m = c THEN u[n] ELSE u[m])
  BY DEF Spliced
<1>p. n \in D /\ E \subseteq D /\ n \notin E /\ \A m \in D : m # n => m \in E
  OBVIOUS
<1>q. /\ \A m \in D : l[m] = n => u[n] = m
      /\ \A m \in D : r[m] = n => u[n] = m
      /\ l[n] = Null /\ r[n] = c
  BY <1>0 DEF Shape, LeftPlaces, RightPlaces
<1> HIDE DEF i, c, E
<1>7. \A m \in E : /\ pos2[m] \in Int /\ lo2[m] \in Int /\ hi2[m] \in Int
                   /\ 1 <= lo2[m] /\ lo2[m] <= pos2[m] /\ pos2[m] <= hi2[m] /\ hi2[m] <= N - 1
  <2> TAKE m \in E
  <2>1. /\ pos[m] \in Int /\ lo[m] \in Int /\ hi[m] \in Int
        /\ 1 <= lo[m] /\ lo[m] <= pos[m] /\ pos[m] <= hi[m] /\ hi[m] <= N /\ pos[m] # i
    BY <1>1, <1>3, <1>p
  <2> QED BY <2>1, <1>4, <1>5
<1>8. pos2 \in [E -> 1 .. N - 1] /\ lo2 \in [E -> 1 .. N - 1] /\ hi2 \in [E -> 1 .. N - 1]
  <2>1. \A m \in E : /\ pos2[m] \in 1 .. N - 1 /\ lo2[m] \in 1 .. N - 1 /\ hi2[m] \in 1 .. N - 1
    BY <1>4, <1>7
  <2>2. /\ pos2 = [m \in E |-> pos2[m]] /\ lo2 = [m \in E |-> lo2[m]]
        /\ hi2 = [m \in E |-> hi2[m]]
    BY DEF Narrowed, E
  <2> QED BY <2>1, <2>2
<1>9. \A a, b \in E : Covers(pos2, lo2, hi2, a, b) <=> Covers(pos, lo, hi, a, b)
  <2> TAKE a, b \in E
  <2>1. /\ pos[b] \in Int /\ lo[a] \in Int /\ hi[a] \in Int /\ pos[b] # i
        /\ pos2[b] = (IF pos[b] > i THEN pos[b] - 1 ELSE pos[b])
        /\ lo2[a] = (IF lo[a] > i THEN lo[a] - 1 ELSE lo[a])
        /\ hi2[a] = (IF hi[a] >= i THEN hi[a] - 1 ELSE hi[a])
    BY <1>1, <1>3, <1>5, <1>p
  <2> QED BY <2>1, <1>4 DEF Covers
<1>10. Places(E, N - 1, pos2, lo2, hi2)
  <2>1. \A m \in E : lo2[m] <= pos2[m] /\ pos2[m] <= hi2[m]
    BY <1>7
  <2>2. ASSUME NEW k \in 1 .. N - 1 PROVE \E m \in E : pos2[m] = k
    <3>1. CASE k < i
      <4>1. k \in 1 .. N
        BY <1>4
      <4>2. PICK m \in D : pos[m] = k
        BY <4>1, <1>0
      <4>3. m \in E
        BY <4>2, <3>1, <1>4, <1>p DEF i
      <4> QED BY <4>2, <4>3, <3>1, <1>4, <1>5
    <3>2. CASE k >= i
      <4>1. k + 1 \in 1 .. N /\ k + 1 > i /\ k + 1 # i
        BY <3>2, <1>4
      <4>2. PICK m \in D : pos[m] = k + 1
        BY <4>1, <1>0
      <4>3. m \in E
        BY <4>1, <4>2, <1>p DEF i
      <4>4. pos2[m] = k + 1 - 1
        BY <4>1, <4>2, <4>3, <1>5
      <4> QED BY <4>3, <4>4
    <3> QED BY <3>1, <3>2, <1>4
  <2>3. ASSUME NEW a \in E, NEW b \in E, Covers(pos2, lo2, hi2, a, b)
        PROVE  lo2[a] <= lo2[b] /\ hi2[b] <= hi2[a]
    <3>1. lo[a] <= lo[b] /\ hi[b] <= hi[a]
      BY <2>3, <1>0, <1>9, <1>p
    <3>2. lo[a] \in Int /\ lo[b] \in Int /\ hi[a] \in Int /\ hi[b] \in Int
      BY <1>1, <1>p
    <3> QED BY <3>1, <3>2, <1>4, <1>5
  <2>4. ASSUME NEW a \in E, NEW b \in E, Covers(pos2, lo2, hi2, a, b), Covers(pos2, lo2, hi2, b, a)
        PROVE  a = b
    BY <2>4, <1>0, <1>9, <1>p
  <2>5. N - 1 \in Nat
    BY <1>4
  <2> QED BY <1>8, <2>1, <2>2, <2>3, <2>4, <2>5 DEF Places
<1>11. LeftPlaces(E, l2, u2, pos2, lo2, hi2)
  <2> SUFFICES ASSUME NEW m \in E
               PROVE  /\ l2[m] = Null => lo2[m] = pos2[m]
                      /\ l2[m] # Null => u2[l2[m]] = m /\ lo2[l2[m]] = lo2[m] /\ hi2[l2[m]] = pos2[m] - 1
    BY DEF LeftPlaces
  <2>1. /\ l[m] = Null => lo[m] = pos[m]
        /\ l[m] # Null => l[m] \in D /\ u[l[m]] = m /\ lo[l[m]] = lo[m] /\ hi[l[m]] = pos[m] - 1
    BY <1>1, <1>p DEF Shape, LeftPlaces
  <2>2. pos[m] \in Int /\ lo[m] \in Int /\ pos[m] # i
    BY <1>1, <1>3, <1>p
  <2>3. CASE l[m] = n
    <3>1. /\ l2[m] = c /\ u[n] = m /\ lo[m] = i /\ hi[n] = pos[m] - 1 /\ lo2[m] = i
          /\ pos[m] > i /\ pos2[m] = pos[m] - 1
      BY <2>1, <2>2, <2>3, <1>0, <1>2, <1>4, <1>5, <1>6, <1>p
    <3>2. CASE c = Null
      BY <3>1, <3>2, <1>2, <1>4, <2>2
    <3>3. CASE c # Null
      <4>1. c \in E /\ hi[c] = hi[n] /\ lo[c] = i + 1
        BY <3>3, <1>2
      <4>2. lo2[c] = i + 1 - 1 /\ hi2[c] = hi[n] - 1 /\ u2[c] = m
        <5>1. lo[c] > i /\ hi[c] >= i
          BY <4>1, <1>4
        <5>2. lo2[c] = lo[c] - 1 /\ hi2[c] = hi[c] - 1
          BY <4>1, <5>1, <1>5
        <5>3. u2[c] = u[n]
          BY <4>1, <1>6
        <5> QED BY <4>1, <5>2, <5>3, <3>1, <1>4
      <4> QED BY <4>2, <3>1, <3>3, <2>2, <1>4
    <3> QED BY <3>2, <3>3
  <2>4. CASE l[m] # n
    <3>1. l2[m] = l[m]
      BY <2>4, <1>6
    <3>2. CASE l[m] = Null
      BY <3>1, <3>2, <2>1, <1>5
    <3>3. CASE l[m] # Null
      <4>1. l[m] \in E /\ l[m] # c
        BY <3>3, <2>1, <2>4, <1>2, <1>p
      <4>2. u2[l[m]] = m
        BY <4>1, <3>3, <2>1, <1>6
      <4>3. lo2[l[m]] = lo2[m]
        BY <4>1, <3>3, <2>1, <1>5
      <4>4. hi2[l[m]] = pos2[m] - 1
        BY <4>1, <3>3, <2>1, <2>2, <1>4, <1>5
      <4> QED BY <4>2, <4>3, <4>4, <3>1, <3>3
    <3> QED BY <3>2, <3>3
  <2> QED BY <2>3, <2>4
<1>12. RightPlaces(E, r2, u2, pos2, lo2, hi2)
  <2> SUFFICES ASSUME NEW m \in E
               PROVE  /\ r2[m] = Null => hi2[m] = pos2[m]
                      /\ r2[m] # Null => u2[r2[m]] = m /\ hi2[r2[m]] = hi2[m] /\ lo2[r2[m]] = pos2[m] + 1
    BY DEF RightPlaces
  <2>1. /\ r[m] = Null => hi[m] = pos[m]
        /\ r[m] # Null => r[m] \in D /\ u[r[m]] = m /\ hi[r[m]] = hi[m] /\ lo[r[m]] = pos[m] + 1
    BY <1>1, <1>p DEF Shape, RightPlaces
  <2>2. pos[m] \in Int /\ hi[m] \in Int /\ pos[m] # i
    BY <1>1, <1>3, <1>p
  <2>3. CASE r[m] = n
    <3>1. r2[m] = c /\ u[n] = m /\ pos[m] + 1 = i /\ hi[n] = hi[m]
      BY <2>1, <2>3, <1>0, <1>2, <1>6, <1>p
    <3>2. pos2[m] = pos[m] /\ hi2[m] = hi[m] - 1
      BY <3>1, <2>2, <1>4, <1>5
    <3>3. CASE c = Null
      BY <3>1, <3>2, <3>3, <1>2, <1>4, <2>2
    <3>4. CASE c # Null
      <4>1. c \in E /\ hi[c] = hi[n] /\ lo[c] = i + 1
        BY <3>4, <1>2
      <4>2. lo2[c] = i + 1 - 1 /\ hi2[c] = hi[n] - 1 /\ u2[c] = m
        <5>1. lo[c] > i /\ hi[c] >= i
          BY <4>1, <1>4
        <5>2. lo2[c] = lo[c] - 1 /\ hi2[c] = hi[c] - 1
          BY <4>1, <5>1, <1>5
        <5>3. u2[c] = u[n]
          BY <4>1, <1>6
        <5> QED BY <4>1, <5>2, <5>3, <3>1, <1>4
      <4> QED BY <4>2, <3>1, <3>2, <3>4, <2>2, <1>4
    <3> QED BY <3>3, <3>4
  <2>4. CASE r[m] # n
    <3>1. r2[m] = r[m]
      BY <2>4, <1>6
    <3>2. CASE r[m] = Null
      BY <3>1, <3>2, <2>1, <2>2, <1>4, <1>5
    <3>3. CASE r[m] # Null
      <4>1. r[m] \in E /\ r[m] # c
        BY <3>3, <2>1, <2>4, <1>2, <1>p
      <4>2. u2[r[m]] = m
        BY <4>1, <3>3, <2>1, <1>6
      <4>3. hi2[r[m]] = hi2[m]
        BY <4>1, <3>3, <2>1, <1>5
      <4>4. lo2[r[m]] = pos2[m] + 1
        BY <4>1, <3>3, <2>1, <2>2, <1>4, <1>5
      <4> QED BY <4>2, <4>3, <4>4, <3>1, <3>3
    <3> QED BY <3>2, <3>3
  <2> QED BY <2>3, <2>4
<1>13. UpPlaces(E, l2, r2, u2, N - 1, pos2, lo2, hi2)
  <2>1. ASSUME NEW m \in E, m # c PROVE u2[m] = u[m] /\ u[m] \in E \cup {Null}
    <3>1. u2[m] = u[m]
      BY <2>1, <1>6
    <3>2. u[m] # Null => m = l[u[m]] \/ m = r[u[m]]
      BY <1>p DEF Shape, UpPlaces
    <3>3. u[m] # n
      BY <2>1, <3>2, <1>0, <1>p, <1>q
    <3> QED BY <3>1, <3>3, <1>1, <1>p
  <2>2. ASSUME NEW m \in E
        PROVE  /\ u2[m] = Null => lo2[m] = 1 /\ hi2[m] = N - 1
               /\ u2[m] # Null => m = l2[u2[m]] \/ m = r2[u2[m]]
    <3>0. /\ u[m] = Null => lo[m] = 1 /\ hi[m] = N
          /\ u[m] # Null => u[m] \in D /\ (m = l[u[m]] \/ m = r[u[m]])
      BY <1>1, <1>p DEF Shape, UpPlaces
    <3>1. CASE m # c
      <4>1. u[m] = Null => lo2[m] = 1 /\ hi2[m] = N - 1
        BY <3>0, <1>4, <1>5
      <4>2. u[m] # Null => m = l2[u[m]] \/ m = r2[u[m]]
        BY <3>0, <3>1, <2>1, <1>6, <1>p
      <4> QED BY <4>1, <4>2, <3>1, <2>1
    <3>2. CASE m = c
      <4>0. c # Null
        BY <3>2, <1>0, <1>p
      <4>1. u2[m] = u[n] /\ lo[m] = i + 1 /\ hi[m] = hi[n]
        BY <3>2, <4>0, <1>2, <1>6
      <4>2. /\ u[n] = Null => lo[n] = 1 /\ hi[n] = N
            /\ u[n] # Null => u[n] \in E /\ (n = l[u[n]] \/ n = r[u[n]])
        BY <1>1, <1>p DEF Shape, UpPlaces
      <4>3. u[n] = Null => lo2[m] = 1 /\ hi2[m] = N - 1
        BY <4>1, <4>2, <1>2, <1>4, <1>5
      <4>4. u[n] # Null => m = l2[u[n]] \/ m = r2[u[n]]
        BY <4>2, <3>2, <1>6
      <4> QED BY <4>1, <4>3, <4>4
    <3> QED BY <3>1, <3>2
  <2>3. ASSUME NEW m \in E, NEW a \in E, Covers(pos2, lo2, hi2, a, m), a # m
        PROVE  u2[m] # Null /\ Covers(pos2, lo2, hi2, a, u2[m])
    <3>0. \A x, y \in D : Covers(pos, lo, hi, x, y) /\ x # y
             => u[y] # Null /\ Covers(pos, lo, hi, x, u[y])
      BY DEF Shape, UpPlaces
    <3>1. Covers(pos, lo, hi, a, m)
      BY <2>3, <1>9
    <3>2. u[m] # Null /\ Covers(pos, lo, hi, a, u[m])
      BY <3>0, <3>1, <2>3, <1>p
    <3>3. CASE m # c
      BY <3>2, <3>3, <2>1, <1>9
    <3>4. CASE m = c
      <4>0. c # Null
        BY <3>4, <1>0, <1>p
      <4>1. u[m] = n /\ u2[m] = u[n]
        BY <3>4, <4>0, <1>2, <1>6
      <4>2. u[n] # Null /\ Covers(pos, lo, hi, a, u[n])
        BY <4>1, <3>0, <3>2, <1>p
      <4>3. u[n] \in E
        BY <4>2, <1>1, <1>p
      <4> QED BY <4>1, <4>2, <4>3, <1>9
    <3> QED BY <3>3, <3>4
  <2> QED BY <2>2, <2>3 DEF UpPlaces
<1>14. Null \notin E
  BY <1>0, <1>p
<1>15. Shape(E, l2, r2, u2, N - 1, pos2, lo2, hi2)
  BY <1>6, <1>10, <1>11, <1>12, <1>13, <1>14 DEF Shape
<1> QED BY <1>15 DEF E

\* The same for a node without a child on the right.
LEMMA SpliceBackShape ==
  ASSUME NEW D, NEW l, NEW r, NEW u, NEW N, NEW pos, NEW lo, NEW hi,
         Shape(D, l, r, u, N, pos, lo, hi),
         NEW n \in D, r[n] = Null,
         NEW l2, NEW r2, NEW u2, Spliced(D, l, r, u, n, l[n], l2, r2, u2),
         NEW pos2, NEW lo2, NEW hi2, Narrowed(D, pos, lo, hi, pos[n], n, pos2, lo2, hi2)
  PROVE  Shape(D \ {n}, l2, r2, u2, N - 1, pos2, lo2, hi2)
<1> DEFINE E == D \ {n}
<1>1. PICK mpos, mlo, mhi : Mirrored(D, N, pos, lo, hi, mpos, mlo, mhi)
  BY MirrorExists
<1>2. Shape(D, r, l, u, N, mpos, mlo, mhi)
  BY <1>1, MirrorShape
<1>3. PICK mpos2, mlo2, mhi2 : Narrowed(D, mpos, mlo, mhi, mpos[n], n, mpos2, mlo2, mhi2)
  BY DEF Narrowed
<1>s. Spliced(D, r, l, u, n, l[n], r2, l2, u2)
  BY DEF Spliced
<1>4. Shape(E, r2, l2, u2, N - 1, mpos2, mlo2, mhi2)
  BY <1>2, <1>3, <1>s, SpliceShape
<1>5. /\ N \in Int /\ pos \in [D -> 1 .. N] /\ lo \in [D -> 1 .. N] /\ hi \in [D -> 1 .. N]
  BY DEF Shape, Places
<1>6. PICK pos3, lo3, hi3 : Mirrored(E, N - 1, mpos2, mlo2, mhi2, pos3, lo3, hi3)
  BY MirrorExists
<1>7. Shape(E, l2, r2, u2, N - 1, pos3, lo3, hi3)
  BY <1>4, <1>6, MirrorShape
<1>8. \A m \in D : pos[m] \in Int /\ lo[m] \in Int /\ hi[m] \in Int
  BY <1>5
<1>9. \A m \in D : /\ mpos[m] = N + 1 - pos[m]
                   /\ mlo[m] = N + 1 - hi[m]
                   /\ mhi[m] = N + 1 - lo[m]
  BY <1>1 DEF Mirrored
<1>10. \A m \in E : /\ mpos2[m] = Back(mpos[m], mpos[n])
                    /\ mlo2[m] = Back(mlo[m], mpos[n])
                    /\ mhi2[m] = Back(mhi[m], mpos[n] - 1)
  BY <1>3 DEF Narrowed
<1>11. /\ pos3 = [m \in E |-> N - 1 + 1 - mpos2[m]]
       /\ lo3 = [m \in E |-> N - 1 + 1 - mhi2[m]]
       /\ hi3 = [m \in E |-> N - 1 + 1 - mlo2[m]]
  BY <1>6 DEF Mirrored
<1>12. \A m \in E :
         /\ N - 1 + 1 - mpos2[m] = Back(pos[m], pos[n])
         /\ N - 1 + 1 - mhi2[m] = Back(lo[m], pos[n])
         /\ N - 1 + 1 - mlo2[m] = Back(hi[m], pos[n] - 1)
  <2> TAKE m \in E
  <2>1. mpos[n] = N + 1 - pos[n] /\ pos[n] \in Int
    BY <1>8, <1>9
  <2>2. /\ mpos2[m] = Back(mpos[m], mpos[n]) /\ mlo2[m] = Back(mlo[m], mpos[n])
        /\ mhi2[m] = Back(mhi[m], mpos[n] - 1)
    BY <1>10
  <2>3. /\ pos[m] \in Int /\ lo[m] \in Int /\ hi[m] \in Int
        /\ mpos[m] = N + 1 - pos[m] /\ mlo[m] = N + 1 - hi[m] /\ mhi[m] = N + 1 - lo[m]
    BY <1>8, <1>9
  <2>4. pos[m] # pos[n]
    BY ShapeFacts
  <2> QED BY <2>1, <2>2, <2>3, <2>4, <1>5 DEF Back
<1>13. pos3 = pos2 /\ lo3 = lo2 /\ hi3 = hi2
  <2>1. /\ pos2 = [m \in E |-> Back(pos[m], pos[n])]
        /\ lo2 = [m \in E |-> Back(lo[m], pos[n])]
        /\ hi2 = [m \in E |-> Back(hi[m], pos[n] - 1)]
    BY DEF Narrowed
  <2>2. /\ [m \in E |-> N - 1 + 1 - mpos2[m]] = [m \in E |-> Back(pos[m], pos[n])]
        /\ [m \in E |-> N - 1 + 1 - mhi2[m]] = [m \in E |-> Back(lo[m], pos[n])]
        /\ [m \in E |-> N - 1 + 1 - mlo2[m]] = [m \in E |-> Back(hi[m], pos[n] - 1)]
    <3> HIDE DEF E
    <3> QED BY <1>12
  <2> QED BY <2>1, <2>2, <1>11, Zenon
<1> QED BY <1>7, <1>13

-----------------------------------------------------------------------------
(* Links and heights                                                       *)

\* g is h but for a link from p to a child and back, for the one of n to the
\* node above it, or for n's height.
LeftSet(D, h, g, p, c) ==
  /\ g \in [D -> Node]
  /\ \A m \in D : /\ g[m].left = (IF m = p THEN c ELSE h[m].left)
                  /\ g[m].parent = (IF m = c THEN p ELSE h[m].parent)
                  /\ g[m].right = h[m].right
                  /\ g[m].height = h[m].height /\ g[m].data = h[m].data

\* The same of a right child.
RightSet(D, h, g, p, c) ==
  /\ g \in [D -> Node]
  /\ \A m \in D : /\ g[m].right = (IF m = p THEN c ELSE h[m].right)
                  /\ g[m].parent = (IF m = c THEN p ELSE h[m].parent)
                  /\ g[m].left = h[m].left
                  /\ g[m].height = h[m].height /\ g[m].data = h[m].data

\* Only the parent pointer of n is written.
ParentSet(D, h, g, n, p) ==
  /\ g \in [D -> Node]
  /\ \A m \in D : /\ g[m].parent = (IF m = n THEN p ELSE h[m].parent)
                  /\ g[m].left = h[m].left /\ g[m].right = h[m].right
                  /\ g[m].height = h[m].height /\ g[m].data = h[m].data

\* The height a node is given.
HeightFrom(h, n) ==
  IF HeightOf(h, h[n].left) > HeightOf(h, h[n].right)
  THEN HeightOf(h, h[n].left) + 1 ELSE HeightOf(h, h[n].right) + 1

\* Only the height of n is written.
HeightSet(D, h, g, n) ==
  /\ g \in [D -> Node]
  /\ \A m \in D : /\ g[m].height = (IF m = n THEN HeightFrom(h, n) ELSE h[m].height)
                  /\ g[m].left = h[m].left /\ g[m].right = h[m].right
                  /\ g[m].parent = h[m].parent /\ g[m].data = h[m].data

\* connect_lc
LEMMA ConnectLeftFields ==
  ASSUME NEW D \in SUBSET Elem, NEW h \in [D -> Node], NEW p \in D, NEW c \in D \cup {Null}
  PROVE  LeftSet(D, h, ConnectLeft(h, p, c), p, c)
<1>1. Null \notin D
  BY AvlAssumption
<1>2. CASE c = Null
  BY <1>1, <1>2 DEF ConnectLeft, LeftSet, Node, Pointer
<1>3. CASE c # Null
  BY <1>1, <1>3 DEF ConnectLeft, LeftSet, Node, Pointer
<1> QED BY <1>2, <1>3

\* connect_rc
LEMMA ConnectRightFields ==
  ASSUME NEW D \in SUBSET Elem, NEW h \in [D -> Node], NEW p \in D, NEW c \in D \cup {Null}
  PROVE  RightSet(D, h, ConnectRight(h, p, c), p, c)
<1>1. Null \notin D
  BY AvlAssumption
<1>2. CASE c = Null
  BY <1>1, <1>2 DEF ConnectRight, RightSet, Node, Pointer
<1>3. CASE c # Null
  BY <1>1, <1>3 DEF ConnectRight, RightSet, Node, Pointer
<1> QED BY <1>2, <1>3

\* update_height
LEMMA UpdateHeightFields ==
  ASSUME NEW D \in SUBSET Elem, NEW h \in [D -> Node], NEW n \in D,
         h[n].left \in D \cup {Null}, h[n].right \in D \cup {Null}
  PROVE  HeightSet(D, h, UpdateHeight(h, n), n)
<1>1. HeightOf(h, h[n].left) \in Int /\ HeightOf(h, h[n].right) \in Int
  BY DEF HeightOf, Node
<1>2. HeightFrom(h, n) \in Int
  BY <1>1 DEF HeightFrom
<1>3. UpdateHeight(h, n) = [h EXCEPT ![n].height = HeightFrom(h, n)]
  BY DEF UpdateHeight, HeightFrom
<1> QED BY <1>2, <1>3 DEF HeightSet, Node

\* A node's pointer to the one above it.
LEMMA ParentFields ==
  ASSUME NEW D \in SUBSET Elem, NEW h \in [D -> Node], NEW n \in D, NEW p \in D \cup {Null}
  PROVE  ParentSet(D, h, [h EXCEPT ![n].parent = p], n, p)
BY DEF ParentSet, Node, Pointer

-----------------------------------------------------------------------------

\* A node's height is that of its subtree, as far as those of its children are.
Exact(h, n) == h[n].height = HeightFrom(h, n)

\* Heights follow from the children's.
SameBelow(h, g, n) ==
  /\ g[n].left = h[n].left /\ g[n].right = h[n].right
  /\ \A c \in {h[n].left, h[n].right} : c # Null => g[c].height = h[c].height

\* The height that a node should have depends on its children only.
LEMMA SameHeight ==
  ASSUME NEW h, NEW g, NEW n, SameBelow(h, g, n)
  PROVE  HeightFrom(g, n) = HeightFrom(h, n)
BY DEF SameBelow, HeightFrom, HeightOf

\* What a rotation does after it has turned the links below.
Lifted(D, h, p, top, low, t) ==
  /\ t.top = top /\ t.heap \in [D -> Node]
  /\ \A m \in D :
       /\ t.heap[m].left = (IF m = p /\ h[p].left = low THEN top ELSE h[m].left)
       /\ t.heap[m].right = (IF m = p /\ h[p].left # low THEN top ELSE h[m].right)
       /\ t.heap[m].parent = (IF m = top THEN p ELSE h[m].parent)
       /\ t.heap[m].data = h[m].data
  /\ \A m \in D \ {top, low} : t.heap[m].height = h[m].height
  /\ Exact(t.heap, top) /\ Exact(t.heap, low)

\* Lift does that, when the two nodes and the parent are different ones.
LEMMA LiftFields ==
  ASSUME NEW D \in SUBSET Elem, NEW h \in [D -> Node], NEW p \in D \cup {Null},
         NEW top \in D, NEW low \in D, top # low, p # top, p # low,
         h[low].left \in (D \ {low, top}) \cup {Null}, h[low].right \in (D \ {low, top}) \cup {Null},
         h[top].left \in (D \ {top}) \cup {Null}, h[top].right \in (D \ {top}) \cup {Null}
  PROVE  Lifted(D, h, p, top, low, Lift(h, p, top, low))
<1>0. Null \notin D
  BY AvlAssumption
<1>1. PICK h1 : h1 = UpdateHeight(h, low)
  OBVIOUS
<1>a. HeightSet(D, h, h1, low)
  BY <1>1, UpdateHeightFields
<1>2. /\ h1 \in [D -> Node]
      /\ \A m \in D : /\ h1[m].height = (IF m = low THEN HeightFrom(h, low) ELSE h[m].height)
                      /\ h1[m].left = h[m].left /\ h1[m].right = h[m].right
                      /\ h1[m].parent = h[m].parent /\ h1[m].data = h[m].data
  BY <1>a DEF HeightSet
<1>3. PICK h2 : h2 = UpdateHeight(h1, top)
  OBVIOUS
<1>4. h1[top].left \in D \cup {Null} /\ h1[top].right \in D \cup {Null}
  BY <1>2
<1>b. HeightSet(D, h1, h2, top)
  BY <1>2, <1>3, <1>4, UpdateHeightFields
<1>5. /\ h2 \in [D -> Node]
      /\ \A m \in D : /\ h2[m].height = (IF m = top THEN HeightFrom(h1, top) ELSE h1[m].height)
                      /\ h2[m].left = h1[m].left /\ h2[m].right = h1[m].right
                      /\ h2[m].parent = h1[m].parent /\ h2[m].data = h1[m].data
  BY <1>b DEF HeightSet
<1>6. PICK h3 : h3 = [h2 EXCEPT ![top].parent = p]
  OBVIOUS
<1>c. ParentSet(D, h2, h3, top, p)
  BY <1>5, <1>6, ParentFields
<1>7. /\ h3 \in [D -> Node]
      /\ \A m \in D : /\ h3[m].parent = (IF m = top THEN p ELSE h2[m].parent)
                      /\ h3[m].left = h2[m].left /\ h3[m].right = h2[m].right
                      /\ h3[m].height = h2[m].height /\ h3[m].data = h2[m].data
  BY <1>c DEF ParentSet
<1>8. PICK t, g : t = Lift(h, p, top, low) /\ g = t.heap
  OBVIOUS
<1>9. t.top = top /\ g = IF p = Null THEN h3 ELSE Replace(h3, p, low, top)
  BY <1>1, <1>3, <1>6, <1>8 DEF Lift
<1>10. /\ g \in [D -> Node]
       /\ \A m \in D : /\ g[m].left = (IF m = p /\ h3[p].left = low THEN top ELSE h3[m].left)
                       /\ g[m].right = (IF m = p /\ h3[p].left # low THEN top ELSE h3[m].right)
                       /\ g[m].parent = (IF m = top THEN p ELSE h3[m].parent)
                       /\ g[m].height = h3[m].height /\ g[m].data = h3[m].data
  <2>1. CASE p = Null
    <3>1. \A m \in D : m # p
      BY <1>0, <2>1
    <3> QED BY <1>7, <1>9, <2>1, <3>1
  <2>2. CASE p # Null /\ h3[p].left = low
    <3>1. p \in D /\ g = ConnectLeft(h3, p, top)
      BY <1>9, <2>2 DEF Replace
    <3>a. LeftSet(D, h3, g, p, top)
      BY <1>7, <3>1, ConnectLeftFields
    <3>2. /\ g \in [D -> Node]
          /\ \A m \in D : /\ g[m].left = (IF m = p THEN top ELSE h3[m].left)
                          /\ g[m].parent = (IF m = top THEN p ELSE h3[m].parent)
                          /\ g[m].right = h3[m].right
                          /\ g[m].height = h3[m].height /\ g[m].data = h3[m].data
      BY <3>a DEF LeftSet
    <3> QED BY <2>2, <3>2
  <2>3. CASE p # Null /\ h3[p].left # low
    <3>1. p \in D /\ g = ConnectRight(h3, p, top)
      BY <1>9, <2>3 DEF Replace
    <3>a. RightSet(D, h3, g, p, top)
      BY <1>7, <3>1, ConnectRightFields
    <3>2. /\ g \in [D -> Node]
          /\ \A m \in D : /\ g[m].right = (IF m = p THEN top ELSE h3[m].right)
                          /\ g[m].parent = (IF m = top THEN p ELSE h3[m].parent)
                          /\ g[m].left = h3[m].left
                          /\ g[m].height = h3[m].height /\ g[m].data = h3[m].data
      BY <3>a DEF RightSet
    <3> QED BY <2>3, <3>2
  <2> QED BY <2>1, <2>2, <2>3
<1>11. \A m \in D : /\ g[m].left = (IF m = p /\ h[p].left = low THEN top ELSE h[m].left)
                    /\ g[m].right = (IF m = p /\ h[p].left # low THEN top ELSE h[m].right)
                    /\ g[m].parent = (IF m = top THEN p ELSE h[m].parent)
                    /\ g[m].data = h[m].data
  <2>1. \A m \in D : /\ h3[m].left = h[m].left /\ h3[m].right = h[m].right
                     /\ h3[m].parent = (IF m = top THEN p ELSE h[m].parent)
                     /\ h3[m].data = h[m].data
    BY <1>2, <1>5, <1>7
  <2>2. p \in D => h3[p].left = h[p].left
    BY <2>1
  <2> QED BY <1>10, <2>1, <2>2
<1>12. \A m \in D : g[m].height = IF m = top THEN HeightFrom(h1, top)
                                   ELSE IF m = low THEN HeightFrom(h, low) ELSE h[m].height
  BY <1>2, <1>5, <1>7, <1>10
<1>13. Exact(g, low)
  <2>1. g[low].left = h[low].left /\ g[low].right = h[low].right
    BY <1>11
  <2>2. \A c \in {h[low].left, h[low].right} : c # Null => g[c].height = h[c].height
    BY <1>12
  <2>3. HeightFrom(g, low) = HeightFrom(h, low)
    BY <2>1, <2>2, SameHeight DEF SameBelow
  <2> QED BY <1>12, <2>3 DEF Exact
<1>14. Exact(g, top)
  <2>1. g[top].left = h1[top].left /\ g[top].right = h1[top].right
    BY <1>2, <1>11
  <2>2. \A c \in {h1[top].left, h1[top].right} : c # Null => c \in D \ {top}
    BY <1>2
  <2>3. \A c \in D \ {top} : g[c].height = h1[c].height
    BY <1>2, <1>12
  <2>4. HeightFrom(g, top) = HeightFrom(h1, top)
    BY <2>1, <2>2, <2>3, SameHeight DEF SameBelow
  <2> QED BY <1>12, <2>4 DEF Exact
<1> HIDE DEF Exact
<1> QED BY <1>8, <1>9, <1>10, <1>11, <1>12, <1>13, <1>14 DEF Lifted

-----------------------------------------------------------------------------
(* The rotations                                                           *)

(***************************************************************************)
(* What a rotation at n makes of the nodes, t being the child that takes   *)
(* its place: of the links, what Rotated says of them.                     *)
(***************************************************************************)
Clockwise(E, h, n, t, g) ==
  /\ g \in [E -> Node]
  /\ \A m \in E :
       /\ g[m].left = (IF m = n THEN h[t].right
                       ELSE IF m = h[n].parent /\ h[m].left = n THEN t ELSE h[m].left)
       /\ g[m].right = (IF m = t THEN n
                        ELSE IF m = h[n].parent /\ h[m].left # n THEN t ELSE h[m].right)
       /\ g[m].parent = (IF m = n THEN t ELSE IF m = t THEN h[n].parent
                         ELSE IF m = h[t].right THEN n ELSE h[m].parent)
       /\ g[m].data = h[m].data
  /\ \A m \in E \ {n, t} : g[m].height = h[m].height
  /\ Exact(g, n) /\ Exact(g, t)

\* The same of rotate_counterclockwise.
Counterclockwise(E, h, n, t, g) ==
  /\ g \in [E -> Node]
  /\ \A m \in E :
       /\ g[m].right = (IF m = n THEN h[t].left
                        ELSE IF m = h[n].parent /\ h[m].left # n THEN t ELSE h[m].right)
       /\ g[m].left = (IF m = t THEN n
                       ELSE IF m = h[n].parent /\ h[m].left = n THEN t ELSE h[m].left)
       /\ g[m].parent = (IF m = n THEN t ELSE IF m = t THEN h[n].parent
                         ELSE IF m = h[t].left THEN n ELSE h[m].parent)
       /\ g[m].data = h[m].data
  /\ \A m \in E \ {n, t} : g[m].height = h[m].height
  /\ Exact(g, n) /\ Exact(g, t)

\* rotate_clockwise
LEMMA ClockwiseFields ==
  ASSUME NEW E \in SUBSET Elem, NEW h \in [E -> Node], NEW n \in E, NEW t \in E,
         t = h[n].left, t # n, NEW c \in (E \ {n, t}) \cup {Null}, c = h[t].right,
         NEW p \in (E \ {n, t}) \cup {Null}, p = h[n].parent, c # p \/ p = Null,
         h[n].right \in (E \ {n, t}) \cup {Null}, h[t].left \in (E \ {t}) \cup {Null}
  PROVE  /\ RotateClockwise(h, n).top = t
         /\ Clockwise(E, h, n, t, RotateClockwise(h, n).heap)
<1>0. Null \notin E
  BY AvlAssumption
<1>1. PICK h1 : h1 = ConnectLeft(h, n, c)
  OBVIOUS
<1>2. LeftSet(E, h, h1, n, c)
  BY <1>1, ConnectLeftFields
<1>3. PICK h2 : h2 = ConnectRight(h1, t, n)
  OBVIOUS
<1>4. RightSet(E, h1, h2, t, n)
  <2>1. h1 \in [E -> Node]
    BY <1>2 DEF LeftSet
  <2> QED BY <2>1, <1>3, ConnectRightFields
<1>5. /\ h2 \in [E -> Node]
      /\ \A m \in E : /\ h2[m].left = (IF m = n THEN c ELSE h[m].left)
                      /\ h2[m].right = (IF m = t THEN n ELSE h[m].right)
                      /\ h2[m].parent = (IF m = n THEN t ELSE IF m = c THEN n ELSE h[m].parent)
                      /\ h2[m].height = h[m].height /\ h2[m].data = h[m].data
  BY <1>2, <1>4 DEF LeftSet, RightSet
<1>6. PICK s : s = Lift(h2, p, t, n)
  OBVIOUS
<1>7. RotateClockwise(h, n) = s
  BY <1>1, <1>3, <1>6 DEF RotateClockwise
<1>8. Lifted(E, h2, p, t, n, s)
  <2>1. /\ h2[n].left \in (E \ {n, t}) \cup {Null} /\ h2[n].right \in (E \ {n, t}) \cup {Null}
        /\ h2[t].left \in (E \ {t}) \cup {Null} /\ h2[t].right \in (E \ {t}) \cup {Null}
    BY <1>5
  <2>2. /\ p \in E \cup {Null} /\ t # n /\ p # t /\ p # n /\ h2 \in [E -> Node]
    BY <1>0, <1>5
  <2> QED BY <2>1, <2>2, <1>6, LiftFields
<1>9. PICK g : g = s.heap
  OBVIOUS
<1>10. /\ s.top = t /\ g \in [E -> Node]
       /\ \A m \in E :
            /\ g[m].left = (IF m = p /\ h2[p].left = n THEN t ELSE h2[m].left)
            /\ g[m].right = (IF m = p /\ h2[p].left # n THEN t ELSE h2[m].right)
            /\ g[m].parent = (IF m = t THEN p ELSE h2[m].parent)
            /\ g[m].data = h2[m].data
       /\ \A m \in E \ {t, n} : g[m].height = h2[m].height
       /\ Exact(g, t) /\ Exact(g, n)
  BY <1>8, <1>9 DEF Lifted
<1>11. p \in E => h2[p].left = h[p].left
  <2>1. p \in E => p # n /\ p # t
    BY <1>0
  <2>2. \A m \in E \ {n, t} : h2[m].left = h[m].left
    BY <1>5
  <2> QED BY <2>1, <2>2
<1>12. Clockwise(E, h, n, t, g)
  <2> HIDE DEF Exact
  <2>1. \A m \in E :
       /\ g[m].left = (IF m = n THEN c ELSE IF m = p /\ h[m].left = n THEN t ELSE h[m].left)
       /\ g[m].right = (IF m = t THEN n ELSE IF m = p /\ h[m].left # n THEN t ELSE h[m].right)
       /\ g[m].parent = (IF m = n THEN t ELSE IF m = t THEN p
                         ELSE IF m = c THEN n ELSE h[m].parent)
       /\ g[m].data = h[m].data
    BY <1>0, <1>5, <1>10, <1>11
  <2> QED BY <2>1, <1>5, <1>10 DEF Clockwise
<1> QED BY <1>7, <1>9, <1>10, <1>12

\* rotate_counterclockwise
LEMMA CounterclockwiseFields ==
  ASSUME NEW E \in SUBSET Elem, NEW h \in [E -> Node], NEW n \in E, NEW t \in E,
         t = h[n].right, t # n, NEW c \in (E \ {n, t}) \cup {Null}, c = h[t].left,
         NEW p \in (E \ {n, t}) \cup {Null}, p = h[n].parent, c # p \/ p = Null,
         h[n].left \in (E \ {n, t}) \cup {Null}, h[t].right \in (E \ {t}) \cup {Null}
  PROVE  /\ RotateCounterclockwise(h, n).top = t
         /\ Counterclockwise(E, h, n, t, RotateCounterclockwise(h, n).heap)
<1>0. Null \notin E
  BY AvlAssumption
<1>1. PICK h1 : h1 = ConnectRight(h, n, c)
  OBVIOUS
<1>2. RightSet(E, h, h1, n, c)
  BY <1>1, ConnectRightFields
<1>3. PICK h2 : h2 = ConnectLeft(h1, t, n)
  OBVIOUS
<1>4. LeftSet(E, h1, h2, t, n)
  <2>1. h1 \in [E -> Node]
    BY <1>2 DEF RightSet
  <2> QED BY <2>1, <1>3, ConnectLeftFields
<1>5. /\ h2 \in [E -> Node]
      /\ \A m \in E : /\ h2[m].right = (IF m = n THEN c ELSE h[m].right)
                      /\ h2[m].left = (IF m = t THEN n ELSE h[m].left)
                      /\ h2[m].parent = (IF m = n THEN t ELSE IF m = c THEN n ELSE h[m].parent)
                      /\ h2[m].height = h[m].height /\ h2[m].data = h[m].data
  BY <1>2, <1>4 DEF LeftSet, RightSet
<1>6. PICK s : s = Lift(h2, p, t, n)
  OBVIOUS
<1>7. RotateCounterclockwise(h, n) = s
  BY <1>1, <1>3, <1>6 DEF RotateCounterclockwise
<1>8. Lifted(E, h2, p, t, n, s)
  <2>1. /\ h2[n].left \in (E \ {n, t}) \cup {Null} /\ h2[n].right \in (E \ {n, t}) \cup {Null}
        /\ h2[t].left \in (E \ {t}) \cup {Null} /\ h2[t].right \in (E \ {t}) \cup {Null}
    BY <1>5
  <2>2. /\ p \in E \cup {Null} /\ t # n /\ p # t /\ p # n /\ h2 \in [E -> Node]
    BY <1>0, <1>5
  <2> QED BY <2>1, <2>2, <1>6, LiftFields
<1>9. PICK g : g = s.heap
  OBVIOUS
<1>10. /\ s.top = t /\ g \in [E -> Node]
       /\ \A m \in E :
            /\ g[m].left = (IF m = p /\ h2[p].left = n THEN t ELSE h2[m].left)
            /\ g[m].right = (IF m = p /\ h2[p].left # n THEN t ELSE h2[m].right)
            /\ g[m].parent = (IF m = t THEN p ELSE h2[m].parent)
            /\ g[m].data = h2[m].data
       /\ \A m \in E \ {t, n} : g[m].height = h2[m].height
       /\ Exact(g, t) /\ Exact(g, n)
  BY <1>8, <1>9 DEF Lifted
<1>11. p \in E => h2[p].left = h[p].left
  <2>1. p \in E => p # n /\ p # t
    BY <1>0
  <2>2. \A m \in E \ {n, t} : h2[m].left = h[m].left
    BY <1>5
  <2> QED BY <2>1, <2>2
<1>12. Counterclockwise(E, h, n, t, g)
  <2> HIDE DEF Exact
  <2>1. \A m \in E :
       /\ g[m].right = (IF m = n THEN c ELSE IF m = p /\ h[m].left # n THEN t ELSE h[m].right)
       /\ g[m].left = (IF m = t THEN n ELSE IF m = p /\ h[m].left = n THEN t ELSE h[m].left)
       /\ g[m].parent = (IF m = n THEN t ELSE IF m = t THEN p
                         ELSE IF m = c THEN n ELSE h[m].parent)
       /\ g[m].data = h[m].data
    BY <1>0, <1>5, <1>10, <1>11
  <2> QED BY <2>1, <1>5, <1>10 DEF Counterclockwise
<1> QED BY <1>7, <1>9, <1>10, <1>12

(***************************************************************************)
(* The nodes D of a heap with the addresses E are a tree with these        *)
(* places; a node that is about to be deleted is in E only.                *)
(***************************************************************************)
Stands(D, E, h, N, pos, lo, hi) ==
  /\ E \in SUBSET Elem /\ D \subseteq E /\ h \in [E -> Node]
  /\ Shape(D, [m \in D |-> h[m].left], [m \in D |-> h[m].right], [m \in D |-> h[m].parent],
           N, pos, lo, hi)
  /\ \A m \in D : h[m].height \in Nat

\* What is known of each of its nodes.
LEMMA StandsFacts ==
  ASSUME NEW D, NEW E, NEW h, NEW N, NEW pos, NEW lo, NEW hi, Stands(D, E, h, N, pos, lo, hi)
  PROVE  /\ N \in Nat /\ Null \notin E
         /\ \A n \in D :
              /\ n \in E /\ h[n].height \in Nat
              /\ pos[n] \in 1 .. N /\ lo[n] \in 1 .. N /\ hi[n] \in 1 .. N
              /\ lo[n] <= pos[n] /\ pos[n] <= hi[n]
              /\ h[n].left \in D \cup {Null} /\ h[n].right \in D \cup {Null}
              /\ h[n].parent \in D \cup {Null}
              /\ h[n].left = Null => lo[n] = pos[n]
              /\ h[n].right = Null => hi[n] = pos[n]
              /\ h[n].left # Null =>
                   /\ h[n].left # n /\ h[n].left # h[n].right
                   /\ h[n].left # h[n].parent /\ h[h[n].left].parent = n
                   /\ lo[h[n].left] = lo[n] /\ hi[h[n].left] = pos[n] - 1
              /\ h[n].right # Null =>
                   /\ h[n].right # n /\ h[n].right # h[n].parent
                   /\ h[h[n].right].parent = n
                   /\ lo[h[n].right] = pos[n] + 1 /\ hi[h[n].right] = hi[n]
              /\ h[n].parent = Null => lo[n] = 1 /\ hi[n] = N
              /\ h[n].parent # Null =>
                   /\ h[n].parent # n
                   /\ lo[h[n].parent] <= lo[n] /\ hi[n] <= hi[h[n].parent]
                   /\ hi[n] - lo[n] < hi[h[n].parent] - lo[h[n].parent]
                   /\ (n = h[h[n].parent].left <=> n # h[h[n].parent].right)
         /\ \A a, b \in D : pos[a] = pos[b] => a = b
<1>1. PICK l, r, u : /\ l = [m \in D |-> h[m].left] /\ r = [m \in D |-> h[m].right]
                     /\ u = [m \in D |-> h[m].parent]
  OBVIOUS
<1>2. Shape(D, l, r, u, N, pos, lo, hi)
  BY <1>1 DEF Stands
<1>3. /\ N \in Nat
      /\ \A n \in D :
              /\ pos[n] \in 1 .. N /\ lo[n] \in 1 .. N /\ hi[n] \in 1 .. N
              /\ lo[n] <= pos[n] /\ pos[n] <= hi[n]
              /\ l[n] \in D \cup {Null} /\ r[n] \in D \cup {Null} /\ u[n] \in D \cup {Null}
              /\ l[n] # Null => l[n] # n /\ l[n] # r[n] /\ l[n] # u[n]
              /\ r[n] # Null => r[n] # n /\ r[n] # u[n]
              /\ u[n] # Null => /\ u[n] # n /\ lo[u[n]] <= lo[n] /\ hi[n] <= hi[u[n]]
                                /\ hi[n] - lo[n] < hi[u[n]] - lo[u[n]]
                                /\ (n = l[u[n]] <=> n # r[u[n]])
      /\ \A a, b \in D : pos[a] = pos[b] => a = b
  BY <1>2, ShapeFacts
<1>4. \A n \in D :
         /\ l[n] = Null => lo[n] = pos[n]
         /\ r[n] = Null => hi[n] = pos[n]
         /\ l[n] # Null => u[l[n]] = n /\ lo[l[n]] = lo[n] /\ hi[l[n]] = pos[n] - 1
         /\ r[n] # Null => u[r[n]] = n /\ hi[r[n]] = hi[n] /\ lo[r[n]] = pos[n] + 1
         /\ u[n] = Null => lo[n] = 1 /\ hi[n] = N
  BY <1>2 DEF Shape, LeftPlaces, RightPlaces, UpPlaces
<1>5. \A n \in D : l[n] = h[n].left /\ r[n] = h[n].right /\ u[n] = h[n].parent
  BY <1>1
<1>6. Null \notin E /\ \A n \in D : n \in E /\ h[n].height \in Nat
  BY AvlAssumption DEF Stands
<1>7. ASSUME NEW n \in D
      PROVE  /\ h[n].left \in D \cup {Null} /\ h[n].right \in D \cup {Null}
             /\ h[n].parent \in D \cup {Null}
             /\ h[n].left = Null => lo[n] = pos[n]
             /\ h[n].right = Null => hi[n] = pos[n]
             /\ h[n].left # Null =>
                  /\ h[n].left # n /\ h[n].left # h[n].right
                  /\ h[n].left # h[n].parent /\ h[h[n].left].parent = n
                  /\ lo[h[n].left] = lo[n] /\ hi[h[n].left] = pos[n] - 1
             /\ h[n].right # Null =>
                  /\ h[n].right # n /\ h[n].right # h[n].parent
                  /\ h[h[n].right].parent = n
                  /\ lo[h[n].right] = pos[n] + 1 /\ hi[h[n].right] = hi[n]
             /\ h[n].parent = Null => lo[n] = 1 /\ hi[n] = N
  <2>1. /\ l[n] # Null => l[n] \in D /\ u[l[n]] = h[l[n]].parent
        /\ r[n] # Null => r[n] \in D /\ u[r[n]] = h[r[n]].parent
    BY <1>3, <1>5
  <2>2. h[n].left = l[n] /\ h[n].right = r[n] /\ h[n].parent = u[n]
    BY <1>5
  <2> QED BY <2>1, <2>2, <1>3, <1>4
<1>8. ASSUME NEW n \in D, h[n].parent # Null
      PROVE  /\ h[n].parent # n
             /\ lo[h[n].parent] <= lo[n] /\ hi[n] <= hi[h[n].parent]
             /\ hi[n] - lo[n] < hi[h[n].parent] - lo[h[n].parent]
             /\ (n = h[h[n].parent].left <=> n # h[h[n].parent].right)
  <2>1. PICK p \in D : p = u[n] /\ p = h[n].parent
    BY <1>3, <1>5, <1>8
  <2>2. /\ p # n /\ lo[p] <= lo[n] /\ hi[n] <= hi[p]
        /\ hi[n] - lo[n] < hi[p] - lo[p]
        /\ (n = l[p] <=> n # r[p])
    BY <2>1, <1>3, <1>8
  <2>3. l[p] = h[p].left /\ r[p] = h[p].right
    BY <1>5
  <2> QED BY <2>1, <2>2, <2>3
<1> QED BY <1>3, <1>6, <1>7, <1>8

\* A node whose children are the same, at the same heights, is as exact.
LEMMA StillExact ==
  ASSUME NEW h, NEW g, NEW m, Exact(h, m), SameBelow(h, g, m), g[m].height = h[m].height
  PROVE  Exact(g, m)
BY SameHeight DEF Exact

\* An exact height of a node with heights below is one.
LEMMA HeightNat ==
  ASSUME NEW g, NEW m, Exact(g, m),
         g[m].left # Null => g[g[m].left].height \in Nat,
         g[m].right # Null => g[g[m].right].height \in Nat
  PROVE  g[m].height \in Nat
BY DEF Exact, HeightFrom, HeightOf

(***************************************************************************)
(* What a rotation at n does to a tree, t being the child that takes its   *)
(* place: the tree stands, n and t have the right heights, and so has      *)
(* every node that had it before, but for the one above, whose child is    *)
(* another one now.                                                        *)
(***************************************************************************)
Swung(D, E, h, N, pos, lo2, hi2, n, t, g) ==
  /\ Stands(D, E, g, N, pos, lo2, hi2)
  /\ g[t].parent = h[n].parent /\ g[n].parent = t
  /\ \A m \in D : m = h[n].parent => g[m].parent = h[m].parent
  /\ \A m \in E : g[m].data = h[m].data
  /\ Exact(g, n) /\ Exact(g, t)
  /\ \A m \in D \ {n, t} : m # h[n].parent /\ Exact(h, m) => Exact(g, m)
  /\ \A m \in D \ {n, t} : g[m].height = h[m].height
  /\ \A m \in D : m = h[n].parent /\ h[m].left = n => g[m].left = t
  /\ \A m \in D : m = h[n].parent /\ h[m].right = n => g[m].right = t
  /\ \A m \in D \ {n, t} : m # h[n].parent => g[m].left = h[m].left /\ g[m].right = h[m].right

\* In a tree rotate_clockwise writes what ClockwiseFields says.
LEMMA ClockwiseIs ==
  ASSUME NEW D, NEW E, NEW h, NEW N, NEW pos, NEW lo, NEW hi, Stands(D, E, h, N, pos, lo, hi),
         NEW n \in D, h[n].left # Null, NEW t, t = h[n].left
  PROVE  /\ RotateClockwise(h, n).top = t
         /\ Clockwise(E, h, n, t, RotateClockwise(h, n).heap)
         /\ h[t].right # h[n].parent \/ h[n].parent = Null
<1>0. /\ E \in SUBSET Elem /\ D \subseteq E /\ h \in [E -> Node] /\ Null \notin E /\ Null \notin D
  BY StandsFacts DEF Stands
<1>1. /\ t \in D /\ t # n /\ h[t].parent = n /\ t # h[n].parent
      /\ h[n].parent \in D \cup {Null} /\ h[n].parent # n
      /\ h[n].right \in D \cup {Null} /\ h[n].right # n /\ h[n].right # t
      /\ h[t].left \in D \cup {Null} /\ h[t].left # t
      /\ h[t].right \in D \cup {Null} /\ h[t].right # t /\ (h[t].right # Null => h[t].right # n)
  BY <1>0, StandsFacts
<1>2. PICK c, p : c = h[t].right /\ p = h[n].parent
  OBVIOUS
<1>3. c # p \/ p = Null
  <2>1. c # Null => c \in D /\ h[c].parent = t
    BY <1>0, <1>1, <1>2, StandsFacts
  <2>2. p # Null => p \in D /\ p # Null /\ hi[n] - lo[n] < hi[p] - lo[p]
    BY <1>1, <1>2, StandsFacts
  <2>3. c # Null => hi[c] - lo[c] < hi[t] - lo[t]
    BY <2>1, <1>0, <1>1, StandsFacts
  <2>4. hi[t] - lo[t] < hi[n] - lo[n]
    BY <1>0, <1>1, StandsFacts
  <2>5. \A m \in D : hi[m] \in Int /\ lo[m] \in Int
    BY StandsFacts
  <2> QED BY <2>1, <2>2, <2>3, <2>4, <2>5, <1>1
<1>4. /\ n \in E /\ t \in E /\ c \in (E \ {n, t}) \cup {Null} /\ p \in (E \ {n, t}) \cup {Null}
      /\ h[n].right \in (E \ {n, t}) \cup {Null} /\ h[t].left \in (E \ {t}) \cup {Null}
  BY <1>0, <1>1, <1>2
<1> QED BY <1>0, <1>1, <1>2, <1>3, <1>4, ClockwiseFields

\* And rotate_counterclockwise what CounterclockwiseFields says.
LEMMA CounterclockwiseIs ==
  ASSUME NEW D, NEW E, NEW h, NEW N, NEW pos, NEW lo, NEW hi, Stands(D, E, h, N, pos, lo, hi),
         NEW n \in D, h[n].right # Null, NEW t, t = h[n].right
  PROVE  /\ RotateCounterclockwise(h, n).top = t
         /\ Counterclockwise(E, h, n, t, RotateCounterclockwise(h, n).heap)
         /\ h[t].left # h[n].parent \/ h[n].parent = Null
<1>0. /\ E \in SUBSET Elem /\ D \subseteq E /\ h \in [E -> Node] /\ Null \notin E /\ Null \notin D
  BY StandsFacts DEF Stands
<1>1. /\ t \in D /\ t # n /\ h[t].parent = n /\ t # h[n].parent
      /\ h[n].parent \in D \cup {Null} /\ h[n].parent # n
      /\ h[n].left \in D \cup {Null} /\ h[n].left # n /\ h[n].left # t
      /\ h[t].right \in D \cup {Null} /\ h[t].right # t
      /\ h[t].left \in D \cup {Null} /\ h[t].left # t /\ (h[t].left # Null => h[t].left # n)
  BY <1>0, StandsFacts
<1>2. PICK c, p : c = h[t].left /\ p = h[n].parent
  OBVIOUS
<1>3. c # p \/ p = Null
  <2>1. c # Null => c \in D /\ h[c].parent = t
    BY <1>0, <1>1, <1>2, StandsFacts
  <2>2. p # Null => p \in D /\ p # Null /\ hi[n] - lo[n] < hi[p] - lo[p]
    BY <1>1, <1>2, StandsFacts
  <2>3. c # Null => hi[c] - lo[c] < hi[t] - lo[t]
    BY <2>1, <1>0, <1>1, StandsFacts
  <2>4. hi[t] - lo[t] < hi[n] - lo[n]
    BY <1>0, <1>1, StandsFacts
  <2>5. \A m \in D : hi[m] \in Int /\ lo[m] \in Int
    BY StandsFacts
  <2> QED BY <2>1, <2>2, <2>3, <2>4, <2>5, <1>1
<1>4. /\ n \in E /\ t \in E /\ c \in (E \ {n, t}) \cup {Null} /\ p \in (E \ {n, t}) \cup {Null}
      /\ h[n].left \in (E \ {n, t}) \cup {Null} /\ h[t].right \in (E \ {t}) \cup {Null}
  BY <1>0, <1>1, <1>2
<1> QED BY <1>0, <1>1, <1>2, <1>3, <1>4, CounterclockwiseFields

\* rotate_clockwise leaves one tree, in the same order, with exact heights where they were.
LEMMA ClockwiseStands ==
  ASSUME NEW D, NEW E, NEW h, NEW N, NEW pos, NEW lo, NEW hi, Stands(D, E, h, N, pos, lo, hi),
         NEW n \in D, h[n].left # Null, NEW t, t = h[n].left,
         NEW lo2, NEW hi2, Turned(D, pos, lo, hi, n, t, lo2, hi2)
  PROVE  /\ RotateClockwise(h, n).top = t
         /\ Swung(D, E, h, N, pos, lo2, hi2, n, t, RotateClockwise(h, n).heap)
<1>0. /\ E \in SUBSET Elem /\ D \subseteq E /\ h \in [E -> Node] /\ Null \notin E /\ Null \notin D
  BY StandsFacts DEF Stands
<1>1. /\ t \in D /\ t # n /\ h[t].parent = n /\ t # h[n].parent
      /\ h[n].parent \in D \cup {Null} /\ h[n].parent # n
      /\ h[n].right \in D \cup {Null} /\ h[n].right # n /\ h[n].right # t
      /\ h[t].left \in D \cup {Null} /\ h[t].left # t
      /\ h[t].right \in D \cup {Null} /\ h[t].right # t /\ (h[t].right # Null => h[t].right # n)
  BY <1>0, StandsFacts
<1>2. PICK c, p : c = h[t].right /\ p = h[n].parent
  OBVIOUS
<1>3. c # p \/ p = Null
  BY <1>2, ClockwiseIs
<1>4. PICK g : g = RotateClockwise(h, n).heap
  OBVIOUS
<1>5. RotateClockwise(h, n).top = t /\ Clockwise(E, h, n, t, g)
  BY <1>4, ClockwiseIs
<1>6. /\ g \in [E -> Node]
      /\ \A m \in D :
           /\ g[m].left = (IF m = n THEN c ELSE IF m = p /\ h[m].left = n THEN t ELSE h[m].left)
           /\ g[m].right = (IF m = t THEN n ELSE IF m = p /\ h[m].left # n THEN t ELSE h[m].right)
           /\ g[m].parent = (IF m = n THEN t ELSE IF m = t THEN p
                             ELSE IF m = c THEN n ELSE h[m].parent)
      /\ \A m \in E : g[m].data = h[m].data
      /\ \A m \in D \ {n, t} : g[m].height = h[m].height
  BY <1>0, <1>2, <1>5 DEF Clockwise
<1>7. Exact(g, n) /\ Exact(g, t)
  BY <1>5 DEF Clockwise
<1> HIDE DEF Exact
<1>8. p # Null => p \in D /\ (n = h[p].left <=> n # h[p].right)
  BY <1>1, <1>2, StandsFacts
<1>9. PICK l, r, u : /\ l = [m \in D |-> h[m].left] /\ r = [m \in D |-> h[m].right]
                     /\ u = [m \in D |-> h[m].parent]
  OBVIOUS
<1>10. PICK l2, r2, u2 : /\ l2 = [m \in D |-> g[m].left] /\ r2 = [m \in D |-> g[m].right]
                         /\ u2 = [m \in D |-> g[m].parent]
  OBVIOUS
<1>11. /\ \A m \in D : l[m] = h[m].left /\ r[m] = h[m].right /\ u[m] = h[m].parent
       /\ \A m \in D : l2[m] = g[m].left /\ r2[m] = g[m].right /\ u2[m] = g[m].parent
  BY <1>9, <1>10
<1>12. Shape(D, l, r, u, N, pos, lo, hi)
  BY <1>9 DEF Stands
<1>13. \A m \in D : /\ h[m].left \in D \cup {Null} /\ h[m].right \in D \cup {Null}
                    /\ h[m].parent \in D \cup {Null}
  BY StandsFacts
<1>14. Rotated(D, l, r, u, n, t, l2, r2, u2)
  <2>1. \A m \in D : /\ g[m].left \in D \cup {Null} /\ g[m].right \in D \cup {Null}
                     /\ g[m].parent \in D \cup {Null}
    BY <1>1, <1>2, <1>6, <1>13
  <2>2. /\ l2 \in [D -> D \cup {Null}] /\ r2 \in [D -> D \cup {Null}] /\ u2 \in [D -> D \cup {Null}]
    BY <2>1, <1>10
  <2>3. ASSUME NEW m \in D
        PROVE  /\ l2[m] = (IF m = n THEN r[t] ELSE IF m = u[n] /\ l[m] = n THEN t ELSE l[m])
               /\ r2[m] = (IF m = t THEN n ELSE IF m = u[n] /\ r[m] = n THEN t ELSE r[m])
               /\ u2[m] = (IF m = n THEN t ELSE IF m = t THEN u[n] ELSE IF m = r[t] THEN n ELSE u[m])
    <3>1. r[t] = c /\ u[n] = p
      BY <1>1, <1>2, <1>11
    <3>2. m = p => (h[m].left # n <=> h[m].right = n)
      BY <1>0, <1>8
    <3> QED BY <3>1, <3>2, <1>6, <1>11
  <2> QED BY <2>2, <2>3 DEF Rotated
<1>15. Shape(D, l2, r2, u2, N, pos, lo2, hi2)
  <2>1. l[n] = t
    BY <1>11
  <2> QED BY <2>1, <1>1, <1>12, <1>14, RotateShape
<1>16. \A m \in D : g[m].height \in Nat
  <2>0. \A m \in D : h[m].height \in Nat
    BY StandsFacts
  <2>1. \A m \in D \ {n, t} : g[m].height \in Nat
    BY <2>0, <1>6
  <2>2. g[n].height \in Nat
    <3>1. /\ g[n].left = c /\ g[n].right = h[n].right
      BY <1>1, <1>2, <1>6
    <3>2. /\ c # Null => c \in D \ {n, t}
          /\ h[n].right # Null => h[n].right \in D \ {n, t}
      BY <1>1, <1>2
    <3> QED BY <3>1, <3>2, <2>1, <1>7, HeightNat
  <2>3. g[t].height \in Nat
    <3>1. /\ g[t].left = h[t].left /\ g[t].right = n
      BY <1>1, <1>2, <1>6
    <3>2. /\ h[t].left # Null => h[t].left \in D \ {t} /\ h[t].left # n
      BY <1>1, StandsFacts
    <3> QED BY <3>1, <3>2, <2>1, <2>2, <1>7, HeightNat
  <2> QED BY <2>1, <2>2, <2>3
<1>17. Stands(D, E, g, N, pos, lo2, hi2)
  BY <1>0, <1>6, <1>10, <1>15, <1>16 DEF Stands
<1>18. \A m \in D \ {n, t} : m # p => g[m].left = h[m].left /\ g[m].right = h[m].right
  BY <1>6
<1>19. ASSUME NEW m \in D \ {n, t}, m # p, Exact(h, m) PROVE Exact(g, m)
  <2>1. \A x \in {h[m].left, h[m].right} : x # Null => x \in D \ {n, t}
    <3>1. \A x \in {h[m].left, h[m].right} : x # Null => x \in D /\ h[x].parent = m
      BY StandsFacts
    <3> QED BY <3>1, <1>1, <1>2, <1>19
  <2>2. SameBelow(h, g, m)
    BY <2>1, <1>6, <1>18, <1>19 DEF SameBelow
  <2> QED BY <2>2, <1>6, <1>19, StillExact
<1>p. \A m \in D : m = p => g[m].parent = h[m].parent
  BY <1>0, <1>1, <1>2, <1>3, <1>6
<1>20. /\ g[t].parent = p /\ g[n].parent = t
       /\ \A m \in D : m = p /\ h[m].left = n => g[m].left = t
       /\ \A m \in D : m = p /\ h[m].right = n => g[m].right = t
  BY <1>0, <1>1, <1>2, <1>6, <1>8
<1>21. Swung(D, E, h, N, pos, lo2, hi2, n, t, g)
  BY <1>2, <1>6, <1>7, <1>17, <1>18, <1>19, <1>20, <1>p DEF Swung
<1> QED BY <1>4, <1>5, <1>21

\* The same of the rotation to the other side.
LEMMA CounterclockwiseStands ==
  ASSUME NEW D, NEW E, NEW h, NEW N, NEW pos, NEW lo, NEW hi, Stands(D, E, h, N, pos, lo, hi),
         NEW n \in D, h[n].right # Null, NEW t, t = h[n].right,
         NEW lo2, NEW hi2, TurnedBack(D, pos, lo, hi, n, t, lo2, hi2)
  PROVE  /\ RotateCounterclockwise(h, n).top = t
         /\ Swung(D, E, h, N, pos, lo2, hi2, n, t, RotateCounterclockwise(h, n).heap)
<1>0. /\ E \in SUBSET Elem /\ D \subseteq E /\ h \in [E -> Node] /\ Null \notin E /\ Null \notin D
  BY StandsFacts DEF Stands
<1>1. /\ t \in D /\ t # n /\ h[t].parent = n /\ t # h[n].parent
      /\ h[n].parent \in D \cup {Null} /\ h[n].parent # n
      /\ h[n].left \in D \cup {Null} /\ h[n].left # n /\ h[n].left # t
      /\ h[t].right \in D \cup {Null} /\ h[t].right # t
      /\ h[t].left \in D \cup {Null} /\ h[t].left # t /\ (h[t].left # Null => h[t].left # n)
  BY <1>0, StandsFacts
<1>2. PICK c, p : c = h[t].left /\ p = h[n].parent
  OBVIOUS
<1>3. c # p \/ p = Null
  BY <1>2, CounterclockwiseIs
<1>4. PICK g : g = RotateCounterclockwise(h, n).heap
  OBVIOUS
<1>5. RotateCounterclockwise(h, n).top = t /\ Counterclockwise(E, h, n, t, g)
  BY <1>4, CounterclockwiseIs
<1>6. /\ g \in [E -> Node]
      /\ \A m \in D :
           /\ g[m].right = (IF m = n THEN c ELSE IF m = p /\ h[m].left # n THEN t ELSE h[m].right)
           /\ g[m].left = (IF m = t THEN n ELSE IF m = p /\ h[m].left = n THEN t ELSE h[m].left)
           /\ g[m].parent = (IF m = n THEN t ELSE IF m = t THEN p
                             ELSE IF m = c THEN n ELSE h[m].parent)
      /\ \A m \in E : g[m].data = h[m].data
      /\ \A m \in D \ {n, t} : g[m].height = h[m].height
  BY <1>0, <1>2, <1>5 DEF Counterclockwise
<1>7. Exact(g, n) /\ Exact(g, t)
  BY <1>5 DEF Counterclockwise
<1> HIDE DEF Exact
<1>8. p # Null => p \in D /\ (n = h[p].right <=> n # h[p].left)
  BY <1>1, <1>2, StandsFacts
<1>9. PICK l, r, u : /\ r = [m \in D |-> h[m].right] /\ l = [m \in D |-> h[m].left]
                     /\ u = [m \in D |-> h[m].parent]
  OBVIOUS
<1>10. PICK l2, r2, u2 : /\ r2 = [m \in D |-> g[m].right] /\ l2 = [m \in D |-> g[m].left]
                         /\ u2 = [m \in D |-> g[m].parent]
  OBVIOUS
<1>11. /\ \A m \in D : r[m] = h[m].right /\ l[m] = h[m].left /\ u[m] = h[m].parent
       /\ \A m \in D : r2[m] = g[m].right /\ l2[m] = g[m].left /\ u2[m] = g[m].parent
  BY <1>9, <1>10
<1>12. Shape(D, l, r, u, N, pos, lo, hi)
  BY <1>9 DEF Stands
<1>13. \A m \in D : /\ h[m].right \in D \cup {Null} /\ h[m].left \in D \cup {Null}
                    /\ h[m].parent \in D \cup {Null}
  BY StandsFacts
<1>14. Rotated(D, r, l, u, n, t, r2, l2, u2)
  <2>1. \A m \in D : /\ g[m].right \in D \cup {Null} /\ g[m].left \in D \cup {Null}
                     /\ g[m].parent \in D \cup {Null}
    BY <1>1, <1>2, <1>6, <1>13
  <2>2. /\ r2 \in [D -> D \cup {Null}] /\ l2 \in [D -> D \cup {Null}] /\ u2 \in [D -> D \cup {Null}]
    BY <2>1, <1>10
  <2>3. ASSUME NEW m \in D
        PROVE  /\ r2[m] = (IF m = n THEN l[t] ELSE IF m = u[n] /\ r[m] = n THEN t ELSE r[m])
               /\ l2[m] = (IF m = t THEN n ELSE IF m = u[n] /\ l[m] = n THEN t ELSE l[m])
               /\ u2[m] = (IF m = n THEN t ELSE IF m = t THEN u[n] ELSE IF m = l[t] THEN n ELSE u[m])
    <3>1. l[t] = c /\ u[n] = p
      BY <1>1, <1>2, <1>11
    <3>2. m = p => (h[m].right # n <=> h[m].left = n)
      BY <1>0, <1>8
    <3> QED BY <3>1, <3>2, <1>6, <1>11
  <2> QED BY <2>2, <2>3 DEF Rotated
<1>15. Shape(D, l2, r2, u2, N, pos, lo2, hi2)
  <2>1. r[n] = t
    BY <1>11
  <2> QED BY <2>1, <1>1, <1>12, <1>14, RotateBackShape
<1>16. \A m \in D : g[m].height \in Nat
  <2>0. \A m \in D : h[m].height \in Nat
    BY StandsFacts
  <2>1. \A m \in D \ {n, t} : g[m].height \in Nat
    BY <2>0, <1>6
  <2>2. g[n].height \in Nat
    <3>1. /\ g[n].right = c /\ g[n].left = h[n].left
      BY <1>1, <1>2, <1>6
    <3>2. /\ c # Null => c \in D \ {n, t}
          /\ h[n].left # Null => h[n].left \in D \ {n, t}
      BY <1>1, <1>2
    <3> QED BY <3>1, <3>2, <2>1, <1>7, HeightNat
  <2>3. g[t].height \in Nat
    <3>1. /\ g[t].right = h[t].right /\ g[t].left = n
      BY <1>1, <1>2, <1>6
    <3>2. /\ h[t].right # Null => h[t].right \in D \ {t} /\ h[t].right # n
      BY <1>1, StandsFacts
    <3> QED BY <3>1, <3>2, <2>1, <2>2, <1>7, HeightNat
  <2> QED BY <2>1, <2>2, <2>3
<1>17. Stands(D, E, g, N, pos, lo2, hi2)
  BY <1>0, <1>6, <1>10, <1>15, <1>16 DEF Stands
<1>18. \A m \in D \ {n, t} : m # p => g[m].right = h[m].right /\ g[m].left = h[m].left
  BY <1>6
<1>19. ASSUME NEW m \in D \ {n, t}, m # p, Exact(h, m) PROVE Exact(g, m)
  <2>1. \A x \in {h[m].right, h[m].left} : x # Null => x \in D \ {n, t}
    <3>1. \A x \in {h[m].right, h[m].left} : x # Null => x \in D /\ h[x].parent = m
      BY StandsFacts
    <3> QED BY <3>1, <1>1, <1>2, <1>19
  <2>2. SameBelow(h, g, m)
    BY <2>1, <1>6, <1>18, <1>19 DEF SameBelow
  <2> QED BY <2>2, <1>6, <1>19, StillExact
<1>p. \A m \in D : m = p => g[m].parent = h[m].parent
  BY <1>0, <1>1, <1>2, <1>3, <1>6
<1>20. /\ g[t].parent = p /\ g[n].parent = t
       /\ \A m \in D : m = p /\ h[m].right = n => g[m].right = t
       /\ \A m \in D : m = p /\ h[m].left = n => g[m].left = t
  BY <1>0, <1>1, <1>2, <1>6, <1>8
<1>21. Swung(D, E, h, N, pos, lo2, hi2, n, t, g)
  BY <1>2, <1>6, <1>7, <1>17, <1>18, <1>19, <1>20, <1>p DEF Swung
<1> QED BY <1>4, <1>5, <1>21

-----------------------------------------------------------------------------
(* A turn of update_height_and_rebalance                                   *)

\* Every height is right that is not of a node above `at' or of that itself.
Unsettled(D, h, pos, lo, hi, at) ==
  \A m \in D : at = Null \/ ~Covers(pos, lo, hi, m, at) => Exact(h, m)

\* The nodes R were rearranged, and p above them may have another child.
Rearranged(D, R, p, h, lo, hi, g, lo2, hi2) ==
  /\ \A m \in R : Exact(g, m)
  /\ \A m \in D \ R : m # p /\ Exact(h, m) => Exact(g, m)
  /\ \A m \in D \ R : lo2[m] = lo[m] /\ hi2[m] = hi[m]

(***************************************************************************)
(* If the nodes R below n were rearranged and have the right heights, and  *)
(* what was right elsewhere is right but at p above n, then what may be    *)
(* wrong is above n.                                                       *)
(***************************************************************************)
LEMMA UnsettledClimbs ==
  ASSUME NEW D, NEW E, NEW h, NEW N, NEW pos, NEW lo, NEW hi, Stands(D, E, h, N, pos, lo, hi),
         NEW n \in D, Unsettled(D, h, pos, lo, hi, n),
         NEW g, NEW lo2, NEW hi2, NEW R, n \in R,
         Rearranged(D, R, h[n].parent, h, lo, hi, g, lo2, hi2)
  PROVE  Unsettled(D, g, pos, lo2, hi2, h[n].parent)
<1>1. PICK p : p = h[n].parent
  OBVIOUS
<1>2. SUFFICES ASSUME NEW m \in D, p = Null \/ ~Covers(pos, lo2, hi2, m, p), m \notin R
               PROVE  Exact(g, m)
  BY <1>1 DEF Unsettled, Rearranged
<1>3. p # Null => ~Covers(pos, lo, hi, m, p)
  BY <1>2 DEF Covers, Rearranged
<1>4. m # p
  BY <1>2, <1>3, StandsFacts DEF Covers
<1>5. ~Covers(pos, lo, hi, m, n)
  <2>1. PICK l, r, u : /\ l = [x \in D |-> h[x].left] /\ r = [x \in D |-> h[x].right]
                       /\ u = [x \in D |-> h[x].parent]
    OBVIOUS
  <2>2. Shape(D, l, r, u, N, pos, lo, hi)
    BY <2>1 DEF Stands
  <2>3. \A a \in D : Covers(pos, lo, hi, a, n) /\ a # n
                       => u[n] # Null /\ Covers(pos, lo, hi, a, u[n])
    BY <2>2 DEF Shape, UpPlaces
  <2>4. u[n] = p
    BY <2>1, <1>1
  <2> QED BY <2>3, <2>4, <1>2, <1>3
<1>6. Exact(h, m)
  BY <1>5 DEF Unsettled
<1> QED BY <1>1, <1>2, <1>4, <1>6 DEF Rearranged

\* The tree after a turn at n, with `top' where n was.
TurnDone(D, E, h, N, pos, lo, hi, n, t, lo2, hi2) ==
  /\ t.top \in D
  /\ Stands(D, E, t.heap, N, pos, lo2, hi2)
  /\ t.heap[t.top].parent = h[n].parent
  /\ \A m \in E : t.heap[m].data = h[m].data
  /\ lo2[t.top] = lo[n] /\ hi2[t.top] = hi[n]
  /\ Unsettled(D, t.heap, pos, lo2, hi2, h[n].parent)

\* A turn that only writes the height.
LEMMA UpdateStands ==
  ASSUME NEW D, NEW E, NEW h, NEW N, NEW pos, NEW lo, NEW hi, Stands(D, E, h, N, pos, lo, hi),
         NEW n \in D, Unsettled(D, h, pos, lo, hi, n),
         NEW t, t = [top |-> n, heap |-> UpdateHeight(h, n)]
  PROVE  \E lo2, hi2 : TurnDone(D, E, h, N, pos, lo, hi, n, t, lo2, hi2)
<1>0. /\ E \in SUBSET Elem /\ D \subseteq E /\ h \in [E -> Node] /\ Null \notin E /\ Null \notin D
  BY StandsFacts DEF Stands
<1>1. /\ n \in E /\ h[n].left \in D \cup {Null} /\ h[n].right \in D \cup {Null}
      /\ h[n].left # n /\ h[n].right # n
  BY <1>0, StandsFacts
<1>2. PICK g : g = UpdateHeight(h, n)
  OBVIOUS
<1>3. HeightSet(E, h, g, n)
  BY <1>0, <1>1, <1>2, UpdateHeightFields
<1>4. /\ g \in [E -> Node]
      /\ \A m \in E : /\ g[m].height = (IF m = n THEN HeightFrom(h, n) ELSE h[m].height)
                      /\ g[m].left = h[m].left /\ g[m].right = h[m].right
                      /\ g[m].parent = h[m].parent /\ g[m].data = h[m].data
  BY <1>3 DEF HeightSet
<1>5. Exact(g, n)
  <2>1. SameBelow(h, g, n)
    BY <1>0, <1>1, <1>4 DEF SameBelow
  <2>2. HeightFrom(g, n) = HeightFrom(h, n)
    BY <2>1, SameHeight
  <2> QED BY <2>2, <1>1, <1>4 DEF Exact
<1>6. \A m \in D : g[m].height \in Nat
  <2>1. \A m \in D \ {n} : g[m].height \in Nat
    BY <1>0, <1>4, StandsFacts
  <2>2. g[n].height \in Nat
    BY <2>1, <1>0, <1>1, <1>4, <1>5, HeightNat
  <2> QED BY <2>1, <2>2
<1>7. Stands(D, E, g, N, pos, lo, hi)
  <2>1. /\ [m \in D |-> g[m].left] = [m \in D |-> h[m].left]
        /\ [m \in D |-> g[m].right] = [m \in D |-> h[m].right]
        /\ [m \in D |-> g[m].parent] = [m \in D |-> h[m].parent]
    BY <1>0, <1>4
  <2>2. PICK l, r, u : /\ l = [m \in D |-> h[m].left] /\ r = [m \in D |-> h[m].right]
                       /\ u = [m \in D |-> h[m].parent]
    OBVIOUS
  <2>3. Shape(D, l, r, u, N, pos, lo, hi)
    BY <2>2 DEF Stands
  <2> QED BY <2>1, <2>2, <2>3, <1>0, <1>4, <1>6 DEF Stands
<1>8. \A m \in D \ {n} : m # h[n].parent /\ Exact(h, m) => Exact(g, m)
  <2> SUFFICES ASSUME NEW m \in D \ {n}, m # h[n].parent, Exact(h, m) PROVE Exact(g, m)
    OBVIOUS
  <2>1. \A x \in {h[m].left, h[m].right} : x # Null => x \in D /\ x # n
    BY StandsFacts
  <2>2. SameBelow(h, g, m) /\ g[m].height = h[m].height
    BY <2>1, <1>0, <1>4 DEF SameBelow
  <2> QED BY <2>2, StillExact
<1>9. Unsettled(D, g, pos, lo, hi, h[n].parent)
  <2>1. PICK R : R = {n}
    OBVIOUS
  <2>2. n \in R /\ Rearranged(D, R, h[n].parent, h, lo, hi, g, lo, hi)
    BY <2>1, <1>5, <1>8 DEF Rearranged
  <2> QED BY <2>2, UnsettledClimbs
<1> QED BY <1>0, <1>1, <1>2, <1>4, <1>7, <1>9 DEF TurnDone

\* A turn that ends in a rotation clockwise.
LEMMA ClockwiseTurn ==
  ASSUME NEW D, NEW E, NEW h, NEW N, NEW pos, NEW lo, NEW hi, Stands(D, E, h, N, pos, lo, hi),
         NEW n \in D, Unsettled(D, h, pos, lo, hi, n), h[n].left # Null,
         NEW t, t = RotateClockwise(h, n)
  PROVE  \E lo2, hi2 : TurnDone(D, E, h, N, pos, lo, hi, n, t, lo2, hi2)
<1>1. PICK c \in D : c = h[n].left /\ c # n /\ lo[c] = lo[n]
  BY StandsFacts
<1>2. PICK lo2, hi2 : Turned(D, pos, lo, hi, n, c, lo2, hi2)
  BY DEF Turned
<1>3. PICK g : g = t.heap
  OBVIOUS
<1>4. t.top = c /\ Swung(D, E, h, N, pos, lo2, hi2, n, c, g)
  BY <1>1, <1>2, <1>3, ClockwiseStands
<1>5. /\ lo2[c] = lo[n] /\ hi2[c] = hi[n]
      /\ \A m \in D \ {n, c} : lo2[m] = lo[m] /\ hi2[m] = hi[m]
  <2>1. lo \in [D -> 1 .. N] /\ hi \in [D -> 1 .. N]
    BY DEF Stands, Shape, Places
  <2> QED BY <2>1, <1>1, <1>2 DEF Turned
<1>6. Unsettled(D, g, pos, lo2, hi2, h[n].parent)
  <2>1. PICK R : R = {n, c}
    OBVIOUS
  <2>2. /\ \A m \in R : Exact(g, m)
        /\ \A m \in D \ R : m # h[n].parent /\ Exact(h, m) => Exact(g, m)
    BY <2>1, <1>4 DEF Swung
  <2>3. n \in R /\ \A m \in D \ R : lo2[m] = lo[m] /\ hi2[m] = hi[m]
    BY <2>1, <1>5
  <2>4. Rearranged(D, R, h[n].parent, h, lo, hi, g, lo2, hi2)
    BY <2>2, <2>3 DEF Rearranged
  <2> QED BY <2>3, <2>4, UnsettledClimbs
<1> QED BY <1>1, <1>3, <1>4, <1>5, <1>6 DEF TurnDone, Swung

\* A turn that ends in a rotation counterclockwise.
LEMMA CounterclockwiseTurn ==
  ASSUME NEW D, NEW E, NEW h, NEW N, NEW pos, NEW lo, NEW hi, Stands(D, E, h, N, pos, lo, hi),
         NEW n \in D, Unsettled(D, h, pos, lo, hi, n), h[n].right # Null,
         NEW t, t = RotateCounterclockwise(h, n)
  PROVE  \E lo2, hi2 : TurnDone(D, E, h, N, pos, lo, hi, n, t, lo2, hi2)
<1>1. PICK c \in D : c = h[n].right /\ c # n /\ hi[c] = hi[n]
  BY StandsFacts
<1>2. PICK lo2, hi2 : TurnedBack(D, pos, lo, hi, n, c, lo2, hi2)
  BY DEF TurnedBack
<1>3. PICK g : g = t.heap
  OBVIOUS
<1>4. t.top = c /\ Swung(D, E, h, N, pos, lo2, hi2, n, c, g)
  BY <1>1, <1>2, <1>3, CounterclockwiseStands
<1>5. /\ lo2[c] = lo[n] /\ hi2[c] = hi[n]
      /\ \A m \in D \ {n, c} : lo2[m] = lo[m] /\ hi2[m] = hi[m]
  <2>1. lo \in [D -> 1 .. N] /\ hi \in [D -> 1 .. N]
    BY DEF Stands, Shape, Places
  <2> QED BY <2>1, <1>1, <1>2 DEF TurnedBack
<1>6. Unsettled(D, g, pos, lo2, hi2, h[n].parent)
  <2>1. PICK R : R = {n, c}
    OBVIOUS
  <2>2. /\ \A m \in R : Exact(g, m)
        /\ \A m \in D \ R : m # h[n].parent /\ Exact(h, m) => Exact(g, m)
    BY <2>1, <1>4 DEF Swung
  <2>3. n \in R /\ \A m \in D \ R : lo2[m] = lo[m] /\ hi2[m] = hi[m]
    BY <2>1, <1>5
  <2>4. Rearranged(D, R, h[n].parent, h, lo, hi, g, lo2, hi2)
    BY <2>2, <2>3 DEF Rearranged
  <2> QED BY <2>3, <2>4, UnsettledClimbs
<1> QED BY <1>1, <1>3, <1>4, <1>5, <1>6 DEF TurnDone, Swung

\* The inner grandchild on the left goes up twice.
LEMMA DoubleLeftTurn ==
  ASSUME NEW D, NEW E, NEW h, NEW N, NEW pos, NEW lo, NEW hi, Stands(D, E, h, N, pos, lo, hi),
         NEW n \in D, Unsettled(D, h, pos, lo, hi, n),
         NEW b \in D, b = h[n].left, h[b].right # Null,
         NEW s, s = RotateCounterclockwise(h, b),
         NEW t, t = RotateClockwise([s.heap EXCEPT ![n].left = s.top], n)
  PROVE  \E lo2, hi2 : TurnDone(D, E, h, N, pos, lo, hi, n, t, lo2, hi2)
<1>0. Null \notin D /\ D \subseteq E
  BY StandsFacts DEF Stands
<1>1. /\ b # n /\ b # h[n].parent /\ h[b].parent = n /\ lo[b] = lo[n]
      /\ hi[b] = pos[n] - 1 /\ h[n].parent # n
  BY <1>0, StandsFacts
<1>2. PICK c \in D : c = h[b].right /\ c # b /\ c # n /\ hi[c] = hi[b]
  BY <1>0, <1>1, StandsFacts
<1>3. PICK lo1, hi1 : TurnedBack(D, pos, lo, hi, b, c, lo1, hi1)
  BY DEF TurnedBack
<1>4. PICK h1 : h1 = s.heap
  OBVIOUS
<1>5. s.top = c /\ Swung(D, E, h, N, pos, lo1, hi1, b, c, h1)
  BY <1>2, <1>3, <1>4, CounterclockwiseStands
<1>6. /\ Stands(D, E, h1, N, pos, lo1, hi1)
      /\ h1[n].left = c /\ h1[n].parent = h[n].parent
      /\ \A m \in E : h1[m].data = h[m].data
      /\ Exact(h1, b) /\ Exact(h1, c)
      /\ \A m \in D \ {b, c} : m # n /\ Exact(h, m) => Exact(h1, m)
  BY <1>1, <1>5 DEF Swung
<1>7. [h1 EXCEPT ![n].left = c] = h1
  <2>1. h1 \in [E -> Node] /\ n \in E
    BY <1>0, <1>6 DEF Stands
  <2>2. [h1[n] EXCEPT !.left = c] = h1[n]
    BY <2>1, <1>6 DEF Node
  <2> QED BY <2>1, <2>2
<1>8. t = RotateClockwise(h1, n)
  BY <1>4, <1>5, <1>7
<1>9. PICK lo2, hi2 : Turned(D, pos, lo1, hi1, n, c, lo2, hi2)
  BY DEF Turned
<1>10. PICK g : g = t.heap
  OBVIOUS
<1>11. t.top = c /\ Swung(D, E, h1, N, pos, lo2, hi2, n, c, g)
  <2>1. h1[n].left # Null
    BY <1>0, <1>6
  <2> QED BY <2>1, <1>6, <1>8, <1>9, <1>10, ClockwiseStands
<1>12. /\ lo2[c] = lo[n] /\ hi2[c] = hi[n]
       /\ \A m \in D \ {n, b, c} : lo2[m] = lo[m] /\ hi2[m] = hi[m]
  <2>1. lo \in [D -> 1 .. N] /\ hi \in [D -> 1 .. N]
    BY DEF Stands, Shape, Places
  <2>2. lo1 \in [D -> 1 .. N] /\ hi1 \in [D -> 1 .. N]
    BY <1>6 DEF Stands, Shape, Places
  <2> QED BY <2>1, <2>2, <1>1, <1>2, <1>3, <1>9 DEF Turned, TurnedBack
<1>13. Unsettled(D, g, pos, lo2, hi2, h[n].parent)
  <2>1. PICK R : R = {n, b, c}
    OBVIOUS
  <2>2. /\ Exact(g, n) /\ Exact(g, c)
        /\ \A m \in D \ {n, c} : m # h[n].parent /\ Exact(h1, m) => Exact(g, m)
    BY <1>6, <1>11 DEF Swung
  <2>3. Exact(g, b)
    BY <2>2, <1>1, <1>2, <1>6
  <2>4. \A m \in R : Exact(g, m)
    BY <2>1, <2>2, <2>3
  <2>5. \A m \in D \ R : m # h[n].parent /\ Exact(h, m) => Exact(g, m)
    BY <2>1, <2>2, <1>6
  <2>6. n \in R /\ \A m \in D \ R : lo2[m] = lo[m] /\ hi2[m] = hi[m]
    BY <2>1, <1>12
  <2>7. Rearranged(D, R, h[n].parent, h, lo, hi, g, lo2, hi2)
    BY <2>4, <2>5, <2>6 DEF Rearranged
  <2> QED BY <2>6, <2>7, UnsettledClimbs
<1>14. \A m \in E : g[m].data = h[m].data
  BY <1>6, <1>11 DEF Swung
<1>15. Stands(D, E, g, N, pos, lo2, hi2) /\ g[c].parent = h[n].parent
  BY <1>6, <1>11 DEF Swung
<1> QED BY <1>10, <1>11, <1>12, <1>13, <1>14, <1>15 DEF TurnDone

\* The inner grandchild on the right goes up twice.
LEMMA DoubleRightTurn ==
  ASSUME NEW D, NEW E, NEW h, NEW N, NEW pos, NEW lo, NEW hi, Stands(D, E, h, N, pos, lo, hi),
         NEW n \in D, Unsettled(D, h, pos, lo, hi, n),
         NEW b \in D, b = h[n].right, h[b].left # Null,
         NEW s, s = RotateClockwise(h, b),
         NEW t, t = RotateCounterclockwise([s.heap EXCEPT ![n].right = s.top], n)
  PROVE  \E lo2, hi2 : TurnDone(D, E, h, N, pos, lo, hi, n, t, lo2, hi2)
<1>0. Null \notin D /\ D \subseteq E
  BY StandsFacts DEF Stands
<1>1. /\ b # n /\ b # h[n].parent /\ h[b].parent = n /\ hi[b] = hi[n]
      /\ lo[b] = pos[n] + 1 /\ h[n].parent # n
  BY <1>0, StandsFacts
<1>2. PICK c \in D : c = h[b].left /\ c # b /\ c # n /\ lo[c] = lo[b]
  BY <1>0, <1>1, StandsFacts
<1>3. PICK lo1, hi1 : Turned(D, pos, lo, hi, b, c, lo1, hi1)
  BY DEF Turned
<1>4. PICK h1 : h1 = s.heap
  OBVIOUS
<1>5. s.top = c /\ Swung(D, E, h, N, pos, lo1, hi1, b, c, h1)
  BY <1>2, <1>3, <1>4, ClockwiseStands
<1>6. /\ Stands(D, E, h1, N, pos, lo1, hi1)
      /\ h1[n].right = c /\ h1[n].parent = h[n].parent
      /\ \A m \in E : h1[m].data = h[m].data
      /\ Exact(h1, b) /\ Exact(h1, c)
      /\ \A m \in D \ {b, c} : m # n /\ Exact(h, m) => Exact(h1, m)
  BY <1>1, <1>5 DEF Swung
<1>7. [h1 EXCEPT ![n].right = c] = h1
  <2>1. h1 \in [E -> Node] /\ n \in E
    BY <1>0, <1>6 DEF Stands
  <2>2. [h1[n] EXCEPT !.right = c] = h1[n]
    BY <2>1, <1>6 DEF Node
  <2> QED BY <2>1, <2>2
<1>8. t = RotateCounterclockwise(h1, n)
  BY <1>4, <1>5, <1>7
<1>9. PICK lo2, hi2 : TurnedBack(D, pos, lo1, hi1, n, c, lo2, hi2)
  BY DEF TurnedBack
<1>10. PICK g : g = t.heap
  OBVIOUS
<1>11. t.top = c /\ Swung(D, E, h1, N, pos, lo2, hi2, n, c, g)
  <2>1. h1[n].right # Null
    BY <1>0, <1>6
  <2> QED BY <2>1, <1>6, <1>8, <1>9, <1>10, CounterclockwiseStands
<1>12. /\ lo2[c] = lo[n] /\ hi2[c] = hi[n]
       /\ \A m \in D \ {n, b, c} : lo2[m] = lo[m] /\ hi2[m] = hi[m]
  <2>1. lo \in [D -> 1 .. N] /\ hi \in [D -> 1 .. N]
    BY DEF Stands, Shape, Places
  <2>2. lo1 \in [D -> 1 .. N] /\ hi1 \in [D -> 1 .. N]
    BY <1>6 DEF Stands, Shape, Places
  <2> QED BY <2>1, <2>2, <1>1, <1>2, <1>3, <1>9 DEF Turned, TurnedBack
<1>13. Unsettled(D, g, pos, lo2, hi2, h[n].parent)
  <2>1. PICK R : R = {n, b, c}
    OBVIOUS
  <2>2. /\ Exact(g, n) /\ Exact(g, c)
        /\ \A m \in D \ {n, c} : m # h[n].parent /\ Exact(h1, m) => Exact(g, m)
    BY <1>6, <1>11 DEF Swung
  <2>3. Exact(g, b)
    BY <2>2, <1>1, <1>2, <1>6
  <2>4. \A m \in R : Exact(g, m)
    BY <2>1, <2>2, <2>3
  <2>5. \A m \in D \ R : m # h[n].parent /\ Exact(h, m) => Exact(g, m)
    BY <2>1, <2>2, <1>6
  <2>6. n \in R /\ \A m \in D \ R : lo2[m] = lo[m] /\ hi2[m] = hi[m]
    BY <2>1, <1>12
  <2>7. Rearranged(D, R, h[n].parent, h, lo, hi, g, lo2, hi2)
    BY <2>4, <2>5, <2>6 DEF Rearranged
  <2> QED BY <2>6, <2>7, UnsettledClimbs
<1>14. \A m \in E : g[m].data = h[m].data
  BY <1>6, <1>11 DEF Swung
<1>15. Stands(D, E, g, N, pos, lo2, hi2) /\ g[c].parent = h[n].parent
  BY <1>6, <1>11 DEF Swung
<1> QED BY <1>10, <1>11, <1>12, <1>13, <1>14, <1>15 DEF TurnDone

\* Whichever case applies.
LEMMA BalanceTurn ==
  ASSUME NEW D, NEW E, NEW h, NEW N, NEW pos, NEW lo, NEW hi, Stands(D, E, h, N, pos, lo, hi),
         NEW n \in D, Unsettled(D, h, pos, lo, hi, n), NEW t, t = Balance(h, n)
  PROVE  \E lo2, hi2 : TurnDone(D, E, h, N, pos, lo, hi, n, t, lo2, hi2)
<1>0. Null \notin D
  BY StandsFacts DEF Stands
<1> DEFINE b == h[n].left
           d == h[n].right
           left == HeightOf(h, b)
           right == HeightOf(h, d)
<1>1. /\ b \in D \cup {Null} /\ d \in D \cup {Null}
      /\ b # Null => b # n /\ h[b].parent = n
      /\ d # Null => d # n /\ h[d].parent = n
  BY StandsFacts
<1>2. \A x \in D \cup {Null} : HeightOf(h, x) \in Int /\ HeightOf(h, x) >= -1
                               /\ (HeightOf(h, x) >= 0 => x # Null)
  BY <1>0, StandsFacts DEF HeightOf
<1>3. left \in Int /\ right \in Int /\ left >= -1 /\ right >= -1
  BY <1>1, <1>2
<1>4. CASE left > right + 1
  <2>1. b \in D /\ b # Null
    BY <1>0, <1>1, <1>2, <1>3, <1>4
  <2>2. CASE HeightOf(h, h[b].left) > HeightOf(h, h[b].right)
    <3>1. Balance(h, n) = RotateClockwise(h, n)
      BY <1>3, <1>4, <2>2 DEF Balance
    <3> QED BY <3>1, <2>1, ClockwiseTurn
  <2>3. CASE ~(HeightOf(h, h[b].left) > HeightOf(h, h[b].right))
    <3>1. PICK s : s = RotateCounterclockwise(h, b)
      OBVIOUS
    <3>2. Balance(h, n) = RotateClockwise([s.heap EXCEPT ![n].left = s.top], n)
      BY <1>3, <1>4, <2>3, <3>1 DEF Balance
    <3>3. h[b].right # Null
      <4>1. Exact(h, b)
        <5>1. ~Covers(pos, lo, hi, b, n)
          <6>1. hi[b] = pos[n] - 1 /\ pos[n] \in Int
            BY <2>1, StandsFacts
          <6> QED BY <6>1 DEF Covers
        <5> QED BY <5>1, <2>1, <1>0 DEF Unsettled
      <4>2. h[b].left \in D \cup {Null} /\ h[b].right \in D \cup {Null}
        BY <2>1, StandsFacts
      <4>3. /\ HeightOf(h, h[b].left) \in Int /\ HeightOf(h, h[b].right) \in Int
            /\ HeightOf(h, h[b].left) <= HeightOf(h, h[b].right)
        BY <2>3, <4>2, <1>2
      <4>4. left = HeightOf(h, h[b].right) + 1
        <5>1. left = h[b].height
          BY <2>1 DEF HeightOf
        <5>2. h[b].height = HeightFrom(h, b)
          BY <4>1 DEF Exact
        <5>3. HeightFrom(h, b) = HeightOf(h, h[b].right) + 1
          BY <4>3 DEF HeightFrom
        <5> QED BY <5>1, <5>2, <5>3
      <4>5. HeightOf(h, h[b].right) >= 0
        BY <4>3, <4>4, <1>3, <1>4
      <4> QED BY <4>2, <4>5, <1>2
    <3> QED BY <3>1, <3>2, <3>3, <2>1, DoubleLeftTurn
  <2> QED BY <2>2, <2>3
<1>5. CASE right > left + 1
  <2>1. d \in D /\ d # Null
    BY <1>0, <1>1, <1>2, <1>3, <1>5
  <2>2. CASE HeightOf(h, h[d].left) <= HeightOf(h, h[d].right)
    <3>1. Balance(h, n) = RotateCounterclockwise(h, n)
      BY <1>3, <1>5, <2>2 DEF Balance
    <3> QED BY <3>1, <2>1, CounterclockwiseTurn
  <2>3. CASE ~(HeightOf(h, h[d].left) <= HeightOf(h, h[d].right))
    <3>1. PICK s : s = RotateClockwise(h, d)
      OBVIOUS
    <3>2. Balance(h, n) = RotateCounterclockwise([s.heap EXCEPT ![n].right = s.top], n)
      BY <1>3, <1>5, <2>3, <3>1 DEF Balance
    <3>3. h[d].left # Null
      <4>1. h[d].left \in D \cup {Null} /\ h[d].right \in D \cup {Null}
        BY <2>1, StandsFacts
      <4>2. /\ HeightOf(h, h[d].left) \in Int /\ HeightOf(h, h[d].right) \in Int
            /\ HeightOf(h, h[d].right) >= -1
        BY <4>1, <1>2
      <4>3. HeightOf(h, h[d].left) >= 0
        BY <4>2, <2>3
      <4> QED BY <4>1, <4>3, <1>2
    <3> QED BY <3>1, <3>2, <3>3, <2>1, DoubleRightTurn
  <2> QED BY <2>2, <2>3
<1>6. CASE ~(left > right + 1) /\ ~(right > left + 1)
  <2>1. Balance(h, n) = [top |-> n, heap |-> UpdateHeight(h, n)]
    BY <1>6 DEF Balance
  <2> QED BY <2>1, UpdateStands
<1> QED BY <1>4, <1>5, <1>6

-----------------------------------------------------------------------------
(* Loops that follow pointers                                              *)

\* There are as many nodes as places.
LEMMA StandsCount ==
  ASSUME NEW D, NEW E, NEW h, NEW N, NEW pos, NEW lo, NEW hi, Stands(D, E, h, N, pos, lo, hi)
  PROVE  /\ IsFiniteSet(E) /\ IsFiniteSet(D) /\ Cardinality(D) = N
         /\ Cardinality(E) \in Nat /\ N <= Cardinality(E)
<1>1. IsFiniteSet(E) /\ IsFiniteSet(D)
  BY AvlAssumption, FS_Subset DEF Stands
<1>2. /\ N \in Nat /\ pos \in [D -> 1 .. N] /\ \A k \in 1 .. N : \E n \in D : pos[n] = k
      /\ \A a, b \in D : pos[a] = pos[b] => a = b
  <2>1. PICK l, r, u : Shape(D, l, r, u, N, pos, lo, hi)
    BY DEF Stands
  <2>2. N \in Nat /\ pos \in [D -> 1 .. N] /\ \A k \in 1 .. N : \E n \in D : pos[n] = k
    BY <2>1 DEF Shape, Places
  <2>3. \A a, b \in D : pos[a] = pos[b] => a = b
    BY StandsFacts
  <2> QED BY <2>2, <2>3
<1>3. ExistsBijection(D, 1 .. N)
  <2>1. pos \in Bijection(D, 1 .. N)
    BY <1>2 DEF Bijection, Injection, Surjection, IsInjective
  <2> QED BY <2>1 DEF ExistsBijection
<1>4. Cardinality(1 .. N) = N
  BY <1>2, FS_Interval
<1>5. Cardinality(D) = N
  BY <1>1, <1>3, <1>4, FS_Bijection
<1>6. D \in SUBSET E
  BY DEF Stands
<1> QED BY <1>1, <1>5, <1>6, FS_Subset, FS_CardinalityType

\* What a loop goes through that takes the same step K times.
Iterates(v, K, T, base, next) ==
  v \in [0 .. K -> T] /\ v[0] = base /\ \A k \in 1 .. K : v[k] = next[v[k - 1]]

\* There is such a way.
LEMMA IterateExists ==
  ASSUME NEW K \in Nat, NEW T, NEW base \in T, NEW next \in [T -> T]
  PROVE  \E v : Iterates(v, K, T, base, next)
<1>1. PICK step : step = [q \in T \X (1 .. K) |-> next[q[1]]]
  OBVIOUS
<1>2. step \in [T \X (1 .. K) -> T] /\ \A x \in T, k \in 1 .. K : step[<<x, k>>] = next[x]
  BY <1>1
<1>3. PICK v : IsSeries(v, K, T, base, step)
  BY <1>2, SeriesExists
<1>4. v \in [0 .. K -> T] /\ v[0] = base /\ \A k \in 1 .. K : v[k] = step[<<v[k - 1], k>>]
  BY <1>3 DEF IsSeries
<1>5. ASSUME NEW k \in 1 .. K PROVE v[k] = next[v[k - 1]]
  <2>1. v[k - 1] \in T
    BY <1>4
  <2> QED BY <2>1, <1>2, <1>4
<1> QED BY <1>4, <1>5 DEF Iterates

\* A state of the loop in update_height_and_rebalance, started with heap h.
Climbing(D, E, h, N, pos, lo, hi, t) ==
  /\ t \in [at : D \cup {Null}, top : D, heap : [E -> Node]]
  /\ Stands(D, E, t.heap, N, pos, lo, hi)
  /\ Unsettled(D, t.heap, pos, lo, hi, t.at)
  /\ t.at = Null => t.heap[t.top].parent = Null
  /\ \A m \in E : t.heap[m].data = h[m].data

\* One turn of the loop, which stands still when it is past the root.
Step(t) == IF t.at = Null THEN t ELSE Climb(t)

\* A turn goes on from one to another one, with a larger tree below it.
LEMMA ClimbStep ==
  ASSUME NEW D, NEW E, NEW h, NEW N, NEW pos, NEW lo, NEW hi, NEW t,
         Climbing(D, E, h, N, pos, lo, hi, t), NEW t2, t2 = Step(t)
  PROVE  \E lo2, hi2 : /\ Climbing(D, E, h, N, pos, lo2, hi2, t2)
                       /\ t2.at # Null =>
                            t.at # Null /\ hi2[t2.at] - lo2[t2.at] >= hi[t.at] - lo[t.at] + 1
<1>1. CASE t.at = Null
  BY <1>1 DEF Step
<1>2. CASE t.at # Null
  <2>1. PICK n \in D : n = t.at
    BY <1>2 DEF Climbing
  <2>2. PICK g : g = t.heap
    OBVIOUS
  <2>3. PICK s : s = Balance(g, n)
    OBVIOUS
  <2>4. Stands(D, E, g, N, pos, lo, hi) /\ Unsettled(D, g, pos, lo, hi, n)
    BY <2>1, <2>2 DEF Climbing
  <2>5. PICK lo2, hi2 : TurnDone(D, E, g, N, pos, lo, hi, n, s, lo2, hi2)
    BY <2>3, <2>4, BalanceTurn
  <2>6. t2 = [at |-> s.heap[s.top].parent, top |-> s.top, heap |-> s.heap]
    BY <1>2, <2>1, <2>2, <2>3 DEF Step, Climb
  <2>7a. PICK c, f : c = s.top /\ f = s.heap
    OBVIOUS
  <2>7b. PICK p : p = f[c].parent
    OBVIOUS
  <2>7. c \in D /\ c = s.top /\ f = s.heap /\ p = f[c].parent
    BY <2>5, <2>7a, <2>7b DEF TurnDone
  <2>8. t2.at = p /\ t2.top = c /\ t2.heap = f
    BY <2>6, <2>7
  <2>9. /\ Stands(D, E, f, N, pos, lo2, hi2) /\ p = g[n].parent
        /\ \A m \in E : f[m].data = g[m].data
        /\ lo2[c] = lo[n] /\ hi2[c] = hi[n]
        /\ Unsettled(D, f, pos, lo2, hi2, p)
    BY <2>5, <2>7 DEF TurnDone
  <2>10. p \in D \cup {Null} /\ f \in [E -> Node]
    <3>0. c \in D /\ Stands(D, E, f, N, pos, lo2, hi2)
      BY <2>7, <2>9
    <3>0a. f[c].parent \in D \cup {Null}
      BY <3>0, StandsFacts
    <3>1. p \in D \cup {Null}
      BY <3>0a, <2>7
    <3>2. f \in [E -> Node]
      BY <2>9 DEF Stands
    <3> QED BY <3>1, <3>2
  <2>11. Climbing(D, E, h, N, pos, lo2, hi2, t2)
    <3>1. t2 \in [at : D \cup {Null}, top : D, heap : [E -> Node]]
      BY <2>6, <2>7, <2>10
    <3>2. \A m \in E : f[m].data = h[m].data
      BY <2>2, <2>9 DEF Climbing
    <3> QED BY <2>7, <2>8, <2>9, <3>1, <3>2 DEF Climbing
  <2>12. ASSUME p # Null PROVE hi2[p] - lo2[p] >= hi[n] - lo[n] + 1
    <3>0. /\ c \in D /\ f[c].parent = p /\ p # Null /\ Stands(D, E, f, N, pos, lo2, hi2)
      BY <2>7, <2>9, <2>12
    <3>1. p \in D /\ hi2[c] - lo2[c] < hi2[p] - lo2[p]
      <4>1. hi2[c] - lo2[c] < hi2[f[c].parent] - lo2[f[c].parent]
        BY <3>0, StandsFacts
      <4> QED BY <2>10, <3>0, <4>1
    <3>2. /\ hi2[p] \in Int /\ lo2[p] \in Int /\ hi2[c] \in Int /\ lo2[c] \in Int
      BY <3>0, <3>1, StandsFacts
    <3> QED BY <2>9, <3>1, <3>2
  <2> QED BY <1>2, <2>1, <2>8, <2>11, <2>12
<1> QED BY <1>1, <1>2

\* The function that Rebalance defines: where the loop is after each turn.
Turns(h, n, K) ==
  CHOOSE w : w = [k \in 0 .. K |-> IF k = 0 THEN [at |-> n, top |-> n, heap |-> h]
                                   ELSE Step(w[k - 1])]

\* It is what its definition says, and the loop starts at n.
LEMMA TurnsAre ==
  ASSUME NEW D, NEW E, NEW h, NEW N, NEW pos, NEW lo, NEW hi, Stands(D, E, h, N, pos, lo, hi),
         NEW n \in D, Unsettled(D, h, pos, lo, hi, n), NEW K \in Nat, NEW w, w = Turns(h, n, K)
  PROVE  /\ w[0] = [at |-> n, top |-> n, heap |-> h]
         /\ Climbing(D, E, h, N, pos, lo, hi, w[0])
         /\ \A k \in 1 .. K : w[k] = Step(w[k - 1])
<1> DEFINE Is(x) == x = [k \in 0 .. K |-> IF k = 0 THEN [at |-> n, top |-> n, heap |-> h]
                                          ELSE Step(x[k - 1])]
<1>1. PICK base : base = [at |-> n, top |-> n, heap |-> h]
  OBVIOUS
<1>2. Climbing(D, E, h, N, pos, lo, hi, base)
  <2>1. h \in [E -> Node] /\ n # Null
    BY StandsFacts DEF Stands
  <2> QED BY <2>1, <1>1 DEF Climbing
<1>3. PICK T : T = {t \in [at : D \cup {Null}, top : D, heap : [E -> Node]] :
                      \E lo2, hi2 : Climbing(D, E, h, N, pos, lo2, hi2, t)}
  OBVIOUS
<1>4. base \in T
  BY <1>2, <1>3 DEF Climbing
<1>5. ASSUME NEW t \in T PROVE Step(t) \in T
  <2>1. PICK lo1, hi1 : Climbing(D, E, h, N, pos, lo1, hi1, t)
    BY <1>3
  <2>2. PICK t2 : t2 = Step(t)
    OBVIOUS
  <2>3. PICK lo2, hi2 : Climbing(D, E, h, N, pos, lo2, hi2, t2)
    BY <2>1, <2>2, ClimbStep
  <2>4. t2 \in [at : D \cup {Null}, top : D, heap : [E -> Node]]
    BY <2>3 DEF Climbing
  <2> QED BY <1>3, <2>2, <2>3, <2>4
<1>6. PICK next : next = [t \in T |-> Step(t)]
  OBVIOUS
<1>7. next \in [T -> T] /\ \A t \in T : next[t] = Step(t)
  BY <1>5, <1>6
<1>7a. next \in [T -> T]
  BY <1>7
<1>7b. PICK v : Iterates(v, K, T, base, next)
  BY <1>4, <1>7a, IterateExists
<1>8. v \in [0 .. K -> T] /\ v[0] = base /\ \A k \in 1 .. K : v[k] = next[v[k - 1]]
  BY <1>7b DEF Iterates
<1>9. Is(v)
  <2>1. ASSUME NEW k \in 0 .. K PROVE v[k] = IF k = 0 THEN base ELSE Step(v[k - 1])
    <3>1. k # 0 => k \in 1 .. K /\ k - 1 \in 0 .. K
      OBVIOUS
    <3>2. k # 0 => v[k - 1] \in T
      BY <1>8, <3>1
    <3> QED BY <3>1, <3>2, <1>7, <1>8
  <2>2. v = [k \in 0 .. K |-> v[k]]
    BY <1>8
  <2>3. v = [k \in 0 .. K |-> IF k = 0 THEN base ELSE Step(v[k - 1])]
    BY <2>1, <2>2
  <2> QED BY <2>3, <1>1
<1>10. Is(w)
  <2>1. w = CHOOSE x : Is(x)
    BY DEF Turns
  <2> HIDE DEF Is
  <2> QED BY <1>9, <2>1
<1>11. w = [k \in 0 .. K |-> IF k = 0 THEN base ELSE Step(w[k - 1])]
  BY <1>1, <1>10
<1>12. w[0] = base
  BY <1>11
<1>13. ASSUME NEW k \in 1 .. K PROVE w[k] = Step(w[k - 1])
  <2>1. k \in 0 .. K /\ k # 0
    OBVIOUS
  <2> QED BY <1>11, <2>1
<1> QED BY <1>1, <1>2, <1>12, <1>13

\* update_height_and_rebalance ends above the root.
LEMMA RebalanceEnds ==
  ASSUME NEW D, NEW E, NEW h, NEW N, NEW pos, NEW lo, NEW hi, Stands(D, E, h, N, pos, lo, hi),
         NEW n \in D, Unsettled(D, h, pos, lo, hi, n), NEW t, t = Rebalance(h, n),
         NEW K, K = Cardinality(E), NEW w, w = Turns(h, n, K)
  PROVE  \E lo2, hi2 : /\ Climbing(D, E, h, N, pos, lo2, hi2, w[K]) /\ w[K].at = Null
                       /\ t = [top |-> w[K].top, heap |-> w[K].heap]
<1>2. K \in Nat /\ N <= K /\ N \in Nat
  BY StandsCount, StandsFacts
<1>4. /\ w[0] = [at |-> n, top |-> n, heap |-> h]
      /\ Climbing(D, E, h, N, pos, lo, hi, w[0])
      /\ \A k \in 1 .. K : w[k] = Step(w[k - 1])
  BY <1>2, TurnsAre
<1> DEFINE S == {k \in 0 .. K : \E lo2, hi2 :
                   /\ Climbing(D, E, h, N, pos, lo2, hi2, w[k])
                   /\ w[k].at # Null => hi2[w[k].at] - lo2[w[k].at] >= k}
<1>5. 0 \in S
  <2>1. w[0].at = n
    BY <1>4
  <2>2. hi[n] - lo[n] >= 0
    <3>1. hi[n] \in Int /\ lo[n] \in Int /\ pos[n] \in Int /\ lo[n] <= pos[n] /\ pos[n] <= hi[n]
      BY StandsFacts
    <3> QED BY <3>1
  <2> QED BY <2>1, <2>2, <1>2, <1>4
<1>6. ASSUME NEW k \in 0 .. K - 1, k \in S PROVE k + 1 \in S
  <2>1. k + 1 \in 1 .. K /\ (k + 1) - 1 = k /\ k \in Int
    BY <1>2
  <2>2. PICK t1 : t1 = w[k]
    OBVIOUS
  <2>3. PICK lo1, hi1 : /\ Climbing(D, E, h, N, pos, lo1, hi1, t1)
                        /\ t1.at # Null => hi1[t1.at] - lo1[t1.at] >= k
    BY <1>6, <2>2
  <2>4. PICK t2 : t2 = w[k + 1]
    OBVIOUS
  <2>5. t2 = Step(t1)
    BY <1>4, <2>1, <2>2, <2>4
  <2>6. PICK lo2, hi2 : /\ Climbing(D, E, h, N, pos, lo2, hi2, t2)
                        /\ t2.at # Null =>
                             t1.at # Null /\ hi2[t2.at] - lo2[t2.at] >= hi1[t1.at] - lo1[t1.at] + 1
    BY <2>3, <2>5, ClimbStep
  <2>7. ASSUME t2.at # Null PROVE hi2[t2.at] - lo2[t2.at] >= k + 1
    <3>1. PICK a, b : a = t1.at /\ b = t2.at
      OBVIOUS
    <3>2. /\ a # Null /\ hi2[b] - lo2[b] >= hi1[a] - lo1[a] + 1 /\ hi1[a] - lo1[a] >= k
      BY <2>3, <2>6, <2>7, <3>1
    <3>3. a \in D /\ b \in D
      BY <2>3, <2>6, <2>7, <3>1, <3>2 DEF Climbing
    <3>4. /\ Stands(D, E, t1.heap, N, pos, lo1, hi1) /\ Stands(D, E, t2.heap, N, pos, lo2, hi2)
      BY <2>3, <2>6 DEF Climbing
    <3>5. hi1[a] \in Int /\ lo1[a] \in Int
      BY <3>3, <3>4, StandsFacts
    <3>6. hi2[b] \in Int /\ lo2[b] \in Int
      BY <3>3, <3>4, StandsFacts
    <3> QED BY <2>1, <3>1, <3>2, <3>5, <3>6
  <2>8. k + 1 \in 0 .. K
    BY <2>1, <1>2
  <2> QED BY <2>4, <2>6, <2>7, <2>8
<1>7. K \in S
  <2>1. K \in 0 .. K
    BY <1>2
  <2> HIDE DEF S
  <2> QED BY <2>1, <1>2, <1>5, <1>6, IntervalInduction
<1>8. PICK d : d = w[K]
  OBVIOUS
<1>9. PICK lo2, hi2 : /\ Climbing(D, E, h, N, pos, lo2, hi2, d)
                      /\ d.at # Null => hi2[d.at] - lo2[d.at] >= K
  BY <1>7, <1>8
<1>10. d.at = Null
  <2> SUFFICES ASSUME d.at # Null PROVE FALSE
    OBVIOUS
  <2>1. PICK a : a = d.at
    OBVIOUS
  <2>2. a \in D /\ hi2[a] - lo2[a] >= K /\ Stands(D, E, d.heap, N, pos, lo2, hi2)
    BY <1>9, <2>1 DEF Climbing
  <2>3. hi2[a] \in 1 .. N /\ lo2[a] \in 1 .. N
    BY <2>2, StandsFacts
  <2> QED BY <2>2, <2>3, <1>2
<1>11. PICK g, c : g = d.heap /\ c = d.top
  OBVIOUS
<1>12. c \in E /\ g \in [E -> Node] /\ g[c].parent = Null
  BY <1>9, <1>10, <1>11 DEF Climbing, Stands
<1>13. t = [top |-> c, heap |-> g]
  <2>1. DOMAIN h = E
    BY DEF Stands
  <2>2. t = [top |-> d.top, heap |-> [d.heap EXCEPT ![d.top].parent = Null]]
    BY <2>1, <1>8 DEF Rebalance, Turns, Step
  <2>3. [g EXCEPT ![c].parent = Null] = g
    <3>1. [g[c] EXCEPT !.parent = Null] = g[c]
      BY <1>12 DEF Node
    <3> QED BY <3>1, <1>12
  <2> QED BY <2>2, <2>3, <1>11
<1> QED BY <1>8, <1>9, <1>10, <1>11, <1>13

\* Then every height is right.
LEMMA RebalanceStands ==
  ASSUME NEW D, NEW E, NEW h, NEW N, NEW pos, NEW lo, NEW hi, Stands(D, E, h, N, pos, lo, hi),
         NEW n \in D, Unsettled(D, h, pos, lo, hi, n), NEW t, t = Rebalance(h, n)
  PROVE  \E lo2, hi2 : /\ Stands(D, E, t.heap, N, pos, lo2, hi2)
                       /\ t.top \in D /\ t.heap[t.top].parent = Null
                       /\ \A m \in D : Exact(t.heap, m)
                       /\ \A m \in E : t.heap[m].data = h[m].data
<1>1. PICK K, w : K = Cardinality(E) /\ w = Turns(h, n, K)
  OBVIOUS
<1>2. PICK d : d = w[K]
  OBVIOUS
<1>3. PICK lo2, hi2 : /\ Climbing(D, E, h, N, pos, lo2, hi2, d) /\ d.at = Null
                      /\ t = [top |-> d.top, heap |-> d.heap]
  BY <1>1, <1>2, RebalanceEnds
<1>4. t.top = d.top /\ t.heap = d.heap
  BY <1>3
<1>5. \A m \in D : Exact(d.heap, m)
  BY <1>3 DEF Climbing, Unsettled
<1> QED BY <1>3, <1>4, <1>5 DEF Climbing

-----------------------------------------------------------------------------
(* Heights of neighbours                                                   *)

\* The heights of a node's subtrees differ by 1 at most.
Level(h, m) == HeightOf(h, h[m].left) - HeightOf(h, h[m].right) \in -1 .. 1

\* And its own height is exact.
Even(h, m) == Exact(h, m) /\ Level(h, m)

\* A node has the same height in two heaps, and so have those below it.
Alike(h, g, m) ==
  /\ g[m].height = h[m].height
  /\ HeightOf(g, g[m].left) = HeightOf(h, h[m].left)
  /\ HeightOf(g, g[m].right) = HeightOf(h, h[m].right)

\* Then it is even in both.
LEMMA AlikeEven ==
  ASSUME NEW h, NEW g, NEW m, Alike(h, g, m), Even(h, m)
  PROVE  Even(g, m)
<1>1. Exact(g, m)
  BY DEF Alike, Even, Exact, HeightFrom
<1>2. Level(g, m)
  BY DEF Alike, Even, Level
<1> QED BY <1>1, <1>2 DEF Even

\* Heights are numbers, those of nodes from 0 on.
LEMMA HeightInt ==
  ASSUME NEW D, NEW E, NEW h, NEW N, NEW pos, NEW lo, NEW hi, Stands(D, E, h, N, pos, lo, hi)
  PROVE  \A x \in D \cup {Null} : /\ HeightOf(h, x) \in Int /\ HeightOf(h, x) >= -1
                                  /\ (HeightOf(h, x) >= 0 => x # Null)
<1>1. Null \notin D
  BY StandsFacts DEF Stands
<1> QED BY <1>1, StandsFacts DEF HeightOf

(***************************************************************************)
(* What a rotation clockwise at n makes of the heights: if t gets the one  *)
(* that n had, nothing changes for any other node.                         *)
(***************************************************************************)
Tilted(D, h, n, t, g) ==
  /\ HeightOf(g, g[n].left) = HeightOf(h, h[t].right)
  /\ HeightOf(g, g[n].right) = HeightOf(h, h[n].right)
  /\ HeightOf(g, g[t].left) = HeightOf(h, h[t].left)
  /\ g[t].right = n
  /\ Exact(g, n) /\ Exact(g, t)
  /\ g[t].height = h[n].height => \A m \in D \ {n, t} : Alike(h, g, m)

\* The same of one counterclockwise.
TiltedBack(D, h, n, t, g) ==
  /\ HeightOf(g, g[n].right) = HeightOf(h, h[t].left)
  /\ HeightOf(g, g[n].left) = HeightOf(h, h[n].left)
  /\ HeightOf(g, g[t].right) = HeightOf(h, h[t].right)
  /\ g[t].left = n
  /\ Exact(g, n) /\ Exact(g, t)
  /\ g[t].height = h[n].height => \A m \in D \ {n, t} : Alike(h, g, m)

\* rotate_clockwise does that.
LEMMA ClockwiseTilts ==
  ASSUME NEW D, NEW h, NEW N, NEW pos, NEW lo, NEW hi, Stands(D, D, h, N, pos, lo, hi),
         NEW n \in D, h[n].left # Null, NEW t, t = h[n].left, NEW g, g = RotateClockwise(h, n).heap
  PROVE  RotateClockwise(h, n).top = t /\ Tilted(D, h, n, t, g)
<1>0. Null \notin D
  BY StandsFacts
<1>1. /\ t \in D /\ t # n /\ t # h[n].parent /\ h[n].parent # n /\ h[t].parent = n
      /\ h[n].right \in D \cup {Null} /\ h[n].right # n /\ h[n].right # t
      /\ h[t].left \in D \cup {Null} /\ h[t].left # t /\ (h[t].left # Null => h[t].left # n)
      /\ h[t].right \in D \cup {Null} /\ h[t].right # t /\ (h[t].right # Null => h[t].right # n)
  BY <1>0, StandsFacts
<1>2. RotateClockwise(h, n).top = t /\ Clockwise(D, h, n, t, g)
  BY ClockwiseIs
<1>3. \A x \in (D \ {n, t}) \cup {Null} : HeightOf(g, x) = HeightOf(h, x)
  BY <1>2 DEF Clockwise, HeightOf
<1>4. /\ g[n].left = h[t].right /\ g[n].right = h[n].right /\ g[t].left = h[t].left /\ g[t].right = n
  BY <1>1, <1>2 DEF Clockwise
<1>5. ASSUME g[t].height = h[n].height, NEW m \in D \ {n, t} PROVE Alike(h, g, m)
  <2>1. HeightOf(g, t) = HeightOf(h, n)
    BY <1>0, <1>1, <1>5 DEF HeightOf
  <2>2. /\ h[m].left \in D \cup {Null} /\ h[m].right \in D \cup {Null}
        /\ h[m].left # t /\ h[m].right # t
        /\ h[m].left = n => m = h[n].parent
        /\ h[m].right = n => m = h[n].parent /\ h[m].left # n
    BY <1>0, <1>1, StandsFacts
  <2>3. /\ g[m].left = (IF h[m].left = n THEN t ELSE h[m].left)
        /\ g[m].right = (IF m = h[n].parent /\ h[m].left # n THEN t ELSE h[m].right)
        /\ g[m].height = h[m].height
    BY <1>2, <2>2 DEF Clockwise
  <2>4. m = h[n].parent => (h[m].left # n <=> h[m].right = n)
    BY <1>0, StandsFacts
  <2>5. g[m].right = (IF h[m].right = n THEN t ELSE h[m].right)
    BY <2>2, <2>3, <2>4
  <2> QED BY <1>3, <2>1, <2>2, <2>3, <2>5 DEF Alike
<1> QED BY <1>1, <1>2, <1>3, <1>4, <1>5 DEF Tilted, Clockwise

\* rotate_counterclockwise does it the other way round.
LEMMA CounterclockwiseTilts ==
  ASSUME NEW D, NEW h, NEW N, NEW pos, NEW lo, NEW hi, Stands(D, D, h, N, pos, lo, hi),
         NEW n \in D, h[n].right # Null, NEW t, t = h[n].right,
         NEW g, g = RotateCounterclockwise(h, n).heap
  PROVE  RotateCounterclockwise(h, n).top = t /\ TiltedBack(D, h, n, t, g)
<1>0. Null \notin D
  BY StandsFacts
<1>1. /\ t \in D /\ t # n /\ t # h[n].parent /\ h[n].parent # n /\ h[t].parent = n
      /\ h[n].left \in D \cup {Null} /\ h[n].left # n /\ h[n].left # t
      /\ h[t].left \in D \cup {Null} /\ h[t].left # t /\ (h[t].left # Null => h[t].left # n)
      /\ h[t].right \in D \cup {Null} /\ h[t].right # t /\ (h[t].right # Null => h[t].right # n)
  BY <1>0, StandsFacts
<1>2. RotateCounterclockwise(h, n).top = t /\ Counterclockwise(D, h, n, t, g)
  BY CounterclockwiseIs
<1>3. \A x \in (D \ {n, t}) \cup {Null} : HeightOf(g, x) = HeightOf(h, x)
  BY <1>2 DEF Counterclockwise, HeightOf
<1>4. /\ g[n].right = h[t].left /\ g[n].left = h[n].left /\ g[t].right = h[t].right /\ g[t].left = n
  BY <1>1, <1>2 DEF Counterclockwise
<1>5. ASSUME g[t].height = h[n].height, NEW m \in D \ {n, t} PROVE Alike(h, g, m)
  <2>1. HeightOf(g, t) = HeightOf(h, n)
    BY <1>0, <1>1, <1>5 DEF HeightOf
  <2>2. /\ h[m].left \in D \cup {Null} /\ h[m].right \in D \cup {Null}
        /\ h[m].left # t /\ h[m].right # t
        /\ h[m].left = n => m = h[n].parent
        /\ h[m].right = n => m = h[n].parent /\ h[m].left # n
    BY <1>0, <1>1, StandsFacts
  <2>3. /\ g[m].left = (IF h[m].left = n THEN t ELSE h[m].left)
        /\ g[m].right = (IF m = h[n].parent /\ h[m].left # n THEN t ELSE h[m].right)
        /\ g[m].height = h[m].height
    BY <1>2, <2>2 DEF Counterclockwise
  <2>4. m = h[n].parent => (h[m].left # n <=> h[m].right = n)
    BY <1>0, StandsFacts
  <2>5. g[m].right = (IF h[m].right = n THEN t ELSE h[m].right)
    BY <2>2, <2>3, <2>4
  <2> QED BY <1>3, <2>1, <2>2, <2>3, <2>5 DEF Alike
<1> QED BY <1>1, <1>2, <1>3, <1>4, <1>5 DEF TiltedBack, Counterclockwise

-----------------------------------------------------------------------------
(* A turn after an insertion                                               *)

\* c, a child of a, is one higher than the height of a, and that of d, the
\* other child, say it was.
Outgrown(h, a, c, d) ==
  LET k == h[c].height - 1
  IN  /\ k - HeightOf(h, d) \in -1 .. 1
      /\ h[a].height = (IF k > HeightOf(h, d) THEN k + 1 ELSE HeightOf(h, d) + 1)

(***************************************************************************)
(* The subtree of c, below a, has grown by one, and nothing else has       *)
(* changed: a height that grew has done so on one side only.               *)
(***************************************************************************)
Growing(D, h, a, c) ==
  /\ a \in D /\ c \in D
  /\ \A m \in D \ {a} : Even(h, m)
  /\ h[c].height # 0 => HeightOf(h, h[c].left) # HeightOf(h, h[c].right)
  /\ \/ c = h[a].left /\ Outgrown(h, a, c, h[a].right)
     \/ c = h[a].right /\ Outgrown(h, a, c, h[a].left)

\* A turn that only writes the height, and leaves it what it was.
LEMMA UpdateKeeps ==
  ASSUME NEW D \in SUBSET Elem, NEW h \in [D -> Node], NEW n \in D, Exact(h, n)
  PROVE  UpdateHeight(h, n) = h
<1>1. UpdateHeight(h, n) = [h EXCEPT ![n].height = HeightFrom(h, n)]
  BY DEF UpdateHeight, HeightFrom
<1>2. [h[n] EXCEPT !.height = HeightFrom(h, n)] = h[n]
  BY DEF Exact, Node
<1> QED BY <1>1, <1>2

\* Of even nodes no turn changes anything.
LEMMA EvenStays ==
  ASSUME NEW D, NEW h, NEW N, NEW pos, NEW lo, NEW hi, Stands(D, D, h, N, pos, lo, hi),
         NEW n \in D, Even(h, n)
  PROVE  Balance(h, n) = [top |-> n, heap |-> h]
<1>1. D \in SUBSET Elem /\ h \in [D -> Node]
  BY DEF Stands
<1>2. PICK l, r : l = HeightOf(h, h[n].left) /\ r = HeightOf(h, h[n].right)
  OBVIOUS
<1>3. l \in Int /\ r \in Int
  BY <1>2, HeightInt, StandsFacts
<1>4. l - r \in -1 .. 1
  BY <1>2 DEF Even, Level
<1>5. ~(l > r + 1) /\ ~(r > l + 1)
  BY <1>3, <1>4
<1>6. Balance(h, n) = [top |-> n, heap |-> UpdateHeight(h, n)]
  BY <1>2, <1>5 DEF Balance
<1> QED BY <1>1, <1>6, UpdateKeeps DEF Even

\* A rotation of a tree whose left side is too high, at the outer grandchild.
LEMMA OuterLeftEven ==
  ASSUME NEW D, NEW h, NEW N, NEW pos, NEW lo, NEW hi, Stands(D, D, h, N, pos, lo, hi),
         NEW n \in D, NEW c \in D, c = h[n].left, NEW j \in Int,
         \A m \in D \ {n} : Even(h, m),
         h[n].height = j, HeightOf(h, h[n].right) = j - 2,
         HeightOf(h, h[c].left) = j - 1, HeightOf(h, h[c].right) = j - 2
  PROVE  \A m \in D : Even(RotateClockwise(h, n).heap, m)
<1>0. Null \notin D /\ c # n
  BY StandsFacts
<1>1. PICK g : g = RotateClockwise(h, n).heap
  OBVIOUS
<1>2. Tilted(D, h, n, c, g)
  BY <1>0, <1>1, ClockwiseTilts
<1>3. g[n].height = j - 1 /\ Even(g, n)
  BY <1>2 DEF Tilted, Even, Exact, Level, HeightFrom
<1>4. g[c].height = j /\ Even(g, c)
  <2>1. HeightOf(g, g[c].right) = j - 1 /\ HeightOf(g, g[c].left) = j - 1
    BY <1>0, <1>2, <1>3 DEF Tilted, HeightOf
  <2> QED BY <1>2, <2>1 DEF Tilted, Even, Exact, Level, HeightFrom
<1>5. \A m \in D \ {n, c} : Even(g, m)
  BY <1>2, <1>4, AlikeEven DEF Tilted
<1> QED BY <1>1, <1>3, <1>4, <1>5

\* The mirror image.
LEMMA OuterRightEven ==
  ASSUME NEW D, NEW h, NEW N, NEW pos, NEW lo, NEW hi, Stands(D, D, h, N, pos, lo, hi),
         NEW n \in D, NEW c \in D, c = h[n].right, NEW j \in Int,
         \A m \in D \ {n} : Even(h, m),
         h[n].height = j, HeightOf(h, h[n].left) = j - 2,
         HeightOf(h, h[c].right) = j - 1, HeightOf(h, h[c].left) = j - 2
  PROVE  \A m \in D : Even(RotateCounterclockwise(h, n).heap, m)
<1>0. Null \notin D /\ c # n
  BY StandsFacts
<1>1. PICK g : g = RotateCounterclockwise(h, n).heap
  OBVIOUS
<1>2. TiltedBack(D, h, n, c, g)
  BY <1>0, <1>1, CounterclockwiseTilts
<1>3. g[n].height = j - 1 /\ Even(g, n)
  BY <1>2 DEF TiltedBack, Even, Exact, Level, HeightFrom
<1>4. g[c].height = j /\ Even(g, c)
  <2>1. HeightOf(g, g[c].right) = j - 1 /\ HeightOf(g, g[c].left) = j - 1
    BY <1>0, <1>2, <1>3 DEF TiltedBack, HeightOf
  <2> QED BY <1>2, <2>1 DEF TiltedBack, Even, Exact, Level, HeightFrom
<1>5. \A m \in D \ {n, c} : Even(g, m)
  BY <1>2, <1>4, AlikeEven DEF TiltedBack
<1> QED BY <1>1, <1>3, <1>4, <1>5

\* A rotation at the inner grandchild on the left first.
LEMMA InnerLeftEven ==
  ASSUME NEW D, NEW h, NEW N, NEW pos, NEW lo, NEW hi, Stands(D, D, h, N, pos, lo, hi),
         NEW n \in D, NEW c \in D, c = h[n].left, NEW j \in Nat, j > 0,
         \A m \in D \ {n} : Even(h, m),
         h[n].height = j, HeightOf(h, h[n].right) = j - 2, h[c].height = j,
         HeightOf(h, h[c].left) = j - 2, HeightOf(h, h[c].right) = j - 1,
         NEW s, s = RotateCounterclockwise(h, c),
         NEW t, t = RotateClockwise([s.heap EXCEPT ![n].left = s.top], n)
  PROVE  \A m \in D : Even(t.heap, m)
<1>0. Null \notin D /\ c # n /\ h[c].parent = n
  BY StandsFacts
<1>1. PICK d \in D : d = h[c].right /\ d # c /\ d # n /\ h[d].height = j - 1
  <2>1. h[c].right \in D \cup {Null} /\ h[c].right # Null
    BY HeightInt, StandsFacts
  <2>2. HeightOf(h, h[c].right) = h[h[c].right].height
    BY <2>1 DEF HeightOf
  <2>3. h[c].right # c /\ h[c].right # n
    BY <1>0, <2>1, StandsFacts
  <2> QED BY <2>1, <2>2, <2>3
<1>2. PICK lo1, hi1 : TurnedBack(D, pos, lo, hi, c, d, lo1, hi1)
  BY DEF TurnedBack
<1>3. PICK f : f = s.heap
  OBVIOUS
<1>4. s.top = d /\ Swung(D, D, h, N, pos, lo1, hi1, c, d, f)
  BY <1>0, <1>1, <1>2, <1>3, CounterclockwiseStands
<1>5. Stands(D, D, f, N, pos, lo1, hi1) /\ f[n].left = d
  BY <1>0, <1>4 DEF Swung
<1>6. [f EXCEPT ![n].left = d] = f
  <2>1. f \in [D -> Node]
    BY <1>5 DEF Stands
  <2>2. [f[n] EXCEPT !.left = d] = f[n]
    BY <2>1, <1>5 DEF Node
  <2> QED BY <2>1, <2>2
<1>7. t = RotateClockwise(f, n)
  BY <1>3, <1>4, <1>6
<1>8. TiltedBack(D, h, c, d, f)
  BY <1>0, <1>1, <1>3, CounterclockwiseTilts
<1>9. PICK x, y : x = HeightOf(h, h[d].left) /\ y = HeightOf(h, h[d].right)
  OBVIOUS
<1>10. x \in Int /\ y \in Int /\ (x = j - 2 \/ x = j - 3) /\ (y = j - 2 \/ y = j - 3)
  <2>1. x \in Int /\ y \in Int
    BY <1>9, HeightInt, StandsFacts
  <2>2. j - 1 = (IF x > y THEN x + 1 ELSE y + 1) /\ x - y \in -1 .. 1
    BY <1>1, <1>9 DEF Even, Exact, Level, HeightFrom
  <2> QED BY <2>1, <2>2
<1>11. f[c].height = j - 1 /\ Even(f, c)
  BY <1>8, <1>9, <1>10 DEF TiltedBack, Even, Exact, Level, HeightFrom
<1>12. HeightOf(f, f[d].left) = j - 1 /\ HeightOf(f, f[d].right) = y
  BY <1>0, <1>8, <1>9, <1>11 DEF TiltedBack, HeightOf
<1>13. f[d].height = j
  BY <1>8, <1>10, <1>12 DEF TiltedBack, Exact, HeightFrom
<1>14. \A m \in D \ {c, d} : Alike(h, f, m)
  BY <1>8, <1>13 DEF TiltedBack
<1>15. f[n].height = j /\ HeightOf(f, f[n].right) = j - 2
  BY <1>0, <1>1, <1>14 DEF Alike
<1>16. \A m \in D \ {n, d} : Even(f, m)
  BY <1>11, <1>14, AlikeEven
<1>17. PICK g : g = RotateClockwise(f, n).heap
  OBVIOUS
<1>18. Tilted(D, f, n, d, g)
  BY <1>0, <1>5, <1>17, ClockwiseTilts
<1>19. g[n].height = j - 1 /\ Even(g, n)
  BY <1>10, <1>12, <1>15, <1>18 DEF Tilted, Even, Exact, Level, HeightFrom
<1>20. g[d].height = j /\ Even(g, d)
  <2>1. HeightOf(g, g[d].right) = j - 1 /\ HeightOf(g, g[d].left) = j - 1
    BY <1>0, <1>12, <1>18, <1>19 DEF Tilted, HeightOf
  <2> QED BY <1>18, <2>1 DEF Tilted, Even, Exact, Level, HeightFrom
<1>21. \A m \in D \ {n, d} : Even(g, m)
  BY <1>15, <1>16, <1>18, <1>20, AlikeEven DEF Tilted
<1> QED BY <1>7, <1>17, <1>19, <1>20, <1>21

\* The mirror image.
LEMMA InnerRightEven ==
  ASSUME NEW D, NEW h, NEW N, NEW pos, NEW lo, NEW hi, Stands(D, D, h, N, pos, lo, hi),
         NEW n \in D, NEW c \in D, c = h[n].right, NEW j \in Nat, j > 0,
         \A m \in D \ {n} : Even(h, m),
         h[n].height = j, HeightOf(h, h[n].left) = j - 2, h[c].height = j,
         HeightOf(h, h[c].right) = j - 2, HeightOf(h, h[c].left) = j - 1,
         NEW s, s = RotateClockwise(h, c),
         NEW t, t = RotateCounterclockwise([s.heap EXCEPT ![n].right = s.top], n)
  PROVE  \A m \in D : Even(t.heap, m)
<1>0. Null \notin D /\ c # n /\ h[c].parent = n
  BY StandsFacts
<1>1. PICK d \in D : d = h[c].left /\ d # c /\ d # n /\ h[d].height = j - 1
  <2>1. h[c].left \in D \cup {Null} /\ h[c].left # Null
    BY HeightInt, StandsFacts
  <2>2. HeightOf(h, h[c].left) = h[h[c].left].height
    BY <2>1 DEF HeightOf
  <2>3. h[c].left # c /\ h[c].left # n
    BY <1>0, <2>1, StandsFacts
  <2> QED BY <2>1, <2>2, <2>3
<1>2. PICK lo1, hi1 : Turned(D, pos, lo, hi, c, d, lo1, hi1)
  BY DEF Turned
<1>3. PICK f : f = s.heap
  OBVIOUS
<1>4. s.top = d /\ Swung(D, D, h, N, pos, lo1, hi1, c, d, f)
  BY <1>0, <1>1, <1>2, <1>3, ClockwiseStands
<1>5. Stands(D, D, f, N, pos, lo1, hi1) /\ f[n].right = d
  BY <1>0, <1>4 DEF Swung
<1>6. [f EXCEPT ![n].right = d] = f
  <2>1. f \in [D -> Node]
    BY <1>5 DEF Stands
  <2>2. [f[n] EXCEPT !.right = d] = f[n]
    BY <2>1, <1>5 DEF Node
  <2> QED BY <2>1, <2>2
<1>7. t = RotateCounterclockwise(f, n)
  BY <1>3, <1>4, <1>6
<1>8. Tilted(D, h, c, d, f)
  BY <1>0, <1>1, <1>3, ClockwiseTilts
<1>9. PICK x, y : x = HeightOf(h, h[d].right) /\ y = HeightOf(h, h[d].left)
  OBVIOUS
<1>10. x \in Int /\ y \in Int /\ (x = j - 2 \/ x = j - 3) /\ (y = j - 2 \/ y = j - 3)
  <2>1. x \in Int /\ y \in Int
    BY <1>9, HeightInt, StandsFacts
  <2>2. j - 1 = (IF y > x THEN y + 1 ELSE x + 1) /\ y - x \in -1 .. 1
    BY <1>1, <1>9 DEF Even, Exact, Level, HeightFrom
  <2> QED BY <2>1, <2>2
<1>11. f[c].height = j - 1 /\ Even(f, c)
  BY <1>8, <1>9, <1>10 DEF Tilted, Even, Exact, Level, HeightFrom
<1>12. HeightOf(f, f[d].right) = j - 1 /\ HeightOf(f, f[d].left) = y
  BY <1>0, <1>8, <1>9, <1>11 DEF Tilted, HeightOf
<1>13. f[d].height = j
  BY <1>8, <1>10, <1>12 DEF Tilted, Exact, HeightFrom
<1>14. \A m \in D \ {c, d} : Alike(h, f, m)
  BY <1>8, <1>13 DEF Tilted
<1>15. f[n].height = j /\ HeightOf(f, f[n].left) = j - 2
  BY <1>0, <1>1, <1>14 DEF Alike
<1>16. \A m \in D \ {n, d} : Even(f, m)
  BY <1>11, <1>14, AlikeEven
<1>17. PICK g : g = RotateCounterclockwise(f, n).heap
  OBVIOUS
<1>18. TiltedBack(D, f, n, d, g)
  BY <1>0, <1>5, <1>17, CounterclockwiseTilts
<1>19. g[n].height = j - 1 /\ Even(g, n)
  BY <1>10, <1>12, <1>15, <1>18 DEF TiltedBack, Even, Exact, Level, HeightFrom
<1>20. g[d].height = j /\ Even(g, d)
  <2>1. HeightOf(g, g[d].right) = j - 1 /\ HeightOf(g, g[d].left) = j - 1
    BY <1>0, <1>12, <1>18, <1>19 DEF TiltedBack, HeightOf
  <2> QED BY <1>18, <2>1 DEF TiltedBack, Even, Exact, Level, HeightFrom
<1>21. \A m \in D \ {n, d} : Even(g, m)
  BY <1>15, <1>16, <1>18, <1>20, AlikeEven DEF TiltedBack
<1> QED BY <1>7, <1>17, <1>19, <1>20, <1>21

(***************************************************************************)
(* A turn without a rotation ends the growth, or passes it on to the node  *)
(* above.                                                                  *)
(***************************************************************************)
LEMMA UpdateGrows ==
  ASSUME NEW D, NEW h, NEW N, NEW pos, NEW lo, NEW hi, Stands(D, D, h, N, pos, lo, hi),
         NEW n, NEW c, Growing(D, h, n, c), Level(h, n), NEW g, g = UpdateHeight(h, n)
  PROVE  \/ \A m \in D : Even(g, m)
         \/ h[n].parent # Null /\ g[n].parent = h[n].parent /\ Growing(D, g, h[n].parent, n)
<1>0. Null \notin D /\ n \in D /\ D \in SUBSET Elem /\ h \in [D -> Node] /\ \A m \in D \ {n} : Even(h, m)
  BY StandsFacts DEF Growing, Stands
<1>1. HeightSet(D, h, g, n)
  <2>1. h[n].left \in D \cup {Null} /\ h[n].right \in D \cup {Null}
    BY <1>0, StandsFacts
  <2> QED BY <1>0, <2>1, UpdateHeightFields
<1>2. PICK l, r : l = HeightOf(h, h[n].left) /\ r = HeightOf(h, h[n].right)
  OBVIOUS
<1>3. l \in Int /\ r \in Int /\ l - r \in -1 .. 1
  BY <1>0, <1>2, HeightInt, StandsFacts DEF Level
<1>4. h[n].height \in Int /\ (\/ HeightFrom(h, n) = h[n].height
                              \/ HeightFrom(h, n) = h[n].height + 1 /\ l # r)
  <2>1. HeightFrom(h, n) = IF l > r THEN l + 1 ELSE r + 1
    BY <1>2 DEF HeightFrom
  <2>2. CASE c = h[n].left /\ Outgrown(h, n, c, h[n].right)
    <3>1. h[c].height = l
      BY <1>0, <1>2, <2>2 DEF Growing, HeightOf
    <3>2. l - 1 - r \in -1 .. 1 /\ h[n].height = IF l - 1 > r THEN l - 1 + 1 ELSE r + 1
      BY <1>2, <2>2, <3>1 DEF Outgrown
    <3> QED BY <1>3, <2>1, <3>2
  <2>3. CASE c = h[n].right /\ Outgrown(h, n, c, h[n].left)
    <3>1. h[c].height = r
      BY <1>0, <1>2, <2>3 DEF Growing, HeightOf
    <3>2. r - 1 - l \in -1 .. 1 /\ h[n].height = IF r - 1 > l THEN r - 1 + 1 ELSE l + 1
      BY <1>2, <2>3, <3>1 DEF Outgrown
    <3> QED BY <1>3, <2>1, <3>2
  <2> QED BY <2>2, <2>3 DEF Growing
<1>5. /\ HeightOf(g, g[n].left) = l /\ HeightOf(g, g[n].right) = r
      /\ g[n].height = HeightFrom(h, n) /\ g[n].parent = h[n].parent
  <2>1. h[n].left \in D \cup {Null} /\ h[n].right \in D \cup {Null} /\ h[n].left # n /\ h[n].right # n
    BY <1>0, StandsFacts
  <2> QED BY <1>0, <1>1, <1>2, <2>1 DEF HeightSet, HeightOf
<1>6. Even(g, n)
  BY <1>2, <1>3, <1>5 DEF Even, Exact, Level, HeightFrom
<1>7. ASSUME NEW m \in D \ {n}, g[n].height = h[n].height \/ m # h[n].parent
      PROVE  Alike(h, g, m)
  <2>1. /\ h[m].left \in D \cup {Null} /\ h[m].right \in D \cup {Null}
        /\ (h[m].left = n \/ h[m].right = n => m = h[n].parent)
    BY <1>0, StandsFacts
  <2>2. \A x \in D \cup {Null} : x # n \/ g[n].height = h[n].height => HeightOf(g, x) = HeightOf(h, x)
    BY <1>0, <1>1 DEF HeightSet, HeightOf
  <2>3. g[m].left = h[m].left /\ g[m].right = h[m].right /\ g[m].height = h[m].height
    BY <1>1 DEF HeightSet
  <2> QED BY <1>7, <2>1, <2>2, <2>3 DEF Alike
<1>8. CASE HeightFrom(h, n) = h[n].height \/ h[n].parent = Null
  <2>1. \A m \in D \ {n} : Alike(h, g, m)
    BY <1>0, <1>5, <1>7, <1>8
  <2> QED BY <1>0, <1>6, <2>1, AlikeEven
<1>9. CASE HeightFrom(h, n) # h[n].height /\ h[n].parent # Null
  <2>1. PICK p \in D : p = h[n].parent /\ p # n
    BY <1>0, <1>9, StandsFacts
  <2>2. \A m \in D \ {p} : Even(g, m)
    BY <1>0, <1>6, <1>7, <2>1, AlikeEven
  <2>3. g[n].height # 0 => HeightOf(g, g[n].left) # HeightOf(g, g[n].right)
    BY <1>4, <1>5, <1>9
  <2>4. PICK x, y : x = HeightOf(h, h[p].left) /\ y = HeightOf(h, h[p].right)
    OBVIOUS
  <2>5. x \in Int /\ y \in Int /\ x - y \in -1 .. 1 /\ h[p].height = IF x > y THEN x + 1 ELSE y + 1
    <3>1. x \in Int /\ y \in Int
      BY <2>4, HeightInt, StandsFacts
    <3>2. Even(h, p)
      BY <1>0, <2>1
    <3> QED BY <2>4, <3>1, <3>2 DEF Even, Exact, Level, HeightFrom
  <2>6. g[p].left = h[p].left /\ g[p].right = h[p].right /\ g[p].height = h[p].height
    BY <1>1, <2>1 DEF HeightSet
  <2>7. \A z \in (D \ {n}) \cup {Null} : HeightOf(g, z) = HeightOf(h, z)
    BY <1>0, <1>1 DEF HeightSet, HeightOf
  <2>8. h[p].left \in D \cup {Null} /\ h[p].right \in D \cup {Null} /\ (n = h[p].left <=> n # h[p].right)
    BY <1>0, <2>1, StandsFacts
  <2>9. g[n].height - 1 = HeightOf(h, n)
    BY <1>0, <1>4, <1>5, <1>9 DEF HeightOf
  <2>10. CASE n = h[p].left
    <3>1. Outgrown(g, p, n, g[p].right)
      BY <2>4, <2>5, <2>6, <2>7, <2>8, <2>9, <2>10 DEF Outgrown
    <3> QED BY <1>0, <1>5, <2>1, <2>2, <2>3, <2>6, <2>10, <3>1 DEF Growing
  <2>11. CASE n = h[p].right
    <3>1. Outgrown(g, p, n, g[p].left)
      <4>1. h[p].height = IF y > x THEN y + 1 ELSE x + 1
        BY <2>5
      <4>2. y - x \in -1 .. 1
        BY <2>5
      <4> QED BY <4>1, <4>2, <2>4, <2>6, <2>7, <2>8, <2>9, <2>11 DEF Outgrown
    <3> QED BY <1>0, <1>5, <2>1, <2>2, <2>3, <2>6, <2>11, <3>1 DEF Growing
  <2> QED BY <2>8, <2>10, <2>11
<1> QED BY <1>8, <1>9

\* A rotation at the child c first, then one at n.
TwiceClockwise(h, n, c) ==
  LET s == RotateCounterclockwise(h, c)
  IN  RotateClockwise([s.heap EXCEPT ![n].left = s.top], n)

\* The mirror image.
TwiceCounterclockwise(h, n, c) ==
  LET s == RotateClockwise(h, c)
  IN  RotateCounterclockwise([s.heap EXCEPT ![n].right = s.top], n)

\* Which rotations balance makes.
LEMMA BalanceIs ==
  ASSUME NEW h, NEW n, NEW l, NEW r, l = HeightOf(h, h[n].left), r = HeightOf(h, h[n].right),
         l \in Int, r \in Int, NEW c, NEW x, NEW y,
         x = HeightOf(h, h[c].left), y = HeightOf(h, h[c].right)
  PROVE  /\ l > r + 1 /\ c = h[n].left /\ x > y => Balance(h, n) = RotateClockwise(h, n)
         /\ l > r + 1 /\ c = h[n].left /\ ~(x > y) => Balance(h, n) = TwiceClockwise(h, n, c)
         /\ r > l + 1 /\ c = h[n].right /\ x <= y => Balance(h, n) = RotateCounterclockwise(h, n)
         /\ r > l + 1 /\ c = h[n].right /\ ~(x <= y) => Balance(h, n) = TwiceCounterclockwise(h, n, c)
         /\ ~(l > r + 1) /\ ~(r > l + 1) => Balance(h, n) = [top |-> n, heap |-> UpdateHeight(h, n)]
<1>1. r > l + 1 => ~(l > r + 1)
  OBVIOUS
<1>2. ASSUME l > r + 1, c = h[n].left, x > y PROVE Balance(h, n) = RotateClockwise(h, n)
  BY <1>1, <1>2 DEF Balance
<1>3. ASSUME l > r + 1, c = h[n].left, ~(x > y)
      PROVE  Balance(h, n) = TwiceClockwise(h, n, c)
  BY <1>1, <1>3 DEF Balance, TwiceClockwise
<1>4. ASSUME r > l + 1, c = h[n].right, x <= y PROVE Balance(h, n) = RotateCounterclockwise(h, n)
  BY <1>1, <1>4 DEF Balance
<1>5. ASSUME r > l + 1, c = h[n].right, ~(x <= y)
      PROVE  Balance(h, n) = TwiceCounterclockwise(h, n, c)
  BY <1>1, <1>5 DEF Balance, TwiceCounterclockwise
<1>6. ASSUME ~(l > r + 1), ~(r > l + 1)
      PROVE  Balance(h, n) = [top |-> n, heap |-> UpdateHeight(h, n)]
  BY <1>6 DEF Balance
<1> QED BY <1>2, <1>3, <1>4, <1>5, <1>6

\* A turn with a rotation ends the growth.
LEMMA BalanceGrows ==
  ASSUME NEW D, NEW h, NEW N, NEW pos, NEW lo, NEW hi, Stands(D, D, h, N, pos, lo, hi),
         NEW n, NEW c, Growing(D, h, n, c), NEW t, t = Balance(h, n)
  PROVE  \/ \A m \in D : Even(t.heap, m)
         \/ /\ h[n].parent # Null /\ t.heap[t.top].parent = h[n].parent
            /\ \E b : Growing(D, t.heap, h[n].parent, b)
<1>0. Null \notin D /\ n \in D /\ c \in D /\ \A m \in D \ {n} : Even(h, m)
  BY StandsFacts DEF Growing
<1>1. PICK l, r : l = HeightOf(h, h[n].left) /\ r = HeightOf(h, h[n].right)
  OBVIOUS
<1>2. l \in Int /\ r \in Int /\ l >= -1 /\ r >= -1
  BY <1>0, <1>1, HeightInt, StandsFacts
<1>3. PICK x, y : x = HeightOf(h, h[c].left) /\ y = HeightOf(h, h[c].right)
  OBVIOUS
<1>4. x \in Int /\ y \in Int
  BY <1>0, <1>3, HeightInt, StandsFacts
<1>5. c # n
  BY <1>0, StandsFacts DEF Growing
<1>6. /\ h[c].height = (IF x > y THEN x + 1 ELSE y + 1)
      /\ x - y \in -1 .. 1
      /\ h[c].height # 0 => x # y
  BY <1>0, <1>3, <1>5 DEF Growing, Even, Exact, Level, HeightFrom
<1>7. \/ /\ c = h[n].left /\ h[c].height = l /\ l - 1 - r \in -1 .. 1
         /\ h[n].height = IF l - 1 > r THEN l - 1 + 1 ELSE r + 1
      \/ /\ c = h[n].right /\ h[c].height = r /\ r - 1 - l \in -1 .. 1
         /\ h[n].height = IF r - 1 > l THEN r - 1 + 1 ELSE l + 1
  <2>1. CASE c = h[n].left /\ Outgrown(h, n, c, h[n].right)
    <3>1. h[c].height = l
      BY <1>0, <1>1, <2>1 DEF HeightOf
    <3> QED BY <1>1, <2>1, <3>1 DEF Outgrown
  <2>2. CASE c = h[n].right /\ Outgrown(h, n, c, h[n].left)
    <3>1. h[c].height = r
      BY <1>0, <1>1, <2>2 DEF HeightOf
    <3> QED BY <1>1, <2>2, <3>1 DEF Outgrown
  <2> QED BY <2>1, <2>2 DEF Growing
<1>8. CASE l > r + 1
  <2>1. /\ c = h[n].left /\ h[c].height = l /\ h[n].height = l /\ r = l - 2 /\ l \in Nat /\ l > 0
    BY <1>2, <1>7, <1>8
  <2>2. c = h[n].left
    BY <2>1
  <2>3. /\ x > y => t = RotateClockwise(h, n)
        /\ ~(x > y) => t = TwiceClockwise(h, n, c)
    <3>1. l \in Int /\ r \in Int
      BY <1>2
    <3> QED BY <1>1, <1>3, <1>8, <2>2, <3>1, BalanceIs
  <2>4. CASE x > y
    <3>1. t = RotateClockwise(h, n)
      BY <2>4, <2>3
    <3>2. x = l - 1 /\ y = l - 2
      BY <1>4, <1>6, <2>1, <2>4
    <3>3. \A m \in D : Even(RotateClockwise(h, n).heap, m)
      <4>1. /\ l \in Int /\ h[n].height = l /\ HeightOf(h, h[n].right) = l - 2
            /\ HeightOf(h, h[c].left) = l - 1 /\ HeightOf(h, h[c].right) = l - 2
        BY <1>1, <1>2, <1>3, <2>1, <3>2
      <4> QED BY <1>0, <2>2, <4>1, OuterLeftEven
    <3> QED BY <3>1, <3>3
  <2>5. CASE ~(x > y)
    <3>1. PICK s : s = RotateCounterclockwise(h, c)
      OBVIOUS
    <3>2. t = RotateClockwise([s.heap EXCEPT ![n].left = s.top], n)
      BY <2>5, <2>3, <3>1 DEF TwiceClockwise
    <3>3. x = l - 2 /\ y = l - 1
      BY <1>4, <1>6, <2>1, <2>5
    <3> QED BY <1>0, <1>1, <1>3, <2>1, <3>1, <3>2, <3>3, InnerLeftEven
  <2> QED BY <2>4, <2>5
<1>9. CASE r > l + 1
  <2>1. /\ c = h[n].right /\ h[c].height = r /\ h[n].height = r /\ l = r - 2 /\ r \in Nat /\ r > 0
    BY <1>2, <1>7, <1>9
  <2>2. c = h[n].right
    BY <2>1
  <2>3. /\ x <= y => t = RotateCounterclockwise(h, n)
        /\ ~(x <= y) => t = TwiceCounterclockwise(h, n, c)
    <3>1. l \in Int /\ r \in Int
      BY <1>2
    <3> QED BY <1>1, <1>3, <1>9, <2>2, <3>1, BalanceIs
  <2>4. CASE x <= y
    <3>1. t = RotateCounterclockwise(h, n)
      BY <2>4, <2>3
    <3>2. y = r - 1 /\ x = r - 2
      BY <1>4, <1>6, <2>1, <2>4
    <3>3. \A m \in D : Even(RotateCounterclockwise(h, n).heap, m)
      <4>1. /\ r \in Int /\ h[n].height = r /\ HeightOf(h, h[n].left) = r - 2
            /\ HeightOf(h, h[c].right) = r - 1 /\ HeightOf(h, h[c].left) = r - 2
        BY <1>1, <1>2, <1>3, <2>1, <3>2
      <4> QED BY <1>0, <2>2, <4>1, OuterRightEven
    <3> QED BY <3>1, <3>3
  <2>5. CASE ~(x <= y)
    <3>1. PICK s : s = RotateClockwise(h, c)
      OBVIOUS
    <3>2. t = RotateCounterclockwise([s.heap EXCEPT ![n].right = s.top], n)
      BY <2>5, <2>3, <3>1 DEF TwiceCounterclockwise
    <3>3. y = r - 2 /\ x = r - 1
      BY <1>4, <1>6, <2>1, <2>5
    <3> QED BY <1>0, <1>1, <1>3, <2>1, <3>1, <3>2, <3>3, InnerRightEven
  <2> QED BY <2>4, <2>5
<1>10. CASE ~(l > r + 1) /\ ~(r > l + 1)
  <2>1. t = [top |-> n, heap |-> UpdateHeight(h, n)]
    BY <1>1, <1>10 DEF Balance
  <2>2. Level(h, n)
    BY <1>1, <1>2, <1>10 DEF Level
  <2>3. PICK g : g = UpdateHeight(h, n)
    OBVIOUS
  <2>4. t.heap = g /\ t.top = n
    BY <2>1, <2>3
  <2> QED BY <2>2, <2>3, <2>4, UpdateGrows
<1> QED BY <1>8, <1>9, <1>10

-----------------------------------------------------------------------------
(* The whole way up after an insertion                                     *)

\* Every node is even, or the node where the loop is has a child that grew.
Poised(D, t) ==
  \/ \A m \in D : Even(t.heap, m)
  \/ t.at # Null /\ \E c : Growing(D, t.heap, t.at, c)

\* Each turn keeps this.
LEMMA PoisedStep ==
  ASSUME NEW D, NEW h, NEW N, NEW pos, NEW lo, NEW hi, NEW t,
         Climbing(D, D, h, N, pos, lo, hi, t), Poised(D, t), NEW t2, t2 = Step(t)
  PROVE  Poised(D, t2)
<1>1. CASE t.at = Null
  BY <1>1 DEF Step
<1>2. CASE t.at # Null
  <2>1. PICK f, n : f = t.heap /\ n = t.at
    OBVIOUS
  <2>2. Stands(D, D, f, N, pos, lo, hi) /\ n \in D
    BY <1>2, <2>1 DEF Climbing
  <2>3. PICK b : b = Balance(f, n)
    OBVIOUS
  <2>4. t2.at = b.heap[b.top].parent /\ t2.heap = b.heap
    BY <1>2, <2>1, <2>3 DEF Step, Climb
  <2>5. CASE \A m \in D : Even(f, m)
    <3>1. b.heap = f
      BY <2>2, <2>3, <2>5, EvenStays
    <3> QED BY <2>4, <2>5, <3>1 DEF Poised
  <2>6. CASE \E c : Growing(D, f, n, c)
    <3>1. \/ \A m \in D : Even(b.heap, m)
          \/ /\ f[n].parent # Null /\ b.heap[b.top].parent = f[n].parent
             /\ \E c : Growing(D, b.heap, f[n].parent, c)
      BY <2>2, <2>3, <2>6, BalanceGrows
    <3> QED BY <2>4, <3>1 DEF Poised
  <2> QED BY <2>1, <2>5, <2>6 DEF Poised
<1> QED BY <1>1, <1>2

\* At the end every node is even.
LEMMA RebalanceEven ==
  ASSUME NEW D, NEW h, NEW N, NEW pos, NEW lo, NEW hi, Stands(D, D, h, N, pos, lo, hi),
         NEW n \in D, Unsettled(D, h, pos, lo, hi, n), NEW c, Growing(D, h, n, c),
         NEW t, t = Rebalance(h, n)
  PROVE  \A m \in D : Even(t.heap, m)
<1>1. PICK K : K = Cardinality(D)
  OBVIOUS
<1>2. K \in Nat /\ Null \notin D
  BY <1>1, StandsCount, StandsFacts
<1>3. PICK w : w = Turns(h, n, K)
  OBVIOUS
<1>4. /\ w[0] = [at |-> n, top |-> n, heap |-> h]
      /\ Climbing(D, D, h, N, pos, lo, hi, w[0])
      /\ \A k \in 1 .. K : w[k] = Step(w[k - 1])
  BY <1>2, <1>3, TurnsAre
<1> DEFINE S == {k \in 0 .. K : /\ \E lo2, hi2 : Climbing(D, D, h, N, pos, lo2, hi2, w[k])
                                /\ Poised(D, w[k])}
<1>5. 0 \in S
  <2>1. w[0].at = n /\ w[0].heap = h
    BY <1>4
  <2>2. Poised(D, w[0])
    BY <1>2, <2>1 DEF Poised
  <2> QED BY <1>2, <1>4, <2>2
<1>6. ASSUME NEW k \in 0 .. K - 1, k \in S PROVE k + 1 \in S
  <2>1. k + 1 \in 1 .. K /\ (k + 1) - 1 = k /\ k + 1 \in 0 .. K
    BY <1>2
  <2>2. PICK t1, t2 : t1 = w[k] /\ t2 = w[k + 1]
    OBVIOUS
  <2>3. PICK lo1, hi1 : Climbing(D, D, h, N, pos, lo1, hi1, t1)
    BY <1>6, <2>2
  <2>4. Poised(D, t1)
    BY <1>6, <2>2
  <2>5. t2 = Step(t1)
    BY <1>4, <2>1, <2>2
  <2>6. \E lo2, hi2 : Climbing(D, D, h, N, pos, lo2, hi2, t2)
    BY <2>3, <2>5, ClimbStep
  <2>7. Poised(D, t2)
    BY <2>3, <2>4, <2>5, PoisedStep
  <2> QED BY <2>1, <2>2, <2>6, <2>7
<1>7. K \in S
  <2>1. K \in 0 .. K
    BY <1>2
  <2> HIDE DEF S
  <2> QED BY <2>1, <1>2, <1>5, <1>6, IntervalInduction
<1>8. PICK d : d = w[K]
  OBVIOUS
<1>9. d.at = Null /\ t = [top |-> d.top, heap |-> d.heap]
  BY <1>1, <1>3, <1>8, RebalanceEnds
<1>10. Poised(D, d)
  BY <1>7, <1>8
<1> QED BY <1>9, <1>10 DEF Poised

-----------------------------------------------------------------------------
(* find and the largest element                                            *)

\* One step down, along s.
Down(D, s) == [n \in D |-> IF s[n] = Null THEN n ELSE s[n]]

\* From each node s goes to a child of it, or ends.
GoesDown(D, h, s) ==
  /\ s \in [D -> D \cup {Null}]
  /\ \A n \in D : s[n] # Null => s[n] = h[n].left \/ s[n] = h[n].right

\* A way down does not leave a set of nodes that s does not leave.
Keeps(D, s, S) == S \subseteq D /\ \A n \in S : s[n] # Null => s[n] \in S

\* As many steps as there are nodes lead to the end of a way down.
LEMMA WayEnds ==
  ASSUME NEW D, NEW E, NEW h, NEW N, NEW pos, NEW lo, NEW hi, Stands(D, E, h, N, pos, lo, hi),
         NEW s, GoesDown(D, h, s), NEW S, Keeps(D, s, S), NEW top \in S,
         NEW K \in Nat, N <= K, NEW v, Iterates(v, K, D, top, Down(D, s))
  PROVE  v[K] \in S /\ s[v[K]] = Null
<1>1. /\ v[0] = top /\ top \in D
      /\ \A k \in 1 .. K : v[k - 1] \in D => v[k] = (IF s[v[k - 1]] = Null THEN v[k - 1] ELSE s[v[k - 1]])
  BY DEF Iterates, Down, Keeps
<1>2. N \in Nat
  BY StandsFacts
<1>3. \A n \in D : lo[n] \in 1 .. N /\ hi[n] \in 1 .. N /\ lo[n] <= hi[n]
  <2>1. ASSUME NEW n \in D PROVE lo[n] \in 1 .. N /\ hi[n] \in 1 .. N /\ lo[n] <= hi[n]
    <3>1. lo[n] \in 1 .. N /\ hi[n] \in 1 .. N /\ pos[n] \in 1 .. N /\ lo[n] <= pos[n] /\ pos[n] <= hi[n]
      BY StandsFacts
    <3> QED BY <3>1
  <2> QED BY <2>1
<1>4. ASSUME NEW n \in D, s[n] # Null
      PROVE  s[n] \in D /\ hi[s[n]] - lo[s[n]] <= hi[n] - lo[n] - 1
  <2>1. s[n] \in D /\ (s[n] = h[n].left \/ s[n] = h[n].right)
    BY <1>4 DEF GoesDown
  <2>2. PICK c : c = s[n]
    OBVIOUS
  <2>3. /\ c = h[n].left => lo[c] = lo[n] /\ hi[c] = pos[n] - 1
        /\ c = h[n].right => lo[c] = pos[n] + 1 /\ hi[c] = hi[n]
    BY <1>4, <2>2, StandsFacts
  <2>4. pos[n] \in 1 .. N /\ lo[n] <= pos[n] /\ pos[n] <= hi[n]
    BY StandsFacts
  <2>5. lo[n] \in 1 .. N /\ hi[n] \in 1 .. N
    BY <1>3
  <2>6. hi[c] - lo[c] <= hi[n] - lo[n] - 1
    BY <1>2, <2>1, <2>2, <2>3, <2>4, <2>5
  <2> QED BY <2>1, <2>2, <2>6
<1> DEFINE T == {k \in 0 .. K : v[k] \in S /\ (s[v[k]] = Null \/ hi[v[k]] - lo[v[k]] <= N - 1 - k)}
<1>5. 0 \in T
  <2>1. lo[top] \in 1 .. N /\ hi[top] \in 1 .. N
    BY <1>1, <1>3
  <2>2. hi[top] - lo[top] <= N - 1 - 0
    BY <2>1, <1>2
  <2> QED BY <2>2, <1>1
<1>6. ASSUME NEW k \in 0 .. K - 1, k \in T PROVE k + 1 \in T
  <2>1. k + 1 \in 1 .. K /\ (k + 1) - 1 = k /\ k \in Int /\ k + 1 \in 0 .. K
    OBVIOUS
  <2>2. PICK a, b : a = v[k] /\ b = v[k + 1]
    OBVIOUS
  <2>3. a \in S /\ a \in D /\ (s[a] = Null \/ hi[a] - lo[a] <= N - 1 - k)
    BY <1>6, <2>2 DEF Keeps
  <2>4. b = IF s[a] = Null THEN a ELSE s[a]
    BY <1>1, <2>1, <2>2, <2>3
  <2>5. b \in S
    BY <2>3, <2>4 DEF Keeps
  <2>6. s[b] = Null \/ hi[b] - lo[b] <= N - 1 - (k + 1)
    <3>1. CASE s[a] = Null
      BY <2>4, <3>1
    <3>2. CASE s[a] # Null
      <4>1. b = s[a] /\ b \in D /\ hi[b] - lo[b] <= hi[a] - lo[a] - 1 /\ hi[a] - lo[a] <= N - 1 - k
        BY <1>4, <2>3, <2>4, <3>2
      <4>2. hi[a] \in Int /\ lo[a] \in Int /\ hi[b] \in Int /\ lo[b] \in Int
        BY <1>3, <2>3, <4>1
      <4> QED BY <4>1, <4>2, <2>1, <1>2
    <3> QED BY <3>1, <3>2
  <2> QED BY <2>1, <2>2, <2>5, <2>6
<1>7. K \in T
  <2>1. K \in 0 .. K
    OBVIOUS
  <2> HIDE DEF T
  <2> QED BY <2>1, <1>5, <1>6, IntervalInduction
<1>8. v[K] \in D
  BY <1>7 DEF Keeps
<1>9. lo[v[K]] \in 1 .. N /\ hi[v[K]] \in 1 .. N /\ lo[v[K]] <= hi[v[K]]
  BY <1>3, <1>8
<1> QED BY <1>2, <1>7, <1>9

\* The functions in find and in Largest.
FindWay(h, top, e, K) ==
  CHOOSE w : w = [k \in 0 .. K |-> IF k = 0 THEN top
                                   ELSE IF Side(h, w[k - 1], e) = Null THEN w[k - 1]
                                        ELSE Side(h, w[k - 1], e)]

\* The nodes on the way to the largest element.
LargestWay(h, top, K) ==
  CHOOSE w : w = [k \in 0 .. K |-> IF k = 0 THEN top
                                   ELSE IF h[w[k - 1]].right = Null THEN w[k - 1]
                                        ELSE h[w[k - 1]].right]

\* They go down.
LEMMA FindWayIs ==
  ASSUME NEW D, NEW h, NEW e, NEW top \in D, NEW K \in Nat, NEW w, w = FindWay(h, top, e, K),
         NEW s, s = [n \in D |-> Side(h, n, e)], GoesDown(D, h, s)
  PROVE  Iterates(w, K, D, top, Down(D, s))
<1> DEFINE Is(x) == x = [k \in 0 .. K |-> IF k = 0 THEN top
                                          ELSE IF Side(h, x[k - 1], e) = Null THEN x[k - 1]
                                               ELSE Side(h, x[k - 1], e)]
<1>1. PICK next : next = Down(D, s)
  OBVIOUS
<1>2. next \in [D -> D]
  BY <1>1 DEF GoesDown, Down
<1>3. \A n \in D : next[n] = IF Side(h, n, e) = Null THEN n ELSE Side(h, n, e)
  BY <1>1 DEF Down
<1>4. PICK v : Iterates(v, K, D, top, next)
  BY <1>2, IterateExists
<1>5. v \in [0 .. K -> D] /\ v[0] = top /\ \A k \in 1 .. K : v[k] = next[v[k - 1]]
  BY <1>4 DEF Iterates
<1>6. Is(v)
  <2>1. ASSUME NEW k \in 0 .. K
        PROVE  v[k] = IF k = 0 THEN top ELSE IF Side(h, v[k - 1], e) = Null THEN v[k - 1]
                                             ELSE Side(h, v[k - 1], e)
    <3>1. k # 0 => k \in 1 .. K /\ k - 1 \in 0 .. K
      OBVIOUS
    <3>2. k # 0 => v[k - 1] \in D
      BY <1>5, <3>1
    <3> QED BY <3>1, <3>2, <1>3, <1>5
  <2>2. v = [k \in 0 .. K |-> v[k]]
    BY <1>5
  <2> QED BY <2>1, <2>2
<1>7. Is(w)
  <2>1. w = CHOOSE x : Is(x)
    BY DEF FindWay
  <2> HIDE DEF Is
  <2> QED BY <1>6, <2>1
<1>8. w[0] = top
  BY <1>7
<1>9. ASSUME NEW k \in 1 .. K, w[k - 1] \in D PROVE w[k] = next[w[k - 1]]
  <2>1. k \in 0 .. K /\ k # 0
    OBVIOUS
  <2>2. w[k] = IF Side(h, w[k - 1], e) = Null THEN w[k - 1] ELSE Side(h, w[k - 1], e)
    BY <1>7, <2>1
  <2> QED BY <2>2, <1>3, <1>9
<1> DEFINE T == {k \in 0 .. K : w[k] \in D}
<1>10. 0 \in T
  BY <1>8
<1>11. ASSUME NEW k \in 0 .. K - 1, k \in T PROVE k + 1 \in T
  <2>1. k + 1 \in 1 .. K /\ (k + 1) - 1 = k /\ k + 1 \in 0 .. K
    OBVIOUS
  <2>2. w[k + 1] = next[w[k]] /\ w[k] \in D
    BY <1>9, <1>11, <2>1
  <2> QED BY <1>2, <2>1, <2>2
<1>12. \A k \in 0 .. K : w[k] \in D
  <2> HIDE DEF T
  <2>1. 0 .. K \subseteq T
    BY <1>10, <1>11, IntervalInduction
  <2> QED BY <2>1 DEF T
<1>13. \A k \in 1 .. K : w[k] = next[w[k - 1]]
  <2>1. ASSUME NEW k \in 1 .. K PROVE w[k] = next[w[k - 1]]
    <3>1. k - 1 \in 0 .. K
      OBVIOUS
    <3> QED BY <3>1, <1>9, <1>12
  <2> QED BY <2>1
<1>14. w = [k \in 0 .. K |-> w[k]]
  BY <1>7
<1>15. w \in [0 .. K -> D]
  BY <1>12, <1>14
<1> QED BY <1>1, <1>8, <1>13, <1>15 DEF Iterates

\* The same of the way to the right.
LEMMA LargestWayIs ==
  ASSUME NEW D, NEW h, NEW top \in D, NEW K \in Nat, NEW w, w = LargestWay(h, top, K),
         NEW s, s = [n \in D |-> h[n].right], GoesDown(D, h, s)
  PROVE  Iterates(w, K, D, top, Down(D, s))
<1> DEFINE Is(x) == x = [k \in 0 .. K |-> IF k = 0 THEN top
                                          ELSE IF h[x[k - 1]].right = Null THEN x[k - 1]
                                               ELSE h[x[k - 1]].right]
<1>1. PICK next : next = Down(D, s)
  OBVIOUS
<1>2. next \in [D -> D]
  BY <1>1 DEF GoesDown, Down
<1>3. \A n \in D : next[n] = IF h[n].right = Null THEN n ELSE h[n].right
  BY <1>1 DEF Down
<1>4. PICK v : Iterates(v, K, D, top, next)
  BY <1>2, IterateExists
<1>5. v \in [0 .. K -> D] /\ v[0] = top /\ \A k \in 1 .. K : v[k] = next[v[k - 1]]
  BY <1>4 DEF Iterates
<1>6. Is(v)
  <2>1. ASSUME NEW k \in 0 .. K
        PROVE  v[k] = IF k = 0 THEN top ELSE IF h[v[k - 1]].right = Null THEN v[k - 1]
                                             ELSE h[v[k - 1]].right
    <3>1. k # 0 => k \in 1 .. K /\ k - 1 \in 0 .. K
      OBVIOUS
    <3>2. k # 0 => v[k - 1] \in D
      BY <1>5, <3>1
    <3> QED BY <3>1, <3>2, <1>3, <1>5
  <2>2. v = [k \in 0 .. K |-> v[k]]
    BY <1>5
  <2> QED BY <2>1, <2>2
<1>7. Is(w)
  <2>1. w = CHOOSE x : Is(x)
    BY DEF LargestWay
  <2> HIDE DEF Is
  <2> QED BY <1>6, <2>1
<1>8. w[0] = top
  BY <1>7
<1>9. ASSUME NEW k \in 1 .. K, w[k - 1] \in D PROVE w[k] = next[w[k - 1]]
  <2>1. k \in 0 .. K /\ k # 0
    OBVIOUS
  <2>2. w[k] = IF h[w[k - 1]].right = Null THEN w[k - 1] ELSE h[w[k - 1]].right
    BY <1>7, <2>1
  <2> QED BY <2>2, <1>3, <1>9
<1> DEFINE T == {k \in 0 .. K : w[k] \in D}
<1>10. 0 \in T
  BY <1>8
<1>11. ASSUME NEW k \in 0 .. K - 1, k \in T PROVE k + 1 \in T
  <2>1. k + 1 \in 1 .. K /\ (k + 1) - 1 = k /\ k + 1 \in 0 .. K
    OBVIOUS
  <2>2. w[k + 1] = next[w[k]] /\ w[k] \in D
    BY <1>9, <1>11, <2>1
  <2> QED BY <1>2, <2>1, <2>2
<1>12. \A k \in 0 .. K : w[k] \in D
  <2> HIDE DEF T
  <2>1. 0 .. K \subseteq T
    BY <1>10, <1>11, IntervalInduction
  <2> QED BY <2>1 DEF T
<1>13. \A k \in 1 .. K : w[k] = next[w[k - 1]]
  <2>1. ASSUME NEW k \in 1 .. K PROVE w[k] = next[w[k - 1]]
    <3>1. k - 1 \in 0 .. K
      OBVIOUS
    <3> QED BY <3>1, <1>9, <1>12
  <2> QED BY <2>1
<1>14. w = [k \in 0 .. K |-> w[k]]
  BY <1>7
<1>15. w \in [0 .. K -> D]
  BY <1>12, <1>14
<1> QED BY <1>1, <1>8, <1>13, <1>15 DEF Iterates

-----------------------------------------------------------------------------
(* Places and elements                                                     *)

\* q lists the elements in the places of their nodes.
Lists(D, h, N, pos, q) ==
  /\ q \in Seq(Elem) /\ Len(q) = N
  /\ \A n \in D : q[pos[n]] = h[n].data

\* Elements are in the order of their keys.
InKeyOrder(q) == \A i, j \in 1 .. Len(q) : i <= j => Key[q[i]] <= Key[q[j]]

\* i is where e has to enter.
Belongs(q, e, i) ==
  /\ i \in 1 .. Len(q) + 1
  /\ \A j \in 1 .. Len(q) : j < i <=> Key[q[j]] <= Key[e]

\* The keys of the elements.
LEMMA KeyInt == ASSUME NEW q \in Seq(Elem) PROVE \A j \in 1 .. Len(q) : q[j] \in Elem /\ Key[q[j]] \in Int
<1>1. \A j \in 1 .. Len(q) : q[j] \in Elem
  BY ElementOfSeq
<1> QED BY <1>1, AvlAssumption

\* find stops at a node beside which there is room, where the element belongs.
LEMMA FindPlace ==
  ASSUME NEW D, NEW E, NEW h, NEW N, NEW pos, NEW lo, NEW hi, Stands(D, E, h, N, pos, lo, hi),
         NEW q, Lists(D, h, N, pos, q), InKeyOrder(q), D = E,
         NEW top \in D, h[top].parent = Null, NEW e \in Elem, NEW p, p = Find(h, top, e)
  PROVE  /\ p \in D /\ Side(h, p, e) = Null
         /\ Belongs(q, e, IF Key[e] < Key[h[p].data] THEN pos[p] ELSE pos[p] + 1)
<1>1. PICK K : K = Cardinality(E)
  OBVIOUS
<1>2. K \in Nat /\ N \in Nat /\ N <= K
  BY <1>1, StandsCount, StandsFacts
<1>3. PICK s : s = [n \in D |-> Side(h, n, e)]
  OBVIOUS
<1>4. \A n \in D : /\ s[n] = (IF Key[e] < Key[h[n].data] THEN h[n].left ELSE h[n].right)
                   /\ s[n] = Side(h, n, e)
  BY <1>3 DEF Side
<1>5. GoesDown(D, h, s)
  <2>1. \A n \in D : h[n].left \in D \cup {Null} /\ h[n].right \in D \cup {Null}
    BY StandsFacts
  <2>2. s \in [D -> D \cup {Null}]
    BY <1>3, <1>4, <2>1
  <2> QED BY <1>4, <2>2 DEF GoesDown
<1>6. PICK w : w = FindWay(h, top, e, K)
  OBVIOUS
<1>7. Iterates(w, K, D, top, Down(D, s))
  BY <1>2, <1>3, <1>5, <1>6, FindWayIs
<1>8. p = w[K]
  <2>1. DOMAIN h = E
    BY DEF Stands
  <2> QED BY <2>1, <1>1, <1>6 DEF Find, FindWay
<1>9. /\ q \in Seq(Elem) /\ Len(q) = N /\ \A n \in D : q[pos[n]] = h[n].data
      /\ \A i, j \in 1 .. N : i <= j => Key[q[i]] <= Key[q[j]]
  BY DEF Lists, InKeyOrder
<1>10. Key[e] \in Int /\ \A j \in 1 .. N : Key[q[j]] \in Int
  BY <1>9, KeyInt, AvlAssumption
<1>11. \A n \in D : /\ pos[n] \in 1 .. N /\ lo[n] \in 1 .. N /\ hi[n] \in 1 .. N
                    /\ lo[n] <= pos[n] /\ pos[n] <= hi[n]
  BY StandsFacts
<1> DEFINE Facing(n) == /\ \A j \in 1 .. N : j < lo[n] => Key[q[j]] <= Key[e]
                        /\ \A j \in 1 .. N : j > hi[n] => Key[q[j]] > Key[e]
           S == {n \in D : Facing(n)}
<1>12. ASSUME NEW n \in D, Facing(n)
       PROVE  /\ Key[e] < Key[h[n].data] => \A j \in 1 .. N : j >= pos[n] => Key[q[j]] > Key[e]
              /\ ~(Key[e] < Key[h[n].data]) => \A j \in 1 .. N : j <= pos[n] => Key[q[j]] <= Key[e]
  <2>1. q[pos[n]] = h[n].data /\ pos[n] \in 1 .. N
    BY <1>9, <1>11
  <2>2. ASSUME Key[e] < Key[h[n].data], NEW j \in 1 .. N, j >= pos[n] PROVE Key[q[j]] > Key[e]
    <3>1. Key[q[pos[n]]] <= Key[q[j]]
      BY <1>9, <2>1, <2>2
    <3> QED BY <2>1, <2>2, <3>1, <1>10
  <2>3. ASSUME ~(Key[e] < Key[h[n].data]), NEW j \in 1 .. N, j <= pos[n] PROVE Key[q[j]] <= Key[e]
    <3>1. Key[q[j]] <= Key[q[pos[n]]]
      BY <1>9, <2>1, <2>3
    <3> QED BY <2>1, <2>3, <3>1, <1>10
  <2> QED BY <2>2, <2>3
<1>13. Keeps(D, s, S)
  <2>1. ASSUME NEW n \in S, s[n] # Null PROVE s[n] \in S
    <3>1. PICK c : c = s[n]
      OBVIOUS
    <3>2. n \in D /\ c \in D /\ c # Null
      BY <2>1, <3>1, <1>5 DEF GoesDown
    <3>3. CASE Key[e] < Key[h[n].data]
      <4>1. c = h[n].left
        BY <1>4, <3>1, <3>2, <3>3
      <4>2. lo[c] = lo[n] /\ hi[c] = pos[n] - 1
        BY <3>2, <4>1, StandsFacts
      <4>3. \A j \in 1 .. N : j >= pos[n] => Key[q[j]] > Key[e]
        BY <1>12, <3>2, <3>3
      <4>4. pos[n] \in Int
        BY <1>11, <3>2
      <4>5. \A j \in 1 .. N : j > hi[c] => j >= pos[n]
        BY <4>2, <4>4
      <4>6. Facing(c)
        BY <4>2, <4>3, <4>5
      <4> QED BY <3>1, <3>2, <4>6
    <3>4. CASE ~(Key[e] < Key[h[n].data])
      <4>1. c = h[n].right
        BY <1>4, <3>1, <3>2, <3>4
      <4>2. lo[c] = pos[n] + 1 /\ hi[c] = hi[n]
        BY <3>2, <4>1, StandsFacts
      <4>3. \A j \in 1 .. N : j <= pos[n] => Key[q[j]] <= Key[e]
        BY <1>12, <3>2, <3>4
      <4>4. pos[n] \in Int
        BY <1>11, <3>2
      <4>5. \A j \in 1 .. N : j < lo[c] => j <= pos[n]
        BY <4>2, <4>4
      <4>6. Facing(c)
        BY <4>2, <4>3, <4>5
      <4> QED BY <3>1, <3>2, <4>6
    <3> QED BY <3>3, <3>4
  <2> QED BY <2>1 DEF Keeps
<1>14. top \in S
  <2>1. lo[top] = 1 /\ hi[top] = N
    BY StandsFacts
  <2> QED BY <2>1, <1>2
<1>15. p \in S /\ s[p] = Null
  <2> HIDE DEF S
  <2> QED BY <1>2, <1>5, <1>7, <1>8, <1>13, <1>14, WayEnds
<1>16. p \in D /\ Facing(p)
  BY <1>15
<1>17. Side(h, p, e) = Null
  BY <1>4, <1>15, <1>16
<1>18. CASE Key[e] < Key[h[p].data]
  <2>1. h[p].left = Null
    BY <1>4, <1>15, <1>16, <1>18
  <2>2. lo[p] = pos[p]
    BY <1>16, <2>1, StandsFacts
  <2>3. \A j \in 1 .. N : j >= pos[p] => Key[q[j]] > Key[e]
    BY <1>12, <1>16, <1>18
  <2>4. \A j \in 1 .. N : j < pos[p] => Key[q[j]] <= Key[e]
    BY <1>16, <2>2
  <2>5. pos[p] \in 1 .. N
    BY <1>11, <1>16
  <2>6. \A j \in 1 .. N : j < pos[p] <=> Key[q[j]] <= Key[e]
    BY <2>3, <2>4, <2>5, <1>10
  <2>7. pos[p] \in 1 .. N + 1
    BY <2>5, <1>2
  <2>8. Belongs(q, e, pos[p])
    BY <2>6, <2>7, <1>9 DEF Belongs
  <2> QED BY <2>8, <1>16, <1>17, <1>18
<1>19. CASE ~(Key[e] < Key[h[p].data])
  <2>1. h[p].right = Null
    BY <1>4, <1>15, <1>16, <1>19
  <2>2. hi[p] = pos[p]
    BY <1>16, <2>1, StandsFacts
  <2>3. \A j \in 1 .. N : j <= pos[p] => Key[q[j]] <= Key[e]
    BY <1>12, <1>16, <1>19
  <2>4. \A j \in 1 .. N : j > pos[p] => Key[q[j]] > Key[e]
    BY <1>16, <2>2
  <2>5. pos[p] \in 1 .. N
    BY <1>11, <1>16
  <2>6. \A j \in 1 .. N : j < pos[p] + 1 <=> Key[q[j]] <= Key[e]
    BY <2>3, <2>4, <2>5, <1>10
  <2>7. pos[p] + 1 \in 1 .. N + 1
    BY <2>5, <1>2
  <2>8. Belongs(q, e, pos[p] + 1)
    BY <2>6, <2>7, <1>9 DEF Belongs
  <2> QED BY <2>8, <1>16, <1>17, <1>19
<1> QED BY <1>18, <1>19

\* The largest node in the subtree of c has no right child, and its place is
\* the last one of the subtree.
LEMMA LargestPlace ==
  ASSUME NEW D, NEW E, NEW h, NEW N, NEW pos, NEW lo, NEW hi, Stands(D, E, h, N, pos, lo, hi),
         NEW c \in D, NEW y, y = Largest(h, c)
  PROVE  y \in D /\ h[y].right = Null /\ pos[y] = hi[c]
<1>1. PICK K : K = Cardinality(E)
  OBVIOUS
<1>2. K \in Nat /\ N \in Nat /\ N <= K
  BY <1>1, StandsCount, StandsFacts
<1>3. PICK s : s = [n \in D |-> h[n].right]
  OBVIOUS
<1>4. \A n \in D : s[n] = h[n].right
  BY <1>3
<1>5. GoesDown(D, h, s)
  <2>1. \A n \in D : h[n].right \in D \cup {Null}
    BY StandsFacts
  <2> QED BY <1>3, <1>4, <2>1 DEF GoesDown
<1>6. PICK w : w = LargestWay(h, c, K)
  OBVIOUS
<1>7. Iterates(w, K, D, c, Down(D, s))
  BY <1>2, <1>3, <1>5, <1>6, LargestWayIs
<1>8. y = w[K]
  <2>1. DOMAIN h = E
    BY DEF Stands
  <2> QED BY <2>1, <1>1, <1>6 DEF Largest, LargestWay
<1>9. PICK S : S = {n \in D : hi[n] = hi[c]}
  OBVIOUS
<1>10. Keeps(D, s, S)
  <2>1. ASSUME NEW n \in S, s[n] # Null PROVE s[n] \in S
    <3>1. n \in D /\ s[n] = h[n].right /\ h[n].right # Null
      BY <1>4, <1>9, <2>1
    <3>2. h[n].right \in D /\ hi[h[n].right] = hi[n]
      BY <3>1, StandsFacts
    <3> QED BY <1>9, <3>1, <3>2
  <2> QED BY <1>9, <2>1 DEF Keeps
<1>11. c \in S
  BY <1>9
<1>12. y \in S /\ s[y] = Null
  BY <1>2, <1>5, <1>7, <1>8, <1>10, <1>11, WayEnds
<1>13. y \in D /\ h[y].right = Null /\ hi[y] = hi[c]
  BY <1>4, <1>9, <1>12
<1>14. hi[y] = pos[y]
  BY <1>13, StandsFacts
<1> QED BY <1>13, <1>14

-----------------------------------------------------------------------------
(* What is read from left to right                                         *)

\* A part of a sequence is what comes before a position, that and what follows.
LEMMA PartSplits ==
  ASSUME NEW S, NEW q \in Seq(S), NEW a \in 1 .. Len(q), NEW b \in 1 .. Len(q), NEW i \in a .. b
  PROVE  SubSeq(q, a, i - 1) \o <<q[i]>> \o SubSeq(q, i + 1, b) = SubSeq(q, a, b)
<1>1. Len(q) \in Nat /\ a \in Nat /\ b \in Nat /\ i \in Nat /\ i \in 1 .. Len(q) /\ q[i] \in S
  BY LenProperties, ElementOfSeq
<1>2. PICK f, g, w : f = SubSeq(q, a, i - 1) /\ g = SubSeq(q, i + 1, b) /\ w = SubSeq(q, a, b)
  OBVIOUS
<1>3. \A j \in a .. b : q[j] \in S
  <2>1. \A j \in a .. b : j \in 1 .. Len(q)
    BY <1>1
  <2> QED BY <2>1, ElementOfSeq
<1>4. /\ f \in Seq(S) /\ Len(f) = i - a /\ \A j \in 1 .. i - a : f[j] = q[a + j - 1]
  <2>1. \A j \in a .. i - 1 : q[j] \in S
    BY <1>1, <1>3
  <2> QED BY <1>1, <1>2, <2>1, SubSeqProperties
<1>5. /\ g \in Seq(S) /\ Len(g) = b - i /\ \A j \in 1 .. b - i : g[j] = q[i + j]
  <2>1. \A j \in i + 1 .. b : q[j] \in S
    BY <1>1, <1>3
  <2> QED BY <1>1, <1>2, <2>1, SubSeqProperties
<1>6. /\ w \in Seq(S) /\ Len(w) = (b - a) + 1 /\ \A j \in 1 .. (b - a) + 1 : w[j] = q[a + j - 1]
  BY <1>1, <1>2, <1>3, SubSeqProperties
<1>7. PICK x : x = (f \o <<q[i]>>) \o g
  OBVIOUS
<1>8. /\ x \in Seq(S) /\ Len(x) = Len(f) + 1 + Len(g)
      /\ \A j \in 1 .. Len(f) + 1 + Len(g) :
           x[j] = IF j <= Len(f) THEN f[j] ELSE IF j = Len(f) + 1 THEN q[i] ELSE g[j - (Len(f) + 1)]
  <2>1. PICK e \in S : e = q[i]
    BY <1>1
  <2>2. f \in Seq(S) /\ g \in Seq(S) /\ x = (f \o <<e>>) \o g
    BY <1>4, <1>5, <1>7, <2>1
  <2>3. /\ x \in Seq(S) /\ Len(x) = Len(f) + 1 + Len(g)
        /\ \A j \in 1 .. Len(f) + 1 + Len(g) :
             x[j] = IF j <= Len(f) THEN f[j] ELSE IF j = Len(f) + 1 THEN e ELSE g[j - (Len(f) + 1)]
    BY <2>2, SpliceElements
  <2> QED BY <2>1, <2>3
<1>9. Len(x) = Len(w)
  BY <1>1, <1>4, <1>5, <1>6, <1>8
<1>10. ASSUME NEW j \in 1 .. Len(w) PROVE x[j] = w[j]
  <2>1. j \in 1 .. Len(f) + 1 + Len(g) /\ j \in Int /\ j \in 1 .. (b - a) + 1
    BY <1>1, <1>6, <1>8, <1>9
  <2>2. w[j] = q[a + j - 1]
    BY <1>6, <2>1
  <2>3. CASE j <= i - a
    BY <1>1, <1>4, <1>8, <2>1, <2>2, <2>3
  <2>4. CASE j = (i - a) + 1
    <3>1. j = Len(f) + 1 /\ ~(j <= Len(f))
      BY <1>1, <1>4, <2>4
    <3>2. x[j] = q[i]
      BY <1>8, <2>1, <3>1
    <3>3. a + j - 1 = i
      BY <1>1, <2>4
    <3> QED BY <2>2, <3>2, <3>3
  <2>5. CASE j > (i - a) + 1
    <3>1. j - (i - a) - 1 \in 1 .. b - i /\ i + (j - (i - a) - 1) = a + j - 1
      BY <1>1, <2>1, <2>5
    <3>2. x[j] = g[j - (i - a) - 1]
      <4>1. j # Len(f) + 1 /\ ~(j <= Len(f)) /\ j - (Len(f) + 1) = j - (i - a) - 1
        BY <1>1, <1>4, <2>1, <2>5
      <4> QED BY <1>8, <2>1, <4>1
    <3>3. g[j - (i - a) - 1] = q[i + (j - (i - a) - 1)]
      BY <1>5, <3>1
    <3> QED BY <2>2, <3>1, <3>2, <3>3
  <2> QED BY <2>1, <2>3, <2>4, <2>5, <1>1
<1>11. x = w
  BY <1>6, <1>8, <1>9, <1>10, SeqEqual
<1> QED BY <1>2, <1>7, <1>11

\* The function in Ordered.
FromLeft(h) ==
  CHOOSE f : f = [n \in DOMAIN h \cup {Null} |->
                    IF n = Null THEN << >>
                    ELSE f[h[n].left] \o <<h[n].data>> \o f[h[n].right]]

\* The part of q that a subtree stands for.
Part(q, lo, hi, n) == IF n = Null THEN << >> ELSE SubSeq(q, lo[n], hi[n])

\* The part of a node is the one of its left child, its own element and the
\* part of its right child.
LEMMA PartOf ==
  ASSUME NEW D, NEW E, NEW h, NEW N, NEW pos, NEW lo, NEW hi, Stands(D, E, h, N, pos, lo, hi),
         NEW q, Lists(D, h, N, pos, q), NEW n \in D
  PROVE  Part(q, lo, hi, n)
           = Part(q, lo, hi, h[n].left) \o <<h[n].data>> \o Part(q, lo, hi, h[n].right)
<1>1. /\ q \in Seq(Elem) /\ Len(q) = N /\ q[pos[n]] = h[n].data
  BY DEF Lists
<1>2. /\ N \in Nat /\ pos[n] \in 1 .. N /\ lo[n] \in 1 .. N /\ hi[n] \in 1 .. N
      /\ lo[n] <= pos[n] /\ pos[n] <= hi[n] /\ n # Null
  BY StandsFacts
<1>3. PICK a, b, i : a = lo[n] /\ b = hi[n] /\ i = pos[n]
  OBVIOUS
<1>4. SubSeq(q, a, i - 1) \o <<q[i]>> \o SubSeq(q, i + 1, b) = SubSeq(q, a, b)
  <2>1. a \in 1 .. Len(q) /\ b \in 1 .. Len(q) /\ i \in a .. b
    BY <1>1, <1>2, <1>3
  <2> QED BY <1>1, <2>1, PartSplits
<1>5. \A x, y \in Int : y < x => SubSeq(q, x, y) = << >>
  BY <1>1, SubSeqEmpty
<1>6. Part(q, lo, hi, h[n].left) = SubSeq(q, a, i - 1)
  <2>1. CASE h[n].left = Null
    <3>1. a = i
      BY <1>3, <2>1, StandsFacts
    <3>2. SubSeq(q, a, i - 1) = << >>
      BY <1>2, <1>3, <1>5, <3>1
    <3> QED BY <2>1, <3>2 DEF Part
  <2>2. CASE h[n].left # Null
    <3>1. lo[h[n].left] = a /\ hi[h[n].left] = i - 1
      BY <1>3, <2>2, StandsFacts
    <3> QED BY <2>2, <3>1 DEF Part
  <2> QED BY <2>1, <2>2
<1>7. Part(q, lo, hi, h[n].right) = SubSeq(q, i + 1, b)
  <2>1. CASE h[n].right = Null
    <3>1. b = i
      BY <1>3, <2>1, StandsFacts
    <3>2. SubSeq(q, i + 1, b) = << >>
      BY <1>2, <1>3, <1>5, <3>1
    <3> QED BY <2>1, <3>2 DEF Part
  <2>2. CASE h[n].right # Null
    <3>1. lo[h[n].right] = i + 1 /\ hi[h[n].right] = b
      BY <1>3, <2>2, StandsFacts
    <3> QED BY <2>2, <3>1 DEF Part
  <2> QED BY <2>1, <2>2
<1> QED BY <1>1, <1>2, <1>3, <1>4, <1>6, <1>7 DEF Part

\* The function gives every subtree its part.
LEMMA FromLeftIs ==
  ASSUME NEW D, NEW h, NEW N, NEW pos, NEW lo, NEW hi, Stands(D, D, h, N, pos, lo, hi),
         NEW q, Lists(D, h, N, pos, q), NEW w, w = FromLeft(h)
  PROVE  \A n \in D \cup {Null} : w[n] = Part(q, lo, hi, n)
<1> DEFINE Is(f) == f = [n \in DOMAIN h \cup {Null} |->
                           IF n = Null THEN << >>
                           ELSE f[h[n].left] \o <<h[n].data>> \o f[h[n].right]]
<1>1. DOMAIN h = D
  BY DEF Stands
<1>2. N \in Nat /\ Null \notin D
  BY StandsFacts
<1>3. ASSUME NEW n \in D PROVE h[n].left \in D \cup {Null} /\ h[n].right \in D \cup {Null}
  BY StandsFacts
<1>4. PICK v : v = [n \in D \cup {Null} |-> Part(q, lo, hi, n)]
  OBVIOUS
<1>5. Is(v)
  <2>1. ASSUME NEW n \in D \cup {Null}
        PROVE  v[n] = IF n = Null THEN << >> ELSE v[h[n].left] \o <<h[n].data>> \o v[h[n].right]
    <3>1. CASE n = Null
      BY <1>4, <3>1 DEF Part
    <3>2. CASE n # Null
      <4>1. n \in D /\ h[n].left \in D \cup {Null} /\ h[n].right \in D \cup {Null}
        BY <1>3, <3>2
      <4>2. Part(q, lo, hi, n)
              = Part(q, lo, hi, h[n].left) \o <<h[n].data>> \o Part(q, lo, hi, h[n].right)
        BY <4>1, PartOf
      <4> QED BY <1>4, <3>2, <4>1, <4>2
    <3> QED BY <3>1, <3>2
  <2>2. v = [n \in D \cup {Null} |-> v[n]]
    BY <1>4
  <2>3. v = [n \in D \cup {Null} |->
               IF n = Null THEN << >> ELSE v[h[n].left] \o <<h[n].data>> \o v[h[n].right]]
    BY <2>1, <2>2
  <2> QED BY <2>3, <1>1
<1>6. Is(w)
  <2>1. w = CHOOSE f : Is(f)
    BY DEF FromLeft
  <2> HIDE DEF Is
  <2> QED BY <1>5, <2>1
<1>7. \A n \in D \cup {Null} : w[n] = IF n = Null THEN << >>
                                      ELSE w[h[n].left] \o <<h[n].data>> \o w[h[n].right]
  BY <1>1, <1>6
<1>8. w[Null] = Part(q, lo, hi, Null)
  BY <1>7 DEF Part
<1> HIDE DEF Is
<1> DEFINE T == {k \in 0 .. N : \A n \in D : hi[n] - lo[n] < k => w[n] = Part(q, lo, hi, n)}
<1>9. \A n \in D : /\ lo[n] \in 1 .. N /\ hi[n] \in 1 .. N /\ pos[n] \in 1 .. N
                   /\ lo[n] <= pos[n] /\ pos[n] <= hi[n]
  BY StandsFacts
<1>10. 0 \in T
  <2>1. ASSUME NEW n \in D PROVE ~(hi[n] - lo[n] < 0)
    <3>1. lo[n] \in Int /\ hi[n] \in Int /\ pos[n] \in Int /\ lo[n] <= pos[n] /\ pos[n] <= hi[n]
      BY <1>9
    <3> QED BY <3>1
  <2> QED BY <2>1, <1>2
<1>11. ASSUME NEW k \in 0 .. N - 1, k \in T PROVE k + 1 \in T
  <2>1. ASSUME NEW n \in D, hi[n] - lo[n] < k + 1 PROVE w[n] = Part(q, lo, hi, n)
    <3>1. /\ lo[n] \in Int /\ hi[n] \in Int /\ pos[n] \in Int /\ lo[n] <= pos[n] /\ pos[n] <= hi[n]
          /\ k \in Int
      BY <1>9
    <3>2. PICK l, r : l = h[n].left /\ r = h[n].right
      OBVIOUS
    <3>3. l \in D \cup {Null} /\ r \in D \cup {Null}
      BY <1>3, <3>2
    <3>4. w[l] = Part(q, lo, hi, l)
      <4>1. CASE l = Null
        BY <1>8, <4>1
      <4>2. CASE l # Null
        <5>1. lo[l] = lo[n] /\ hi[l] = pos[n] - 1
          BY <3>2, <4>2, StandsFacts
        <5>2. l \in D /\ hi[l] - lo[l] < k
          BY <2>1, <3>1, <3>3, <4>2, <5>1
        <5> QED BY <1>11, <5>2
      <4> QED BY <4>1, <4>2
    <3>5. w[r] = Part(q, lo, hi, r)
      <4>1. CASE r = Null
        BY <1>8, <4>1
      <4>2. CASE r # Null
        <5>1. lo[r] = pos[n] + 1 /\ hi[r] = hi[n]
          BY <3>2, <4>2, StandsFacts
        <5>2. r \in D /\ hi[r] - lo[r] < k
          BY <2>1, <3>1, <3>3, <4>2, <5>1
        <5> QED BY <1>11, <5>2
      <4> QED BY <4>1, <4>2
    <3>6. Part(q, lo, hi, n) = Part(q, lo, hi, l) \o <<h[n].data>> \o Part(q, lo, hi, r)
      BY <3>2, PartOf
    <3>7. w[n] = w[l] \o <<h[n].data>> \o w[r]
      BY <1>2, <1>7, <3>2
    <3> QED BY <3>4, <3>5, <3>6, <3>7
  <2>2. k + 1 \in 0 .. N
    BY <1>2
  <2> QED BY <2>1, <2>2
<1>12. N \in T
  <2>1. N \in 0 .. N
    BY <1>2
  <2> HIDE DEF T
  <2> QED BY <2>1, <1>2, <1>10, <1>11, IntervalInduction
<1>13. ASSUME NEW n \in D PROVE w[n] = Part(q, lo, hi, n)
  <2>1. hi[n] - lo[n] < N
    BY <1>2, <1>9
  <2> QED BY <2>1, <1>12
<1> QED BY <1>8, <1>13

\* The root is the node without a parent; an empty tree has none.
Rooted(D, h, top) ==
  IF D = {} THEN top = Null ELSE top \in D /\ h[top].parent = Null

\* From left to right there are the elements that q lists.
LEMMA OrderedIs ==
  ASSUME NEW D, NEW h, NEW N, NEW pos, NEW lo, NEW hi, Stands(D, D, h, N, pos, lo, hi),
         NEW q, Lists(D, h, N, pos, q), NEW top, Rooted(D, h, top)
  PROVE  FromLeft(h)[top] = q
<1>1. PICK w : w = FromLeft(h)
  OBVIOUS
<1>2. top \in D \cup {Null}
  BY DEF Rooted
<1>3. w[top] = Part(q, lo, hi, top)
  BY <1>1, <1>2, FromLeftIs
<1>4. q \in Seq(Elem) /\ Len(q) = N /\ N \in Nat
  BY StandsFacts DEF Lists
<1>5. CASE D = {}
  <2>1. N = 0
    <3>1. Cardinality(D) = N
      BY StandsCount
    <3> QED BY <3>1, <1>5, FS_EmptySet
  <2>2. q = << >>
    BY <1>4, <2>1, EmptySeq
  <2>3. top = Null
    BY <1>5 DEF Rooted
  <2> QED BY <1>1, <1>3, <2>2, <2>3 DEF Part
<1>6. CASE D # {}
  <2>1. top \in D /\ h[top].parent = Null
    BY <1>6 DEF Rooted
  <2>2. lo[top] = 1 /\ hi[top] = N /\ top # Null
    BY <2>1, StandsFacts
  <2>3. SubSeq(q, 1, N) = q
    BY <1>4, SubSeqFull
  <2> QED BY <1>1, <1>3, <2>2, <2>3 DEF Part
<1> QED BY <1>5, <1>6

-----------------------------------------------------------------------------
(* The state between operations                                            *)

\* The tree with this root lists q, and all its heights are right.
Arranged(h, top, q) ==
  /\ \E N, pos, lo, hi : /\ Stands(DOMAIN h, DOMAIN h, h, N, pos, lo, hi)
                         /\ Lists(DOMAIN h, h, N, pos, q)
  /\ Rooted(DOMAIN h, h, top)
  /\ \A m \in DOMAIN h : Exact(h, m)
  /\ InKeyOrder(q) /\ IsInjective(q)

\* Nodes that are not in the tree can be deleted.
LEMMA TrimStands ==
  ASSUME NEW D, NEW E, NEW h, NEW N, NEW pos, NEW lo, NEW hi, Stands(D, E, h, N, pos, lo, hi),
         NEW g, g = [m \in D |-> h[m]]
  PROVE  /\ Stands(D, D, g, N, pos, lo, hi)
         /\ \A m \in D : g[m] = h[m] /\ (Exact(h, m) => Exact(g, m))
<1>1. \A m \in D : g[m] = h[m]
  OBVIOUS
<1>2. Stands(D, D, g, N, pos, lo, hi)
  <2>1. /\ E \in SUBSET Elem /\ D \subseteq E /\ h \in [E -> Node]
        /\ \A m \in D : h[m].height \in Nat
    BY DEF Stands
  <2>2. D \in SUBSET Elem /\ g \in [D -> Node] /\ \A m \in D : g[m].height \in Nat
    BY <2>1
  <2>3. /\ [m \in D |-> g[m].left] = [m \in D |-> h[m].left]
        /\ [m \in D |-> g[m].right] = [m \in D |-> h[m].right]
        /\ [m \in D |-> g[m].parent] = [m \in D |-> h[m].parent]
    BY <1>1
  <2>4. Shape(D, [m \in D |-> g[m].left], [m \in D |-> g[m].right], [m \in D |-> g[m].parent],
              N, pos, lo, hi)
    BY <2>3 DEF Stands
  <2> QED BY <2>2, <2>4 DEF Stands
<1>3. ASSUME NEW m \in D, Exact(h, m) PROVE Exact(g, m)
  <2>1. h[m].left \in D \cup {Null} /\ h[m].right \in D \cup {Null}
    BY StandsFacts
  <2>2. SameBelow(h, g, m)
    BY <1>1, <2>1 DEF SameBelow
  <2>3. g[m].height = h[m].height
    BY <1>1
  <2> QED BY <1>3, <2>2, <2>3, StillExact
<1> QED BY <1>1, <1>2, <1>3

\* Once the heights are right again the tree lists what it did before.
LEMMA Rebalanced ==
  ASSUME NEW D, NEW E, NEW h, NEW N, NEW pos, NEW lo, NEW hi, Stands(D, E, h, N, pos, lo, hi),
         NEW n \in D, Unsettled(D, h, pos, lo, hi, n),
         NEW q, Lists(D, h, N, pos, q), InKeyOrder(q), IsInjective(q),
         NEW t, t = Rebalance(h, n), NEW g, g = [m \in D |-> t.heap[m]]
  PROVE  Arranged(g, t.top, q) /\ t.heap \in [E -> Node] /\ t.top \in D
<1>1. PICK lo2, hi2 : /\ Stands(D, E, t.heap, N, pos, lo2, hi2)
                      /\ t.top \in D /\ t.heap[t.top].parent = Null
                      /\ \A m \in D : Exact(t.heap, m)
                      /\ \A m \in E : t.heap[m].data = h[m].data
  BY RebalanceStands
<1>2. PICK f : f = t.heap
  OBVIOUS
<1>3. Stands(D, E, f, N, pos, lo2, hi2) /\ g = [m \in D |-> f[m]]
  BY <1>1, <1>2
<1>4. Stands(D, D, g, N, pos, lo2, hi2) /\ \A m \in D : g[m] = f[m] /\ (Exact(f, m) => Exact(g, m))
  BY <1>3, TrimStands
<1>5. DOMAIN g = D
  BY <1>3
<1>6. Lists(D, g, N, pos, q)
  <2>1. D \subseteq E
    BY DEF Stands
  <2> QED BY <1>1, <1>2, <1>4, <2>1 DEF Lists
<1>7. Rooted(D, g, t.top)
  BY <1>1, <1>2, <1>4 DEF Rooted
<1>8. \A m \in D : Exact(g, m)
  BY <1>1, <1>2, <1>4
<1>9. t.heap \in [E -> Node]
  BY <1>1 DEF Stands
<1> QED BY <1>1, <1>4, <1>5, <1>6, <1>7, <1>8, <1>9 DEF Arranged

-----------------------------------------------------------------------------
(* insert                                                                  *)

\* A leaf that is linked to p, to the left or to the right of it.
Grown(D, h, left, p, n, e, g) ==
  /\ g \in [D \cup {n} -> Node]
  /\ g[n].left = Null /\ g[n].right = Null /\ g[n].parent = p /\ g[n].height = 0 /\ g[n].data = e
  /\ \A m \in D :
       /\ g[m].left = (IF m = p /\ left THEN n ELSE h[m].left)
       /\ g[m].right = (IF m = p /\ ~left THEN n ELSE h[m].right)
       /\ g[m].parent = h[m].parent /\ g[m].height = h[m].height /\ g[m].data = h[m].data

\* The links that insert makes.
Planted(D, h, left, p, n, e, g) ==
  \E leaf, f :
    /\ leaf = [data |-> e, left |-> Null, right |-> Null, parent |-> Null, height |-> 0]
    /\ f = [m \in D \cup {n} |-> IF m = n THEN leaf ELSE h[m]]
    /\ g = IF left THEN ConnectLeft(f, p, n) ELSE ConnectRight(f, p, n)

\* What connect_lc and connect_rc write when they plant a leaf.
LEMMA GrownFields ==
  ASSUME NEW D \in SUBSET Elem, NEW h \in [D -> Node], NEW p \in D, NEW n \in Elem, n \notin D,
         NEW e \in Elem, NEW left \in BOOLEAN, NEW g, Planted(D, h, left, p, n, e, g)
  PROVE  Grown(D, h, left, p, n, e, g)
<1>0. PICK leaf, f :
        /\ leaf = [data |-> e, left |-> Null, right |-> Null, parent |-> Null, height |-> 0]
        /\ f = [m \in D \cup {n} |-> IF m = n THEN leaf ELSE h[m]]
        /\ g = IF left THEN ConnectLeft(f, p, n) ELSE ConnectRight(f, p, n)
  BY DEF Planted
<1>1. leaf \in Node
  BY <1>0 DEF Node, Pointer
<1>2. D \cup {n} \in SUBSET Elem /\ f \in [D \cup {n} -> Node] /\ p # n
  BY <1>0, <1>1
<1>3. f[n] = leaf /\ \A m \in D : f[m] = h[m]
  BY <1>0
<1>4. CASE left
  <2>1. LeftSet(D \cup {n}, f, g, p, n)
    BY <1>0, <1>2, <1>4, ConnectLeftFields
  <2> QED BY <2>1, <1>0, <1>2, <1>3, <1>4 DEF LeftSet, Grown
<1>5. CASE ~left
  <2>1. RightSet(D \cup {n}, f, g, p, n)
    BY <1>0, <1>2, <1>5, ConnectRightFields
  <2> QED BY <2>1, <1>0, <1>2, <1>3, <1>5 DEF RightSet, Grown
<1> QED BY <1>4, <1>5

\* Room for the leaf n, at position i below p; the height of p may be wrong.
GrownPlaces(D, g, N, pos, p, n, i, pos2, lo2, hi2) ==
  /\ Stands(D \cup {n}, D \cup {n}, g, N + 1, pos2, lo2, hi2)
  /\ Unsettled(D \cup {n}, g, pos2, lo2, hi2, p)
  /\ pos2 = [m \in D \cup {n} |-> IF m = n THEN i ELSE Moved(pos[m], i)]

\* The tree with the leaf stands; only the height of the node above it may be
\* wrong.
LEMMA GrownStands ==
  ASSUME NEW D, NEW h, NEW N, NEW pos, NEW lo, NEW hi, Stands(D, D, h, N, pos, lo, hi),
         \A m \in D : Exact(h, m),
         NEW p \in D, NEW n \in Elem, n \notin D, NEW left \in BOOLEAN,
         (IF left THEN h[p].left ELSE h[p].right) = Null,
         NEW e, NEW g, Grown(D, h, left, p, n, e, g),
         NEW i, i = IF left THEN pos[p] ELSE pos[p] + 1
  PROVE  \E pos2, lo2, hi2 : GrownPlaces(D, g, N, pos, p, n, i, pos2, lo2, hi2)
<1>1. PICK E : E = D \cup {n}
  OBVIOUS
<1>2. /\ D \in SUBSET Elem /\ h \in [D -> Node] /\ E \in SUBSET Elem
      /\ Shape(D, [m \in D |-> h[m].left], [m \in D |-> h[m].right], [m \in D |-> h[m].parent],
               N, pos, lo, hi)
      /\ \A m \in D : h[m].height \in Nat
  BY <1>1 DEF Stands
<1>3. n # Null /\ \A m \in D : /\ h[m].left \in D \cup {Null} /\ h[m].right \in D \cup {Null}
                               /\ h[m].parent \in D \cup {Null}
  BY StandsFacts, AvlAssumption
<1>4. PICK l, r, u : /\ l = [m \in D |-> h[m].left] /\ r = [m \in D |-> h[m].right]
                     /\ u = [m \in D |-> h[m].parent]
  OBVIOUS
<1>5. Shape(D, l, r, u, N, pos, lo, hi)
  BY <1>2, <1>4
<1>6. PICK l2, r2, u2 : /\ l2 = [m \in E |-> g[m].left] /\ r2 = [m \in E |-> g[m].right]
                        /\ u2 = [m \in E |-> g[m].parent]
  OBVIOUS
<1>7. /\ g \in [E -> Node] /\ g[n].left = Null /\ g[n].right = Null /\ g[n].parent = p
      /\ g[n].height = 0
      /\ \A m \in D : /\ g[m].left = (IF m = p /\ left THEN n ELSE h[m].left)
                      /\ g[m].right = (IF m = p /\ ~left THEN n ELSE h[m].right)
                      /\ g[m].parent = h[m].parent /\ g[m].height = h[m].height
  BY <1>1 DEF Grown
<1>8. /\ l2 \in [E -> E \cup {Null}] /\ r2 \in [E -> E \cup {Null}] /\ u2 \in [E -> E \cup {Null}]
  <2>1. ASSUME NEW m \in E
        PROVE  /\ g[m].left \in E \cup {Null} /\ g[m].right \in E \cup {Null}
               /\ g[m].parent \in E \cup {Null}
    <3>1. CASE m = n
      BY <1>1, <1>7, <3>1
    <3>2. CASE m # n
      BY <1>1, <1>3, <1>7, <3>2
    <3> QED BY <3>1, <3>2
  <2> QED BY <2>1, <1>6
<1>9. \E pos2, lo2, hi2 :
        /\ Shape(E, l2, r2, u2, N + 1, pos2, lo2, hi2)
        /\ pos2 = [m \in E |-> IF m = n THEN i ELSE Moved(pos[m], i)]
  <2>1. CASE left
    <3>1. \A m \in E :
            /\ l2[m] = (IF m = n THEN Null ELSE IF m = p THEN n ELSE l[m])
            /\ r2[m] = (IF m = n THEN Null ELSE r[m])
            /\ u2[m] = (IF m = n THEN p ELSE u[m])
      BY <1>1, <1>4, <1>6, <1>7, <2>1
    <3>2. LeafLinked(D, l, r, u, p, n, l2, r2, u2)
      BY <1>1, <1>8, <3>1 DEF LeafLinked
    <3>3. PICK pos2, lo2, hi2 : Widened(D, pos, lo, hi, i, n, pos2, lo2, hi2)
      BY DEF Widened
    <3>4. l[p] = Null /\ i = pos[p]
      BY <1>4, <2>1
    <3>5. Widened(D, pos, lo, hi, pos[p], n, pos2, lo2, hi2)
      BY <3>3, <3>4
    <3>6. Shape(E, l2, r2, u2, N + 1, pos2, lo2, hi2)
      BY <1>1, <1>3, <1>5, <3>2, <3>4, <3>5, LeafShape
    <3> QED BY <1>1, <3>3, <3>6 DEF Widened
  <2>2. CASE ~left
    <3>1. \A m \in E :
            /\ r2[m] = (IF m = n THEN Null ELSE IF m = p THEN n ELSE r[m])
            /\ l2[m] = (IF m = n THEN Null ELSE l[m])
            /\ u2[m] = (IF m = n THEN p ELSE u[m])
      BY <1>1, <1>4, <1>6, <1>7, <2>2
    <3>2. LeafLinked(D, r, l, u, p, n, r2, l2, u2)
      BY <1>1, <1>8, <3>1 DEF LeafLinked
    <3>3. PICK pos2, lo2, hi2 : WidenedBack(D, pos, lo, hi, i, n, pos2, lo2, hi2)
      BY DEF WidenedBack
    <3>4. r[p] = Null /\ i = pos[p] + 1
      BY <1>4, <2>2
    <3>5. WidenedBack(D, pos, lo, hi, pos[p] + 1, n, pos2, lo2, hi2)
      BY <3>3, <3>4
    <3>6. Shape(E, l2, r2, u2, N + 1, pos2, lo2, hi2)
      BY <1>1, <1>3, <1>5, <3>2, <3>4, <3>5, LeafBackShape
    <3> QED BY <1>1, <3>3, <3>6 DEF WidenedBack
  <2> QED BY <2>1, <2>2
<1>10. PICK pos2, lo2, hi2 :
         /\ Shape(E, l2, r2, u2, N + 1, pos2, lo2, hi2)
         /\ pos2 = [m \in E |-> IF m = n THEN i ELSE Moved(pos[m], i)]
  BY <1>9
<1>11. Stands(E, E, g, N + 1, pos2, lo2, hi2)
  <2>1. \A m \in E : g[m].height \in Nat
    BY <1>1, <1>2, <1>7
  <2> QED BY <1>2, <1>6, <1>7, <1>10, <2>1 DEF Stands
<1>12. ASSUME NEW m \in E, m # p PROVE Exact(g, m)
  <2>1. CASE m = n
    BY <2>1, <1>7 DEF Exact, HeightFrom, HeightOf
  <2>2. CASE m # n
    <3>1. m \in D
      BY <1>1, <2>2
    <3>2. SameBelow(h, g, m)
      BY <1>3, <1>7, <1>12, <3>1 DEF SameBelow
    <3>3. g[m].height = h[m].height /\ Exact(h, m)
      BY <1>7, <3>1
    <3> QED BY <3>2, <3>3, StillExact
  <2> QED BY <2>1, <2>2
<1>13. Unsettled(E, g, pos2, lo2, hi2, p)
  <2>1. p \in E /\ p # Null
    BY <1>1, <1>2, AvlAssumption
  <2>2. lo2[p] <= pos2[p] /\ pos2[p] <= hi2[p]
    BY <1>11, <2>1, StandsFacts
  <2> QED BY <1>12, <2>1, <2>2 DEF Unsettled, Covers
<1> QED BY <1>1, <1>10, <1>11, <1>13 DEF GrownPlaces

\* Every element listed is at a node, and at one only.
LEMMA ListsFacts ==
  ASSUME NEW D, NEW E, NEW h, NEW N, NEW pos, NEW lo, NEW hi, Stands(D, E, h, N, pos, lo, hi),
         NEW q, Lists(D, h, N, pos, q)
  PROVE  /\ N \in Nat /\ q \in Seq(Elem) /\ Len(q) = N /\ DOMAIN q = 1 .. N
         /\ \A j \in 1 .. N : q[j] \in Elem /\ \E n \in D : pos[n] = j /\ q[j] = h[n].data
         /\ \A n \in D : h[n].data = q[pos[n]] /\ h[n].data \in Elem /\ pos[n] \in 1 .. N
<1>1. N \in Nat /\ q \in Seq(Elem) /\ Len(q) = N /\ \A n \in D : q[pos[n]] = h[n].data
  BY StandsFacts DEF Lists
<1>2. DOMAIN q = 1 .. N
  BY <1>1
<1>3. \A j \in 1 .. N : q[j] \in Elem
  BY <1>1, ElementOfSeq
<1>4. \A j \in 1 .. N : \E n \in D : pos[n] = j
  <2>1. PICK l, r, u : Shape(D, l, r, u, N, pos, lo, hi)
    BY DEF Stands
  <2> QED BY <2>1 DEF Shape, Places
<1>5. \A n \in D : pos[n] \in 1 .. N
  BY StandsFacts
<1> QED BY <1>1, <1>2, <1>3, <1>4, <1>5

\* If an element is in no node, there is an address for its node.
LEMMA NewNode ==
  ASSUME NEW q, Arranged(heap, root, q), NEW e \in Elem, \A m \in DOMAIN heap : heap[m].data # e
  PROVE  New(e) \in Elem /\ New(e) \notin DOMAIN heap
<1>1. PICK D : D = DOMAIN heap
  OBVIOUS
<1>2. PICK N, pos, lo, hi : Stands(D, D, heap, N, pos, lo, hi) /\ Lists(D, heap, N, pos, q)
  BY <1>1 DEF Arranged
<1>3. D \in SUBSET Elem
  BY <1>2 DEF Stands
<1>4. Elem \ D # {}
  <2> SUFFICES ASSUME Elem = D PROVE FALSE
    BY <1>3
  <2>1. PICK f : f = [n \in D |-> heap[n].data]
    OBVIOUS
  <2>2. f \in [D -> D]
    BY <1>2, <2>1, ListsFacts
  <2>3. IsInjective(f)
    <3>1. ASSUME NEW a \in D, NEW b \in D, f[a] = f[b] PROVE a = b
      <4>1. q[pos[a]] = q[pos[b]] /\ pos[a] \in DOMAIN q /\ pos[b] \in DOMAIN q
        BY <1>2, <2>1, <3>1, ListsFacts
      <4>2. pos[a] = pos[b]
        BY <4>1 DEF Arranged, IsInjective
      <4> QED BY <1>2, <4>2, StandsFacts
    <3> QED BY <2>1, <3>1 DEF IsInjective
  <2>4. f \in Injection(D, D)
    BY <2>2, <2>3 DEF Injection
  <2>5. f \in Surjection(D, D)
    BY <2>4, AvlAssumption, FS_Injection
  <2> QED BY <1>1, <2>1, <2>5 DEF Surjection
<1>5. CASE e \notin D
  BY <1>1, <1>5 DEF New
<1>6. CASE e \in D
  <2>1. \E n \in Elem \ D : \A m \in Elem \ D : n <= m
    <3>1. Elem \ D \subseteq Nat
      BY AvlAssumption
    <3> QED BY <1>4, <3>1, MinProperties
  <2>2. New(e) = CHOOSE n \in Elem \ D : \A m \in Elem \ D : n <= m
    BY <1>1, <1>6 DEF New
  <2> QED BY <1>1, <2>1, <2>2
<1> QED BY <1>5, <1>6

\* What InsertAt does.
Inserted(q, N, i, e, q2) ==
  /\ q2 \in Seq(Elem) /\ Len(q2) = N + 1
  /\ \A j \in 1 .. N + 1 : q2[j] = IF j < i THEN q[j] ELSE IF j = i THEN e ELSE q[j - 1]

\* InsertAt does that.
LEMMA InsertedAt ==
  ASSUME NEW q \in Seq(Elem), NEW i \in 1 .. Len(q) + 1, NEW e \in Elem
  PROVE  Inserted(q, Len(q), i, e, InsertAt(q, i, e))
<1>1. PICK q2 : q2 = InsertAt(q, i, e)
  OBVIOUS
<1>2. /\ InsertAt(q, i, e) \in Seq(Elem) /\ Len(InsertAt(q, i, e)) = Len(q) + 1
      /\ \A j \in 1 .. Len(q) + 1 :
           InsertAt(q, i, e)[j] = IF j < i THEN q[j] ELSE IF j = i THEN e ELSE q[j - 1]
  <2>1. q \in Seq(Elem) /\ e \in Elem /\ i \in 1 .. Len(q) + 1
    OBVIOUS
  <2> QED BY ONLY <2>1, InsertAtElements
<1>3. Inserted(q, Len(q), i, e, q2)
  BY <1>1, <1>2, Zenon DEF Inserted
<1> QED BY <1>1, <1>3

\* The element is listed where its node is.
LEMMA ListsGrown ==
  ASSUME NEW D, NEW h, NEW N, NEW pos, NEW lo, NEW hi, Stands(D, D, h, N, pos, lo, hi),
         NEW q, Lists(D, h, N, pos, q), NEW left, NEW p, NEW n, n \notin D, NEW e \in Elem,
         NEW g, Grown(D, h, left, p, n, e, g), NEW i \in 1 .. N + 1,
         NEW pos2, pos2 = [m \in D \cup {n} |-> IF m = n THEN i ELSE Moved(pos[m], i)]
  PROVE  Lists(D \cup {n}, g, N + 1, pos2, InsertAt(q, i, e))
<1>1. /\ N \in Nat /\ q \in Seq(Elem) /\ Len(q) = N
      /\ \A m \in D : h[m].data = q[pos[m]] /\ pos[m] \in 1 .. N
  BY ListsFacts
<1>2. PICK q2 : q2 = InsertAt(q, i, e)
  OBVIOUS
<1>3. /\ q2 \in Seq(Elem) /\ Len(q2) = N + 1
      /\ \A j \in 1 .. N + 1 : q2[j] = IF j < i THEN q[j] ELSE IF j = i THEN e ELSE q[j - 1]
  <2>1. i \in 1 .. Len(q) + 1 /\ Len(q) = N
    BY <1>1
  <2>2. Inserted(q, Len(q), i, e, q2)
    BY <1>1, <1>2, <2>1, InsertedAt
  <2> QED BY <2>1, <2>2 DEF Inserted
<1>4. q2[pos2[n]] = g[n].data
  BY <1>1, <1>3 DEF Grown
<1>5. ASSUME NEW m \in D PROVE q2[pos2[m]] = g[m].data
  <2>1. pos2[m] = Moved(pos[m], i) /\ pos[m] \in 1 .. N /\ g[m].data = q[pos[m]]
    BY <1>1 DEF Grown
  <2>2. CASE pos[m] >= i
    <3>1. pos2[m] = pos[m] + 1
      BY <2>1, <2>2 DEF Moved
    <3>2. /\ pos[m] + 1 \in 1 .. N + 1 /\ ~(pos[m] + 1 < i) /\ pos[m] + 1 # i
          /\ (pos[m] + 1) - 1 = pos[m]
      BY <1>1, <2>1, <2>2
    <3>3. q2[pos[m] + 1] = q[pos[m]]
      BY <1>3, <3>2
    <3> QED BY <2>1, <3>1, <3>3
  <2>3. CASE ~(pos[m] >= i)
    <3>1. pos2[m] = pos[m]
      BY <2>1, <2>3 DEF Moved
    <3>2. pos[m] \in 1 .. N + 1 /\ pos[m] < i
      BY <1>1, <2>1, <2>3
    <3> QED BY <1>3, <2>1, <3>1, <3>2
  <2> QED BY <2>2, <2>3
<1> QED BY <1>2, <1>3, <1>4, <1>5 DEF Lists

\* An element where it belongs keeps the order, and each element is there once.
LEMMA OrderGrown ==
  ASSUME NEW q \in Seq(Elem), InKeyOrder(q), IsInjective(q), NEW e \in Elem,
         \A j \in 1 .. Len(q) : q[j] # e, NEW i, Belongs(q, e, i)
  PROVE  InKeyOrder(InsertAt(q, i, e)) /\ IsInjective(InsertAt(q, i, e))
<1>1. PICK N : N = Len(q)
  OBVIOUS
<1>2. /\ N \in Nat /\ i \in 1 .. N + 1
      /\ \A j \in 1 .. N : j < i <=> Key[q[j]] <= Key[e]
      /\ \A j, k \in 1 .. N : j <= k => Key[q[j]] <= Key[q[k]]
  BY <1>1 DEF Belongs, InKeyOrder
<1>3. Key[e] \in Int /\ \A j \in 1 .. N : Key[q[j]] \in Int
  BY <1>1, KeyInt, AvlAssumption
<1>4. PICK q2 : q2 = InsertAt(q, i, e)
  OBVIOUS
<1>5. /\ q2 \in Seq(Elem) /\ Len(q2) = N + 1
      /\ \A j \in 1 .. N + 1 : q2[j] = IF j < i THEN q[j] ELSE IF j = i THEN e ELSE q[j - 1]
  <2>1. i \in 1 .. Len(q) + 1 /\ Len(q) = N
    BY <1>1, <1>2
  <2>2. Inserted(q, Len(q), i, e, q2)
    BY <1>1, <1>4, <2>1, InsertedAt
  <2> QED BY <2>1, <2>2 DEF Inserted
<1>6. ASSUME NEW a \in 1 .. N + 1, NEW b \in 1 .. N + 1, a <= b
      PROVE  Key[q2[a]] <= Key[q2[b]]
  <2>0. a \in Int /\ b \in Int /\ i \in Int
    BY <1>2
  <2>1. CASE a < i /\ b < i
    <3>1. a \in 1 .. N /\ b \in 1 .. N /\ q2[a] = q[a] /\ q2[b] = q[b]
      BY <1>2, <1>5, <2>0, <2>1
    <3> QED BY <1>2, <1>6, <3>1
  <2>2. CASE a < i /\ b = i
    <3>1. a \in 1 .. N /\ q2[a] = q[a] /\ q2[b] = e
      BY <1>2, <1>5, <2>0, <2>2
    <3> QED BY <1>2, <2>2, <3>1
  <2>3. CASE a < i /\ b > i
    <3>1. a \in 1 .. N /\ b - 1 \in 1 .. N /\ a <= b - 1 /\ q2[a] = q[a] /\ q2[b] = q[b - 1]
      BY <1>2, <1>5, <2>0, <2>3
    <3> QED BY <1>2, <3>1
  <2>4. CASE a = i /\ b = i
    <3>1. q2[a] = e /\ q2[b] = e
      BY <1>5, <2>0, <2>4
    <3> QED BY <1>3, <3>1
  <2>5. CASE a = i /\ b > i
    <3>1. b - 1 \in 1 .. N /\ ~(b - 1 < i) /\ q2[a] = e /\ q2[b] = q[b - 1]
      BY <1>2, <1>5, <2>0, <2>5
    <3>2. ~(Key[q[b - 1]] <= Key[e]) /\ Key[q[b - 1]] \in Int
      BY <1>2, <1>3, <3>1
    <3> QED BY <1>3, <3>1, <3>2
  <2>6. CASE a > i
    <3>1. /\ a - 1 \in 1 .. N /\ b - 1 \in 1 .. N /\ a - 1 <= b - 1 /\ q2[a] = q[a - 1]
          /\ q2[b] = q[b - 1]
      <4>1. ~(a < i) /\ a # i /\ ~(b < i) /\ b # i
        BY <1>6, <2>0, <2>6
      <4>2. q2[a] = q[a - 1] /\ q2[b] = q[b - 1]
        BY <1>5, <4>1
      <4>3. a - 1 \in 1 .. N /\ b - 1 \in 1 .. N /\ a - 1 <= b - 1
        BY <1>2, <1>6, <2>0, <2>6
      <4> QED BY <4>2, <4>3
    <3> QED BY <1>2, <3>1
  <2> QED BY <1>6, <2>0, <2>1, <2>2, <2>3, <2>4, <2>5, <2>6
<1>7. InKeyOrder(q2)
  BY <1>5, <1>6 DEF InKeyOrder
<1>8. e \notin Range(q)
  BY <1>1 DEF Range
<1>9. IsInjective(q2)
  BY <1>1, <1>2, <1>4, <1>8, InsertAtRange
<1> QED BY <1>4, <1>7, <1>9

\* insert into an empty tree.
LEMMA InsertFirst ==
  ASSUME NEW q, Arranged(heap, root, q), NEW e \in Elem, NEW n \in Elem, root = Null, NEW leaf,
         leaf = [data |-> e, left |-> Null, right |-> Null, parent |-> Null, height |-> 0],
         NEW g, g = [m \in DOMAIN heap \cup {n} |-> IF m = n THEN leaf ELSE heap[m]]
  PROVE  \E i : Belongs(q, e, i) /\ Arranged(g, n, InsertAt(q, i, e))
<1>1. PICK D : D = DOMAIN heap
  OBVIOUS
<1>2. PICK N, pos, lo, hi : Stands(D, D, heap, N, pos, lo, hi) /\ Lists(D, heap, N, pos, q)
  BY <1>1 DEF Arranged
<1>3. Null \notin D /\ D = {}
  <2>1. Null \notin D
    BY <1>2, StandsFacts
  <2> QED BY <1>1, <2>1 DEF Arranged, Rooted
<1>4. q = << >>
  <2>1. Cardinality(D) = N
    BY <1>2, StandsCount
  <2>2. N = 0
    BY <1>3, <2>1, FS_EmptySet
  <2>3. q \in Seq(Elem) /\ Len(q) = 0
    BY <1>2, <2>2 DEF Lists
  <2> QED BY <2>3, EmptySeq
<1>5. PICK q2 : q2 = InsertAt(q, 1, e)
  OBVIOUS
<1>6. Belongs(q, e, 1)
  BY <1>4 DEF Belongs
<1>7. q2 \in Seq(Elem) /\ Len(q2) = 1 /\ q2[1] = e
  <2>1. q \in Seq(Elem) /\ Len(q) = 0 /\ 1 \in 1 .. Len(q) + 1
    BY <1>4
  <2>2. Inserted(q, Len(q), 1, e, q2)
    BY <1>5, <2>1, InsertedAt
  <2> QED BY <2>1, <2>2 DEF Inserted
<1>8. PICK E : E = {n}
  OBVIOUS
<1>9. DOMAIN g = E /\ g[n] = leaf /\ g \in [E -> Node]
  BY <1>1, <1>3, <1>8 DEF Node, Pointer
<1>10. n # Null /\ E \in SUBSET Elem
  BY <1>8, AvlAssumption
<1>11. PICK o : o = [m \in E |-> 1]
  OBVIOUS
<1>12. PICK z : z = [m \in E |-> Null]
  OBVIOUS
<1>13. Shape(E, z, z, z, 1, o, o, o)
  <2>1. Places(E, 1, o, o, o)
    BY <1>8, <1>11 DEF Places
  <2>2. LeftPlaces(E, z, z, o, o, o) /\ RightPlaces(E, z, z, o, o, o)
    BY <1>8, <1>11, <1>12 DEF LeftPlaces, RightPlaces
  <2>3. UpPlaces(E, z, z, z, 1, o, o, o)
    BY <1>8, <1>11, <1>12 DEF UpPlaces
  <2> QED BY <1>8, <1>10, <1>12, <2>1, <2>2, <2>3 DEF Shape
<1>14. Stands(E, E, g, 1, o, o, o)
  <2>1. /\ [m \in E |-> g[m].left] = z /\ [m \in E |-> g[m].right] = z
        /\ [m \in E |-> g[m].parent] = z
    BY <1>8, <1>9, <1>12
  <2> QED BY <1>8, <1>9, <1>10, <1>13, <2>1 DEF Stands
<1>15. Lists(E, g, 1, o, q2)
  BY <1>7, <1>8, <1>9, <1>11 DEF Lists
<1>16. Rooted(E, g, n)
  BY <1>8, <1>9 DEF Rooted
<1>17. \A m \in E : Exact(g, m)
  BY <1>8, <1>9 DEF Exact, HeightFrom, HeightOf
<1>18. InKeyOrder(q2) /\ IsInjective(q2)
  <2>1. DOMAIN q2 = {1} /\ Key[e] \in Int
    BY <1>7, AvlAssumption
  <2>2. IsInjective(q2)
    BY <2>1 DEF IsInjective
  <2>3. InKeyOrder(q2)
    BY <1>7, <2>1 DEF InKeyOrder
  <2> QED BY <2>2, <2>3
<1> QED BY <1>5, <1>6, <1>9, <1>14, <1>15, <1>16, <1>17, <1>18 DEF Arranged

\* An insertion into an even tree begins with the growth of one subtree.
LEMMA GrownGrows ==
  ASSUME NEW D, NEW h, NEW N, NEW pos, NEW lo, NEW hi, Stands(D, D, h, N, pos, lo, hi),
         \A m \in D : Even(h, m),
         NEW p \in D, NEW n \in Elem, n \notin D, NEW left \in BOOLEAN,
         (IF left THEN h[p].left ELSE h[p].right) = Null,
         NEW e, NEW g, Grown(D, h, left, p, n, e, g)
  PROVE  Growing(D \cup {n}, g, p, n)
<1>1. n # Null /\ p # n /\ Null \notin D
  BY AvlAssumption, StandsFacts
<1>2. Even(g, n) /\ g[n].height = 0
  BY DEF Grown, Even, Exact, Level, HeightFrom, HeightOf
<1>3. \A x \in D \cup {Null} : HeightOf(g, x) = HeightOf(h, x)
  BY <1>1 DEF Grown, HeightOf
<1>4. ASSUME NEW m \in D, m # p PROVE Even(g, m)
  <2>1. h[m].left \in D \cup {Null} /\ h[m].right \in D \cup {Null}
    BY StandsFacts
  <2>2. g[m].left = h[m].left /\ g[m].right = h[m].right /\ g[m].height = h[m].height
    BY <1>4 DEF Grown
  <2>3. Alike(h, g, m)
    BY <1>3, <2>1, <2>2 DEF Alike
  <2> QED BY <2>3, AlikeEven
<1>5. PICK x, y : x = HeightOf(h, h[p].left) /\ y = HeightOf(h, h[p].right)
  OBVIOUS
<1>6. x \in Int /\ y \in Int /\ x - y \in -1 .. 1 /\ h[p].height = IF x > y THEN x + 1 ELSE y + 1
  <2>1. x \in Int /\ y \in Int
    BY <1>5, HeightInt, StandsFacts
  <2>2. Even(h, p)
    OBVIOUS
  <2> QED BY <1>5, <2>1, <2>2 DEF Even, Exact, Level, HeightFrom
<1>7. h[p].left \in D \cup {Null} /\ h[p].right \in D \cup {Null} /\ g[p].height = h[p].height
  BY StandsFacts DEF Grown
<1>8. CASE left
  <2>1. g[p].left = n /\ g[p].right = h[p].right /\ x = -1
    BY <1>5, <1>8 DEF Grown, HeightOf
  <2>2. Outgrown(g, p, n, g[p].right)
    BY <1>2, <1>3, <1>5, <1>6, <1>7, <2>1 DEF Outgrown
  <2> QED BY <1>1, <1>2, <1>4, <2>1, <2>2 DEF Growing
<1>9. CASE ~left
  <2>1. g[p].right = n /\ g[p].left = h[p].left /\ y = -1
    BY <1>5, <1>9 DEF Grown, HeightOf
  <2>2. Outgrown(g, p, n, g[p].left)
    <3>1. /\ h[p].height = IF y > x THEN y + 1 ELSE x + 1
          /\ y - x \in -1 .. 1
      BY <1>6
    <3>2. g[n].height - 1 = y /\ HeightOf(g, g[p].left) = x
      BY <1>2, <1>3, <1>5, <1>7, <2>1
    <3> QED BY <1>7, <3>1, <3>2 DEF Outgrown
  <2> QED BY <1>1, <1>2, <1>4, <2>1, <2>2 DEF Growing
<1> QED BY <1>8, <1>9

\* insert puts the element where it belongs, and keeps a balanced tree balanced.
LEMMA InsertArranges ==
  ASSUME NEW q, Arranged(heap, root, q), NEW e \in Elem, InsertNode(e)
  PROVE  /\ \E i : Belongs(q, e, i) /\ Arranged(heap', root', InsertAt(q, i, e))
         /\ Balanced => Balanced'
<1>1. PICK D, n, leaf, f, p, left :
        /\ D = DOMAIN heap /\ n = New(e)
        /\ leaf = [data |-> e, left |-> Null, right |-> Null, parent |-> Null, height |-> 0]
        /\ f = [m \in D \cup {n} |-> IF m = n THEN leaf ELSE heap[m]]
        /\ p = Find(heap, root, e)
        /\ left = IF Key[e] < Key[heap[p].data] THEN TRUE ELSE FALSE
  OBVIOUS
<1>2. PICK g : g = IF left THEN ConnectLeft(f, p, n) ELSE ConnectRight(f, p, n)
  OBVIOUS
<1>3. PICK t : t = Rebalance(g, p)
  OBVIOUS
<1>4. \A m \in D : heap[m].data # e
  BY <1>1 DEF InsertNode
<1>5. /\ root = Null => heap' = f /\ root' = n
      /\ root # Null => heap' = t.heap /\ root' = t.top
  BY <1>1, <1>2, <1>3 DEF InsertNode
<1>6. n \in Elem /\ n \notin D
  BY <1>1, <1>4, NewNode
<1>7. CASE root = Null
  <2>1. \E i : Belongs(q, e, i) /\ Arranged(heap', root', InsertAt(q, i, e))
    BY <1>1, <1>5, <1>6, <1>7, InsertFirst
  <2>2. D = {}
    <3>1. Null \notin D
      <4>1. \E N, pos, lo, hi : Stands(D, D, heap, N, pos, lo, hi)
        BY <1>1 DEF Arranged
      <4> QED BY <4>1, StandsFacts
    <3> QED BY <1>1, <1>7, <3>1 DEF Arranged, Rooted
  <2>3. heap' = [m \in {n} |-> leaf]
    BY <1>1, <1>5, <1>7, <2>2
  <2>4. Balanced'
    BY <1>1, <2>3 DEF Balanced, HeightOf
  <2> QED BY <2>1, <2>4
<1>8. CASE root # Null
  <2>1. PICK N, pos, lo, hi : Stands(D, D, heap, N, pos, lo, hi) /\ Lists(D, heap, N, pos, q)
    BY <1>1 DEF Arranged
  <2>2. InKeyOrder(q) /\ IsInjective(q) /\ \A m \in D : Exact(heap, m)
    BY <1>1 DEF Arranged
  <2>3. root \in D /\ heap[root].parent = Null
    BY <1>1, <1>8 DEF Arranged, Rooted
  <2>4. PICK i : i = IF left THEN pos[p] ELSE pos[p] + 1
    OBVIOUS
  <2>5. p \in D /\ Side(heap, p, e) = Null /\ Belongs(q, e, i)
    BY <1>1, <2>1, <2>2, <2>3, <2>4, FindPlace
  <2>6. left \in BOOLEAN /\ (IF left THEN heap[p].left ELSE heap[p].right) = Null
    BY <1>1, <2>5 DEF Side
  <2>7. D \in SUBSET Elem /\ heap \in [D -> Node]
    BY <2>1 DEF Stands
  <2>8. Grown(D, heap, left, p, n, e, g)
    <3>1. leaf = [data |-> e, left |-> Null, right |-> Null, parent |-> Null, height |-> 0]
      BY <1>1
    <3>2. f = [m \in D \cup {n} |-> IF m = n THEN leaf ELSE heap[m]]
      BY <1>1
    <3>3. p \in D /\ left \in BOOLEAN
      BY <2>5, <2>6
    <3>4. n \in Elem /\ n \notin D /\ D \in SUBSET Elem /\ heap \in [D -> Node] /\ p \in D
      BY <1>6, <2>7, <3>3
    <3>5. left \in BOOLEAN
      BY <3>3
    <3>6. Planted(D, heap, left, p, n, e, g)
      BY <1>2, <3>1, <3>2, Zenon DEF Planted
    <3> QED BY <3>4, <3>5, <3>6, GrownFields
  <2>9. PICK pos2, lo2, hi2 :
          /\ GrownPlaces(D, g, N, pos, p, n, i, pos2, lo2, hi2)
          /\ Stands(D \cup {n}, D \cup {n}, g, N + 1, pos2, lo2, hi2)
          /\ Unsettled(D \cup {n}, g, pos2, lo2, hi2, p)
          /\ pos2 = [m \in D \cup {n} |-> IF m = n THEN i ELSE Moved(pos[m], i)]
    <3>1. \E pos2, lo2, hi2 : GrownPlaces(D, g, N, pos, p, n, i, pos2, lo2, hi2)
      BY <1>6, <2>1, <2>2, <2>4, <2>5, <2>6, <2>8, GrownStands
    <3> QED BY <3>1, Zenon DEF GrownPlaces
  <2>10. PICK q2 : q2 = InsertAt(q, i, e)
    OBVIOUS
  <2>11. /\ N \in Nat /\ q \in Seq(Elem) /\ Len(q) = N /\ i \in 1 .. N + 1
         /\ \A j \in 1 .. Len(q) : q[j] # e
    <3>1. /\ N \in Nat /\ q \in Seq(Elem) /\ Len(q) = N
          /\ \A j \in 1 .. N : \E m \in D : q[j] = heap[m].data
      BY <2>1, ListsFacts
    <3> QED BY <1>4, <2>5, <3>1 DEF Belongs
  <2>12. Lists(D \cup {n}, g, N + 1, pos2, q2)
    BY <1>6, <2>1, <2>8, <2>9, <2>10, <2>11, ListsGrown
  <2>13. InKeyOrder(q2) /\ IsInjective(q2)
    BY <2>2, <2>5, <2>10, <2>11, OrderGrown
  <2>14. PICK E : E = D \cup {n}
    OBVIOUS
  <2>15. p \in E /\ Stands(E, E, g, N + 1, pos2, lo2, hi2) /\ Unsettled(E, g, pos2, lo2, hi2, p)
         /\ Lists(E, g, N + 1, pos2, q2)
    BY <2>5, <2>9, <2>12, <2>14
  <2>16. PICK b : b = [m \in E |-> t.heap[m]]
    OBVIOUS
  <2>17. Arranged(b, t.top, q2) /\ t.heap \in [E -> Node]
    BY <1>3, <2>13, <2>15, <2>16, Rebalanced
  <2>18. b = t.heap
    BY <2>16, <2>17
  <2>19. \E k : Belongs(q, e, k) /\ Arranged(heap', root', InsertAt(q, k, e))
    BY <1>5, <1>8, <2>5, <2>10, <2>17, <2>18
  <2>20. ASSUME Balanced PROVE Balanced'
    <3>1. \A m \in D : Even(heap, m)
      BY <1>1, <2>2, <2>20 DEF Balanced, Even, Level
    <3>2. Growing(E, g, p, n)
      BY <1>6, <2>1, <2>5, <2>6, <2>8, <2>14, <3>1, GrownGrows
    <3>3. \A m \in E : Even(t.heap, m)
      BY <1>3, <2>15, <3>2, RebalanceEven
    <3>4. heap' = t.heap /\ DOMAIN heap' = E
      BY <1>5, <1>8, <2>17
    <3>5. \A m \in DOMAIN heap' : Level(heap', m)
      BY <3>3, <3>4 DEF Even
    <3> QED BY <3>5 DEF Balanced, Level
  <2> QED BY <2>19, <2>20
<1> QED BY <1>7, <1>8

-----------------------------------------------------------------------------
(* remove                                                                  *)

\* The child that a node without two children has, if any.
OnlyChild(h, y) == IF h[y].left = Null THEN h[y].right ELSE h[y].left

\* A node that remove can take out of the tree by itself.
Outer(h, y) == h[y].left = Null \/ h[y].right = Null

\* The tree's other nodes after the child of y has taken its place.
Bypassed(D, h, y, g) ==
  /\ g \in [D -> Node]
  /\ \A m \in D \ {y} :
       /\ g[m].left = (IF h[m].left = y THEN OnlyChild(h, y) ELSE h[m].left)
       /\ g[m].right = (IF h[m].right = y THEN OnlyChild(h, y) ELSE h[m].right)
       /\ g[m].parent = (IF m = OnlyChild(h, y) THEN h[y].parent ELSE h[m].parent)
       /\ g[m].height = h[m].height /\ g[m].data = h[m].data

\* They are a tree in which only the node above may have a wrong height.
Shrunk(D, h, N, pos, y, g, pos2, lo2, hi2) ==
  /\ Stands(D \ {y}, D, g, N - 1, pos2, lo2, hi2)
  /\ pos2 = [m \in D \ {y} |-> Back(pos[m], pos[y])]
  /\ \A m \in D \ {y} : m # h[y].parent /\ Exact(h, m) => Exact(g, m)

\* Without such a node there is one tree still, the other elements in the same order.
LEMMA BypassStands ==
  ASSUME NEW D, NEW h, NEW N, NEW pos, NEW lo, NEW hi, Stands(D, D, h, N, pos, lo, hi),
         NEW y \in D, Outer(h, y), NEW g, Bypassed(D, h, y, g)
  PROVE  \E pos2, lo2, hi2 : Shrunk(D, h, N, pos, y, g, pos2, lo2, hi2)
<1>1. PICK F : F = D \ {y}
  OBVIOUS
<1>2. PICK c : c = OnlyChild(h, y)
  OBVIOUS
<1>3. PICK l, r, u : /\ l = [m \in D |-> h[m].left] /\ r = [m \in D |-> h[m].right]
                     /\ u = [m \in D |-> h[m].parent]
  OBVIOUS
<1>4. Shape(D, l, r, u, N, pos, lo, hi)
  BY <1>3 DEF Stands
<1>5. PICK l2, r2, u2 : /\ l2 = [m \in F |-> g[m].left] /\ r2 = [m \in F |-> g[m].right]
                        /\ u2 = [m \in F |-> g[m].parent]
  OBVIOUS
<1>6. \A m \in D :
        /\ h[m].left \in D \cup {Null} /\ h[m].right \in D \cup {Null}
        /\ h[m].parent \in D \cup {Null} /\ (h[m].parent # m \/ h[m].parent = Null)
        /\ h[m].left # Null => h[m].left # m /\ h[h[m].left].parent = m
        /\ h[m].right # Null => h[m].right # m /\ h[h[m].right].parent = m
  BY StandsFacts
<1>6a. y # Null /\ \A m \in D : m # Null
  BY StandsFacts DEF Stands
<1>6b. h[y].parent # y
  BY <1>6, <1>6a
<1>7. \A m \in F :
        /\ g[m].left = (IF h[m].left = y THEN c ELSE h[m].left)
        /\ g[m].right = (IF h[m].right = y THEN c ELSE h[m].right)
        /\ g[m].parent = (IF m = c THEN h[y].parent ELSE h[m].parent)
        /\ g[m].height = h[m].height
  BY <1>1, <1>2 DEF Bypassed
<1>8. c \in F \cup {Null}
  BY <1>1, <1>2, <1>6, <1>6a DEF OnlyChild, Outer
<1>9. \A m \in F : h[m].parent = y => m = c
  <2>1. ASSUME NEW m \in F, h[m].parent = y PROVE m = c
    <3>1. h[m].parent # Null /\ m \in D /\ m # y
      BY <1>1, <1>6a, <2>1
    <3>2. m = h[h[m].parent].left <=> m # h[h[m].parent].right
      BY <3>1, StandsFacts
    <3>3. m = h[y].left \/ m = h[y].right
      BY <2>1, <3>2
    <3> QED BY <1>2, <1>6a, <3>1, <3>3 DEF OnlyChild, Outer
  <2> QED BY <2>1
<1>10. l2 \in [F -> F \cup {Null}] /\ r2 \in [F -> F \cup {Null}] /\ u2 \in [F -> F \cup {Null}]
  <2>1. ASSUME NEW m \in F
        PROVE  /\ g[m].left \in F \cup {Null} /\ g[m].right \in F \cup {Null}
               /\ g[m].parent \in F \cup {Null}
    <3>1. m \in D
      BY <1>1
    <3>2. g[m].left \in F \cup {Null} /\ g[m].right \in F \cup {Null}
      BY <1>1, <1>6, <1>7, <1>8, <3>1
    <3>3. g[m].parent \in F \cup {Null}
      BY <1>1, <1>6, <1>6b, <1>7, <1>9, <3>1
    <3> QED BY <3>2, <3>3
  <2> QED BY <2>1, <1>5
<1>11. PICK pos2, lo2, hi2 : Narrowed(D, pos, lo, hi, pos[y], y, pos2, lo2, hi2)
  BY DEF Narrowed
<1>12. pos2 = [m \in F |-> Back(pos[m], pos[y])]
  BY <1>1, <1>11 DEF Narrowed
<1>13. \A m \in F : /\ l2[m] = (IF l[m] = y THEN c ELSE l[m])
                    /\ r2[m] = (IF r[m] = y THEN c ELSE r[m])
                    /\ u2[m] = (IF m = c THEN u[y] ELSE u[m])
  BY <1>1, <1>3, <1>5, <1>7
<1>14. Spliced(D, l, r, u, y, c, l2, r2, u2)
  BY <1>1, <1>10, <1>13 DEF Spliced
<1>15. Shape(F, l2, r2, u2, N - 1, pos2, lo2, hi2)
  <2>1. CASE h[y].left = Null
    <3>1. c = r[y] /\ l[y] = Null
      BY <1>2, <1>3, <2>1 DEF OnlyChild, Outer
    <3>2. Spliced(D, l, r, u, y, r[y], l2, r2, u2)
      BY <1>14, <3>1
    <3> QED BY <1>1, <1>4, <1>11, <3>1, <3>2, SpliceShape
  <2>2. CASE h[y].left # Null
    <3>1. c = l[y] /\ r[y] = Null
      BY <1>2, <1>3, <2>2 DEF OnlyChild, Outer
    <3>2. Spliced(D, l, r, u, y, l[y], l2, r2, u2)
      BY <1>14, <3>1
    <3> QED BY <1>1, <1>4, <1>11, <3>1, <3>2, SpliceBackShape
  <2> QED BY <2>1, <2>2
<1>16. Stands(F, D, g, N - 1, pos2, lo2, hi2)
  <2>1. D \in SUBSET Elem /\ F \subseteq D /\ g \in [D -> Node]
    BY <1>1 DEF Stands, Bypassed
  <2>2. \A m \in F : g[m].height \in Nat
    BY <1>1, <1>7 DEF Stands
  <2> QED BY <1>5, <1>15, <2>1, <2>2 DEF Stands
<1>17. ASSUME NEW m \in F, m # h[y].parent, Exact(h, m) PROVE Exact(g, m)
  <2>1. h[m].left # y /\ h[m].right # y
    BY <1>1, <1>6, <1>6a, <1>17
  <2>2. g[m].left = h[m].left /\ g[m].right = h[m].right /\ g[m].height = h[m].height
    BY <1>7, <2>1
  <2>3. \A x \in {h[m].left, h[m].right} : x # Null => x \in F
    BY <1>1, <1>6, <2>1
  <2>4. SameBelow(h, g, m)
    BY <1>7, <2>2, <2>3 DEF SameBelow
  <2> QED BY <1>17, <2>2, <2>4, StillExact
<1> QED BY <1>1, <1>12, <1>16, <1>17 DEF Shrunk

\* Replace does that if there is a node above.
LEMMA ReplaceBypasses ==
  ASSUME NEW D, NEW h, NEW N, NEW pos, NEW lo, NEW hi, Stands(D, D, h, N, pos, lo, hi),
         NEW y \in D, Outer(h, y), NEW p \in D, p = h[y].parent
  PROVE  Bypassed(D, h, y, Replace(h, p, y, OnlyChild(h, y)))
<1>1. PICK c, g : c = OnlyChild(h, y) /\ g = Replace(h, p, y, c)
  OBVIOUS
<1>2. D \in SUBSET Elem /\ h \in [D -> Node]
  BY DEF Stands
<1>3. \A m \in D :
        /\ m # Null
        /\ h[m].left \in D \cup {Null} /\ h[m].right \in D \cup {Null}
        /\ h[m].left # Null => h[h[m].left].parent = m
        /\ h[m].right # Null => h[h[m].right].parent = m
  BY StandsFacts, AvlAssumption
<1>4. p # y /\ (y = h[p].left <=> y # h[p].right)
  <2>1. h[y].parent # Null
    BY <1>3
  <2> QED BY <2>1, StandsFacts
<1>5. c \in D \cup {Null}
  BY <1>1, <1>3 DEF OnlyChild, Outer
<1>6. \A m \in D : h[m].left = y \/ h[m].right = y => m = p
  BY <1>3
<1>7. CASE h[p].left = y
  <2>1. g = ConnectLeft(h, p, c)
    BY <1>1, <1>7 DEF Replace
  <2>2. LeftSet(D, h, g, p, c)
    BY <1>2, <1>5, <2>1, ConnectLeftFields
  <2>3. \A m \in D : h[m].right # y
    BY <1>4, <1>6, <1>7
  <2>4. g \in [D -> Node] /\ \A m \in D \ {y} :
          /\ g[m].left = (IF h[m].left = y THEN c ELSE h[m].left)
          /\ g[m].right = (IF h[m].right = y THEN c ELSE h[m].right)
          /\ g[m].parent = (IF m = c THEN h[y].parent ELSE h[m].parent)
          /\ g[m].height = h[m].height /\ g[m].data = h[m].data
    BY <1>6, <1>7, <2>2, <2>3 DEF LeftSet
  <2> QED BY <1>1, <2>4 DEF Bypassed
<1>8. CASE h[p].left # y
  <2>1. g = ConnectRight(h, p, c)
    BY <1>1, <1>8 DEF Replace
  <2>2. RightSet(D, h, g, p, c)
    BY <1>2, <1>5, <2>1, ConnectRightFields
  <2>3. h[p].right = y /\ \A m \in D : h[m].left # y
    BY <1>4, <1>6, <1>8
  <2>4. g \in [D -> Node] /\ \A m \in D \ {y} :
          /\ g[m].left = (IF h[m].left = y THEN c ELSE h[m].left)
          /\ g[m].right = (IF h[m].right = y THEN c ELSE h[m].right)
          /\ g[m].parent = (IF m = c THEN h[y].parent ELSE h[m].parent)
          /\ g[m].height = h[m].height /\ g[m].data = h[m].data
    BY <1>6, <2>2, <2>3 DEF RightSet
  <2> QED BY <1>1, <2>4 DEF Bypassed
<1> QED BY <1>1, <1>7, <1>8

\* At the root it is enough that the child becomes one.
LEMMA RootBypassed ==
  ASSUME NEW D, NEW h, NEW N, NEW pos, NEW lo, NEW hi, Stands(D, D, h, N, pos, lo, hi),
         NEW y \in D, Outer(h, y), h[y].parent = Null,
         NEW c, c = OnlyChild(h, y),
         NEW g, g = IF c = Null THEN h ELSE [h EXCEPT ![c].parent = Null]
  PROVE  Bypassed(D, h, y, g) /\ c \in D \cup {Null}
<1>1. D \in SUBSET Elem /\ h \in [D -> Node]
  BY DEF Stands
<1>2. \A m \in D :
        /\ m # Null
        /\ h[m].left \in D \cup {Null} /\ h[m].right \in D \cup {Null}
        /\ h[m].left # Null => h[h[m].left].parent = m
        /\ h[m].right # Null => h[h[m].right].parent = m
  BY StandsFacts, AvlAssumption
<1>3. \A m \in D : h[m].left # y /\ h[m].right # y
  BY <1>2
<1>4. c \in D \cup {Null}
  BY <1>2 DEF OnlyChild, Outer
<1>5. CASE c = Null
  BY <1>1, <1>2, <1>3, <1>4, <1>5 DEF Bypassed
<1>6. CASE c # Null
  <2>1. ParentSet(D, h, g, c, Null)
    BY <1>1, <1>4, <1>6, ParentFields
  <2> QED BY <1>3, <1>4, <2>1 DEF Bypassed, ParentSet
<1> QED BY <1>5, <1>6

\* What RemoveAt does.
Removed(q, N, i, q2) ==
  /\ q2 \in Seq(Elem) /\ Len(q2) = N - 1
  /\ \A j \in 1 .. N - 1 : q2[j] = IF j < i THEN q[j] ELSE q[j + 1]

\* RemoveAt does that.
LEMMA RemovedAt ==
  ASSUME NEW q \in Seq(Elem), NEW i \in 1 .. Len(q)
  PROVE  Removed(q, Len(q), i, RemoveAt(q, i))
BY RemoveAtElements DEF Removed

(***************************************************************************)
(* Without the node y the element of n is gone: either n is y, or it has   *)
(* the element of y now, whose place was the one before.                   *)
(***************************************************************************)
LEMMA ListsBypassed ==
  ASSUME NEW D, NEW h, NEW N, NEW pos, NEW lo, NEW hi, Stands(D, D, h, N, pos, lo, hi),
         NEW q, Lists(D, h, N, pos, q), NEW y \in D, NEW n \in D, n = y \/ pos[y] = pos[n] - 1,
         NEW g, \A m \in D \ {y} : g[m].data = IF m = n THEN h[y].data ELSE h[m].data,
         NEW pos2, pos2 = [m \in D \ {y} |-> Back(pos[m], pos[y])],
         NEW q2, Removed(q, N, pos[n], q2)
  PROVE  Lists(D \ {y}, g, N - 1, pos2, q2)
<1>1. /\ N \in Nat /\ \A m \in D : h[m].data = q[pos[m]] /\ pos[m] \in 1 .. N
  BY ListsFacts
<1>2. /\ q2 \in Seq(Elem) /\ Len(q2) = N - 1
      /\ \A j \in 1 .. N - 1 : q2[j] = IF j < pos[n] THEN q[j] ELSE q[j + 1]
  BY DEF Removed
<1>3. ASSUME NEW m \in D \ {y} PROVE q2[pos2[m]] = g[m].data
  <2>1. /\ pos2[m] = Back(pos[m], pos[y]) /\ pos[m] \in 1 .. N /\ pos[y] \in 1 .. N
        /\ pos[n] \in 1 .. N
    BY <1>1
  <2>2. pos[m] # pos[y] /\ (m # n => pos[m] # pos[n])
    BY StandsFacts
  <2>3. CASE m = n
    <3>1. pos[n] > pos[y] /\ pos[n] - 1 = pos[y]
      BY <2>1, <2>3
    <3>2. pos2[m] = pos[y]
      BY <2>1, <2>3, <3>1 DEF Back
    <3>3. pos[y] \in 1 .. N - 1 /\ pos[y] < pos[n]
      BY <1>1, <2>1, <3>1
    <3>4. q2[pos[y]] = q[pos[y]]
      BY <1>2, <3>3
    <3> QED BY <1>1, <2>3, <3>2, <3>4
  <2>4. CASE m # n /\ pos[m] > pos[n]
    <3>1. pos[m] > pos[y]
      BY <2>1, <2>4
    <3>2. pos2[m] = pos[m] - 1
      BY <2>1, <3>1 DEF Back
    <3>3. pos[m] - 1 \in 1 .. N - 1 /\ ~(pos[m] - 1 < pos[n]) /\ (pos[m] - 1) + 1 = pos[m]
      BY <1>1, <2>1, <2>4
    <3>4. q2[pos[m] - 1] = q[pos[m]]
      BY <1>2, <3>3
    <3> QED BY <1>1, <2>4, <3>2, <3>4
  <2>5. CASE m # n /\ pos[m] < pos[n]
    <3>1. ~(pos[m] > pos[y])
      BY <2>1, <2>2, <2>5
    <3>2. pos2[m] = pos[m]
      BY <2>1, <3>1 DEF Back
    <3>3. pos[m] \in 1 .. N - 1
      BY <1>1, <2>1, <2>5
    <3>4. q2[pos[m]] = q[pos[m]]
      BY <1>2, <2>5, <3>3
    <3> QED BY <1>1, <2>5, <3>2, <3>4
  <2>6. pos[m] \in Int /\ pos[n] \in Int
    BY <2>1
  <2> QED BY <2>2, <2>3, <2>4, <2>5, <2>6
<1> QED BY <1>2, <1>3 DEF Lists

\* The elements that remain are in the same order.
LEMMA OrderShrunk ==
  ASSUME NEW q \in Seq(Elem), InKeyOrder(q), IsInjective(q), NEW N, N = Len(q), NEW i \in 1 .. N,
         NEW q2, Removed(q, N, i, q2)
  PROVE  InKeyOrder(q2) /\ IsInjective(q2)
<1>1. N \in Nat /\ DOMAIN q = 1 .. N
  OBVIOUS
<1>2. /\ q2 \in Seq(Elem) /\ Len(q2) = N - 1 /\ DOMAIN q2 = 1 .. N - 1
      /\ \A j \in 1 .. N - 1 : q2[j] = IF j < i THEN q[j] ELSE q[j + 1]
  <2>1. /\ q2 \in Seq(Elem) /\ Len(q2) = N - 1
        /\ \A j \in 1 .. N - 1 : q2[j] = IF j < i THEN q[j] ELSE q[j + 1]
    BY DEF Removed
  <2> QED BY <2>1
<1> DEFINE Old(j) == IF j < i THEN j ELSE j + 1
<1>3. \A j \in 1 .. N - 1 : Old(j) \in 1 .. N /\ q2[j] = q[Old(j)]
  BY <1>1, <1>2
<1>4. \A a, b \in 1 .. N - 1 : /\ a <= b => Old(a) <= Old(b)
                               /\ Old(a) = Old(b) => a = b
  BY <1>1
<1> HIDE DEF Old
<1>5. InKeyOrder(q2)
  <2>1. ASSUME NEW a \in 1 .. N - 1, NEW b \in 1 .. N - 1, a <= b PROVE Key[q2[a]] <= Key[q2[b]]
    <3>1. Old(a) \in 1 .. N /\ Old(b) \in 1 .. N /\ Old(a) <= Old(b)
      BY <1>3, <1>4, <2>1
    <3>2. Key[q[Old(a)]] <= Key[q[Old(b)]]
      BY <3>1 DEF InKeyOrder
    <3> QED BY <1>3, <3>2
  <2> QED BY <1>2, <2>1 DEF InKeyOrder
<1>6. IsInjective(q2)
  <2>1. ASSUME NEW a \in 1 .. N - 1, NEW b \in 1 .. N - 1, q2[a] = q2[b] PROVE a = b
    <3>1. Old(a) \in 1 .. N /\ Old(b) \in 1 .. N /\ q[Old(a)] = q[Old(b)]
      BY <1>3, <2>1
    <3>2. Old(a) = Old(b)
      BY <1>1, <3>1 DEF IsInjective
    <3> QED BY <1>4, <3>2
  <2> QED BY <1>2, <2>1 DEF IsInjective
<1> QED BY <1>5, <1>6

\* remove takes the element of a node without two children out of the list.
LEMMA OuterArranges ==
  ASSUME NEW q, Arranged(heap, root, q), NEW n \in DOMAIN heap, RemoveOuter(n)
  PROVE  \E i \in DOMAIN q : Arranged(heap', root', RemoveAt(q, i))
<1>1. PICK D, p, c : D = DOMAIN heap /\ p = heap[n].parent /\ c = OnlyChild(heap, n)
  OBVIOUS
<1>2. PICK N, pos, lo, hi : Stands(D, D, heap, N, pos, lo, hi) /\ Lists(D, heap, N, pos, q)
  BY <1>1 DEF Arranged
<1>3. /\ Outer(heap, n)
      /\ InKeyOrder(q) /\ IsInjective(q) /\ n \in D /\ \A m \in D : Exact(heap, m)
      /\ Rooted(D, heap, root)
  BY <1>1 DEF Arranged, RemoveOuter, Outer
<1>4. /\ N \in Nat /\ q \in Seq(Elem) /\ Len(q) = N /\ DOMAIN q = 1 .. N /\ pos[n] \in 1 .. N
  BY <1>2, <1>3, ListsFacts
<1>5. PICK q2 : q2 = RemoveAt(q, pos[n])
  OBVIOUS
<1>6. Removed(q, N, pos[n], q2)
  <2>1. pos[n] \in 1 .. Len(q)
    BY <1>4
  <2>2. Removed(q, Len(q), pos[n], q2)
    BY <1>4, <1>5, <2>1, RemovedAt
  <2> QED BY <1>4, <2>2
<1>7. InKeyOrder(q2) /\ IsInjective(q2)
  BY <1>3, <1>4, <1>6, OrderShrunk
<1>8. PICK F : F = D \ {n}
  OBVIOUS
<1>9. p \in D \cup {Null} /\ p # n /\ Null \notin D
  <2>1. p \in D \cup {Null} /\ Null \notin D
    BY <1>1, <1>2, <1>3, StandsFacts
  <2>2. p # Null => p # n
    BY <1>1, <1>2, <1>3, StandsFacts
  <2> QED BY <1>3, <2>1, <2>2
<1>10. CASE p = Null
  <2>1. PICK g : g = IF c = Null THEN heap ELSE [heap EXCEPT ![c].parent = Null]
    OBVIOUS
  <2>2. root' = c /\ heap' = Delete(g, n)
    BY <1>1, <1>10, <2>1 DEF RemoveOuter, OnlyChild
  <2>3. Bypassed(D, heap, n, g) /\ c \in D \cup {Null}
    <3>1. n \in D /\ Outer(heap, n) /\ heap[n].parent = Null /\ c = OnlyChild(heap, n)
      BY <1>1, <1>3, <1>10
    <3> QED BY <1>2, <2>1, <3>1, RootBypassed
  <2>4. PICK pos2, lo2, hi2 :
          /\ Stands(F, D, g, N - 1, pos2, lo2, hi2)
          /\ pos2 = [m \in F |-> Back(pos[m], pos[n])]
          /\ \A m \in F : m # heap[n].parent /\ Exact(heap, m) => Exact(g, m)
    <3>1. PICK pos2, lo2, hi2 : Shrunk(D, heap, N, pos, n, g, pos2, lo2, hi2)
      BY <1>2, <1>3, <2>3, BypassStands
    <3> QED BY <1>8, <3>1 DEF Shrunk
  <2>5. Lists(F, g, N - 1, pos2, q2)
    <3>1. \A m \in D \ {n} : g[m].data = IF m = n THEN heap[n].data ELSE heap[m].data
      BY <2>3 DEF Bypassed
    <3> QED BY <1>2, <1>3, <1>6, <1>8, <2>4, <3>1, ListsBypassed
  <2>6. PICK b : b = [m \in F |-> g[m]]
    OBVIOUS
  <2>7. heap' = b
    <3>1. g \in [D -> Node]
      BY <2>3 DEF Bypassed
    <3>2. DOMAIN g = D
      BY <3>1
    <3> QED BY <1>8, <2>2, <2>6, <3>2 DEF Delete
  <2>8. Stands(F, F, b, N - 1, pos2, lo2, hi2) /\ \A m \in F : b[m] = g[m] /\ (Exact(g, m) => Exact(b, m))
    BY <2>4, <2>6, TrimStands
  <2>9. Lists(F, b, N - 1, pos2, q2)
    BY <2>5, <2>8 DEF Lists
  <2>10. \A m \in F : Exact(b, m)
    BY <1>1, <1>3, <1>8, <1>9, <1>10, <2>4, <2>8
  <2>11. Rooted(F, b, c)
    <3>1. CASE c = Null
      <4>1. heap[n].left = Null /\ heap[n].right = Null
        BY <1>1, <1>3, <3>1 DEF OnlyChild, Outer
      <4>1a. n \in D /\ heap[n].parent = Null
        BY <1>1, <1>3, <1>10
      <4>2. lo[n] = pos[n] /\ hi[n] = pos[n] /\ lo[n] = 1 /\ hi[n] = N
        BY <1>2, <4>1, <4>1a, StandsFacts
      <4>3. \A m \in D : pos[m] = pos[n]
        <5>1. \A m \in D : pos[m] \in 1 .. N
          BY <1>2, StandsFacts
        <5> QED BY <4>2, <5>1
      <4>4. D = {n}
        BY <1>2, <1>3, <4>3, StandsFacts
      <4> QED BY <1>8, <3>1, <4>4 DEF Rooted
    <3>2. CASE c # Null
      <4>1. c \in F
        <5>1. c = heap[n].left \/ c = heap[n].right
          BY <1>1 DEF OnlyChild
        <5>2. c # n
          BY <1>2, <1>3, <3>2, <5>1, StandsFacts
        <5> QED BY <1>8, <2>3, <3>2, <5>2
      <4>2. g[c].parent = heap[n].parent
        BY <1>1, <1>8, <2>3, <4>1 DEF Bypassed
      <4> QED BY <1>1, <1>10, <2>8, <4>1, <4>2 DEF Rooted
    <3> QED BY <3>1, <3>2
  <2>12. DOMAIN b = F
    BY <2>6
  <2>13. Arranged(b, c, q2)
    BY <1>7, <2>8, <2>9, <2>10, <2>11, <2>12 DEF Arranged
  <2> QED BY <1>4, <1>5, <2>2, <2>7, <2>13
<1>11. CASE p # Null
  <2>1. PICK g : g = Replace(heap, p, n, c)
    OBVIOUS
  <2>2. PICK t : t = Rebalance(g, p)
    OBVIOUS
  <2>3. root' = t.top /\ heap' = Delete(t.heap, n)
    BY <1>1, <1>11, <2>1, <2>2 DEF RemoveOuter, OnlyChild
  <2>4. Bypassed(D, heap, n, g) /\ p \in D
    BY <1>1, <1>2, <1>3, <1>9, <1>11, <2>1, ReplaceBypasses
  <2>5. PICK pos2, lo2, hi2 :
          /\ Stands(F, D, g, N - 1, pos2, lo2, hi2)
          /\ pos2 = [m \in F |-> Back(pos[m], pos[n])]
          /\ \A m \in F : m # heap[n].parent /\ Exact(heap, m) => Exact(g, m)
    <3>1. PICK pos2, lo2, hi2 : Shrunk(D, heap, N, pos, n, g, pos2, lo2, hi2)
      BY <1>2, <1>3, <2>4, BypassStands
    <3> QED BY <1>8, <3>1 DEF Shrunk
  <2>6. Lists(F, g, N - 1, pos2, q2)
    <3>1. \A m \in D \ {n} : g[m].data = IF m = n THEN heap[n].data ELSE heap[m].data
      BY <2>4 DEF Bypassed
    <3> QED BY <1>2, <1>3, <1>6, <1>8, <2>5, <3>1, ListsBypassed
  <2>7. p \in F
    BY <1>8, <1>9, <2>4
  <2>8. Unsettled(F, g, pos2, lo2, hi2, p)
    <3>1. lo2[p] <= pos2[p] /\ pos2[p] <= hi2[p]
      BY <2>5, <2>7, StandsFacts
    <3>2. \A m \in F : m # p => Exact(g, m)
      BY <1>1, <1>3, <1>8, <2>5
    <3> QED BY <1>11, <3>1, <3>2 DEF Unsettled, Covers
  <2>9. PICK b : b = [m \in F |-> t.heap[m]]
    OBVIOUS
  <2>10. Arranged(b, t.top, q2) /\ t.heap \in [D -> Node]
    BY <1>7, <2>2, <2>5, <2>6, <2>7, <2>8, <2>9, Rebalanced
  <2>11. heap' = b
    <3>1. DOMAIN t.heap = D
      BY <2>10
    <3> QED BY <1>8, <2>3, <2>9, <3>1 DEF Delete
  <2> QED BY <1>4, <1>5, <2>3, <2>10, <2>11
<1> QED BY <1>10, <1>11

\* An element that moves into another node changes nothing about the tree.
Refilled(h, n, e, g) == g = [h EXCEPT ![n].data = e]

\* The links, the heights and the order of the nodes stay what they were.
LEMMA DataStands ==
  ASSUME NEW D, NEW h, NEW N, NEW pos, NEW lo, NEW hi, Stands(D, D, h, N, pos, lo, hi),
         NEW n \in D, NEW e \in Elem, NEW g, Refilled(h, n, e, g)
  PROVE  /\ Stands(D, D, g, N, pos, lo, hi)
         /\ \A m \in D : /\ g[m].left = h[m].left /\ g[m].right = h[m].right
                         /\ g[m].parent = h[m].parent
                         /\ g[m].data = IF m = n THEN e ELSE h[m].data
                         /\ Exact(h, m) => Exact(g, m)
<1>1. /\ D \in SUBSET Elem /\ h \in [D -> Node] /\ \A m \in D : h[m].height \in Nat
      /\ Shape(D, [m \in D |-> h[m].left], [m \in D |-> h[m].right], [m \in D |-> h[m].parent],
               N, pos, lo, hi)
  BY DEF Stands
<1>2. PICK b : b = [h[n] EXCEPT !.data = e]
  OBVIOUS
<1>3. /\ b \in Node /\ b.data = e /\ b.left = h[n].left /\ b.right = h[n].right
      /\ b.parent = h[n].parent /\ b.height = h[n].height
  BY <1>1, <1>2 DEF Node
<1>4. g = [h EXCEPT ![n] = b]
  BY <1>2 DEF Refilled
<1>5. g \in [D -> Node]
  BY <1>1, <1>3, <1>4
<1>6. \A m \in D : /\ g[m].left = h[m].left /\ g[m].right = h[m].right
                   /\ g[m].parent = h[m].parent /\ g[m].height = h[m].height
                   /\ g[m].data = IF m = n THEN e ELSE h[m].data
  BY <1>1, <1>3, <1>4
<1>7. /\ [m \in D |-> g[m].left] = [m \in D |-> h[m].left]
      /\ [m \in D |-> g[m].right] = [m \in D |-> h[m].right]
      /\ [m \in D |-> g[m].parent] = [m \in D |-> h[m].parent]
  BY <1>6
<1>8. Stands(D, D, g, N, pos, lo, hi)
  BY <1>1, <1>5, <1>6, <1>7 DEF Stands
<1>9. ASSUME NEW m \in D, Exact(h, m) PROVE Exact(g, m)
  <2>1. h[m].left \in D \cup {Null} /\ h[m].right \in D \cup {Null}
    BY StandsFacts
  <2>2. SameBelow(h, g, m)
    BY <1>6, <2>1 DEF SameBelow
  <2> QED BY <1>6, <1>9, <2>2, StillExact
<1> QED BY <1>6, <1>8, <1>9

\* remove takes the element of a node with two children out of the list.
LEMMA InnerArranges ==
  ASSUME NEW q, Arranged(heap, root, q), NEW n \in DOMAIN heap, RemoveInner(n)
  PROVE  \E i \in DOMAIN q : Arranged(heap', root', RemoveAt(q, i))
<1>1. PICK D, y, p : D = DOMAIN heap /\ y = Largest(heap, heap[n].left) /\ p = heap[y].parent
  OBVIOUS
<1>2. PICK N, pos, lo, hi : Stands(D, D, heap, N, pos, lo, hi) /\ Lists(D, heap, N, pos, q)
  BY <1>1 DEF Arranged
<1>3. /\ heap[n].left # Null
      /\ InKeyOrder(q) /\ IsInjective(q) /\ n \in D /\ \A m \in D : Exact(heap, m)
  BY <1>1 DEF Arranged, RemoveInner
<1>4. /\ N \in Nat /\ q \in Seq(Elem) /\ Len(q) = N /\ DOMAIN q = 1 .. N
      /\ \A m \in D : pos[m] \in 1 .. N /\ heap[m].data \in Elem
  BY <1>2, ListsFacts
<1>5. PICK q2 : q2 = RemoveAt(q, pos[n])
  OBVIOUS
<1>6. Removed(q, N, pos[n], q2)
  <2>1. pos[n] \in 1 .. Len(q)
    BY <1>3, <1>4
  <2>2. Removed(q, Len(q), pos[n], q2)
    BY <1>4, <1>5, <2>1, RemovedAt
  <2> QED BY <1>4, <2>2
<1>7. InKeyOrder(q2) /\ IsInjective(q2)
  BY <1>3, <1>4, <1>6, OrderShrunk
<1>8. /\ y \in D /\ heap[y].right = Null /\ pos[y] = pos[n] - 1
  <2>1. PICK c : c = heap[n].left
    OBVIOUS
  <2>2. c \in D
    <3>1. heap[n].left \in D \cup {Null}
      BY <1>2, <1>3, StandsFacts
    <3> QED BY <1>3, <2>1, <3>1
  <2>3. hi[c] = pos[n] - 1
    BY <1>2, <1>3, <2>1, StandsFacts
  <2>4. y = Largest(heap, c)
    BY <1>1, <2>1
  <2> QED BY <1>2, <2>2, <2>3, <2>4, LargestPlace
<1>9. y # n /\ p \in D
  <2>1. y # n
    BY <1>3, <1>4, <1>8
  <2>2. p \in D \cup {Null}
    BY <1>1, <1>2, <1>8, StandsFacts
  <2>3. ASSUME p = Null PROVE FALSE
    <3>0. y \in D /\ heap[y].right = Null /\ heap[y].parent = Null
      BY <1>1, <1>8, <2>3
    <3>1. hi[y] = N /\ hi[y] = pos[y]
      BY <1>2, <3>0, StandsFacts
    <3> QED BY <1>3, <1>4, <1>8, <3>1
  <2> QED BY <2>1, <2>2, <2>3
<1>10. PICK moved : moved = [heap EXCEPT ![n].data = heap[y].data]
  OBVIOUS
<1>11. /\ Stands(D, D, moved, N, pos, lo, hi)
       /\ \A m \in D : /\ moved[m].left = heap[m].left /\ moved[m].right = heap[m].right
                       /\ moved[m].parent = heap[m].parent
                       /\ moved[m].data = IF m = n THEN heap[y].data ELSE heap[m].data
                       /\ Exact(heap, m) => Exact(moved, m)
  <2>1. PICK e \in Elem : e = heap[y].data
    BY <1>4, <1>8
  <2>2. Refilled(heap, n, e, moved)
    BY <1>10, <2>1, Zenon DEF Refilled
  <2>3. /\ Stands(D, D, moved, N, pos, lo, hi)
        /\ \A m \in D : /\ moved[m].left = heap[m].left /\ moved[m].right = heap[m].right
                        /\ moved[m].parent = heap[m].parent
                        /\ moved[m].data = IF m = n THEN e ELSE heap[m].data
                        /\ Exact(heap, m) => Exact(moved, m)
    BY <1>2, <1>3, <2>2, DataStands
  <2> QED BY <2>1, <2>3
<1>12. PICK g : g = Replace(moved, p, y, heap[y].left)
  OBVIOUS
<1>13. PICK t : t = Rebalance(g, p)
  OBVIOUS
<1>14. root' = t.top /\ heap' = Delete(t.heap, y)
  BY <1>1, <1>10, <1>12, <1>13 DEF RemoveInner
<1>15. Outer(moved, y) /\ moved[y].parent = p /\ heap[y].left = OnlyChild(moved, y)
  BY <1>1, <1>8, <1>11 DEF Outer, OnlyChild
<1>16. Bypassed(D, moved, y, g)
  BY <1>8, <1>9, <1>11, <1>12, <1>15, ReplaceBypasses
<1>17. PICK F : F = D \ {y}
  OBVIOUS
<1>18. PICK pos2, lo2, hi2 :
         /\ Stands(F, D, g, N - 1, pos2, lo2, hi2)
         /\ pos2 = [m \in F |-> Back(pos[m], pos[y])]
         /\ \A m \in F : m # moved[y].parent /\ Exact(moved, m) => Exact(g, m)
  <2>1. PICK pos2, lo2, hi2 : Shrunk(D, moved, N, pos, y, g, pos2, lo2, hi2)
    BY <1>8, <1>11, <1>15, <1>16, BypassStands
  <2> QED BY <1>17, <2>1 DEF Shrunk
<1>19. Lists(F, g, N - 1, pos2, q2)
  <2>1. \A m \in D \ {y} : g[m].data = IF m = n THEN heap[y].data ELSE heap[m].data
    BY <1>11, <1>16 DEF Bypassed
  <2> QED BY <1>2, <1>3, <1>6, <1>8, <1>17, <1>18, <2>1, ListsBypassed
<1>20. p \in F
  <2>1. p # Null /\ p # y
    BY <1>1, <1>2, <1>8, <1>9, StandsFacts
  <2> QED BY <1>9, <1>17, <2>1
<1>21. Unsettled(F, g, pos2, lo2, hi2, p)
  <2>1. lo2[p] <= pos2[p] /\ pos2[p] <= hi2[p]
    BY <1>18, <1>20, StandsFacts
  <2>2. \A m \in F : m # p => Exact(g, m)
    BY <1>3, <1>11, <1>15, <1>17, <1>18
  <2>3. p # Null
    BY <1>2, <1>9, StandsFacts
  <2> QED BY <2>1, <2>2, <2>3 DEF Unsettled, Covers
<1>22. PICK b : b = [m \in F |-> t.heap[m]]
  OBVIOUS
<1>23. Arranged(b, t.top, q2) /\ t.heap \in [D -> Node]
  BY <1>7, <1>13, <1>18, <1>19, <1>20, <1>21, <1>22, Rebalanced
<1>24. heap' = b
  <2>1. DOMAIN t.heap = D
    BY <1>23
  <2> QED BY <1>14, <1>17, <1>22, <2>1 DEF Delete
<1> QED BY <1>3, <1>4, <1>5, <1>14, <1>23, <1>24

-----------------------------------------------------------------------------
(* The theorems                                                            *)

\* The inductive invariant: the tree lists some sequence.
TreeStands == \E q : Arranged(heap, root, q)

\* The list of a tree is what is read from left to right.
LEMMA ReadBack ==
  ASSUME NEW h, NEW top, NEW q, Arranged(h, top, q)
  PROVE  FromLeft(h)[top] = q
<1>1. PICK D : D = DOMAIN h
  OBVIOUS
<1>2. PICK N, pos, lo, hi : Stands(D, D, h, N, pos, lo, hi) /\ Lists(D, h, N, pos, q)
  BY <1>1 DEF Arranged
<1>3. Rooted(D, h, top)
  BY <1>1 DEF Arranged
<1> QED BY <1>2, <1>3, OrderedIs

\* What the tree lists is read from left to right, before a step and after it.
LEMMA OrderedReads == Ordered = FromLeft(heap)[root] /\ Ordered' = FromLeft(heap')[root']
BY DEF Ordered, FromLeft

\* An empty tree lists nothing.
LEMMA EmptyArranged == Arranged(<< >>, Null, << >>)
<1>1. PICK h : h = << >>
  OBVIOUS
<1>2. DOMAIN h = {} /\ h \in [{} -> Node]
  BY <1>1
<1>3. PICK o : o = [m \in {} |-> 0]
  OBVIOUS
<1>4. PICK z : z = [m \in {} |-> Null]
  OBVIOUS
<1>5. Shape({}, z, z, z, 0, o, o, o)
  <2>1. Places({}, 0, o, o, o)
    BY <1>3 DEF Places
  <2>2. /\ LeftPlaces({}, z, z, o, o, o) /\ RightPlaces({}, z, z, o, o, o)
        /\ UpPlaces({}, z, z, z, 0, o, o, o)
    BY DEF LeftPlaces, RightPlaces, UpPlaces
  <2> QED BY <1>4, <2>1, <2>2 DEF Shape
<1>6. Stands({}, {}, h, 0, o, o, o)
  <2>1. /\ [m \in {} |-> h[m].left] = z /\ [m \in {} |-> h[m].right] = z
        /\ [m \in {} |-> h[m].parent] = z
    BY <1>4
  <2> QED BY <1>2, <1>5, <2>1 DEF Stands
<1>7. Lists({}, h, 0, o, << >>)
  BY DEF Lists
<1>8. Rooted({}, h, Null)
  BY DEF Rooted
<1>9. InKeyOrder(<< >>) /\ IsInjective(<< >>)
  BY DEF InKeyOrder, IsInjective
<1> QED BY <1>1, <1>2, <1>6, <1>7, <1>8, <1>9 DEF Arranged

\* What the steps do to the list.
LEMMA TreeStep ==
  ASSUME NEW q, Arranged(heap, root, q), TreeNext
  PROVE  \E q2 : /\ Arranged(heap', root', q2)
                 /\ \/ \E i \in DOMAIN q : q2 = RemoveAt(q, i)
                    \/ \E e \in Elem : \E i : Belongs(q, e, i) /\ q2 = InsertAt(q, i, e)
<1>1. ASSUME NEW e \in Elem, InsertNode(e)
      PROVE  \E q2 : /\ Arranged(heap', root', q2)
                     /\ \E i : Belongs(q, e, i) /\ q2 = InsertAt(q, i, e)
  BY <1>1, InsertArranges
<1>2. ASSUME NEW n \in DOMAIN heap, RemoveOuter(n)
      PROVE  \E q2 : Arranged(heap', root', q2) /\ \E i \in DOMAIN q : q2 = RemoveAt(q, i)
  BY <1>2, OuterArranges
<1>3. ASSUME NEW n \in DOMAIN heap, RemoveInner(n)
      PROVE  \E q2 : Arranged(heap', root', q2) /\ \E i \in DOMAIN q : q2 = RemoveAt(q, i)
  BY <1>3, InnerArranges
<1> QED BY <1>1, <1>2, <1>3 DEF TreeNext

\* TreeStands is an invariant.
LEMMA TreeInvariant == TreeSpec => []TreeStands
<1>1. TreeInit => TreeStands
  BY EmptyArranged DEF TreeInit, TreeStands
<1>2. TreeStands /\ [TreeNext]_treeVars => TreeStands'
  <2>1. ASSUME TreeStands, TreeNext PROVE TreeStands'
    BY <2>1, TreeStep DEF TreeStands
  <2>2. ASSUME TreeStands, UNCHANGED treeVars PROVE TreeStands'
    BY <2>2 DEF TreeStands, treeVars
  <2> QED BY <2>1, <2>2
<1> QED BY <1>1, <1>2, PTL DEF TreeSpec

\* The largest of the heights below, for Linked.
LEMMA HeightIsMax ==
  ASSUME NEW h, NEW n, NEW l, NEW r, l = h[n].left, r = h[n].right,
         l # Null => h[l].height \in Nat, r # Null => h[r].height \in Nat, Exact(h, n)
  PROVE  h[n].height = Max({-1} \cup {h[c].height : c \in {l, r} \ {Null}}) + 1
<1>1. PICK a, b : a = HeightOf(h, l) /\ b = HeightOf(h, r)
  OBVIOUS
<1>2. a \in Int /\ b \in Int /\ a >= -1 /\ b >= -1
  BY <1>1 DEF HeightOf
<1>3. PICK S : S = {-1} \cup {h[c].height : c \in {l, r} \ {Null}}
  OBVIOUS
<1>4. \A x \in S : x = -1 \/ x = a \/ x = b
  BY <1>1, <1>3 DEF HeightOf
<1>5. a \in S /\ b \in S
  BY <1>1, <1>3 DEF HeightOf
<1>6. PICK x : x = IF a > b THEN a ELSE b
  OBVIOUS
<1>7. x \in S /\ x \in Int /\ \A z \in S : z \in Int /\ x >= z
  BY <1>2, <1>4, <1>5, <1>6
<1>8. Max(S) = x
  <2>1. Max(S) \in S /\ \A z \in S : Max(S) >= z
    <3>1. Max(S) = CHOOSE y \in S : \A z \in S : y >= z
      BY DEF Max
    <3>2. \A z \in S : x >= z
      BY <1>7
    <3> QED BY <1>7, <3>1, <3>2, Zenon
  <2>2. PICK m : m = Max(S)
    OBVIOUS
  <2>3. m \in Int /\ m >= x /\ x >= m
    BY <1>7, <2>1, <2>2
  <2> QED BY <1>7, <2>2, <2>3
<1>9. h[n].height = x + 1
  BY <1>1, <1>2, <1>6 DEF Exact, HeightFrom
<1> QED BY <1>3, <1>8, <1>9

(***************************************************************************)
(* The pointers form one tree of all the nodes, and the heights are right. *)
(***************************************************************************)
THEOREM TreeLinked == TreeSpec => []Linked
<1>1. ASSUME TreeStands PROVE Linked
  <2>1. PICK D, q : D = DOMAIN heap /\ Arranged(heap, root, q)
    BY <1>1 DEF TreeStands
  <2>2. PICK N, pos, lo, hi : Stands(D, D, heap, N, pos, lo, hi) /\ Lists(D, heap, N, pos, q)
    BY <2>1 DEF Arranged
  <2>3. Rooted(D, heap, root) /\ \A m \in D : Exact(heap, m)
    BY <2>1 DEF Arranged
  <2>4. TreeTypeOK
    BY <2>1, <2>2, <2>3 DEF TreeTypeOK, Stands, Rooted
  <2>5. root # Null => heap[root].parent = Null
    BY <2>3 DEF Rooted
  <2>6. ASSUME NEW n \in D, NEW child \in Children(n) PROVE heap[child].parent = n
    BY <2>2, StandsFacts DEF Children
  <2>7. Len(Ordered) = Cardinality(D)
    <3>1. Ordered = q
      BY <2>1, ReadBack, OrderedReads
    <3>2. Len(q) = N /\ Cardinality(D) = N
      BY <2>2, StandsCount DEF Lists
    <3> QED BY <3>1, <3>2
  <2>8. ASSUME NEW n \in D
        PROVE  heap[n].height = Max({-1} \cup {heap[c].height : c \in Children(n)}) + 1
    <3>1. PICK l, r : l = heap[n].left /\ r = heap[n].right
      OBVIOUS
    <3>2. l \in D \cup {Null} /\ r \in D \cup {Null} /\ \A m \in D : heap[m].height \in Nat
      BY <2>2, <3>1, StandsFacts
    <3>3. heap[n].height = Max({-1} \cup {heap[c].height : c \in {l, r} \ {Null}}) + 1
      BY <2>3, <3>1, <3>2, HeightIsMax
    <3>4. Children(n) = {l, r} \ {Null}
      BY <3>1 DEF Children
    <3> QED BY <3>3, <3>4
  <2> QED BY <2>1, <2>4, <2>5, <2>6, <2>7, <2>8 DEF Linked
<1> QED BY <1>1, TreeInvariant, PTL

(***************************************************************************)
(* avl_tree is the ordered queue that Scheduler and Kernel take it for:    *)
(* no operation does anything to what is read from left to right but put   *)
(* its element where it belongs, or take it out.                           *)
(***************************************************************************)
THEOREM TreeIsQueue == TreeSpec => ImplementsQueue
<1>1. TreeInit => Queue!Init
  <2>1. ASSUME TreeInit PROVE Ordered = << >>
    <3>1. heap = << >> /\ root = Null
      BY <2>1 DEF TreeInit
    <3>2. FromLeft(heap)[root] = << >>
      BY <3>1, EmptyArranged, ReadBack
    <3> QED BY <3>2, OrderedReads
  <2> QED BY <2>1 DEF Queue!Init
<1>2. TreeStands /\ [TreeNext]_treeVars => [Queue!Next]_Ordered
  <2>1. ASSUME TreeStands, TreeNext PROVE Queue!Next
    <3>1. PICK q : Arranged(heap, root, q)
      BY <2>1 DEF TreeStands
    <3>2. PICK q2 : /\ Arranged(heap', root', q2)
                    /\ \/ \E i \in DOMAIN q : q2 = RemoveAt(q, i)
                       \/ \E e \in Elem : \E i : Belongs(q, e, i) /\ q2 = InsertAt(q, i, e)
      BY <2>1, <3>1, TreeStep
    <3>3. Ordered = q
      BY <3>1, ReadBack, OrderedReads
    <3>4. Ordered' = q2
      <4>1. FromLeft(heap')[root'] = q2
        BY <3>2, ReadBack
      <4> QED BY <4>1, OrderedReads
    <3>5. DOMAIN q = 1 .. Len(q)
      <4>1. q \in Seq(Elem)
        BY <3>1 DEF Arranged, Lists
      <4> QED BY <4>1
    <3>6. CASE \E i \in DOMAIN q : q2 = RemoveAt(q, i)
      <4>0. \A i \in DOMAIN q : Queue!RemoveAt(q, i) = RemoveAt(q, i)
        BY DEF Queue!RemoveAt, RemoveAt
      <4>1. Queue!Leave(q2)
        BY <3>3, <3>6, <4>0 DEF Queue!Leave
      <4> QED BY <3>4, <4>1 DEF Queue!Next
    <3>7. ASSUME NEW e \in Elem, NEW i, Belongs(q, e, i), q2 = InsertAt(q, i, e)
          PROVE  Queue!Next
      <4>0. Queue!InsertAt(q, i, e) = InsertAt(q, i, e)
        BY DEF Queue!InsertAt, InsertAt
      <4>1. Queue!Enter(q2, e)
        BY <3>3, <3>5, <3>7, <4>0 DEF Queue!Enter, Belongs
      <4> QED BY <3>4, <4>1 DEF Queue!Next
    <3> QED BY <3>2, <3>6, <3>7
  <2>2. ASSUME UNCHANGED treeVars PROVE Ordered' = Ordered
    BY <2>2, OrderedReads DEF treeVars
  <2> QED BY <2>1, <2>2
<1> QED BY <1>1, <1>2, TreeInvariant, PTL DEF TreeSpec, ImplementsQueue, Queue!Spec

\* As many nodes as elements are listed.
LEMMA ArrangedCount ==
  ASSUME NEW h, NEW r, NEW q, Arranged(h, r, q)
  PROVE  q \in Seq(Elem) /\ Cardinality(DOMAIN h) = Len(q)
<1>1. PICK D : D = DOMAIN h
  OBVIOUS
<1>2. PICK N, pos, lo, hi : Stands(D, D, h, N, pos, lo, hi) /\ Lists(D, h, N, pos, q)
  BY <1>1 DEF Arranged
<1>3. Cardinality(D) = N /\ Len(q) = N
  BY <1>2, StandsCount DEF Lists
<1>4. q \in Seq(Elem)
  BY <1>2, ListsFacts
<1> QED BY <1>1, <1>3, <1>4

(***************************************************************************)
(* An insertion into a balanced tree leaves it balanced: what has grown    *)
(* below a node makes it grow too, or is made up for by one rotation or by *)
(* two.                                                                    *)
(***************************************************************************)
THEOREM InsertionsBalance == TreeSpec => InsertionBalances
<1>1. ASSUME TreeStands, TreeNext, Balanced, Cardinality(DOMAIN heap') > Cardinality(DOMAIN heap)
      PROVE  Balanced'
  <2>1. PICK q : Arranged(heap, root, q)
    BY <1>1 DEF TreeStands
  <2>2. ASSUME NEW e \in Elem, InsertNode(e) PROVE Balanced'
    BY <1>1, <2>1, <2>2, InsertArranges
  <2>3. ASSUME NEW n \in DOMAIN heap, RemoveOuter(n) \/ RemoveInner(n) PROVE FALSE
    <3>1. \E q2 : Arranged(heap', root', q2) /\ \E i \in DOMAIN q : q2 = RemoveAt(q, i)
      BY <2>1, <2>3, OuterArranges, InnerArranges
    <3>2. PICK i \in DOMAIN q : Arranged(heap', root', RemoveAt(q, i))
      BY <3>1
    <3>3. q \in Seq(Elem) /\ Cardinality(DOMAIN heap) = Len(q)
      BY <2>1, ArrangedCount
    <3>4. Cardinality(DOMAIN heap') = Len(RemoveAt(q, i))
      BY <3>2, ArrangedCount
    <3>5. i \in 1 .. Len(q) /\ Len(q) \in Nat
      BY <3>3
    <3>6. Len(RemoveAt(q, i)) = Len(q) - 1
      BY <3>3, <3>5, RemovedAt DEF Removed
    <3> QED BY <1>1, <3>3, <3>4, <3>5, <3>6
  <2> QED BY <1>1, <2>2, <2>3 DEF TreeNext
<1>2. TreeStands /\ [TreeNext]_treeVars
        => [Balanced /\ Cardinality(DOMAIN heap') > Cardinality(DOMAIN heap) => Balanced']_treeVars
  BY <1>1
<1> QED BY <1>2, TreeInvariant, PTL DEF TreeSpec, InsertionBalances
=============================================================================
