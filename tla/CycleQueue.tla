----------------------------- MODULE CycleQueue -----------------------------
(***************************************************************************)
(* cycle_queue, include/wwos/queue.h: a bounded queue in an array, into    *)
(* which a program can also push at the front.                             *)
(***************************************************************************)
EXTENDS Integers, FiniteSets

NewQueue(capacity) ==
  [data |-> [i \in 0 .. capacity - 1 |-> 0], head |-> 0, tail |-> 0, size |-> 0]

Capacity(q) == Cardinality(DOMAIN q.data)

Full(q) == q.size = Capacity(q)

\* A queue that is full drops what is pushed.
Push(q, item) ==
  IF Full(q) THEN q
  ELSE [q EXCEPT !.data[q.tail] = item,
                 !.tail = (@ + 1) % Capacity(q),
                 !.size = @ + 1]

\* Mutant: the head moves after the item is stored.
PushFrontLate(q, item) ==
  IF Full(q) THEN q
  ELSE [q EXCEPT !.data[q.head] = item,
                 !.head = (@ - 1 + Capacity(q)) % Capacity(q),
                 !.size = @ + 1]

PushFront(q, item) ==
  LET head == (q.head - 1 + Capacity(q)) % Capacity(q)
  IN  IF Full(q) THEN q
      ELSE [q EXCEPT !.data[head] = item, !.head = head, !.size = @ + 1]

\* k times pop, of a queue that has so many items
Pop(q, k) == [q EXCEPT !.head = (@ + k) % Capacity(q), !.size = @ - k]

PopBack(q) ==
  IF q.size = 0 THEN q
  ELSE [q EXCEPT !.tail = (@ - 1 + Capacity(q)) % Capacity(q), !.size = @ - 1]

Items(q) == [i \in 1 .. q.size |-> q.data[(q.head + i - 1) % Capacity(q)]]
=============================================================================
