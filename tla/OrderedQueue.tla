---------------------------- MODULE OrderedQueue ----------------------------
(***************************************************************************)
(* What Scheduler and Kernel assume of an avl_tree: it is a queue in the   *)
(* order of the keys, in which an element enters behind every element      *)
(* whose key is not greater, and which any element can leave.              *)
(***************************************************************************)
EXTENDS Integers, Sequences, SequencesExt

CONSTANTS Elem, Key

VARIABLE queue

Init == queue = << >>

Enter(new, e) ==
  \E i \in 1 .. Len(queue) + 1 :
    /\ new = InsertAt(queue, i, e)
    /\ \A j \in DOMAIN queue : j < i <=> Key[queue[j]] <= Key[e]

Leave(new) == \E i \in DOMAIN queue : new = RemoveAt(queue, i)

\* `new' is what the queue becomes.
Next == \E new \in {queue'} : Leave(new) \/ \E e \in Elem : Enter(new, e)

Spec == Init /\ [][Next]_queue
=============================================================================
