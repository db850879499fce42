------------------------------ MODULE AvlTree ------------------------------
(***************************************************************************)
(* avl_tree, include/wwos/avl.h, with its pointers: the tree behind the    *)
(* scheduler, the clocks and every map of the kernel.                      *)
(*                                                                         *)
(* The nodes that are allocated are the domain of `heap'; following a null *)
(* pointer or a pointer to a deleted node is an error to TLC, so a run     *)
(* that ends shows that no operation does.                                 *)
(***************************************************************************)
EXTENDS Integers, FiniteSets, SequencesExt

CONSTANTS
  Elem,        \* what is stored: numbers, which are also the nodes' addresses
  Key,         \* by what operator< compares elements
  Null

ASSUME AvlAssumption ==
  /\ IsFiniteSet(Elem) /\ Elem \subseteq Nat /\ Null \notin Elem
  /\ Key \in [Elem -> Int]

VARIABLES
  heap,        \* the nodes
  root

treeVars == <<heap, root>>

Pointer == Elem \cup {Null}

Node == [data : Elem, left : Pointer, right : Pointer, parent : Pointer, height : Int]

TreeTypeOK ==
  /\ DOMAIN heap \subseteq Elem
  /\ heap \in [DOMAIN heap -> Node]
  /\ root \in DOMAIN heap \cup {Null}

-----------------------------------------------------------------------------
(* Links and heights.                                                      *)

\* connect_lc and connect_rc
ConnectLeft(h, parent, child) ==
  IF child = Null THEN [h EXCEPT ![parent].left = Null]
                  ELSE [h EXCEPT ![parent].left = child, ![child].parent = parent]

ConnectRight(h, parent, child) ==
  IF child = Null THEN [h EXCEPT ![parent].right = Null]
                  ELSE [h EXCEPT ![parent].right = child, ![child].parent = parent]

\* Put a child into the place that another one has below the parent.
Replace(h, parent, old, new) ==
  IF h[parent].left = old THEN ConnectLeft(h, parent, new)
                          ELSE ConnectRight(h, parent, new)

HeightOf(h, n) == IF n = Null THEN -1 ELSE h[n].height

UpdateHeight(h, n) ==
  LET left == HeightOf(h, h[n].left)
      right == HeightOf(h, h[n].right)
  IN  [h EXCEPT ![n].height = IF left > right THEN left + 1 ELSE right + 1]

-----------------------------------------------------------------------------
(* Rotations.                                                              *)

\* Mutant: the node above is not told.
LiftUnlinked(h, parent, top, low) ==
  [top |-> top,
   heap |-> [UpdateHeight(UpdateHeight(h, low), top) EXCEPT ![top].parent = parent]]

\* `top' takes the place of `low', above which it now is.
Lift(h, parent, top, low) ==
  LET placed == [UpdateHeight(UpdateHeight(h, low), top) EXCEPT ![top].parent = parent]
  IN  [top |-> top,
       heap |-> IF parent = Null THEN placed ELSE Replace(placed, parent, low, top)]

\* The two links that a rotation sets to what they are already are left out.
RotateClockwise(h, n) ==
  LET left == h[n].left
  IN  Lift(ConnectRight(ConnectLeft(h, n, h[left].right), left, n),
           h[n].parent, left, n)

RotateCounterclockwise(h, n) ==
  LET right == h[n].right
  IN  Lift(ConnectLeft(ConnectRight(h, n, h[right].left), right, n),
           h[n].parent, right, n)

\* Mutant: an inner grandchild that is the higher one is not lifted first.
BalanceOnce(h, n) ==
  LET left == HeightOf(h, h[n].left)
      right == HeightOf(h, h[n].right)
  IN  CASE left > right + 1 -> RotateClockwise(h, n)
        [] right > left + 1 -> RotateCounterclockwise(h, n)
        [] OTHER -> [top |-> n, heap |-> UpdateHeight(h, n)]

(***************************************************************************)
(* One turn of the loop in update_height_and_rebalance.  A child that does *)
(* not exist counts as one of height -1, which is what the tests for null  *)
(* come to; the four conditions then leave no case for the assertion.  If  *)
(* the grandchildren are equally high, which only remove brings about, the *)
(* right side is rotated once, but the left side twice.                    *)
(***************************************************************************)
Balance(h, n) ==
  LET l == h[n].left
      r == h[n].right
      left == HeightOf(h, l)
      right == HeightOf(h, r)
      lifted_left == RotateCounterclockwise(h, l)
      lifted_right == RotateClockwise(h, r)
      outer_left == HeightOf(h, h[l].left) > HeightOf(h, h[l].right)
      outer_right == HeightOf(h, h[r].left) <= HeightOf(h, h[r].right)
  IN  CASE left > right + 1 /\ outer_left -> RotateClockwise(h, n)
        [] left > right + 1 /\ ~outer_left ->
             RotateClockwise([lifted_left.heap EXCEPT ![n].left = lifted_left.top], n)
        [] right > left + 1 /\ outer_right -> RotateCounterclockwise(h, n)
        [] right > left + 1 /\ ~outer_right ->
             RotateCounterclockwise([lifted_right.heap EXCEPT ![n].right = lifted_right.top], n)
        [] OTHER -> [top |-> n, heap |-> UpdateHeight(h, n)]

\* A turn at the node t.at; the next one is at the parent of what is there now.
Climb(t) ==
  LET done == Balance(t.heap, t.at)
  IN  [at |-> done.heap[done.top].parent, top |-> done.top, heap |-> done.heap]

(***************************************************************************)
(* update_height_and_rebalance: from n up to the root.  The way is no      *)
(* longer than there are nodes; what remains at the top is the root.       *)
(***************************************************************************)
Rebalance(h, n) ==
  LET turn[k \in 0 .. Cardinality(DOMAIN h)] ==
        IF k = 0 THEN [at |-> n, top |-> n, heap |-> h]
        ELSE LET t == turn[k - 1] IN IF t.at = Null THEN t ELSE Climb(t)
      done == turn[Cardinality(DOMAIN h)]
  IN  [top |-> done.top, heap |-> [done.heap EXCEPT ![done.top].parent = Null]]

-----------------------------------------------------------------------------
(* insert, find and remove.                                                *)

\* Mutant: an element goes before those that are equal to it.
SideBeforeEqual(h, n, e) ==
  IF Key[e] <= Key[h[n].data] THEN h[n].left ELSE h[n].right

\* On which side of a node an element belongs.
Side(h, n, e) == IF Key[e] < Key[h[n].data] THEN h[n].left ELSE h[n].right

\* find: the node below which an element belongs
Find(h, top, e) ==
  LET at[k \in 0 .. Cardinality(DOMAIN h)] ==
        IF k = 0 THEN top
        ELSE LET n == at[k - 1] IN IF Side(h, n, e) = Null THEN n ELSE Side(h, n, e)
  IN  at[Cardinality(DOMAIN h)]

\* The largest element below a node.
Largest(h, top) ==
  LET at[k \in 0 .. Cardinality(DOMAIN h)] ==
        IF k = 0 THEN top
        ELSE LET n == at[k - 1] IN IF h[n].right = Null THEN n ELSE h[n].right
  IN  at[Cardinality(DOMAIN h)]

\* The address of a new node does not matter; this choice makes for few states.
New(e) == IF e \notin DOMAIN heap THEN e
          ELSE CHOOSE n \in Elem \ DOMAIN heap :
                 \A m \in Elem \ DOMAIN heap : n <= m

TreeInit == heap = << >> /\ root = Null

\* Elements are objects; each of them is in the tree once at most.
InsertNode(e) ==
  LET n == New(e)
      leaf == [data |-> e, left |-> Null, right |-> Null, parent |-> Null, height |-> 0]
      grown == [m \in DOMAIN heap \cup {n} |-> IF m = n THEN leaf ELSE heap[m]]
      parent == Find(heap, root, e)
      linked == IF Key[e] < Key[heap[parent].data] THEN ConnectLeft(grown, parent, n)
                                                   ELSE ConnectRight(grown, parent, n)
      done == Rebalance(linked, parent)
  IN  /\ \A m \in DOMAIN heap : heap[m].data # e
      /\ IF root = Null
         THEN heap' = grown /\ root' = n
         ELSE heap' = done.heap /\ root' = done.top

Delete(h, n) == [m \in DOMAIN h \ {n} |-> h[m]]

\* A node without two children: its child, if it has one, takes its place.
RemoveOuter(n) ==
  LET child == IF heap[n].left = Null THEN heap[n].right ELSE heap[n].left
      parent == heap[n].parent
      done == Rebalance(Replace(heap, parent, n, child), parent)
  IN  /\ heap[n].left = Null \/ heap[n].right = Null
      /\ IF parent = Null
         THEN /\ root' = child
              /\ heap' = Delete(IF child = Null THEN heap
                                ELSE [heap EXCEPT ![child].parent = Null], n)
         ELSE /\ root' = done.top
              /\ heap' = Delete(done.heap, n)

\* A node with two: the largest element on its left moves into it.
RemoveInner(n) ==
  LET largest == Largest(heap, heap[n].left)
      parent == heap[largest].parent
      moved == [heap EXCEPT ![n].data = heap[largest].data]
      done == Rebalance(Replace(moved, parent, largest, heap[largest].left), parent)
  IN  /\ heap[n].left # Null /\ heap[n].right # Null
      /\ root' = done.top
      /\ heap' = Delete(done.heap, largest)

TreeNext ==
  \/ \E e \in Elem : InsertNode(e)
  \/ \E n \in DOMAIN heap : RemoveOuter(n) \/ RemoveInner(n)

TreeSpec == TreeInit /\ [][TreeNext]_treeVars

-----------------------------------------------------------------------------
(* Properties                                                              *)

Children(n) == {heap[n].left, heap[n].right} \ {Null}

Ordered ==
  LET from[n \in DOMAIN heap \cup {Null}] ==
        IF n = Null THEN << >>
        ELSE from[heap[n].left] \o <<heap[n].data>> \o from[heap[n].right]
  IN  from[root]

(***************************************************************************)
(* The pointers form one tree of all the nodes: the root has no parent,    *)
(* parents and children agree, and nothing is unreachable or reached twice.*)
(* The heights that rotations decide by are the heights of the subtrees.   *)
(***************************************************************************)
Linked ==
  /\ TreeTypeOK
  /\ root # Null => heap[root].parent = Null
  /\ \A n \in DOMAIN heap : \A child \in Children(n) : heap[child].parent = n
  /\ Len(Ordered) = Cardinality(DOMAIN heap)
  /\ \A n \in DOMAIN heap :
       heap[n].height = Max({-1} \cup {heap[c].height : c \in Children(n)}) + 1

(***************************************************************************)
(* As the name avl_tree says: the two subtrees of a node differ by 1 in    *)
(* height at most.                                                         *)
(***************************************************************************)
Balanced ==
  \A n \in DOMAIN heap :
    HeightOf(heap, heap[n].left) - HeightOf(heap, heap[n].right) \in -1 .. 1

(***************************************************************************)
(* An insertion into a balanced tree leaves it balanced.  (A removal does  *)
(* not always: see Balance.)                                               *)
(***************************************************************************)
InsertionBalances ==
  [][Balanced /\ Cardinality(DOMAIN heap') > Cardinality(DOMAIN heap) => Balanced']_treeVars

(***************************************************************************)
(* Whatever the rotations do, the tree is the ordered queue as which       *)
(* Scheduler and Kernel model it.                                          *)
(***************************************************************************)
Queue == INSTANCE OrderedQueue WITH queue <- Ordered

ImplementsQueue == Queue!Spec
=============================================================================
