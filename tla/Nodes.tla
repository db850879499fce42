------------------------------- MODULE Nodes -------------------------------
(***************************************************************************)
(* The shared_file_nodes of kernel/filesystem.cc, as functions on a table  *)
(* of them.  An inode that some process has open has one node, which lists *)
(* the readers and the writers by process, once for every open.  The table *)
(* has the nodes there are, by their inodes (the maps p_snode_inode and    *)
(* p_inode_snode are inverse to each other).  A descriptor holds a pointer *)
(* to a node, and an inode that is opened again after its node was freed   *)
(* has another one: the modules that have descriptors keep apart those     *)
(* whose node has been freed (`stale').                                    *)
(***************************************************************************)
EXTENDS Integers, Sequences

CONSTANTS
  Pid,         \* processes
  Inode,       \* what can be opened
  Fifo         \* the named pipes among them

\* No inode is open.
NoNodes ==
  [ opened  |-> {},                               \* inodes that have a node
    readers |-> [i \in Inode |-> [p \in Pid |-> 0]],  \* how often a process
    writers |-> [i \in Inode |-> [p \in Pid |-> 0]],  \* is listed
    fifo    |-> [i \in Fifo |-> << >>] ]

Registered(t, i) == \E p \in Pid : t.readers[i][p] > 0 \/ t.writers[i][p] > 0

(***************************************************************************)
(* open_shared_file_node: the first open creates the node, with an empty   *)
(* queue if the inode is a pipe.                                           *)
(***************************************************************************)
OpenNode(t, p, i, mode) ==
  LET fresh == i \notin t.opened /\ i \in Fifo
      added == [t EXCEPT !.opened = @ \cup {i},
                         !.fifo = IF fresh THEN [@ EXCEPT ![i] = << >>] ELSE @]
  IN  IF mode = "READONLY"
      THEN [added EXCEPT !.readers[i][p] = @ + 1]
      ELSE [added EXCEPT !.writers[i][p] = @ + 1]

\* Mutant: the node goes although the pipe holds bytes.
DropQueue(t, i) == ~Registered(t, i)

\* Mutant: only the nodes of pipes go.
KeepFiles(t, i) == ~Registered(t, i) /\ i \in Fifo /\ t.fifo[i] = << >>

(***************************************************************************)
(* Whether close frees the node: nobody is listed, and a pipe is empty.    *)
(***************************************************************************)
Unused(t, i) == ~Registered(t, i) /\ (i \in Fifo => t.fifo[i] = << >>)

\* k times: find the process in a list of n and erase it, if it is there.
Less(n, k) == IF n > k THEN n - k ELSE 0

(***************************************************************************)
(* close_shared_file_node, k times in a row.  One close strikes out one    *)
(* reader and one writer of that process, whatever the descriptor's mode.  *)
(***************************************************************************)
CloseNode(t, p, i, k) ==
  LET struck == [t EXCEPT !.readers[i][p] = Less(@, k),
                          !.writers[i][p] = Less(@, k)]
  IN  IF k > 0 /\ Unused(struck, i)
      THEN [struck EXCEPT !.opened = @ \ {i}]
      ELSE struck

(***************************************************************************)
(* The last of k closes of one node in a row finds it already freed: what  *)
(* it does then is undefined, and the models stop there.                   *)
(***************************************************************************)
FreedBefore(t, p, i, k) ==
  k > 1 /\ i \notin CloseNode(t, p, i, k - 1).opened

\* Mutant: the child is not listed.
InheritNothing(t, p, c, opens) == t

(***************************************************************************)
(* fork_current_task: for every descriptor of the parent (opens[i] many on *)
(* inode i) the child is listed at the node as often as the parent is.  A  *)
(* parent with two descriptors on a node makes a child that is listed four *)
(* times.  The loop appends to the vector it runs over: that is defined,   *)
(* and modelled, for lists that stay within the vector's first 16 places.  *)
(***************************************************************************)
Inherit(t, p, c, opens) ==
  LET listed(list) == [i \in Inode |->
                         [list[i] EXCEPT ![c] = @ + opens[i] * list[i][p]]]
  IN  [t EXCEPT !.readers = listed(@), !.writers = listed(@)]
=============================================================================
