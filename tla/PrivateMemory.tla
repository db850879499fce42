--------------------------- MODULE PrivateMemory ---------------------------
(***************************************************************************)
(* What the kernel promises about the memory of processes: each has pages  *)
(* of its own, at the addresses it asked for; a fork gives the child pages *)
(* at the addresses of its parent; nobody's memory changes by what another *)
(* process does.  Until memory is used up: from then on the same page,     *)
(* NoPage, is given to everybody.                                          *)
(***************************************************************************)
EXTENDS Naturals

CONSTANTS Process, First, Address, Page, NoPage, Loadable

VARIABLE space     \* of each process: the page at each address it has

Nothing == [a \in {} |-> NoPage]

Pages(map) == {map[a] : a \in DOMAIN map} \ {NoPage}

InUse == UNION {Pages(space[p]) : p \in Process}

\* Pages that nobody has, another one at each address.
New(map) ==
  /\ Pages(map) \subseteq Page \ InUse
  /\ \A a, b \in DOMAIN map : a # b /\ map[a] = map[b] => map[a] = NoPage

Init ==
  /\ DOMAIN space[First] \in Loadable
  /\ Pages(space[First]) \subseteq Page
  /\ \A a, b \in DOMAIN space[First] :
       a # b /\ space[First][a] = space[First][b] => space[First][a] = NoPage
  /\ \A p \in Process \ {First} : space[p] = Nothing

(* In the actions, `map' is what the address space of p becomes.           *)

Becomes(p, map) == space' = [space EXCEPT ![p] = map]

Grow(p, map) ==
  \E a \in Address \ DOMAIN space[p] :
    /\ DOMAIN map = DOMAIN space[p] \cup {a}
    /\ \A b \in DOMAIN space[p] : map[b] = space[p][b]
    /\ map[a] \in (Page \ InUse) \cup {NoPage}

Fork(parent, p, map) ==
  /\ space[p] = Nothing
  /\ DOMAIN map = DOMAIN space[parent]
  /\ New(map)

Exec(p, map) == DOMAIN map \in Loadable /\ New(map)

Exit(p, map) == p # First /\ map = Nothing

Next ==
  \E p \in Process : \E map \in {space'[p]} :
    /\ Becomes(p, map)
    /\ \/ space[p] # Nothing /\ (Grow(p, map) \/ Exec(p, map) \/ Exit(p, map))
       \/ \E parent \in Process : space[parent] # Nothing /\ Fork(parent, p, map)

Spec == Init /\ [][Next]_space
=============================================================================
