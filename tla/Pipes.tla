------------------------------- MODULE Pipes -------------------------------
(***************************************************************************)
(* What named pipes promise the processes that use them, whoever opens,    *)
(* forks, execs, exits and closes in between: bytes arrive in the order in *)
(* which they were written, each of them once, and none is lost before it  *)
(* is read.  A write stores what there is room for; a read takes what      *)
(* there is and never waits.                                               *)
(***************************************************************************)
EXTENDS Naturals, Sequences

CONSTANTS Pipe, Message, Capacity

VARIABLES
  content,     \* the bytes written and not yet read
  received     \* what the last read returned

vars == <<content, received>>

Init == content = [f \in Pipe |-> << >>] /\ received = << >>

\* The first k bytes are stored, and they are not all of them only if that
\* fills the pipe.
Write(f, bytes, k) ==
  /\ Len(content[f]) + k <= Capacity
  /\ k < Len(bytes) => Len(content[f]) + k = Capacity
  /\ content' = [content EXCEPT ![f] = @ \o SubSeq(bytes, 1, k)]
  /\ UNCHANGED received

Read(f, n) ==
  /\ n <= Len(content[f])
  /\ received' = SubSeq(content[f], 1, n)
  /\ content' = [content EXCEPT ![f] = SubSeq(@, n + 1, Len(@))]

Next ==
  \E f \in Pipe :
    \/ \E bytes \in Message : \E k \in 0 .. Len(bytes) : Write(f, bytes, k)
    \/ \E n \in 0 .. Capacity : Read(f, n)

Spec == Init /\ [][Next]_vars
=============================================================================
