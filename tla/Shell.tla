------------------------------- MODULE Shell -------------------------------
(***************************************************************************)
(* The shell while an external command runs: command_external of           *)
(* applications/shell/main.cc carries what is typed to the child and what  *)
(* the child writes to the screen, until the child has exited.  Input and  *)
(* output of the shell are not redirected.                                 *)
(*                                                                         *)
(* Shell, child and terminal share four pipes, which never block: a read   *)
(* returns what there is, a write stores what fits (see Pipes).  Each of   *)
(* them may be preempted between any two system calls, so a call of the    *)
(* shell, with what the shell computes until the next one, is an action.   *)
(*                                                                         *)
(* What is typed, and what the child writes, is numbered, so that order,   *)
(* loss and repetition show.                                               *)
(***************************************************************************)
EXTENDS Integers, Sequences, SequencesExt

CONSTANTS
  FIFO_SIZE,      \* capacity of a pipe
  ChunkSize,      \* sizeof(buffer)
  BufferSize,     \* capacity of buffer_stdin
  MaxTyped,       \* bound: what is typed
  MaxWritten      \* bound: what the child writes

ASSUME ShellAssumption ==
  /\ FIFO_SIZE \in Nat \ {0} /\ ChunkSize \in Nat \ {0} /\ BufferSize \in Nat \ {0}
  /\ MaxTyped \in Nat /\ MaxWritten \in Nat

VARIABLES
  pc,             \* where the shell is
  buffer_stdin,   \* typed, and not yet written to the child
  buffer,         \* read from the child, and not yet on its way to the screen
  keyboard,       \* the pipes: /proc/<shell>/fifo/stdin
  screen,         \*            /proc/<shell>/fifo/stdout
  child_stdin,    \*            /proc/<child>/fifo/stdin
  child_stdout,   \*            /proc/<child>/fifo/stdout
  exited,         \* the child has exited
  typed, given,   \* how much was typed; what the child has read
  written, shown, \* how much the child has written; what the screen shows
  intact          \* no byte has found the buffer full, and no write to the
                  \* child or to the screen was short

shell == <<pc, buffer_stdin, buffer>>
pipes == <<keyboard, screen, child_stdin, child_stdout>>
child == <<exited, given, written>>
terminal == <<typed, shown>>
vars == <<shell, pipes, child, terminal, intact>>

Queue == INSTANCE CycleQueue

Pipe(max) == {s \in Seq(1 .. max) : Len(s) <= FIFO_SIZE}

TypeOK ==
  /\ pc \in {"stdin", "feed", "stdout", "show", "stat", "done"}
  /\ DOMAIN buffer_stdin.data = 0 .. BufferSize - 1
  /\ buffer_stdin.size \in 0 .. BufferSize
  /\ buffer_stdin.head \in 0 .. BufferSize - 1
  /\ buffer_stdin.tail = (buffer_stdin.head + buffer_stdin.size) % BufferSize
  /\ buffer \in Seq(1 .. MaxWritten) /\ Len(buffer) <= ChunkSize
  /\ keyboard \in Pipe(MaxTyped) /\ child_stdin \in Pipe(MaxTyped)
  /\ screen \in Pipe(MaxWritten) /\ child_stdout \in Pipe(MaxWritten)
  /\ exited \in BOOLEAN /\ intact \in [input : BOOLEAN, output : BOOLEAN]
  /\ typed \in 0 .. MaxTyped /\ given \in Seq(1 .. MaxTyped)
  /\ written \in 0 .. MaxWritten /\ shown \in Seq(1 .. MaxWritten)

Init ==
  /\ pc = "stdin"
  /\ buffer_stdin = Queue!NewQueue(BufferSize)
  /\ buffer = << >>
  /\ keyboard = << >> /\ screen = << >> /\ child_stdin = << >> /\ child_stdout = << >>
  /\ exited = FALSE
  /\ typed = 0 /\ given = << >> /\ written = 0 /\ shown = << >>
  /\ intact = [input |-> TRUE, output |-> TRUE]

-----------------------------------------------------------------------------
(* The pipes                                                               *)

Least(a, b) == IF a <= b THEN a ELSE b

\* What a read of at most n bytes returns, and what it leaves.
Taken(pipe, n) == SubSeq(pipe, 1, Least(n, Len(pipe)))

Left(pipe, n) == SubSeq(pipe, Least(n, Len(pipe)) + 1, Len(pipe))

Stored(pipe, bytes) == Least(Len(bytes), FIFO_SIZE - Len(pipe))

Extended(pipe, bytes) == pipe \o SubSeq(bytes, 1, Stored(pipe, bytes))

-----------------------------------------------------------------------------
(* The shell                                                               *)

PushAll(queue, bytes) == FoldLeft(Queue!Push, queue, bytes)

\* The rest of a short write goes back byte by byte, and so in reverse.
PushBack(queue, bytes) == FoldLeft(Queue!PushFront, queue, bytes)

\* read(fd_stdin), until there is nothing more
ReadStdin ==
  /\ pc = "stdin"
  /\ LET bytes == Taken(keyboard, ChunkSize)
     IN  /\ pc' = IF bytes = << >> THEN "feed" ELSE "stdin"
         /\ buffer_stdin' = PushAll(buffer_stdin, bytes)
         /\ intact' = [intact EXCEPT !.input =
                         @ /\ Len(bytes) <= BufferSize - buffer_stdin.size]
  /\ keyboard' = Left(keyboard, ChunkSize)
  /\ UNCHANGED <<buffer, screen, child_stdin, child_stdout, child, terminal>>

(***************************************************************************)
(* write(fd_stdin of the child), until the buffer is empty or the pipe     *)
(* full.  A chunk of which nothing is written is gone.                     *)
(***************************************************************************)
Feed ==
  /\ pc = "feed"
  /\ LET bytes == Taken(Queue!Items(buffer_stdin), ChunkSize)
         k == Stored(child_stdin, bytes)
         rest == SubSeq(bytes, k + 1, Len(bytes))
         popped == Queue!Pop(buffer_stdin, Len(bytes))
     IN  /\ child_stdin' = Extended(child_stdin, bytes)
         /\ IF k = 0
            THEN pc' = "stdout" /\ buffer_stdin' = popped
            ELSE pc' = "feed" /\ buffer_stdin' = PushBack(popped, rest)
         /\ intact' = [intact EXCEPT !.input = @ /\ rest = << >>]
  /\ UNCHANGED <<buffer, keyboard, screen, child_stdout, child, terminal>>

\* read(fd_stdout of the child)
ReadStdout ==
  /\ pc = "stdout"
  /\ buffer' = Taken(child_stdout, ChunkSize)
  /\ child_stdout' = Left(child_stdout, ChunkSize)
  /\ pc' = IF buffer' = << >> THEN "stat" ELSE "show"
  /\ UNCHANGED <<buffer_stdin, keyboard, screen, child_stdin, child, terminal, intact>>

\* Mutant: only the first byte of a chunk is shown.
ShowFirst ==
  /\ pc = "show"
  /\ screen' = Extended(screen, <<Head(buffer)>>)
  /\ intact' = [intact EXCEPT !.output = @ /\ Len(screen) < FIFO_SIZE]
  /\ buffer' = << >>
  /\ pc' = "stdin"
  /\ UNCHANGED <<buffer_stdin, keyboard, child_stdin, child_stdout, child, terminal>>

\* putchar: it does not look whether the byte was stored.
Show ==
  /\ pc = "show"
  /\ screen' = Extended(screen, <<Head(buffer)>>)
  /\ intact' = [intact EXCEPT !.output = @ /\ Len(screen) < FIFO_SIZE]
  /\ buffer' = Tail(buffer)
  /\ pc' = IF buffer' = << >> THEN "stdin" ELSE "show"
  /\ UNCHANGED <<buffer_stdin, keyboard, child_stdin, child_stdout, child, terminal>>

\* Mutant: a child that has exited is taken for one that sleeps.
StatInvalidOnly ==
  /\ pc = "stat"
  /\ pc' = "stdin"
  /\ UNCHANGED <<buffer_stdin, buffer, pipes, child, terminal, intact>>

\* tstat(pid); the shell sleeps while the child lives.
Stat ==
  /\ pc = "stat"
  /\ pc' = IF exited THEN "done" ELSE "stdin"
  /\ UNCHANGED <<buffer_stdin, buffer, pipes, child, terminal, intact>>

Relay == ReadStdin \/ Feed \/ ReadStdout \/ Show \/ Stat

Done == pc = "done" /\ UNCHANGED vars

-----------------------------------------------------------------------------
(* The child and the terminal                                              *)

ChildReads(n) ==
  /\ ~exited
  /\ given' = given \o Taken(child_stdin, n)
  /\ child_stdin' = Left(child_stdin, n)
  /\ UNCHANGED <<shell, keyboard, screen, child_stdout, exited, written, terminal, intact>>

ChildWrites(n) ==
  /\ ~exited
  /\ written + n <= MaxWritten
  /\ LET bytes == [i \in 1 .. n |-> written + i]
     IN  /\ child_stdout' = Extended(child_stdout, bytes)
         /\ written' = written + Stored(child_stdout, bytes)
  /\ UNCHANGED <<shell, keyboard, screen, child_stdin, exited, given, terminal, intact>>

ChildExits ==
  /\ ~exited
  /\ exited' = TRUE
  /\ UNCHANGED <<shell, pipes, given, written, terminal, intact>>

\* The terminal keeps a line it cannot write, and tries again.
Type ==
  /\ typed < MaxTyped
  /\ Len(keyboard) < FIFO_SIZE
  /\ typed' = typed + 1
  /\ keyboard' = Append(keyboard, typed + 1)
  /\ UNCHANGED <<shell, screen, child_stdin, child_stdout, child, shown, intact>>

Display ==
  /\ screen # << >>
  /\ shown' = shown \o screen
  /\ screen' = << >>
  /\ UNCHANGED <<shell, keyboard, child_stdin, child_stdout, child, typed, intact>>

Others ==
  \/ \E n \in {1, FIFO_SIZE} : ChildReads(n)
  \/ \E n \in 1 .. MaxWritten : ChildWrites(n)
  \/ ChildExits
  \/ Type
  \/ Display

Next == Relay \/ Others \/ Done

(***************************************************************************)
(* The shell is never blocked for ever: it gets the processor again after  *)
(* each preemption, and a timed signal ends its sleep (see Kernel).        *)
(***************************************************************************)
Spec == Init /\ [][Next]_vars /\ WF_vars(Relay)

-----------------------------------------------------------------------------
(* Properties                                                              *)

Upto(n) == [i \in 1 .. n |-> i]

(***************************************************************************)
(* The child reads what was typed, in order, and nothing is lost on the    *)
(* way, as long as the child keeps up: no byte has found the buffer full   *)
(* and no write was short.  Even then nothing is read twice.               *)
(***************************************************************************)
InputInOrder ==
  LET path == given \o child_stdin \o Queue!Items(buffer_stdin) \o keyboard
  IN  /\ TypeOK
      /\ IsInjective(path)
      /\ intact.input => path = Upto(typed)

(***************************************************************************)
(* The screen shows what the child wrote, in order, and nothing is lost on *)
(* the way, as long as the screen keeps up; the rest of it is missing only *)
(* if the shell has left it in the pipe.                                   *)
(***************************************************************************)
OutputInOrder ==
  LET path == shown \o screen \o buffer \o child_stdout
  IN  /\ \A i, j \in DOMAIN path : i < j => path[i] < path[j]
      /\ intact.output => path = Upto(written)

(***************************************************************************)
(* The shell comes back to its prompt after the child has exited, whatever *)
(* is typed and however full the pipes are.                                *)
(***************************************************************************)
ShellReturns == exited ~> pc = "done"
=============================================================================
