----------------------------- MODULE Terminals -----------------------------
(***************************************************************************)
(* applications/tty/main.cc: one keyboard and one screen for N_TTYS shells *)
(* and the log of the kernel.  The program polls: each round of its loop   *)
(* takes a key, feeds the shell of the current terminal, reads the output  *)
(* of all terminals, and shows that of the current one.  ESC suspends the  *)
(* rounds until the user has chosen a terminal.                            *)
(*                                                                         *)
(* A system call of the program, with what it computes until the next one, *)
(* is an action; the shells, and the kernel that writes the log, run in    *)
(* between.  Keys that are kept are numbered, and so is what the programs  *)
(* write: order, loss and the wrong terminal show.                         *)
(***************************************************************************)
EXTENDS Integers, Sequences, SequencesExt, FiniteSetsExt

CONSTANTS
  N_TTYS,         \* terminals with a shell
  FIFO_SIZE,      \* capacity of a pipe
  BufferSize,     \* BUFFER_SIZE
  ProxySize,      \* what a terminal remembers of its screen
  ChunkSize,      \* sizeof(buffer)
  MaxTyped,       \* bound: keys that are kept
  MaxWritten      \* bound: what the programs write

ASSUME TerminalsAssumption ==
  /\ N_TTYS \in Nat \ {0}
  /\ FIFO_SIZE \in Nat \ {0} /\ BufferSize \in Nat \ {0}
  /\ ProxySize \in Nat \ {0} /\ ChunkSize \in Nat \ {0}
  /\ MaxTyped \in Nat /\ MaxWritten \in Nat

\* The log is the last terminal.
Tty == 0 .. N_TTYS
Log == N_TTYS
Shells == Tty \ {Log}

VARIABLES
  pc,             \* where the program is
  next,           \* the terminal whose output is read next
  current_tty,
  ttys,           \* the terminals that are initialized
  buffer_line,    \* of each terminal: the line being typed,
  buffer_stdin,   \*   lines not yet written to the shell,
  buffer_stdout,  \*   output not yet shown,
  proxy,          \*   and the latest of what was shown
  screen,         \* the end of what the screen shows since it was cleared
  stdin, stdout,  \* the pipes of each terminal's shell
  entered,        \* what was entered at each terminal, and the shell has not read
  wrote,          \* what its programs have written, and was not shown
  typed, written, \* counters
  overrun,        \* the buffers that have dropped a byte
  mixed           \* terminals that showed output since their line was begun

program == <<pc, next, current_tty, ttys>>
buffers == <<buffer_line, buffer_stdin, buffer_stdout, proxy>>
input == <<entered, typed>>
output == <<wrote, written>>
vars == <<program, buffers, screen, stdin, stdout, input, output, overrun, mixed>>

Queue == INSTANCE CycleQueue

\* The log and the first terminal are initialized before the loop.
Init ==
  /\ pc = "key" /\ next = 0 /\ current_tty = 0 /\ ttys = {0, Log}
  /\ buffer_line = [t \in Tty |-> << >>]
  /\ buffer_stdin = [t \in Tty |-> << >>] /\ buffer_stdout = [t \in Tty |-> << >>]
  /\ proxy = [t \in Tty |-> Queue!NewQueue(ProxySize)]
  /\ screen = << >>
  /\ stdin = [t \in Tty |-> << >>] /\ stdout = [t \in Tty |-> << >>]
  /\ entered = [t \in Tty |-> << >>] /\ wrote = [t \in Tty |-> << >>]
  /\ typed = 0 /\ written = 0
  /\ overrun = [input |-> {}, output |-> {}]
  /\ mixed = {}

-----------------------------------------------------------------------------
(* Buffers                                                                 *)

\* The last n of the bytes: what is left of them in a buffer that makes room at
\* its head when it is full.
Latest(bytes, n) == SubSeq(bytes, Max({1, Len(bytes) - n + 1}), Len(bytes))

\* Mutant: a buffer that is full drops what comes, as cycle_queue does.
BufferedOldest(buffer, bytes) ==
  SubSeq(buffer \o bytes, 1, Min({BufferSize, Len(buffer) + Len(bytes)}))

Buffered(buffer, bytes) == Latest(buffer \o bytes, BufferSize)

Overruns(buffer, bytes) == Len(buffer) + Len(bytes) > BufferSize

\* output_proxy::write
Remember(queue, byte) ==
  Queue!Push(IF Queue!Full(queue) THEN Queue!Pop(queue, 1) ELSE queue, byte)

\* What is still to come once the bytes have: those behind the last of them.
Since(bytes, owed) ==
  IF bytes = << >> THEN owed
  ELSE LET come == {i \in DOMAIN owed : owed[i] <= Last(bytes)}
       IN  SubSeq(owed, Max(come \cup {0}) + 1, Len(owed))

\* The first terminal after t, or N_TTYS + 1.
After(t) == Min({u \in ttys : u > t} \cup {N_TTYS + 1})

-----------------------------------------------------------------------------
(* A key                                                                   *)

\* The rest of the round: the log has no shell to feed.
Proceed ==
  IF current_tty = Log THEN pc' = "read" /\ next' = 0 ELSE pc' = "feed" /\ next' = next

\* Mutant: the shell is fed when a key comes only.
NoKeyNoFeed ==
  /\ pc = "key"
  /\ pc' = "read" /\ next' = 0
  /\ UNCHANGED <<current_tty, ttys, buffers, screen, stdin, stdout, input, output,
                 overrun, mixed>>

\* No key, or one that is ignored: all are at the log, and BS on an empty line.
NoKey ==
  /\ pc = "key"
  /\ Proceed
  /\ UNCHANGED <<current_tty, ttys, buffers, screen, stdin, stdout, input, output,
                 overrun, mixed>>

\* A character of the line is echoed.
Type ==
  /\ pc = "key" /\ current_tty # Log /\ typed < MaxTyped
  /\ LET t == current_tty
     IN  /\ buffer_line' = [buffer_line EXCEPT ![t] = Append(@, typed + 1)]
         /\ proxy' = [proxy EXCEPT ![t] = Remember(@, typed + 1)]
         /\ mixed' = IF buffer_line[t] = << >> THEN mixed \ {t} ELSE mixed
  /\ screen' = Latest(Append(screen, typed + 1), ProxySize)
  /\ typed' = typed + 1
  /\ Proceed
  /\ UNCHANGED <<current_tty, ttys, buffer_stdin, buffer_stdout, stdout, stdin,
                 entered, output, overrun>>

\* The end of the line is echoed, and the line queued for the shell.
Enter ==
  /\ pc = "key" /\ current_tty # Log /\ typed < MaxTyped
  /\ LET t == current_tty
         line == Append(buffer_line[t], typed + 1)
     IN  /\ buffer_stdin' = [buffer_stdin EXCEPT ![t] = Buffered(@, line)]
         /\ buffer_line' = [buffer_line EXCEPT ![t] = << >>]
         /\ proxy' = [proxy EXCEPT ![t] = Remember(@, typed + 1)]
         /\ entered' = [entered EXCEPT ![t] = @ \o line]
         /\ overrun' = IF Overruns(buffer_stdin[t], line)
                       THEN [overrun EXCEPT !.input = @ \cup {t}] ELSE overrun
  /\ screen' = Latest(Append(screen, typed + 1), ProxySize)
  /\ typed' = typed + 1
  /\ Proceed
  /\ UNCHANGED <<current_tty, ttys, buffer_stdout, stdin, stdout, output, mixed>>

\* Mutant: the screen is not told.
BackspaceUnseen ==
  /\ pc = "key" /\ current_tty # Log
  /\ buffer_line[current_tty] # << >>
  /\ buffer_line' = [buffer_line EXCEPT ![current_tty] = Front(@)]
  /\ Proceed
  /\ UNCHANGED <<current_tty, ttys, proxy, screen, buffer_stdin, buffer_stdout,
                 stdin, stdout, input, output, overrun, mixed>>

\* Whatever was shown last is erased with the last character of the line.
Backspace ==
  /\ pc = "key" /\ current_tty # Log
  /\ buffer_line[current_tty] # << >>
  /\ buffer_line' = [buffer_line EXCEPT ![current_tty] = Front(@)]
  /\ proxy' = [proxy EXCEPT ![current_tty] = Queue!PopBack(@)]
  /\ screen' = Queue!Items(proxy'[current_tty])
  /\ Proceed
  /\ UNCHANGED <<current_tty, ttys, buffer_stdin, buffer_stdout, stdin, stdout,
                 input, output, overrun, mixed>>

\* ESC: the screen is the command mode's, which polls the keyboard only.
Escape ==
  /\ pc = "key"
  /\ pc' = "command"
  /\ screen' = << >>
  /\ UNCHANGED <<next, current_tty, ttys, buffers, stdin, stdout, input, output,
                 overrun, mixed>>

\* Mutant: the screen is not rewritten.
ChooseBlank(t) ==
  /\ pc = "command"
  /\ pc' = "key"
  /\ current_tty' = t
  /\ ttys' = ttys \cup {t}
  /\ UNCHANGED <<next, screen, buffers, stdin, stdout, input, output, overrun, mixed>>

\* ret, log or goto: a terminal that is new gets a shell.
Choose(t) ==
  /\ pc = "command"
  /\ pc' = "key"
  /\ current_tty' = t
  /\ ttys' = ttys \cup {t}
  /\ screen' = Queue!Items(proxy[t])
  /\ UNCHANGED <<next, buffers, stdin, stdout, input, output, overrun, mixed>>

-----------------------------------------------------------------------------
(* The rest of a round                                                     *)

\* Mutant: a byte leaves the buffer before it is known to be written.
FeedUnchecked ==
  /\ pc = "feed"
  /\ LET t == current_tty
         line == buffer_stdin[t]
     IN  IF line = << >>
         THEN pc' = "read" /\ next' = 0 /\ UNCHANGED <<buffer_stdin, stdin>>
         ELSE /\ buffer_stdin' = [buffer_stdin EXCEPT ![t] = Tail(@)]
              /\ stdin' = IF Len(stdin[t]) < FIFO_SIZE
                          THEN [stdin EXCEPT ![t] = Append(@, Head(line))] ELSE stdin
              /\ UNCHANGED <<pc, next>>
  /\ UNCHANGED <<current_tty, ttys, buffer_line, buffer_stdout, proxy, screen, stdout,
                 input, output, overrun, mixed>>

\* A byte is written to the shell, until there is none or the pipe is full.
Feed ==
  /\ pc = "feed"
  /\ LET t == current_tty
         line == buffer_stdin[t]
     IN  IF line = << >> \/ Len(stdin[t]) = FIFO_SIZE
         THEN pc' = "read" /\ next' = 0 /\ UNCHANGED <<buffer_stdin, stdin>>
         ELSE /\ stdin' = [stdin EXCEPT ![t] = Append(@, Head(line))]
              /\ buffer_stdin' = [buffer_stdin EXCEPT ![t] = Tail(@)]
              /\ UNCHANGED <<pc, next>>
  /\ UNCHANGED <<current_tty, ttys, buffer_line, buffer_stdout, proxy, screen, stdout,
                 input, output, overrun, mixed>>

\* The output of a terminal is read until a read is short.
Read ==
  /\ pc = "read" /\ next \in ttys
  /\ LET t == next
         size == Min({ChunkSize, Len(stdout[t])})
         chunk == SubSeq(stdout[t], 1, size)
     IN  /\ stdout' = [stdout EXCEPT ![t] = SubSeq(@, size + 1, Len(@))]
         /\ buffer_stdout' = [buffer_stdout EXCEPT ![t] = Buffered(@, chunk)]
         /\ overrun' = IF Overruns(buffer_stdout[t], chunk)
                       THEN [overrun EXCEPT !.output = @ \cup {t}] ELSE overrun
         /\ next' = IF size < ChunkSize THEN After(t) ELSE t
  /\ UNCHANGED <<pc, current_tty, ttys, buffer_line, buffer_stdin, proxy, screen, stdin,
                 input, output, mixed>>

\* What was read from the current terminal is shown.
Show ==
  /\ pc = "read" /\ next = N_TTYS + 1
  /\ pc' = "key" /\ next' = 0
  /\ LET t == current_tty
         items == buffer_stdout[t]
     IN  /\ proxy' = [proxy EXCEPT ![t] = FoldLeft(Remember, @, items)]
         /\ buffer_stdout' = [buffer_stdout EXCEPT ![t] = << >>]
         /\ screen' = Latest(screen \o items, ProxySize)
         /\ wrote' = [wrote EXCEPT ![t] = Since(items, @)]
         /\ mixed' = IF items # << >> THEN mixed \cup {t} ELSE mixed
  /\ UNCHANGED <<current_tty, ttys, buffer_line, buffer_stdin, stdin, stdout, input,
                 written, overrun>>

\* One step of the program, when the user does nothing.
Round == NoKey \/ Feed \/ Read \/ Show

-----------------------------------------------------------------------------
(* The programs behind the terminals                                       *)

ShellReads(t) ==
  /\ stdin[t] # << >>
  /\ entered' = [entered EXCEPT ![t] = Since(stdin[t], @)]
  /\ stdin' = [stdin EXCEPT ![t] = << >>]
  /\ UNCHANGED <<program, buffers, screen, stdout, typed, output, overrun, mixed>>

\* A byte that finds the pipe full is lost to its writer, and not counted.
Writes(t) ==
  /\ t \in ttys
  /\ written < MaxWritten /\ Len(stdout[t]) < FIFO_SIZE
  /\ LET byte == MaxTyped + written + 1
     IN  /\ stdout' = [stdout EXCEPT ![t] = Append(@, byte)]
         /\ wrote' = [wrote EXCEPT ![t] = Append(@, byte)]
  /\ written' = written + 1
  /\ UNCHANGED <<program, buffers, screen, stdin, input, overrun, mixed>>

User == Type \/ Enter \/ Backspace \/ Escape \/ \E t \in Tty : Choose(t)

Next ==
  \/ Round
  \/ User
  \/ \E t \in Shells : ShellReads(t)
  \/ \E t \in Tty : Writes(t)

(***************************************************************************)
(* The program never blocks, and neither do the shells, which read their   *)
(* input whether a command runs or not (see Shell): each gets the          *)
(* processor again after each preemption.  The user need not do anything.  *)
(***************************************************************************)
Spec ==
  /\ Init /\ [][Next]_vars
  /\ WF_vars(Round)
  /\ \A t \in Shells : WF_vars(ShellReads(t))

-----------------------------------------------------------------------------
(* Properties                                                              *)

Byte == 1 .. MaxTyped + MaxWritten

TypeOK ==
  /\ pc \in {"key", "command", "feed", "read"}
  /\ next \in 0 .. N_TTYS + 1 /\ (next \in ttys \cup {N_TTYS + 1})
  /\ current_tty \in ttys /\ ttys \subseteq Tty
  /\ \A t \in Tty :
       /\ buffer_line[t] \in Seq(1 .. MaxTyped)
       /\ Len(buffer_stdin[t]) <= BufferSize /\ Len(buffer_stdout[t]) <= BufferSize
       /\ proxy[t].size \in 0 .. ProxySize
       /\ proxy[t].tail = (proxy[t].head + proxy[t].size) % ProxySize
       /\ Len(stdin[t]) <= FIFO_SIZE /\ Len(stdout[t]) <= FIFO_SIZE
  /\ screen \in Seq(Byte)

Ordered(bytes) == \A i, j \in DOMAIN bytes : i < j => bytes[i] < bytes[j]

(***************************************************************************)
(* A shell gets what was entered at its terminal, in order, and nothing is *)
(* lost on the way, however often the user goes to another terminal and    *)
(* however full the pipe is; a buffer that is full drops its oldest bytes  *)
(* and no others, so that what it holds is the end of what was entered.    *)
(***************************************************************************)
LinesArrive ==
  /\ TypeOK
  /\ \A t \in Tty :
       LET path == stdin[t] \o buffer_stdin[t]
       IN  /\ IsSuffix(buffer_stdin[t], entered[t])
           /\ Ordered(path) /\ ToSet(path) \subseteq ToSet(entered[t])
           /\ t \notin overrun.input => path = entered[t]

(***************************************************************************)
(* What the programs of a terminal write is shown at that terminal, in     *)
(* order, and kept for it while the user is elsewhere; only the oldest     *)
(* bytes are dropped when its buffer is full.                              *)
(***************************************************************************)
OutputKept ==
  \A t \in Tty :
    LET path == buffer_stdout[t] \o stdout[t]
    IN  /\ IsSuffix(path, wrote[t])
        /\ t \notin overrun.output => path = wrote[t]

(***************************************************************************)
(* The screen shows the current terminal, and what the terminal remembers  *)
(* of it is the end of it: to go away and come back shows the same.        *)
(***************************************************************************)
ScreenIsCurrent ==
  pc # "command" => Queue!Items(proxy[current_tty]) = screen

(***************************************************************************)
(* The line that Enter will send is the one that is seen: backspaces take  *)
(* the same bytes from the line and from the screen.  This needs that no   *)
(* output came in between: a backspace then erases the output instead.     *)
(***************************************************************************)
LineAsSeen ==
  \A t \in Tty \ mixed :
    LET seen == Queue!Items(proxy[t])
    IN  IsSuffix(buffer_line[t], seen) \/ IsSuffix(seen, buffer_line[t])

(***************************************************************************)
(* A line that was entered reaches the shell, unless the user leaves the   *)
(* terminal first: the program feeds the current terminal only.            *)
(***************************************************************************)
LinesDelivered ==
  \A t \in Shells :
    buffer_stdin[t] # << >> ~>
      buffer_stdin[t] = << >> \/ current_tty # t \/ pc = "command"
=============================================================================
