------------------------------ MODULE Commands ------------------------------
(***************************************************************************)
(* Shells that carry out command lines on one tree of files: main() of     *)
(* applications/shell/main.cc with its parser, its redirections and its    *)
(* commands, the system calls they make (kernel/process.cc), the nodes     *)
(* (see Nodes) and the paths (see Paths) behind these.                     *)
(*                                                                         *)
(* A shell may be preempted between any two system calls: a call, with     *)
(* what the shell computes until the next one, is an action.  Text is      *)
(* counted in items, each of which is written by one call: a message, a    *)
(* name, the prompt.  What goes to the terminal is the subject of Shell    *)
(* and Terminals and takes no step here; the descriptors 0 and 1, of the   *)
(* pipes to it, are left out of `fds'.  Pipes are no part of the tree.     *)
(***************************************************************************)
EXTENDS Paths

CONSTANTS
  Shell,         \* the shells
  Programs,      \* stands for all the programs they have started
  Lines,         \* what may be typed, a sequence of tokens
  Pieces,        \* of each token that is an absolute path, its pieces
  Image,         \* files put into the image, <<path, text>>
  BufferSize,    \* entries for which get_children first has room
  Chunk,         \* items that cat reads at once
  MaxInodes,     \* bound: inodes in the tree
  MaxSize,       \* items in the largest possible file
  MaxFd          \* bound: no line is typed after so many descriptors

Inode == 0 .. MaxInodes - 1

\* The tree in the image.
ImageTree == FoldLeft(AddFile, EmptyTree, Image)

INSTANCE Nodes WITH Pid <- Shell \cup {Programs}, Fifo <- {}

ASSUME CommandsAssumption ==
  /\ Programs \notin Shell
  /\ Lines \subseteq Seq(STRING)
  /\ \A token \in DOMAIN Pieces : Pieces[token] \in Seq(STRING) \ {<< >>}
  /\ Image \in Seq((Seq(STRING) \ {<< >>}) \X Seq(STRING))
  /\ Cardinality(DOMAIN ImageTree) <= MaxInodes
  /\ BufferSize \in Nat \ {0} /\ Chunk \in Nat \ {0}
  /\ MaxInodes \in Nat \ {0} /\ MaxSize \in Nat /\ MaxFd \in Nat

VARIABLES
  files,         \* the tree
  table,         \* the nodes
  fds,           \* descriptors of a shell: [fd -> [node, mode, offset]]
  fd_counter,
  stale,         \* descriptors, <<shell, fd>>, whose node has been freed
  shell,         \* the variables of each shell, see Start
  halted         \* an assertion of the kernel has failed

kernel == <<table, fds, fd_counter, stale>>
vars == <<files, kernel, shell, halted>>

-----------------------------------------------------------------------------
(* The parser                                                              *)

Redirect == {"<", ">"}

\* The command and its arguments: what stands before the redirections.
WordsOf(tokens) ==
  LET first == SelectInSeq(tokens, LAMBDA t : t \in Redirect)
  IN  IF first = 0 THEN tokens ELSE SubSeq(tokens, 1, first - 1)

\* Where redirections begin, in what stands behind the words.
Marks(rest) == {k \in {1, 3} : k <= Len(rest)}

\* The file that comes behind "<" or ">", or none.
FileBehind(rest, kind) ==
  IF \E k \in Marks(rest) : rest[k] = kind
  THEN rest[(CHOOSE k \in Marks(rest) : rest[k] = kind) + 1] ELSE ""

(***************************************************************************)
(* statement_parser: a command, its arguments, and up to two redirections. *)
(* What follows the second redirection is not looked at.                   *)
(***************************************************************************)
Parse(tokens) ==
  LET words == WordsOf(tokens)
      rest == SubSeq(tokens, Len(words) + 1, Len(tokens))
      success == /\ words # << >>
                 /\ \A k \in Marks(rest) : /\ rest[k] \in Redirect
                                           /\ k + 1 <= Len(rest)
                                           /\ rest[k + 1] \notin Redirect
                 /\ Marks(rest) = {1, 3} => rest[1] # rest[3]
  IN  IF success
      THEN [success |-> TRUE, command |-> words[1], args |-> Tail(words),
            input |-> FileBehind(rest, "<"), output |-> FileBehind(rest, ">")]
      ELSE [success |-> FALSE]

-----------------------------------------------------------------------------
(* System calls                                                            *)

CanOpen(token, mode) ==
  token \in DOMAIN Pieces /\ MayOpen(files, Pieces[token], mode)

(***************************************************************************)
(* current_task_open, when it succeeds.  The descriptor is fd_counter[s].  *)
(***************************************************************************)
OpenPath(s, path, mode) ==
  \E i \in {GetInode(files, path)} :
      /\ table' = OpenNode(table, s, i, mode)
      /\ fds' = [fds EXCEPT ![s] =
                   [fd \in DOMAIN fds[s] \cup {fd_counter[s]} |->
                      IF fd = fd_counter[s]
                      THEN [node |-> i, mode |-> mode, offset |-> 0]
                      ELSE fds[s][fd]]]
      /\ fd_counter' = [fd_counter EXCEPT ![s] = @ + 1]
      /\ UNCHANGED stale
      /\ files' = IF mode = "WRITEONLY" THEN [files EXCEPT ![i].content = << >>]
                                        ELSE files

\* The pointer of a descriptor is to a node that has been freed.
Dangles(s, fd) == <<s, fd>> \in stale

\* The descriptors of the shells that point to the nodes of some inodes.
PointTo(inodes) ==
  UNION {{s} \X {fd \in DOMAIN fds[s] : fds[s][fd].node \in inodes} : s \in Shell}

(***************************************************************************)
(* current_task_close.  Whoever has a descriptor of a node that it frees   *)
(* keeps it, and it dangles from then on, also when the file is opened     *)
(* again and has another node.                                             *)
(***************************************************************************)
Close(s, fd) ==
  LET i == fds[s][fd].node
  IN  /\ halted' = Dangles(s, fd)
      /\ table' = IF halted' THEN table ELSE CloseNode(table, s, i, 1)
      /\ stale' = (stale \cup PointTo(table.opened \ table'.opened)) \ {<<s, fd>>}
      /\ fds' = [fds EXCEPT ![s] = [d \in DOMAIN @ \ {fd} |-> @[d]]]
      /\ UNCHANGED <<files, fd_counter>>

-----------------------------------------------------------------------------
(* The shell                                                               *)

Start ==
  [at      |-> "prompt", \* where it is
   cmd     |-> [success |-> FALSE],  \* the last line that could be parsed
   stdin   |-> 0,        \* fd_stdin
   stdout  |-> 1,        \* fd_stdout
   pending |-> << >>,    \* what it is about to put to fd_stdout
   fd      |-> 0,        \* the descriptor ls or cat works on
   size    |-> 0,        \* of the buffer for the children
   names   |-> << >>,    \* what get_children has returned
   shown   |-> 0,        \* how many of them ls has shown
   before  |-> << >>,    \* auxiliary: the entries when ls opened the directory
   last    |-> "",       \* the last item that cat has read
   rest    |-> << >>,    \* what it puts when it has closed `fd'
   failed  |-> FALSE]    \* auxiliary: a redirection has failed since a command

Init ==
  /\ files = ImageTree
  /\ table = NoNodes
  /\ fds = [s \in Shell |-> << >>]
  /\ fd_counter = [s \in Shell |-> 2]
  /\ stale = {}
  /\ shell = [s \in Shell |-> Start]
  /\ halted = FALSE

At(s, place) == ~halted /\ shell[s].at = place /\ shell[s].pending = << >>

Runs(s, command) == At(s, "command") /\ shell[s].cmd.command = command

Arg(s) == shell[s].cmd.args[1]

OneArg(s) == Len(shell[s].cmd.args) = 1

\* What is put to the terminal takes no step.
Say(s, items) == IF shell[s].stdout = 1 THEN << >> ELSE items

\* The shell says something and goes on at a place.
Go(s, place, items) ==
  shell' = [shell EXCEPT ![s].at = place, ![s].pending = Say(s, items)]

\* A command has ended, with a message or none.
End(s, items) == Go(s, "reset", items)

Fail(s) == End(s, <<"message">>) /\ UNCHANGED <<files, kernel, halted>>

\* A redirection has failed: back to the prompt, and nothing is taken back.
GiveUp(s) ==
  /\ shell' = [shell EXCEPT ![s].at = "prompt", ![s].failed = TRUE,
                            ![s].pending = Say(s, <<"message", "prompt">>)]
  /\ UNCHANGED <<files, kernel>>

AfterOutput(cmd) == IF cmd.input # "" THEN "input" ELSE "command"

\* getline, and what main() does with the line; an empty one is skipped.
ReadLine(s) ==
  /\ At(s, "prompt")
  /\ fd_counter[s] <= MaxFd
  /\ shell[s].stdout # 1 => fds[s][shell[s].stdout].offset + 2 <= MaxSize
  /\ \E tokens \in Lines :
       LET cmd == Parse(tokens)
       IN  IF cmd.success
           THEN shell' = [shell EXCEPT ![s].cmd = cmd,
                            ![s].at = IF cmd.output # "" THEN "output"
                                      ELSE AfterOutput(cmd)]
           ELSE Go(s, "prompt", IF tokens = << >> THEN <<"prompt">>
                                ELSE <<"message", "prompt">>)
  /\ UNCHANGED <<files, kernel, halted>>

(***************************************************************************)
(* `> file': it is opened, or else created and opened.  When that fails    *)
(* the shell goes back to the prompt.                                      *)
(***************************************************************************)
OpenOutput(s) ==
  LET cmd == shell[s].cmd
  IN  /\ At(s, "output") \/ At(s, "reopen")
      /\ IF CanOpen(cmd.output, "WRITEONLY")
         THEN /\ OpenPath(s, Pieces[cmd.output], "WRITEONLY")
              /\ shell' = [shell EXCEPT ![s].stdout = fd_counter[s],
                                        ![s].at = AfterOutput(cmd)]
         ELSE IF At(s, "output")
         THEN Go(s, "create", << >>) /\ UNCHANGED <<files, kernel>>
         ELSE GiveUp(s)
      /\ UNCHANGED halted

CanCreate(token) == token \in DOMAIN Pieces /\ MayCreate(files, Pieces[token])

\* The bound of the tree.
HasInode == Cardinality(DOMAIN files) < MaxInodes

\* current_task_create; its result is not looked at.
CreateOutput(s) ==
  LET output == shell[s].cmd.output
  IN  /\ At(s, "create")
      /\ CanCreate(output) => HasInode
      /\ files' = IF CanCreate(output) THEN Created(files, Pieces[output], "FILE")
                                       ELSE files
      /\ Go(s, "reopen", << >>)
      /\ UNCHANGED <<kernel, halted>>

(***************************************************************************)
(* `< file'.  When it cannot be opened the shell goes back to the prompt,  *)
(* with its output where it was redirected to.                             *)
(***************************************************************************)
OpenInput(s) ==
  LET cmd == shell[s].cmd
  IN  /\ At(s, "input")
      /\ IF CanOpen(cmd.input, "READONLY")
         THEN /\ OpenPath(s, Pieces[cmd.input], "READONLY")
              /\ shell' = [shell EXCEPT ![s].stdin = fd_counter[s],
                                        ![s].at = "command"]
         ELSE GiveUp(s)
      /\ UNCHANGED halted

\* The loop of putchar.  A file that cannot grow fails "Invalid index".
Put(s) ==
  LET items == shell[s].pending
      d == fds[s][shell[s].stdout]
      full == d.offset = MaxSize
  IN  /\ ~halted /\ items # << >>
      /\ ~Dangles(s, shell[s].stdout)
      /\ halted' = full
      /\ files' = IF full THEN files
                  ELSE [files EXCEPT ![d.node].content =
                          Written(@, d.offset, <<Head(items)>>, "unknown")]
      /\ fds' = [fds EXCEPT ![s][shell[s].stdout].offset = @ + 1]
      /\ shell' = [shell EXCEPT ![s].pending = Tail(@)]
      /\ UNCHANGED <<table, fd_counter, stale>>

\* putchar to a file whose node has been freed: undefined, see Nodes.
PutFreed(s) ==
  /\ ~halted /\ shell[s].pending # << >>
  /\ Dangles(s, shell[s].stdout)
  /\ halted' = TRUE
  /\ UNCHANGED <<files, kernel, shell>>

-----------------------------------------------------------------------------
(* Commands                                                                *)

\* echo, help, clear, getpid: they put something.
Echo(s) ==
  /\ Runs(s, "echo")
  /\ End(s, <<"text">>)
  /\ UNCHANGED <<files, kernel, halted>>

Mkdir(s) ==
  /\ Runs(s, "mkdir")
  /\ IF OneArg(s) /\ CanCreate(Arg(s))
     THEN /\ HasInode
          /\ files' = Created(files, Pieces[Arg(s)], "DIRECTORY")
          /\ End(s, << >>)
          /\ UNCHANGED <<kernel, halted>>
     ELSE Fail(s)

Ls(s) ==
  /\ Runs(s, "ls")
  /\ IF OneArg(s) /\ CanOpen(Arg(s), "READONLY")
     THEN LET i == GetInode(files, Pieces[Arg(s)])
          IN  /\ OpenPath(s, Pieces[Arg(s)], "READONLY")
              /\ shell' = [shell EXCEPT
                             ![s].at = "children", ![s].fd = fd_counter[s],
                             ![s].size = BufferSize,
                             ![s].before = IF IsDirectory(files, i)
                                           THEN Names(files, i) ELSE << >>]
              /\ UNCHANGED halted
     ELSE Fail(s)

\* parse_null_terminated_strings ends at an empty name.
Visible(names) ==
  LET first == SelectInSeq(names, LAMBDA name : name = "")
  IN  IF first = 0 THEN names ELSE SubSeq(names, 1, first - 1)

\* Mutant: the buffer does not grow, and what fits in it is taken.
GetChildrenOnce(s) ==
  /\ At(s, "children")
  /\ LET i == fds[s][shell[s].fd].node
         names == Visible(Names(files, i))
     IN  IF ~IsDirectory(files, i)
         THEN shell' = [shell EXCEPT ![s].at = "close", ![s].rest = << >>,
                                     ![s].pending = Say(s, <<"message">>)]
         ELSE shell' = [shell EXCEPT ![s].at = "child", ![s].shown = 0,
                          ![s].names = IF Len(names) > shell[s].size
                                       THEN SubSeq(names, 1, shell[s].size)
                                       ELSE names]
  /\ UNCHANGED <<files, kernel, halted>>

(***************************************************************************)
(* get_children of libwwos asks again, with a buffer of the size that the  *)
(* kernel has named, as long as the directory does not fit.  When there    *)
(* are no children ls returns without closing the directory.               *)
(***************************************************************************)
GetChildren(s) ==
  /\ At(s, "children")
  /\ LET i == fds[s][shell[s].fd].node
         required == Len(Names(files, i))
         names == Visible(Names(files, i))
     IN  IF ~IsDirectory(files, i)
         THEN shell' = [shell EXCEPT ![s].at = "close", ![s].rest = << >>,
                                     ![s].pending = Say(s, <<"message">>)]
         ELSE IF required > shell[s].size
         THEN shell' = [shell EXCEPT ![s].size = required]
         ELSE IF names = << >>
         THEN End(s, <<"message">>)
         ELSE shell' = [shell EXCEPT ![s].at = "child", ![s].names = names,
                                     ![s].shown = 0]
  /\ UNCHANGED <<files, kernel, halted>>

\* Mutant: the descriptor of the child is closed.
ShowChildAndClose(s) ==
  LET names == shell[s].names
      k == shell[s].shown + 1
      i == GetInode(files, Join(Pieces[Arg(s)], names[k]))
      opened == OpenNode(table, s, i, "READONLY")
  IN  /\ At(s, "child")
      /\ table' = CloseNode(opened, s, i, 1)
      /\ stale' = stale \cup PointTo(table.opened \ table'.opened)
      /\ shell' = [shell EXCEPT ![s].shown = k,
                     ![s].at = IF k = Len(names) THEN "reset" ELSE "child",
                     ![s].pending = Say(s, <<names[k]>>)]
      /\ fd_counter' = [fd_counter EXCEPT ![s] = @ + 1]
      /\ UNCHANGED <<files, fds, halted>>

(***************************************************************************)
(* ls opens each child, asks for its type and size, and shows it.  Neither *)
(* the child nor, at the end, the directory is closed.                     *)
(***************************************************************************)
ShowChild(s) ==
  LET names == shell[s].names
      k == shell[s].shown + 1
  IN  /\ At(s, "child")
      /\ \E path \in {Join(Pieces[Arg(s)], names[k])} :
           IF MayOpen(files, path, "READONLY")
           THEN /\ OpenPath(s, path, "READONLY")
                /\ shell' = [shell EXCEPT ![s].shown = k,
                               ![s].at = IF k = Len(names) THEN "reset" ELSE "child",
                               ![s].pending = Say(s, <<names[k]>>)]
                /\ UNCHANGED halted
           ELSE Fail(s)

Cat(s) ==
  /\ Runs(s, "cat")
  /\ IF OneArg(s) /\ CanOpen(Arg(s), "READONLY")
     THEN /\ OpenPath(s, Pieces[Arg(s)], "READONLY")
          /\ shell' = [shell EXCEPT ![s].at = "read", ![s].fd = fd_counter[s],
                                    ![s].last = ""]
          /\ UNCHANGED halted
     ELSE Fail(s)

\* Items that do not end a line.
Partial == {"", "prompt", "word", "unknown"}

\* The read of a directory, or of a file beyond its end, returns an error.
ReadError(s) ==
  /\ shell' = [shell EXCEPT ![s].at = "close", ![s].rest = << >>,
                            ![s].pending = Say(s, <<"message">>)]
  /\ UNCHANGED halted

(***************************************************************************)
(* cat reads a chunk and puts it.  A file that was truncated meanwhile may *)
(* end before the offset: depending on whether both are in one block, the  *)
(* kernel halts, or it moves the offset to the end and returns a negative  *)
(* size (see FileTable!ReadFileBeyondEnd).                                 *)
(***************************************************************************)
ReadChunk(s) ==
  LET fd == shell[s].fd
      d == fds[s][fd]
      content == files[d.node].content
      end == IF d.offset + Chunk < Len(content) THEN d.offset + Chunk
                                                ELSE Len(content)
  IN  /\ At(s, "read")
      /\ \/ /\ IsDirectory(files, d.node)
            /\ ReadError(s)
            /\ UNCHANGED fds
         \/ /\ ~IsDirectory(files, d.node) /\ d.offset < end
            /\ shell' = [shell EXCEPT ![s].last = content[end],
                           ![s].pending = Say(s, SubSeq(content, d.offset + 1, end))]
            /\ fds' = [fds EXCEPT ![s][fd].offset = end]
            /\ UNCHANGED halted
         \/ /\ ~IsDirectory(files, d.node) /\ d.offset = end
            /\ shell' = [shell EXCEPT ![s].at = "close",
                           ![s].rest = IF shell[s].last \in Partial
                                       THEN <<"newline">> ELSE << >>]
            /\ UNCHANGED <<fds, halted>>
         \/ /\ d.offset > end
            /\ \/ halted' = TRUE /\ UNCHANGED <<fds, shell>>
               \/ /\ end > 0
                  /\ fds' = [fds EXCEPT ![s][fd].offset = end]
                  /\ ReadError(s)
      /\ UNCHANGED <<files, table, fd_counter, stale>>

\* close(fd), and what the command puts behind it
CloseFd(s) ==
  /\ At(s, "close")
  /\ Close(s, shell[s].fd)
  /\ End(s, shell[s].rest)

(***************************************************************************)
(* command_external: the program is opened, and stays so.                  *)
(***************************************************************************)
External(s) ==
  LET command == shell[s].cmd.command
  IN  /\ At(s, "command")
      /\ command \notin {"ls", "mkdir", "cat", "echo"}
      /\ IF CanOpen(command, "READONLY")
         THEN /\ OpenPath(s, Pieces[command], "READONLY")
              /\ Go(s, "fork", << >>)
              /\ UNCHANGED halted
         ELSE Fail(s)

(***************************************************************************)
(* The shell forks, and opens the two pipes to the child.  This executes   *)
(* the program, which drops the descriptors it has inherited without       *)
(* closing them (see FileTable!Exec).  A fork with a descriptor whose node *)
(* has been freed is undefined.                                            *)
(***************************************************************************)
Fork(s) ==
  LET opens == [i \in Inode |->
                  Cardinality({fd \in DOMAIN fds[s] : fds[s][fd].node = i})]
  IN  /\ At(s, "fork")
      /\ halted' = \E fd \in DOMAIN fds[s] : Dangles(s, fd)
      /\ table' = Inherit(table, s, Programs, opens)
      /\ fd_counter' = [fd_counter EXCEPT ![s] = @ + 2]
      /\ Go(s, "relay", << >>)
      /\ UNCHANGED <<files, fds, stale>>

(***************************************************************************)
(* While the program runs, the shell reads a redirected input to its end,  *)
(* time and again; an error (see ReadChunk) is put as a message.  Shell    *)
(* models the relay to the program.                                        *)
(***************************************************************************)
RelayInput(s) ==
  LET fd == shell[s].stdin
      d == fds[s][fd]
      end == Len(files[d.node].content)
  IN  /\ At(s, "relay") /\ fd # 0
      /\ \/ /\ IsDirectory(files, d.node)
            /\ Go(s, "relay", <<"message">>)
            /\ UNCHANGED <<fds, halted>>
         \/ /\ ~IsDirectory(files, d.node) /\ d.offset < end
            /\ fds' = [fds EXCEPT ![s][fd].offset = end]
            /\ UNCHANGED <<shell, halted>>
         \/ /\ ~IsDirectory(files, d.node) /\ d.offset > end
            /\ \/ halted' = TRUE /\ UNCHANGED <<fds, shell>>
               \/ /\ end > 0
                  /\ fds' = [fds EXCEPT ![s][fd].offset = end]
                  /\ Go(s, "relay", <<"message">>)
                  /\ UNCHANGED halted
      /\ UNCHANGED <<files, table, fd_counter, stale>>

\* The program has put something, and the relay sees that it has ended.
RelayEnd(s) ==
  /\ At(s, "relay")
  /\ End(s, <<"text">>)
  /\ UNCHANGED <<files, kernel, halted>>

\* Mutant: the output stays redirected.
ResetInputOnly(s) ==
  /\ At(s, "reset")
  /\ IF shell[s].stdin # 0
     THEN Close(s, shell[s].stdin) /\ shell' = [shell EXCEPT ![s].stdin = 0]
     ELSE /\ shell' = [shell EXCEPT ![s].at = "prompt", ![s].failed = FALSE]
          /\ UNCHANGED <<files, kernel, halted>>

\* The end of the loop in main(): the redirections are taken back.
Reset(s) ==
  /\ At(s, "reset")
  /\ IF shell[s].stdin # 0
     THEN Close(s, shell[s].stdin) /\ shell' = [shell EXCEPT ![s].stdin = 0]
     ELSE IF shell[s].stdout # 1
     THEN /\ Close(s, shell[s].stdout)
          /\ shell' = [shell EXCEPT ![s].stdout = 1, ![s].at = "prompt",
                                    ![s].failed = FALSE]
     ELSE /\ shell' = [shell EXCEPT ![s].at = "prompt", ![s].failed = FALSE]
          /\ UNCHANGED <<files, kernel, halted>>

-----------------------------------------------------------------------------
\* What a shell does without being typed to.
Works(s) ==
  \/ RelayInput(s) \/ RelayEnd(s)
  \/ OpenOutput(s) \/ CreateOutput(s) \/ OpenInput(s)
  \/ Put(s) \/ PutFreed(s)
  \/ Echo(s) \/ Mkdir(s) \/ External(s) \/ Fork(s)
  \/ Ls(s) \/ GetChildren(s) \/ ShowChild(s)
  \/ Cat(s) \/ ReadChunk(s) \/ CloseFd(s)
  \/ Reset(s)

Next == \E s \in Shell : ReadLine(s) \/ Works(s)

Spec == Init /\ [][Next]_vars

-----------------------------------------------------------------------------
(* Properties                                                              *)

TypeOK ==
  /\ DOMAIN files = 0 .. Cardinality(DOMAIN files) - 1
  /\ table.opened \subseteq DOMAIN files
  /\ \A s \in Shell :
       /\ fd_counter[s] \in Nat
       /\ DOMAIN fds[s] \subseteq 2 .. fd_counter[s] - 1
       /\ shell[s].stdin \in {0} \cup DOMAIN fds[s]
       /\ shell[s].stdout \in {1} \cup DOMAIN fds[s]
  /\ stale \subseteq UNION {{s} \X DOMAIN fds[s] : s \in Shell}
  /\ halted \in BOOLEAN

(***************************************************************************)
(* ls shows a directory as it was at one moment.  The names it goes        *)
(* through are the first entries of the directory, in order, and include   *)
(* all that were there when it opened the directory, although other shells *)
(* create entries between the calls and the buffer has to grow.  An entry  *)
(* without a name, which mkdir creates in "/d//", hides those behind it.   *)
(***************************************************************************)
ListingComplete ==
  \A s \in Shell : shell[s].at = "child" =>
    /\ IsPrefix(Visible(shell[s].before), shell[s].names)
    /\ IsPrefix(shell[s].names,
                Visible(Names(files, fds[s][shell[s].fd].node)))

(***************************************************************************)
(* Every entry with a name is found by its path: what create puts into a   *)
(* parent that get_parent_path and get_inode have found, get_inode finds   *)
(* there again, and no other entry hides it.                               *)
(***************************************************************************)
EveryEntryFound ==
  \A path \in Range(Pieces) :
    LET dir == GetInode(files, path)
    IN  dir # NoInode /\ IsDirectory(files, dir) =>
          \A e \in Range(files[dir].content) :
            e.name # "" => GetInode(files, Join(path, e.name)) = e.inode

(***************************************************************************)
(* A redirection ends with its command.  At the prompt the input is the    *)
(* terminal, and the output is, too, unless a redirection has failed since *)
(* the last command; then it may still go to a file, one that is open.     *)
(***************************************************************************)
RedirectionEnds ==
  /\ TypeOK
  /\ \A s \in Shell : shell[s].at = "prompt" =>
       /\ shell[s].stdin = 0
       /\ shell[s].stdout # 1 =>
            /\ shell[s].failed
            /\ fds[s][shell[s].stdout].mode = "WRITEONLY"

(***************************************************************************)
(* The file a shell writes to stays open under it, unless the command      *)
(* reads that very file.  close strikes out the writer together with a     *)
(* reader, so that every further open of the file by the shell matters:    *)
(* ls opens it when it lists its directory, and is saved by not closing.   *)
(***************************************************************************)
ReadsOutput(s) ==
  \E token \in Range(shell[s].cmd.args) \cup {shell[s].cmd.input} :
    /\ token \in DOMAIN Pieces
    /\ GetInode(files, Pieces[token]) = fds[s][shell[s].stdout].node

OutputHeld ==
  \A s \in Shell : shell[s].stdout # 1 /\ ~halted =>
    \/ ~Dangles(s, shell[s].stdout)
    \/ ReadsOutput(s)
=============================================================================
