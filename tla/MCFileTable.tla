---------------------------- MODULE MCFileTable ----------------------------
(* Small instances of FileTable for TLC. *)
EXTENDS FileTable

CONSTANTS log, pipe, file

TwoProcesses == 0 .. 1

JustLog == {log}
LogAndPipe == {log, pipe}
LogAndFile == {log, file}

\* Of the pipes that come with a process, one is modelled: process 1's input.
StdinOfOne == [p \in Pid |-> IF p = 1 THEN {pipe} ELSE {}]
\* A message may fit a pipe in part.
ShortAndLong == {<<0>>, <<1>>, <<0, 1>>}
OneByte == {<<0>>}
NoStdio == [p \in Pid |-> {}]
=============================================================================
