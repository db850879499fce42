------------------------------- MODULE Files -------------------------------
(***************************************************************************)
(* What a file system promises: a tree of directories and files, in which  *)
(* a file holds what was written to it last, and in which an operation on  *)
(* one file leaves every other file and every directory alone.             *)
(***************************************************************************)
EXTENDS Naturals, Sequences

CONSTANTS Id, Root, Name, Type, Text, MaxSize

VARIABLE files     \* of each file or directory that exists: its type and content

Init == files = [i \in {Root} |-> [type |-> "DIRECTORY", content |-> << >>]]

(* In the actions, `new' is what the variable becomes.                     *)

Create(new, dir, name, type) ==
  /\ files[dir].type = "DIRECTORY"
  /\ name \notin {files[dir].content[e].name : e \in DOMAIN files[dir].content}
  /\ \E id \in Id \ DOMAIN files :
       new = [i \in DOMAIN files \cup {id} |->
                CASE i = id -> [type |-> type, content |-> << >>]
                  [] i = dir -> [files[i] EXCEPT !.content =
                                   Append(@, [name |-> name, inode |-> id])]
                  [] OTHER -> files[i]]

(***************************************************************************)
(* A write may begin beyond the end of the file; what lies between its old *)
(* end and the text that is written is not specified.                      *)
(***************************************************************************)
Write(new, file, offset, text) ==
  LET before == files[file].content
      after == new[file].content
      end == offset + Len(text)
  IN  /\ files[file].type = "FILE"
      /\ new = [files EXCEPT ![file].content = after]
      /\ Len(after) = IF end > Len(before) THEN end ELSE Len(before)
      /\ SubSeq(after, offset + 1, end) = text
      /\ \A k \in DOMAIN before : k \in offset + 1 .. end \/ after[k] = before[k]

Truncate(new, file) ==
  /\ files[file].type = "FILE"
  /\ new = [files EXCEPT ![file].content = << >>]

Next ==
  \E new \in {files'}, i \in DOMAIN files :
    \/ \E name \in Name, type \in Type : Create(new, i, name, type)
    \/ \E offset \in 0 .. MaxSize, text \in Text : Write(new, i, offset, text)
    \/ Truncate(new, i)

Spec == Init /\ [][Next]_files
=============================================================================
