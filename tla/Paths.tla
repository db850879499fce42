------------------------------- MODULE Paths -------------------------------
(***************************************************************************)
(* Paths, as kernel/filesystem.cc resolves them in the tree of a file      *)
(* system, and as tools/wwfs.cc does when it adds files to an image.       *)
(*                                                                         *)
(* A tree is what Files promises: of each inode its type and its content,  *)
(* that of a directory being a sequence of entries.  A path is absolute,   *)
(* and given by its pieces between the slashes behind the first one: "/"   *)
(* is <<"">>, "/a/b" is <<"a", "b">>, "/a/" is <<"a", "">>.  The calls     *)
(* fail at once for a path that is not absolute.                           *)
(***************************************************************************)
EXTENDS Integers, FiniteSets, SequencesExt

Root == 0

\* What get_inode returns for a path that leads nowhere.
NoInode == -1

Entry(name, inode) == [name |-> name, inode |-> inode]

Node(type) == [type |-> type, content |-> << >>]

\* The root of a file system that has been formatted.
EmptyTree == [i \in {Root} |-> Node("DIRECTORY")]

IsDirectory(tree, i) == tree[i].type = "DIRECTORY"

Names(tree, dir) == [e \in DOMAIN tree[dir].content |-> tree[dir].content[e].name]

\* The inode of the first entry of that name: a set of one, or none.
Child(tree, dir, name) ==
  LET e == SelectInSeq(tree[dir].content, LAMBDA entry : entry.name = name)
  IN  {tree[dir].content[k].inode : k \in {e} \ {0}}

\* Without a slash at the end.
Stripped(path) == IF Last(path) = "" THEN Front(path) ELSE path

(***************************************************************************)
(* get_inode.  One slash at the end is ignored; after another one the loop *)
(* ends without a result.                                                  *)
(***************************************************************************)
GetInode(tree, path) ==
  LET pieces == Stripped(path)
      walk[k \in 0 .. Len(pieces)] ==
        IF k = 0 THEN {Root}
        ELSE UNION {Child(tree, dir, pieces[k]) :
                      dir \in {i \in walk[k - 1] : IsDirectory(tree, i)}}
      found == IF Last(pieces) = "" THEN {} ELSE walk[Len(pieces)]
  IN  IF path = <<"">> THEN Root
      ELSE CHOOSE i \in found \cup {NoInode} : found # {} => i \in found

(***************************************************************************)
(* get_parent_path: the part before the last slash, not counting one at    *)
(* the end, and the name behind it.  "/" has no parent.                    *)
(***************************************************************************)
ParentPath(path) ==
  IF Len(Stripped(path)) = 1 THEN <<"">> ELSE Front(Stripped(path))

NameOf(path) == Last(Stripped(path))

\* Inodes are given out in ascending order and never given back.
Added(tree, dir, name, type) ==
  LET new == Cardinality(DOMAIN tree)
  IN  [i \in DOMAIN tree \cup {new} |->
         IF i = new THEN Node(type)
         ELSE IF i = dir
         THEN [tree[i] EXCEPT !.content = Append(@, Entry(name, new))]
         ELSE tree[i]]

\* Mutant: create does not look for an entry of that name.
MayCreateAgain(tree, path) ==
  /\ path # <<"">>
  /\ GetInode(tree, ParentPath(path)) # NoInode
  /\ IsDirectory(tree, GetInode(tree, ParentPath(path)))

(***************************************************************************)
(* Whether create_shared_file_node succeeds: the parent is a directory and *)
(* has no entry of that name.                                              *)
(***************************************************************************)
MayCreate(tree, path) ==
  LET parent == GetInode(tree, ParentPath(path))
  IN  /\ path # <<"">>
      /\ parent # NoInode
      /\ IsDirectory(tree, parent)
      /\ Child(tree, parent, NameOf(path)) = {}

\* create_shared_file_node, when it succeeds
Created(tree, path, type) ==
  Added(tree, GetInode(tree, ParentPath(path)), NameOf(path), type)

\* Whether open_shared_file_node finds something it can open.
MayOpen(tree, path, mode) ==
  LET i == GetInode(tree, path)
  IN  /\ i # NoInode
      /\ ~(IsDirectory(tree, i) /\ mode = "WRITEONLY")

\* join_path, for a name without a slash
Join(path, name) == Append(Stripped(path), name)

(***************************************************************************)
(* write_data: old contents in front of the text and behind it stay.  What *)
(* lies between the old end and the text was not written by anybody.       *)
(***************************************************************************)
Written(content, offset, text, unknown) ==
  [k \in 1 .. IF offset + Len(text) > Len(content) THEN offset + Len(text)
                                                  ELSE Len(content) |->
     IF k \in offset + 1 .. offset + Len(text) THEN text[k - offset]
     ELSE IF k \in DOMAIN content THEN content[k] ELSE unknown]

(***************************************************************************)
(* add_file of the image tool, for a file <<path, text>> whose path ends   *)
(* in a name.  It creates the directories that are missing.  A file that   *)
(* exists is overwritten from its beginning and keeps what lies behind the *)
(* new text.  If the path leads through a file or to a directory, an       *)
(* assertion ends the tool, and the image stays as it was.                 *)
(***************************************************************************)
EnterAs(at, name, type) ==
  LET with == IF Child(at.tree, at.dir, name) # {} THEN at.tree
              ELSE Added(at.tree, at.dir, name, type)
  IN  IF IsDirectory(at.tree, at.dir)
      THEN [tree |-> with, dir |-> CHOOSE i \in Child(with, at.dir, name) : TRUE]
      ELSE at

Enter(at, name) == EnterAs(at, name, "DIRECTORY")

AddFile(tree, file) ==
  LET path == file[1]
      parent == FoldLeft(Enter, [tree |-> tree, dir |-> Root], Front(path))
      last == EnterAs(parent, Last(path), "FILE")
  IN  IF IsDirectory(parent.tree, parent.dir) /\ ~IsDirectory(last.tree, last.dir)
      THEN [last.tree EXCEPT ![last.dir].content = Written(@, 0, file[2], "")]
      ELSE tree
=============================================================================
