---------------------------- MODULE CommandProofs ----------------------------
(***************************************************************************)
(* Proofs about Commands, for every set of shells, every command line,     *)
(* every image and every size of the tree.  The first part is about paths: *)
(* what the lookups of get_inode find in a tree whose directories have     *)
(* each name once, and that creating, writing and truncating keep it so.   *)
(* The second part is the inductive invariant: the tree is sound, nobody   *)
(* is listed at a node that is not open, and of every shell that its       *)
(* descriptors, its redirections and the place where it is fit together    *)
(* (Fits).  A step of one shell can disturb another only through the tree, *)
(* which grows, so that what a path has led to it goes on to lead to       *)
(* (FitsMore, StepKeeps); that leaves one lemma for each action.  Last     *)
(* come the nodes that are freed under a descriptor: a shell whose output  *)
(* dangles is listed no more at the file (Fresh), which an invariant of    *)
(* the table alone does not say, as the file may have another node by now. *)
(***************************************************************************)
EXTENDS Commands, ListLemmas

-----------------------------------------------------------------------------
(* Trees                                                                   *)

\* What is known of the first element with a property.
LEMMA FirstWith ==
  ASSUME NEW n \in Nat, NEW I \in SUBSET (1 .. n), NEW e, e = IF I # {} THEN Min(I) ELSE 0
  PROVE  \/ e = 0 /\ I = {}
         \/ e \in I /\ \A k \in I : e <= k
<1>1. CASE I = {}
  BY <1>1
<1>2. CASE I # {}
  <2>0. I \subseteq Nat
    OBVIOUS
  <2>1. Min(I) \in I /\ \A y \in I : Min(I) <= y
    BY <1>2, <2>0, MinProperties
  <2> QED BY <1>2, <2>1
<1> QED BY <1>1, <1>2

\* What names and texts are made of: strings, among them those that a shell
\* puts itself.
Items == STRING \cup {"", "newline", "message", "prompt", "text", "unknown"}

Entries == [name : Items, inode : Nat]

Inodes ==
  [type : {"DIRECTORY"}, content : Seq(Entries)] \cup [type : {"FILE"}, content : Seq(Items)]

Sound(tree, n) ==
  /\ tree[Root].type = "DIRECTORY"
  /\ \A i \in 0 .. n - 1 : tree[i].type = "DIRECTORY" =>
       /\ \A k \in DOMAIN tree[i].content : tree[i].content[k].inode \in 0 .. n - 1
       /\ \A k, l \in DOMAIN tree[i].content :
            tree[i].content[k].name = tree[i].content[l].name => k = l

TreesOf(n) == {tree \in [0 .. n - 1 -> Inodes] : Sound(tree, n)}

Trees == UNION {TreesOf(n) : n \in Nat \ {0}}

\* A tree is one of some size.
LEMMA TreeType ==
  ASSUME NEW tree \in Trees
  PROVE  \E n \in Nat \ {0} : /\ DOMAIN tree = 0 .. n - 1 /\ Cardinality(DOMAIN tree) = n
                              /\ tree \in TreesOf(n)
<1>1. PICK n \in Nat \ {0} : tree \in TreesOf(n)
  BY DEF Trees
<1>2. DOMAIN tree = 0 .. n - 1
  BY <1>1 DEF TreesOf
<1>3. Cardinality(0 .. n - 1) = n
  BY FS_Interval
<1> QED BY <1>1, <1>2, <1>3

\* The first entry of a name.
FirstOf(c, name, k) ==
  /\ k \in DOMAIN c
  /\ c[k].name = name
  /\ \A l \in DOMAIN c : l < k => c[l].name # name

\* What a name leads to: nothing, or the inode of the first such entry.
Leads(c, name, found) ==
  \/ found = {} /\ \A k \in DOMAIN c : c[k].name # name
  \/ \E k : FirstOf(c, name, k) /\ found = {c[k].inode}

\* find_child looks for the first entry.
LEMMA ChildFound ==
  ASSUME NEW tree, NEW dir, NEW c \in Seq(Entries), tree[dir].content = c, NEW name
  PROVE  Leads(c, name, Child(tree, dir, name))
<1>2. PICK I : I = {i \in 1 .. Len(c) : c[i].name = name}
  OBVIOUS
<1>3. PICK e : e = IF I # {} THEN Min(I) ELSE 0
  OBVIOUS
<1>4. Child(tree, dir, name) = {c[k].inode : k \in {e} \ {0}}
  BY <1>2, <1>3 DEF Child, SelectInSeq
<1>5. \/ e = 0 /\ I = {}
      \/ e \in I /\ \A k \in I : e <= k
  <2>1. Len(c) \in Nat /\ I \in SUBSET (1 .. Len(c))
    BY <1>2
  <2> QED BY <1>3, <2>1, FirstWith
<1>6. DOMAIN c = 1 .. Len(c) /\ Len(c) \in Nat
  OBVIOUS
<1>7. CASE e = 0 /\ I = {}
  BY <1>2, <1>4, <1>6, <1>7 DEF Leads
<1>8. CASE e \in I /\ \A k \in I : e <= k
  <2>1. e \in DOMAIN c /\ c[e].name = name /\ e # 0
    BY <1>2, <1>6, <1>8
  <2>2. ASSUME NEW l \in DOMAIN c, l < e PROVE c[l].name # name
    BY <1>2, <1>6, <1>8, <2>1, <2>2
  <2>3. Child(tree, dir, name) = {c[e].inode}
    BY <1>4, <2>1
  <2> QED BY <2>1, <2>2, <2>3 DEF FirstOf, Leads
<1> QED BY <1>5, <1>7, <1>8

\* What an inode holds, by its type.
LEMMA ContentType ==
  ASSUME NEW n \in Nat, NEW tree \in TreesOf(n), NEW i \in 0 .. n - 1
  PROVE  /\ tree[i].type \in {"DIRECTORY", "FILE"}
         /\ tree[i].type = "DIRECTORY" => tree[i].content \in Seq(Entries)
         /\ tree[i].type # "DIRECTORY" => tree[i].content \in Seq(Items)
<1>1. tree[i] \in Inodes
  BY DEF TreesOf
<1>2. PICK x \in Inodes : x = tree[i]
  BY <1>1
<1>3. CASE x \in [type : {"DIRECTORY"}, content : Seq(Entries)]
  BY <1>2, <1>3
<1>4. CASE x \in [type : {"FILE"}, content : Seq(Items)]
  BY <1>2, <1>4
<1> QED BY <1>2, <1>3, <1>4 DEF Inodes

\* A name leads from a directory to an inode, if to any.
LEMMA ChildIn ==
  ASSUME NEW n \in Nat, NEW tree \in TreesOf(n), NEW dir \in 0 .. n - 1, IsDirectory(tree, dir), NEW name
  PROVE  Child(tree, dir, name) = {} \/ \E i \in 0 .. n - 1 : Child(tree, dir, name) = {i}
<1>1. PICK c \in Seq(Entries) : c = tree[dir].content
  BY ContentType DEF IsDirectory
<1>2. \A k \in DOMAIN c : c[k].inode \in 0 .. n - 1
  BY <1>1 DEF TreesOf, Sound, IsDirectory
<1>3. Leads(c, name, Child(tree, dir, name))
  BY <1>1, ChildFound
<1> QED BY <1>1, <1>2, <1>3 DEF FirstOf, Leads

\* A tree that has come from another one: no inode goes or changes its type,
\* and a directory keeps its entries in their places.
Extends(c, d) == Len(c) <= Len(d) /\ \A k \in 1 .. Len(c) : d[k] = c[k]

Grows(t, u) ==
  /\ DOMAIN t \subseteq DOMAIN u
  /\ \A i \in DOMAIN t : /\ u[i].type = t[i].type
                         /\ t[i].type = "DIRECTORY" => Extends(t[i].content, u[i].content)

\* A tree that stays as it is.
LEMMA GrowsSelf ==
  ASSUME NEW tree \in Trees
  PROVE  Grows(tree, tree)
<1>1. PICK n \in Nat \ {0} : DOMAIN tree = 0 .. n - 1 /\ tree \in TreesOf(n)
  BY TreeType
<1>2. ASSUME NEW i \in 0 .. n - 1, tree[i].type = "DIRECTORY"
      PROVE  Extends(tree[i].content, tree[i].content)
  <2>0. n \in Nat /\ tree \in TreesOf(n)
    BY <1>1
  <2>1. tree[i].content \in Seq(Entries)
    BY <1>2, <2>0, ContentType
  <2>2. Len(tree[i].content) \in Nat
    BY <2>1
  <2> QED BY <2>2 DEF Extends
<1> QED BY <1>1, <1>2 DEF Grows

\* basic_file_system::create
LEMMA AddedSound ==
  ASSUME NEW n \in Nat \ {0}, NEW tree \in TreesOf(n), NEW dir \in 0 .. n - 1, IsDirectory(tree, dir),
         NEW name \in Items, NEW type \in {"DIRECTORY", "FILE"}, Child(tree, dir, name) = {}
  PROVE  LET t == Added(tree, dir, name, type)
         IN  /\ t \in TreesOf(n + 1) /\ Grows(tree, t)
             /\ Child(t, dir, name) = {n} /\ t[n].type = type
<1>1. DOMAIN tree = 0 .. n - 1 /\ n \notin 0 .. n - 1 /\ n \in 0 .. n
  BY DEF TreesOf
<1>2. Cardinality(DOMAIN tree) = n
  BY <1>1, FS_Interval
<1>3. PICK c \in Seq(Entries) : c = tree[dir].content
  BY ContentType DEF IsDirectory
<1>4. PICK t : t = Added(tree, dir, name, type)
  OBVIOUS
<1>5. PICK e \in Entries : e = Entry(name, n) /\ e.name = name /\ e.inode = n
  <2>1. [name |-> name, inode |-> n] \in Entries
    BY DEF Entries
  <2> QED BY <2>1 DEF Entry
<1>6. PICK d \in Seq(Entries) : d = Append(c, e)
  BY AppendProperties
<1>7. /\ Len(c) \in Nat /\ Len(d) = Len(c) + 1 /\ d[Len(c) + 1] = e
      /\ \A k \in 1 .. Len(c) : d[k] = c[k]
      /\ DOMAIN c = 1 .. Len(c) /\ DOMAIN d = 1 .. Len(c) + 1
  BY <1>6
<1>8. t = [i \in 0 .. n |-> IF i = n THEN Node(type)
                             ELSE IF i = dir THEN [tree[i] EXCEPT !.content = Append(@, e)]
                             ELSE tree[i]]
  <2>1. DOMAIN tree \cup {n} = 0 .. n
    BY <1>1
  <2> QED BY <1>2, <1>4, <1>5, <2>1 DEF Added
<1>9. tree[dir] \in [type : {"DIRECTORY"}, content : Seq(Entries)]
  <2>1. tree[dir] \in Inodes
    BY DEF TreesOf
  <2> QED BY <2>1 DEF Inodes, IsDirectory
<1>10. /\ t[n] = [type |-> type, content |-> << >>]
       /\ t[dir] = [type |-> "DIRECTORY", content |-> d]
       /\ \A i \in 0 .. n - 1 : i # dir => t[i] = tree[i]
  <2>1. t[dir] = [tree[dir] EXCEPT !.content = Append(@, e)]
    BY <1>1, <1>8
  <2>2. t[dir] = [type |-> "DIRECTORY", content |-> d]
    BY <1>3, <1>6, <1>9, <2>1
  <2> QED BY <1>1, <1>8, <2>2 DEF Node
<1>11. t \in [0 .. n -> Inodes]
  <2>1. t[n] \in Inodes
    BY <1>10 DEF Inodes
  <2>2. t[dir] \in Inodes
    BY <1>10 DEF Inodes
  <2>3. \A i \in 0 .. n - 1 : t[i] \in Inodes
    BY <1>10, <2>2 DEF TreesOf
  <2>4. \A i \in 0 .. n : i = n \/ i \in 0 .. n - 1
    OBVIOUS
  <2> QED BY <1>8, <2>1, <2>3, <2>4
<1>12. \A k \in DOMAIN c : c[k].name # name
  <2>1. Leads(c, name, {})
    BY <1>3, ChildFound
  <2> QED BY <2>1 DEF FirstOf, Leads
<1>13. /\ \A k \in DOMAIN c : c[k].inode \in 0 .. n - 1
       /\ \A k, l \in DOMAIN c : c[k].name = c[l].name => k = l
  BY <1>3 DEF TreesOf, Sound, IsDirectory
<1>14. Sound(t, n + 1)
  <2> SUFFICES ASSUME NEW i \in 0 .. n, t[i].type = "DIRECTORY"
               PROVE  /\ \A k \in DOMAIN t[i].content : t[i].content[k].inode \in 0 .. n
                      /\ \A k, l \in DOMAIN t[i].content :
                           t[i].content[k].name = t[i].content[l].name => k = l
    <3>1. t[Root].type = "DIRECTORY"
      <4>1. Root \in 0 .. n - 1 /\ tree[Root].type = "DIRECTORY"
        BY DEF Root, TreesOf, Sound
      <4> QED BY <1>10, <4>1
    <3> QED BY <3>1 DEF Sound
  <2>1. CASE i = n
    BY <1>10, <2>1
  <2>2. CASE i = dir
    <3>1. t[i].content = d
      BY <1>10, <2>2
    <3>2. \A k \in DOMAIN d : (k \in DOMAIN c /\ d[k] = c[k]) \/ (k = Len(c) + 1 /\ d[k] = e)
      BY <1>7
    <3> QED BY <1>5, <1>12, <1>13, <3>1, <3>2, SMTT(30)
  <2>3. CASE i # n /\ i # dir
    <3>1. i \in 0 .. n - 1 /\ t[i] = tree[i]
      BY <1>10, <2>3
    <3> QED BY <2>3, <3>1 DEF TreesOf, Sound
  <2> QED BY <2>1, <2>2, <2>3
<1>15. t \in TreesOf(n + 1)
  BY <1>11, <1>14 DEF TreesOf
<1>16. Grows(tree, t)
  <2>1. Extends(c, d)
    BY <1>7 DEF Extends
  <2>2. Grows(tree, tree)
    BY GrowsSelf DEF Trees
  <2>3. 0 .. n - 1 \subseteq 0 .. n /\ DOMAIN t = 0 .. n
    BY <1>8
  <2>4. tree[dir].type = "DIRECTORY"
    BY DEF IsDirectory
  <2> QED BY <1>1, <1>3, <1>10, <2>1, <2>2, <2>3, <2>4 DEF Grows
<1>17. Child(t, dir, name) = {n}
  <2>1. t[dir].content = d
    BY <1>10
  <2>2. \A k \in DOMAIN d : d[k].name = name => k = Len(c) + 1
    BY <1>7, <1>12
  <2>3. Len(c) + 1 \in DOMAIN d /\ d[Len(c) + 1].name = name /\ d[Len(c) + 1].inode = n
    BY <1>5, <1>7
  <2>4. Leads(d, name, Child(t, dir, name))
    BY <2>1, ChildFound
  <2> QED BY <2>2, <2>3, <2>4 DEF FirstOf, Leads
<1> QED BY <1>4, <1>10, <1>15, <1>16, <1>17

\* The content of a file may become any text.
LEMMA ContentSound ==
  ASSUME NEW n \in Nat, NEW tree \in TreesOf(n), NEW i \in 0 .. n - 1, ~ IsDirectory(tree, i),
         NEW text \in Seq(Items)
  PROVE  LET t == [tree EXCEPT ![i].content = text]
         IN  t \in TreesOf(n) /\ Grows(tree, t)
<1>1. PICK t : t = [tree EXCEPT ![i].content = text]
  OBVIOUS
<1>2. tree \in [0 .. n - 1 -> Inodes] /\ tree[i].type = "FILE"
  BY ContentType DEF TreesOf, IsDirectory
<1>3. tree[i] \in [type : {"FILE"}, content : Seq(Items)]
  BY <1>2 DEF Inodes
<1>4. t[i] = [type |-> "FILE", content |-> text] /\ \A j \in 0 .. n - 1 : j # i => t[j] = tree[j]
  BY <1>1, <1>2, <1>3
<1>5. t[i] \in Inodes
  BY <1>4 DEF Inodes
<1>6. t \in [0 .. n - 1 -> Inodes]
  BY <1>1, <1>2, <1>4, <1>5
<1>7. \A j \in 0 .. n - 1 : t[j].type = tree[j].type /\ (t[j].type = "DIRECTORY" => t[j] = tree[j])
  BY <1>2, <1>4
<1>8. n # 0 /\ Root \in 0 .. n - 1
  BY DEF Root
<1>9. Sound(t, n)
  BY <1>7, <1>8 DEF Sound, TreesOf
<1>10. t \in TreesOf(n)
  BY <1>6, <1>9 DEF TreesOf
<1>11. Grows(tree, t)
  <2>1. Grows(tree, tree)
    BY <1>8, GrowsSelf DEF Trees
  <2> QED BY <1>2, <1>6, <1>7, <2>1 DEF Grows
<1> QED BY <1>1, <1>10, <1>11

\* write_data makes a text of texts.
LEMMA WrittenType ==
  ASSUME NEW S, NEW content \in Seq(S), NEW offset \in Nat, NEW text \in Seq(S), NEW unknown \in S
  PROVE  Written(content, offset, text, unknown) \in Seq(S)
<1>1. PICK m \in Nat : m = IF offset + Len(text) > Len(content) THEN offset + Len(text) ELSE Len(content)
  OBVIOUS
<1>2. ASSUME NEW k \in 1 .. m
      PROVE  (IF k \in offset + 1 .. offset + Len(text) THEN text[k - offset]
              ELSE IF k \in DOMAIN content THEN content[k] ELSE unknown) \in S
  <2>1. CASE k \in offset + 1 .. offset + Len(text)
    <3>1. k - offset \in 1 .. Len(text)
      BY <2>1
    <3> QED BY <2>1, <3>1
  <2> QED BY <2>1
<1>3. Written(content, offset, text, unknown) \in [1 .. m -> S]
  BY <1>1, <1>2 DEF Written
<1> QED BY <1>3

-----------------------------------------------------------------------------
(* The image tool                                                          *)

\* Sequences of strings are sequences of items.
LEMMA SeqLarger ==
  ASSUME NEW S, NEW T, S \subseteq T, NEW s \in Seq(S)
  PROVE  s \in Seq(T)
OBVIOUS

\* A directory or file of a tree.
Places == {a \in [tree : Trees, dir : Nat] : a.dir \in DOMAIN a.tree}

\* A tree of some size is one.
LEMMA TreesOfTrees ==
  ASSUME NEW n \in Nat \ {0}, NEW tree \in TreesOf(n)
  PROVE  tree \in Trees /\ DOMAIN tree = 0 .. n - 1 /\ Root \in 0 .. n - 1
BY DEF Trees, TreesOf, Root

\* What comes before the last item of a sequence.
LEMMA FrontLast ==
  ASSUME NEW S, NEW path \in Seq(S), path # << >>
  PROVE  \E n \in Nat : /\ Len(path) = n + 1
                        /\ Front(path) \in [1 .. n -> S] /\ Last(path) \in S
                        /\ Last(path) = path[n + 1]
                        /\ \A k \in 1 .. n : Front(path)[k] = path[k]
<1>1. Len(path) \in Nat /\ Len(path) # 0
  OBVIOUS
<1>2. PICK n \in Nat : n = Len(path) - 1
  BY <1>1
<1>3. Front(path) = [k \in 1 .. n |-> path[k]]
  BY <1>1, <1>2 DEF Front
<1>4. Last(path) = path[n + 1] /\ n + 1 \in 1 .. Len(path)
  BY <1>1, <1>2 DEF Last
<1> QED BY <1>2, <1>3, <1>4

\* One step of the image tool on its way along a path.
LEMMA EnterSound ==
  ASSUME NEW at \in Places, NEW name \in Items, NEW type \in {"DIRECTORY", "FILE"}
  PROVE  EnterAs(at, name, type) \in Places
<1>1. PICK tree \in Trees : tree = at.tree
  BY DEF Places
<1>2. PICK dir : dir = at.dir
  OBVIOUS
<1>3. PICK n \in Nat \ {0} : DOMAIN tree = 0 .. n - 1 /\ tree \in TreesOf(n)
  BY TreeType
<1>4. dir \in 0 .. n - 1
  BY <1>1, <1>2, <1>3 DEF Places
<1>5. CASE ~ IsDirectory(tree, dir)
  BY <1>1, <1>2, <1>5 DEF EnterAs
<1>6. CASE IsDirectory(tree, dir)
  <2>1. PICK with : with = IF Child(tree, dir, name) # {} THEN tree ELSE Added(tree, dir, name, type)
    OBVIOUS
  <2>2. EnterAs(at, name, type) = [tree |-> with, dir |-> CHOOSE i \in Child(with, dir, name) : TRUE]
    BY <1>1, <1>2, <1>6, <2>1 DEF EnterAs
  <2>3. \E m \in Nat \ {0} : with \in TreesOf(m) /\ \E i \in 0 .. m - 1 : Child(with, dir, name) = {i}
    <3>1. CASE Child(tree, dir, name) # {}
      <4>1. \E i \in 0 .. n - 1 : Child(tree, dir, name) = {i}
        BY <1>3, <1>4, <1>6, <3>1, ChildIn
      <4> QED BY <1>3, <2>1, <3>1, <4>1
    <3>2. CASE Child(tree, dir, name) = {}
      <4>1. with \in TreesOf(n + 1) /\ Child(with, dir, name) = {n}
        BY <1>3, <1>4, <1>6, <2>1, <3>2, AddedSound
      <4>2. n + 1 \in Nat \ {0} /\ n \in 0 .. (n + 1) - 1
        OBVIOUS
      <4> QED BY <4>1, <4>2
    <3> QED BY <3>1, <3>2
  <2>4. PICK m \in Nat \ {0}, i \in Nat : with \in TreesOf(m) /\ i \in 0 .. m - 1 /\ Child(with, dir, name) = {i}
    BY <2>3
  <2>5. EnterAs(at, name, type) = [tree |-> with, dir |-> i]
    BY <2>2, <2>4
  <2>6. with \in Trees /\ i \in DOMAIN with /\ i \in Nat
    BY <2>4, TreesOfTrees
  <2> QED BY <2>5, <2>6 DEF Places
<1> QED BY <1>5, <1>6

\* Its way along a path.
LEMMA EnterLoop ==
  ASSUME NEW at \in Places, NEW N \in Nat, NEW names \in [1 .. N -> Items]
  PROVE  FoldLeft(Enter, at, names) \in Places
<1> DEFINE step == [p \in Places \X (1 .. N) |-> EnterAs(p[1], names[p[2]], "DIRECTORY")]
           Is(it) == it = [s \in SUBSET (1 .. N) |->
                IF s = {} THEN at
                ELSE EnterAs(it[s \ {Max(s)}], names[Max(s)], "DIRECTORY")]
<1>2. step \in [Places \X (1 .. N) -> Places]
  BY EnterSound
<1>3. FoldLeft(Enter, at, names) = (CHOOSE it : Is(it))[1 .. N]
  <2>1. DOMAIN names = 1 .. N
    OBVIOUS
  <2> QED BY <2>1 DEF FoldLeft, MapThenFoldSet, Enter
<1>4. PICK g : IsFold(g, N, Places, at, step)
  <2> HIDE DEF step
  <2> QED BY <1>2, FoldExists
<1>5. ASSUME NEW s \in SUBSET (1 .. N), s # {}
      PROVE  /\ Max(s) \in 1 .. N
             /\ step[<<g[s \ {Max(s)}], Max(s)>>] = EnterAs(g[s \ {Max(s)}], names[Max(s)], "DIRECTORY")
  BY <1>4, <1>5, MaxUpTo DEF IsFold
<1>6. Is(g)
  BY <1>4, <1>5 DEF IsFold
<1>7. PICK h : Is(h) /\ FoldLeft(Enter, at, names) = h[1 .. N]
  BY <1>3, <1>6
<1> HIDE DEF step
<1>8. h[{}] = at
  BY <1>7
<1>9. ASSUME NEW k \in 1 .. N PROVE h[1 .. k] = EnterAs(h[1 .. k - 1], names[k], "DIRECTORY")
  <2>1. k \in Nat \ {0} /\ k \in 1 .. k /\ 1 .. k \in SUBSET (1 .. N)
    OBVIOUS
  <2>2. Max(1 .. k) = k /\ (1 .. k) \ {k} = 1 .. k - 1
    BY <2>1, MaxOfInterval
  <2> QED BY <1>7, <2>1, <2>2
<1>10. Unfolds(h, N, Places, at, step)
  BY <1>8, <1>9 DEF step, Unfolds
<1>11. PICK run : IsRun(run, h, N, Places, at, step)
  BY <1>2, <1>10, FoldRun
<1> QED BY <1>7, <1>11 DEF IsRun

\* A file for the image.
Contents == (Seq(Items) \ {<< >>}) \X Seq(Items)

\* add_file
LEMMA AddFileSound ==
  ASSUME NEW tree \in Trees, NEW file \in Contents
  PROVE  AddFile(tree, file) \in Trees
<1>1. PICK path \in Seq(Items) : path # << >> /\ path = file[1]
  BY DEF Contents
<1>2. PICK text \in Seq(Items) : text = file[2]
  BY DEF Contents
<1>3. PICK n \in Nat : Front(path) \in [1 .. n -> Items] /\ Last(path) \in Items
  BY <1>1, FrontLast
<1>4. PICK start \in Places : start = [tree |-> tree, dir |-> Root]
  <2>1. PICK m \in Nat \ {0} : DOMAIN tree = 0 .. m - 1
    BY TreeType
  <2>2. Root \in DOMAIN tree /\ Root \in Nat
    BY <2>1 DEF Root
  <2> QED BY <2>2 DEF Places
<1>5. PICK parent \in Places : parent = FoldLeft(Enter, start, Front(path))
  BY <1>3, EnterLoop
<1>6. PICK last \in Places : last = EnterAs(parent, Last(path), "FILE")
  BY <1>3, EnterSound
<1>7. PICK t \in Trees : t = last.tree
  BY DEF Places
<1>8. PICK i : i = last.dir
  OBVIOUS
<1>9. PICK m \in Nat \ {0} : DOMAIN t = 0 .. m - 1 /\ t \in TreesOf(m)
  BY TreeType
<1>10. i \in 0 .. m - 1
  BY <1>7, <1>8, <1>9 DEF Places
<1>11. AddFile(tree, file) = IF IsDirectory(parent.tree, parent.dir) /\ ~ IsDirectory(t, i)
                              THEN [t EXCEPT ![i].content = Written(@, 0, text, "")]
                              ELSE tree
  BY <1>1, <1>2, <1>4, <1>5, <1>6, <1>7, <1>8 DEF AddFile
<1>12. CASE ~ IsDirectory(t, i)
  <2>1. t[i].content \in Seq(Items)
    BY <1>9, <1>10, <1>12, ContentType DEF IsDirectory
  <2>2. PICK new \in Seq(Items) : new = Written(t[i].content, 0, text, "")
    <3>1. PICK blank \in Items : blank = ""
      BY DEF Items
    <3>2. 0 \in Nat
      OBVIOUS
    <3> QED BY <2>1, <3>1, <3>2, WrittenType
  <2>3. PICK u : u = [t EXCEPT ![i].content = new]
    OBVIOUS
  <2>4. u \in TreesOf(m)
    BY <1>9, <1>10, <1>12, <2>3, ContentSound
  <2>5. [t EXCEPT ![i].content = Written(@, 0, text, "")] = u
    BY <2>2, <2>3
  <2> QED BY <1>9, <1>11, <2>4, <2>5, TreesOfTrees
<1> QED BY <1>11, <1>12

\* What the image tool makes is a tree.
LEMMA ImageSound ==
  ASSUME NEW N \in Nat, NEW image \in [1 .. N -> Contents]
  PROVE  FoldLeft(AddFile, EmptyTree, image) \in Trees
<1> DEFINE step == [p \in Trees \X (1 .. N) |-> AddFile(p[1], image[p[2]])]
           Is(it) == it = [s \in SUBSET (1 .. N) |->
                IF s = {} THEN EmptyTree
                ELSE AddFile(it[s \ {Max(s)}], image[Max(s)])]
<1>1. EmptyTree \in Trees
  <2>1. [type |-> "DIRECTORY", content |-> << >>] \in Inodes
    BY DEF Inodes
  <2>2. 0 .. 1 - 1 = {0}
    OBVIOUS
  <2>3. EmptyTree \in [0 .. 1 - 1 -> Inodes]
    BY <2>1, <2>2 DEF EmptyTree, Root, Node
  <2>4. EmptyTree[0].type = "DIRECTORY" /\ EmptyTree[0].content = << >>
    BY DEF EmptyTree, Root, Node
  <2>5. DOMAIN << >> = {}
    OBVIOUS
  <2>6. EmptyTree \in TreesOf(1)
    BY <2>2, <2>3, <2>4, <2>5 DEF TreesOf, Sound, Root
  <2> QED BY <2>6 DEF Trees
<1>2. step \in [Trees \X (1 .. N) -> Trees]
  BY AddFileSound
<1>3. FoldLeft(AddFile, EmptyTree, image) = (CHOOSE it : Is(it))[1 .. N]
  <2>1. DOMAIN image = 1 .. N
    OBVIOUS
  <2> QED BY <2>1 DEF FoldLeft, MapThenFoldSet
<1>4. PICK g : IsFold(g, N, Trees, EmptyTree, step)
  <2> HIDE DEF step
  <2> QED BY <1>1, <1>2, FoldExists
<1>5. ASSUME NEW s \in SUBSET (1 .. N), s # {}
      PROVE  /\ Max(s) \in 1 .. N
             /\ step[<<g[s \ {Max(s)}], Max(s)>>] = AddFile(g[s \ {Max(s)}], image[Max(s)])
  BY <1>4, <1>5, MaxUpTo DEF IsFold
<1>6. Is(g)
  BY <1>4, <1>5 DEF IsFold
<1>7. PICK h : Is(h) /\ FoldLeft(AddFile, EmptyTree, image) = h[1 .. N]
  BY <1>3, <1>6
<1> HIDE DEF step
<1>8. h[{}] = EmptyTree
  BY <1>7
<1>9. ASSUME NEW k \in 1 .. N PROVE h[1 .. k] = AddFile(h[1 .. k - 1], image[k])
  <2>1. k \in Nat \ {0} /\ k \in 1 .. k /\ 1 .. k \in SUBSET (1 .. N)
    OBVIOUS
  <2>2. Max(1 .. k) = k /\ (1 .. k) \ {k} = 1 .. k - 1
    BY <2>1, MaxOfInterval
  <2> QED BY <1>7, <2>1, <2>2
<1>10. Unfolds(h, N, Trees, EmptyTree, step)
  BY <1>8, <1>9 DEF step, Unfolds
<1>11. PICK run : IsRun(run, h, N, Trees, EmptyTree, step)
  BY <1>1, <1>2, <1>10, FoldRun
<1>12. h[1 .. N] \in Trees
  BY <1>11 DEF IsRun
<1> HIDE DEF Is
<1> QED BY <1>7, <1>12

-----------------------------------------------------------------------------
(* Lookups                                                                 *)

\* One piece further, from a set of inodes, as GetInode does it.
Further(tree, from, name) ==
  UNION {Child(tree, dir, name) : dir \in {i \in from : IsDirectory(tree, i)}}

\* From one inode.
LEMMA FurtherOne ==
  ASSUME NEW tree, NEW i, NEW name
  PROVE  /\ Further(tree, {}, name) = {}
         /\ IsDirectory(tree, i) => Further(tree, {i}, name) = Child(tree, i, name)
         /\ ~ IsDirectory(tree, i) => Further(tree, {i}, name) = {}
BY DEF Further

\* The way along the pieces of a path.
Leading(tree, pieces, n, r) ==
  /\ r \in [0 .. n -> Nat]
  /\ r[0] = Root
  /\ \A k \in 1 .. n : /\ r[k - 1] \in DOMAIN tree /\ IsDirectory(tree, r[k - 1])
                       /\ Child(tree, r[k - 1], pieces[k]) = {r[k]}

\* There is one way at most, and it ends in the tree.
LEMMA LeadingOne ==
  ASSUME NEW tree \in Trees, NEW pieces, NEW n \in Nat, NEW r, NEW q,
         Leading(tree, pieces, n, r), Leading(tree, pieces, n, q)
  PROVE  r[n] = q[n]
<1> DEFINE S == {k \in 0 .. n : r[k] = q[k]}
<1>1. 0 \in S
  BY DEF Leading
<1>2. ASSUME NEW k \in 0 .. n - 1, k \in S PROVE k + 1 \in S
  <2>1. k + 1 \in 1 .. n /\ (k + 1) - 1 = k
    OBVIOUS
  <2>2. Child(tree, r[k], pieces[k + 1]) = {r[k + 1]} /\ Child(tree, q[k], pieces[k + 1]) = {q[k + 1]}
    BY <2>1 DEF Leading
  <2> QED BY <1>2, <2>1, <2>2
<1> HIDE DEF S
<1>3. 0 .. n \subseteq S
  BY <1>1, <1>2, IntervalInduction
<1> QED BY <1>3 DEF S

\* Pieces lead to inodes of the tree.
LEMMA LeadingIn ==
  ASSUME NEW tree \in Trees, NEW pieces, NEW n \in Nat, NEW r, Leading(tree, pieces, n, r)
  PROVE  r[n] \in DOMAIN tree
<1>1. PICK m \in Nat \ {0} : DOMAIN tree = 0 .. m - 1 /\ tree \in TreesOf(m)
  BY TreeType
<1>2. CASE n = 0
  BY <1>1, <1>2 DEF Leading, Root
<1>3. CASE n # 0
  <2>1. n \in 1 .. n
    BY <1>3
  <2>2. PICK i \in 0 .. m - 1 : i = r[n - 1] /\ IsDirectory(tree, i)
    BY <1>1, <2>1 DEF Leading
  <2>3. Child(tree, i, pieces[n]) = {r[n]}
    BY <2>1, <2>2 DEF Leading
  <2>4. Child(tree, i, pieces[n]) = {} \/ \E j \in 0 .. m - 1 : Child(tree, i, pieces[n]) = {j}
    BY <1>1, <2>2, ChildIn
  <2> QED BY <1>1, <2>3, <2>4
<1> QED BY <1>2, <1>3

\* The sets of get_inode, and the way.
LEMMA WalkLeads ==
  ASSUME NEW tree \in Trees, NEW n \in Nat, NEW pieces \in [1 .. n -> Items],
         NEW w \in [0 .. n -> SUBSET DOMAIN tree], w[0] = {Root},
         \A k \in 1 .. n : w[k] = Further(tree, w[k - 1], pieces[k])
  PROVE  \/ w[n] = {} /\ ~ \E r : Leading(tree, pieces, n, r)
         \/ \E r : Leading(tree, pieces, n, r) /\ w[n] = {r[n]}
<1> DEFINE S == {k \in 0 .. n : \/ w[k] = {} /\ ~ \E r : Leading(tree, pieces, k, r)
                                \/ \E r : Leading(tree, pieces, k, r) /\ w[k] = {r[k]}}
<1>0. PICK m \in Nat \ {0} : DOMAIN tree = 0 .. m - 1 /\ tree \in TreesOf(m)
  BY TreeType
<1>1. 0 \in S
  <2>1. PICK r : r = [k \in 0 .. 0 |-> 0]
    OBVIOUS
  <2>2. Leading(tree, pieces, 0, r) /\ w[0] = {r[0]}
    BY <2>1 DEF Leading, Root
  <2> QED BY <2>2
<1>2. ASSUME NEW k \in 0 .. n - 1, k \in S PROVE k + 1 \in S
  <2>1. k + 1 \in 1 .. n /\ (k + 1) - 1 = k /\ k \in Nat
    OBVIOUS
  <2>2. PICK name \in Items : name = pieces[k + 1]
    BY <2>1
  <2>3. w[k + 1] = Further(tree, w[k], name)
    BY <2>1, <2>2
  <2>4. ASSUME NEW r, Leading(tree, pieces, k + 1, r)
        PROVE  \E q : /\ Leading(tree, pieces, k, q) /\ q[k] = r[k]
                      /\ IsDirectory(tree, q[k]) /\ Child(tree, q[k], name) = {r[k + 1]}
    <3>1. PICK q : q = [l \in 0 .. k |-> r[l]]
      OBVIOUS
    <3>2. Leading(tree, pieces, k, q)
      <4>1. q \in [0 .. k -> Nat] /\ q[0] = Root
        BY <2>1, <2>4, <3>1 DEF Leading
      <4>2. ASSUME NEW l \in 1 .. k
            PROVE  /\ q[l - 1] \in DOMAIN tree /\ IsDirectory(tree, q[l - 1])
                   /\ Child(tree, q[l - 1], pieces[l]) = {q[l]}
        <5>1. l \in 1 .. k + 1 /\ q[l - 1] = r[l - 1] /\ q[l] = r[l]
          BY <2>1, <3>1
        <5> QED BY <2>4, <5>1 DEF Leading
      <4> QED BY <4>1, <4>2 DEF Leading
    <3>3. k + 1 \in 1 .. k + 1 /\ (k + 1) - 1 = k
      OBVIOUS
    <3>4. IsDirectory(tree, r[k]) /\ Child(tree, r[k], name) = {r[k + 1]}
      BY <2>2, <2>4, <3>3 DEF Leading
    <3>5. q[k] = r[k]
      BY <3>1
    <3> QED BY <3>2, <3>4, <3>5
  <2>5. CASE w[k] = {} /\ ~ \E r : Leading(tree, pieces, k, r)
    <3>1. w[k + 1] = {}
      BY <2>3, <2>5, FurtherOne
    <3> QED BY <2>1, <2>4, <2>5, <3>1
  <2>6. CASE \E r : Leading(tree, pieces, k, r) /\ w[k] = {r[k]}
    <3>1. PICK r : Leading(tree, pieces, k, r) /\ w[k] = {r[k]}
      BY <2>6
    <3>2. PICK i \in 0 .. m - 1 : i = r[k]
      BY <1>0, <2>1, <3>1, LeadingIn
    <3>3. ASSUME NEW q, Leading(tree, pieces, k + 1, q)
          PROVE  IsDirectory(tree, i) /\ Child(tree, i, name) = {q[k + 1]}
      <4>1. PICK p : /\ Leading(tree, pieces, k, p) /\ p[k] = q[k]
                     /\ IsDirectory(tree, p[k]) /\ Child(tree, p[k], name) = {q[k + 1]}
        BY <2>4, <3>3
      <4>2. p[k] = r[k]
        BY <2>1, <3>1, <4>1, LeadingOne
      <4> QED BY <3>2, <4>1, <4>2
    <3>4. CASE Further(tree, {i}, name) = {}
      <4>1. ~ \E q : Leading(tree, pieces, k + 1, q)
        <5> SUFFICES ASSUME NEW q, Leading(tree, pieces, k + 1, q) PROVE FALSE
          OBVIOUS
        <5>1. IsDirectory(tree, i) /\ Child(tree, i, name) = {q[k + 1]}
          BY <3>3
        <5>2. Further(tree, {i}, name) = Child(tree, i, name)
          BY <5>1, FurtherOne
        <5>3. q[k + 1] \in Child(tree, i, name)
          BY <5>1
        <5> QED BY <3>4, <5>2, <5>3
      <4>2. w[k + 1] = {}
        BY <2>3, <3>1, <3>2, <3>4
      <4> QED BY <2>1, <4>1, <4>2
    <3>5. CASE Further(tree, {i}, name) # {}
      <4>1. IsDirectory(tree, i) /\ Further(tree, {i}, name) = Child(tree, i, name)
        BY <3>5, FurtherOne
      <4>2. PICK j \in 0 .. m - 1 : Child(tree, i, name) = {j}
        BY <1>0, <3>5, <4>1, ChildIn
      <4>3. PICK q : q = [l \in 0 .. k + 1 |-> IF l = k + 1 THEN j ELSE r[l]]
        OBVIOUS
      <4>4. Leading(tree, pieces, k + 1, q)
        <5>1. q \in [0 .. k + 1 -> Nat] /\ q[0] = Root
          BY <2>1, <3>1, <4>3 DEF Leading
        <5>2. ASSUME NEW l \in 1 .. k + 1
              PROVE  /\ q[l - 1] \in DOMAIN tree /\ IsDirectory(tree, q[l - 1])
                     /\ Child(tree, q[l - 1], pieces[l]) = {q[l]}
          <6>1. CASE l = k + 1
            BY <1>0, <2>1, <2>2, <3>2, <4>1, <4>2, <4>3, <6>1
          <6>2. CASE l # k + 1
            <7>1. l \in 1 .. k /\ q[l - 1] = r[l - 1] /\ q[l] = r[l]
              BY <2>1, <4>3, <6>2
            <7> QED BY <3>1, <7>1 DEF Leading
          <6> QED BY <6>1, <6>2
        <5> QED BY <5>1, <5>2 DEF Leading
      <4>5. w[k + 1] = {q[k + 1]}
        <5>1. w[k + 1] = {j}
          BY <2>3, <3>1, <3>2, <4>1, <4>2
        <5>2. q[k + 1] = j
          BY <2>1, <4>3
        <5> QED BY <5>1, <5>2
      <4> QED BY <2>1, <4>4, <4>5
    <3> QED BY <3>4, <3>5
  <2> QED BY <1>2, <2>5, <2>6
<1> HIDE DEF S
<1>3. 0 .. n \subseteq S
  BY <1>1, <1>2, IntervalInduction
<1> QED BY <1>3 DEF S

\* The sets through which GetInode goes.
Walk(tree, pieces, n) ==
  CHOOSE w : w = [k \in 0 .. n |-> IF k = 0 THEN {Root} ELSE Further(tree, w[k - 1], pieces[k])]

\* What the loop of get_inode finds.
LEMMA WalkIs ==
  ASSUME NEW tree \in Trees, NEW n \in Nat, NEW pieces \in [1 .. n -> Items],
         NEW w, w = Walk(tree, pieces, n)
  PROVE  /\ w \in [0 .. n -> SUBSET DOMAIN tree]
         /\ w[0] = {Root}
         /\ \A k \in 1 .. n : w[k] = Further(tree, w[k - 1], pieces[k])
<1> DEFINE Is(x) == x = [k \in 0 .. n |-> IF k = 0 THEN {Root} ELSE Further(tree, x[k - 1], pieces[k])]
<1>0. PICK m \in Nat \ {0} : DOMAIN tree = 0 .. m - 1 /\ tree \in TreesOf(m)
  BY TreeType
<1>1. PICK T : T = SUBSET DOMAIN tree
  OBVIOUS
<1>2. {Root} \in T
  BY <1>0, <1>1 DEF Root
<1>3. ASSUME NEW S \in T, NEW name PROVE Further(tree, S, name) \in T
  <2>1. ASSUME NEW dir \in S, IsDirectory(tree, dir) PROVE Child(tree, dir, name) \subseteq DOMAIN tree
    <3>1. dir \in 0 .. m - 1
      BY <1>0, <1>1
    <3>2. Child(tree, dir, name) = {} \/ \E j \in 0 .. m - 1 : Child(tree, dir, name) = {j}
      BY <1>0, <2>1, <3>1, ChildIn
    <3> QED BY <1>0, <3>2
  <2> QED BY <1>1, <2>1 DEF Further
<1>4. PICK step \in [T \X (1 .. n) -> T] :
        \A S \in T, k \in 1 .. n : step[<<S, k>>] = Further(tree, S, pieces[k])
  <2>1. PICK f : f = [p \in T \X (1 .. n) |-> Further(tree, p[1], pieces[p[2]])]
    OBVIOUS
  <2>2. f \in [T \X (1 .. n) -> T]
    BY <1>3, <2>1
  <2>3. \A S \in T, k \in 1 .. n : f[<<S, k>>] = Further(tree, S, pieces[k])
    BY <2>1
  <2> QED BY <2>2, <2>3
<1>5. PICK v \in [0 .. n -> T] : v[0] = {Root} /\ \A k \in 1 .. n : v[k] = step[<<v[k - 1], k>>]
  <2>1. PICK base \in T : base = {Root}
    BY <1>2
  <2>2. PICK v : IsSeries(v, n, T, base, step)
    BY SeriesExists
  <2> QED BY <2>1, <2>2 DEF IsSeries
<1>6. ASSUME NEW k \in 1 .. n PROVE v[k] = Further(tree, v[k - 1], pieces[k])
  <2>1. v[k - 1] \in T
    BY <1>5
  <2> QED BY <1>4, <1>5, <2>1
<1>7. Is(v)
  <2>1. ASSUME NEW k \in 0 .. n PROVE v[k] = IF k = 0 THEN {Root} ELSE Further(tree, v[k - 1], pieces[k])
    BY <1>5, <1>6
  <2> QED BY <1>5, <2>1
<1>8. Is(w)
  <2>1. w = CHOOSE x : Is(x)
    BY DEF Walk
  <2> HIDE DEF Is
  <2> QED BY <1>7, <2>1
<1>9. w[0] = {Root}
  BY <1>8
<1>a. ASSUME NEW k \in 1 .. n PROVE w[k] = Further(tree, w[k - 1], pieces[k])
  <2>1. k \in 0 .. n /\ k # 0
    OBVIOUS
  <2> QED BY <1>8, <2>1
<1>10. w = [k \in 0 .. n |-> w[k]]
  BY <1>8
<1> HIDE DEF Is
<1>11. ASSUME NEW k \in 0 .. n PROVE w[k] \in T
  <2> DEFINE S == {l \in 0 .. n : w[l] \in T}
  <2>1. 0 \in S
    <3>1. w[0] \in T /\ 0 \in 0 .. n
      BY <1>2, <1>9
    <3> QED BY <3>1
  <2>2. ASSUME NEW l \in 0 .. n - 1, l \in S PROVE l + 1 \in S
    <3>1. l + 1 \in 1 .. n /\ (l + 1) - 1 = l
      OBVIOUS
    <3>2. w[l + 1] = Further(tree, w[l], pieces[l + 1])
      BY <1>a, <3>1
    <3> QED BY <1>3, <2>2, <3>1, <3>2
  <2> HIDE DEF S
  <2>3. 0 .. n \subseteq S
    BY <2>1, <2>2, IntervalInduction
  <2> QED BY <2>3 DEF S
<1>12. w \in [0 .. n -> T]
  BY <1>10, <1>11
<1> QED BY <1>1, <1>9, <1>a, <1>12

IsSlash(path) == path = <<"">>

Named(name) == name # ""

\* GetInode in these terms.
LEMMA GetInodeIs ==
  ASSUME NEW tree, NEW path, NEW n \in Nat, NEW pieces, Stripped(path) = pieces, Len(pieces) = n
  PROVE  LET found == IF Named(pieces[n]) THEN Walk(tree, pieces, n)[n] ELSE {}
         IN  GetInode(tree, path) =
               IF IsSlash(path) THEN Root
               ELSE CHOOSE i \in found \cup {NoInode} : found # {} => i \in found
<1>1. PICK found : found = IF pieces[n] = "" THEN {} ELSE Walk(tree, pieces, n)[n]
  OBVIOUS
<1>2. GetInode(tree, path) =
           IF path = <<"">> THEN Root
           ELSE CHOOSE i \in found \cup {NoInode} : found # {} => i \in found
  <2>1. GetInode(tree, path) =
           IF path = <<"">> THEN Root
           ELSE CHOOSE i \in (IF pieces[n] = "" THEN {} ELSE Walk(tree, pieces, n)[n]) \cup {NoInode} :
                  (IF pieces[n] = "" THEN {} ELSE Walk(tree, pieces, n)[n]) # {}
                    => i \in (IF pieces[n] = "" THEN {} ELSE Walk(tree, pieces, n)[n])
    BY DEF GetInode, Walk, Further, Last
  <2> QED BY <1>1, <2>1, Zenon
<1>3. found = IF Named(pieces[n]) THEN Walk(tree, pieces, n)[n] ELSE {}
  BY <1>1 DEF Named
<1> QED BY <1>2, <1>3 DEF IsSlash

\* get_inode, along the pieces that are left when a slash at the end is not
\* counted.
LEMMA GetInodeLeads ==
  ASSUME NEW tree \in Trees, NEW path, ~ IsSlash(path), NEW n \in Nat \ {0},
         NEW pieces \in [1 .. n -> Items], Stripped(path) = pieces, Len(pieces) = n
  PROVE  \/ /\ GetInode(tree, path) = NoInode
            /\ ~ Named(pieces[n]) \/ ~ \E r : Leading(tree, pieces, n, r)
         \/ /\ Named(pieces[n])
            /\ \E r : Leading(tree, pieces, n, r) /\ GetInode(tree, path) = r[n]
<1>1. PICK w : w = Walk(tree, pieces, n)
  OBVIOUS
<1>2. PICK found : found = IF Named(pieces[n]) THEN w[n] ELSE {}
  OBVIOUS
<1>3. GetInode(tree, path) = CHOOSE i \in found \cup {NoInode} : found # {} => i \in found
  BY <1>1, <1>2, GetInodeIs
<1>4. /\ w \in [0 .. n -> SUBSET DOMAIN tree] /\ w[0] = {Root}
      /\ \A k \in 1 .. n : w[k] = Further(tree, w[k - 1], pieces[k])
  BY <1>1, WalkIs
<1>5. \/ w[n] = {} /\ ~ \E r : Leading(tree, pieces, n, r)
      \/ \E r : Leading(tree, pieces, n, r) /\ w[n] = {r[n]}
  BY <1>4, WalkLeads
<1>6. CASE found = {}
  <2>1. GetInode(tree, path) = NoInode
    BY <1>3, <1>6
  <2> QED BY <1>2, <1>5, <1>6, <2>1
<1>7. CASE found # {}
  <2>1. Named(pieces[n]) /\ found = w[n]
    BY <1>2, <1>7
  <2>2. PICK r : Leading(tree, pieces, n, r) /\ found = {r[n]}
    BY <1>5, <1>7, <2>1
  <2>3. GetInode(tree, path) = r[n]
    BY <1>3, <2>2
  <2> QED BY <2>1, <2>2, <2>3
<1> QED BY <1>6, <1>7

-----------------------------------------------------------------------------
(* Paths                                                                   *)

\* Paths, none of them empty.
AllPaths == Seq(Items) \ {<< >>}

\* Sequences of one item.
LEMMA OneItem ==
  ASSUME NEW x, NEW s, s = [k \in 1 .. 1 |-> s[k]], s[1] = x
  PROVE  s = <<x>>
OBVIOUS

\* When a sequence has one item.
LEMMA SingleIs ==
  ASSUME NEW S, NEW n \in Nat, NEW s \in [1 .. n + 1 -> S], NEW x
  PROVE  s = <<x>> <=> n = 0 /\ s[n + 1] = x
<1>1. ASSUME s = <<x>> PROVE n = 0 /\ s[n + 1] = x
  <2>1. Len(s) = n + 1 /\ Len(<<x>>) = 1 /\ <<x>>[1] = x
    OBVIOUS
  <2>2. n + 1 = 1
    BY <1>1, <2>1
  <2> QED BY <1>1, <2>1, <2>2
<1>2. ASSUME n = 0, s[n + 1] = x PROVE s = <<x>>
  <2>1. s \in [1 .. 1 -> S] /\ s[1] = x /\ x \in S
    BY <1>2
  <2>2. s = [k \in 1 .. 1 |-> s[k]]
    BY <2>1
  <2> QED BY <2>1, <2>2, OneItem
<1> QED BY <1>1, <1>2

\* A sequence with one more item.
LEMMA AppendIs ==
  ASSUME NEW S, NEW n \in Nat, NEW s \in [1 .. n -> S], NEW x \in S
  PROVE  /\ Append(s, x) \in Seq(S) /\ Append(s, x) \in [1 .. n + 1 -> S]
         /\ Len(Append(s, x)) = n + 1 /\ Append(s, x)[n + 1] = x
         /\ \A k \in 1 .. n : Append(s, x)[k] = s[k]
<1>1. s \in Seq(S) /\ Len(s) = n
  OBVIOUS
<1>2. PICK t : t = Append(s, x)
  OBVIOUS
<1>3. t \in Seq(S) /\ Len(t) = n + 1 /\ t[n + 1] = x /\ \A k \in 1 .. n : t[k] = s[k]
  BY <1>1, <1>2, AppendProperties
<1>4. t \in [1 .. n + 1 -> S]
  BY <1>3
<1> QED BY <1>2, <1>3, <1>4

\* What is left of a path without a slash at the end.
LEMMA StrippedIs ==
  ASSUME NEW path \in AllPaths
  PROVE  \/ IsSlash(path) /\ Stripped(path) = << >>
         \/ /\ ~ IsSlash(path)
            /\ \E n \in Nat \ {0} : Stripped(path) \in [1 .. n -> Items] /\ Len(Stripped(path)) = n
<1>0. path \in Seq(Items) /\ path # << >>
  BY DEF AllPaths
<1>1. PICK n \in Nat : /\ Len(path) = n + 1
                       /\ Front(path) \in [1 .. n -> Items] /\ Last(path) \in Items
                       /\ Last(path) = path[n + 1]
  BY <1>0, FrontLast
<1>2. path \in [1 .. n + 1 -> Items]
  BY <1>0, <1>1
<1>3. Len(Front(path)) = n
  BY <1>1
<1>4. PICK blank : blank = ""
  OBVIOUS
<1>5. Stripped(path) = IF path[n + 1] = blank THEN Front(path) ELSE path
  BY <1>1, <1>4 DEF Stripped
<1>6. IsSlash(path) <=> n = 0 /\ path[n + 1] = blank
  <2>1. IsSlash(path) <=> path = <<blank>>
    BY <1>4 DEF IsSlash
  <2>2. path = <<blank>> <=> n = 0 /\ path[n + 1] = blank
    BY <1>2, SingleIs
  <2> QED BY <2>1, <2>2
<1> HIDE <1>4
<1>7. CASE IsSlash(path)
  <2>1. Front(path) = << >>
    BY <1>1, <1>6, <1>7
  <2> QED BY <1>5, <1>6, <1>7, <2>1
<1>8. CASE ~ IsSlash(path) /\ path[n + 1] = blank
  <2>1. n \in Nat \ {0}
    BY <1>6, <1>8
  <2> QED BY <1>1, <1>3, <1>5, <1>8, <2>1
<1>9. CASE ~ IsSlash(path) /\ path[n + 1] # blank
  <2>1. n + 1 \in Nat \ {0}
    OBVIOUS
  <2> QED BY <1>1, <1>2, <1>5, <1>9, <2>1
<1> QED BY <1>7, <1>8, <1>9

\* What get_inode finds is at the end of a way.
IsWay(tree, path, n, r) ==
  /\ n \in Nat
  /\ Stripped(path) \in [1 .. n -> Items] /\ Len(Stripped(path)) = n
  /\ Leading(tree, Stripped(path), n, r)

\* An inode that get_inode finds has a way to it.
LEMMA GetInodeWay ==
  ASSUME NEW tree \in Trees, NEW path \in AllPaths
  PROVE  \/ GetInode(tree, path) = NoInode
         \/ \E n, r : IsWay(tree, path, n, r) /\ GetInode(tree, path) = r[n]
<1>1. CASE IsSlash(path)
  <2>1. Stripped(path) = << >>
    BY <1>1, StrippedIs DEF IsSlash
  <2>2. PICK r : r = [k \in 0 .. 0 |-> 0]
    OBVIOUS
  <2>3. Leading(tree, Stripped(path), 0, r) /\ r[0] = Root
    BY <2>2 DEF Leading, Root
  <2>4. IsWay(tree, path, 0, r)
    BY <2>1, <2>3 DEF IsWay
  <2>5. GetInode(tree, path) = Root
    BY <1>1 DEF GetInode, IsSlash
  <2> QED BY <2>3, <2>4, <2>5
<1>2. CASE ~ IsSlash(path)
  <2>1. PICK n \in Nat \ {0} : Stripped(path) \in [1 .. n -> Items] /\ Len(Stripped(path)) = n
    BY <1>2, StrippedIs
  <2>2. PICK pieces \in [1 .. n -> Items] : pieces = Stripped(path)
    BY <2>1
  <2>3. \/ GetInode(tree, path) = NoInode
        \/ \E r : Leading(tree, pieces, n, r) /\ GetInode(tree, path) = r[n]
    BY <1>2, <2>1, <2>2, GetInodeLeads
  <2> QED BY <2>1, <2>2, <2>3 DEF IsWay
<1> QED BY <1>1, <1>2

\* It is in the tree.
LEMMA GetInodeIn ==
  ASSUME NEW tree \in Trees, NEW path \in AllPaths, GetInode(tree, path) # NoInode
  PROVE  GetInode(tree, path) \in DOMAIN tree
<1>1. PICK n, r : IsWay(tree, path, n, r) /\ GetInode(tree, path) = r[n]
  BY GetInodeWay
<1>2. n \in Nat /\ Leading(tree, Stripped(path), n, r)
  BY <1>1 DEF IsWay
<1> QED BY <1>1, <1>2, LeadingIn

\* A name leads from a directory to an inode.
IsStep(tree, i, name, j) ==
  i \in DOMAIN tree /\ IsDirectory(tree, i) /\ Child(tree, i, name) = {j}

\* A name that leads somewhere leads there as the tree grows.
LEMMA StepKept ==
  ASSUME NEW t \in Trees, NEW u \in Trees, Grows(t, u), NEW i, NEW name, NEW j, IsStep(t, i, name, j)
  PROVE  IsStep(u, i, name, j)
<1>0. i \in DOMAIN t /\ IsDirectory(t, i) /\ Child(t, i, name) = {j}
  BY DEF IsStep
<1>1. PICK n \in Nat \ {0} : DOMAIN t = 0 .. n - 1 /\ t \in TreesOf(n)
  BY TreeType
<1>2. PICK m \in Nat \ {0} : DOMAIN u = 0 .. m - 1 /\ u \in TreesOf(m)
  BY TreeType
<1>3. i \in DOMAIN u /\ IsDirectory(u, i) /\ Extends(t[i].content, u[i].content)
  BY <1>0 DEF Grows, IsDirectory
<1>4. PICK c \in Seq(Entries) : c = t[i].content
  BY <1>0, <1>1, ContentType DEF IsDirectory
<1>5. PICK d \in Seq(Entries) : d = u[i].content
  BY <1>2, <1>3, ContentType DEF IsDirectory
<1>6. Leads(c, name, {j}) /\ Leads(d, name, Child(u, i, name))
  BY <1>0, <1>4, <1>5, ChildFound
<1>7. PICK k \in DOMAIN c : c[k].name = name /\ c[k].inode = j
  BY <1>6 DEF Leads, FirstOf
<1>8. k \in DOMAIN d /\ d[k] = c[k]
  BY <1>3, <1>4, <1>5 DEF Extends
<1>9. \A l \in DOMAIN d : d[l].name = d[k].name => l = k
  BY <1>2, <1>3, <1>5, <1>8 DEF TreesOf, Sound, IsDirectory
<1>10. Child(u, i, name) = {j}
  BY <1>6, <1>7, <1>8, <1>9 DEF Leads, FirstOf
<1> QED BY <1>3, <1>10 DEF IsStep

\* What get_inode has found, it finds as the tree grows.
LEMMA GetInodeStable ==
  ASSUME NEW t \in Trees, NEW u \in Trees, Grows(t, u), NEW path \in AllPaths,
         GetInode(t, path) # NoInode
  PROVE  GetInode(u, path) = GetInode(t, path)
<1>1. CASE IsSlash(path)
  BY <1>1 DEF GetInode, IsSlash
<1>2. CASE ~ IsSlash(path)
  <2>1. PICK n \in Nat \ {0} : Stripped(path) \in [1 .. n -> Items] /\ Len(Stripped(path)) = n
    BY <1>2, StrippedIs
  <2>2. PICK pieces \in [1 .. n -> Items] : pieces = Stripped(path)
    BY <2>1
  <2>3. Len(pieces) = n
    BY <2>1, <2>2
  <2>4. /\ Named(pieces[n])
        /\ \E r : Leading(t, pieces, n, r) /\ GetInode(t, path) = r[n]
    BY <1>2, <2>2, <2>3, GetInodeLeads
  <2>5. PICK r : Leading(t, pieces, n, r) /\ GetInode(t, path) = r[n]
    BY <2>4
  <2>6. Leading(u, pieces, n, r)
    <3>1. ASSUME NEW k \in 1 .. n
          PROVE  /\ r[k - 1] \in DOMAIN u /\ IsDirectory(u, r[k - 1])
                 /\ Child(u, r[k - 1], pieces[k]) = {r[k]}
      <4>1. /\ r[k - 1] \in DOMAIN t /\ IsDirectory(t, r[k - 1])
            /\ Child(t, r[k - 1], pieces[k]) = {r[k]}
        BY <2>5 DEF Leading
      <4>2. IsStep(t, r[k - 1], pieces[k], r[k])
        BY <4>1 DEF IsStep
      <4>3. IsStep(u, r[k - 1], pieces[k], r[k])
        BY <4>2, StepKept
      <4> QED BY <4>3 DEF IsStep
    <3> QED BY <2>5, <3>1 DEF Leading
  <2>7. \E q : Leading(u, pieces, n, q) /\ GetInode(u, path) = q[n]
    BY <1>2, <2>2, <2>3, <2>4, <2>6, GetInodeLeads
  <2>8. PICK q : Leading(u, pieces, n, q) /\ GetInode(u, path) = q[n]
    BY <2>7
  <2>9. q[n] = r[n]
    BY <2>6, <2>8, LeadingOne
  <2> QED BY <2>5, <2>8, <2>9
<1> QED BY <1>1, <1>2

\* The path of a name in a directory.
LEMMA JoinFound ==
  ASSUME NEW tree \in Trees, NEW path \in AllPaths, NEW dir, dir = GetInode(tree, path),
         dir # NoInode, IsDirectory(tree, dir), NEW k \in DOMAIN tree[dir].content,
         Named(tree[dir].content[k].name)
  PROVE  GetInode(tree, Join(path, tree[dir].content[k].name)) = tree[dir].content[k].inode
<1>1. PICK m \in Nat \ {0} : DOMAIN tree = 0 .. m - 1 /\ tree \in TreesOf(m)
  BY TreeType
<1>2. dir \in 0 .. m - 1
  BY <1>1, GetInodeIn
<1>3. PICK c \in Seq(Entries) : c = tree[dir].content
  BY <1>1, <1>2, ContentType DEF IsDirectory
<1>4. PICK name \in Items : name = c[k].name
  <2>1. c[k] \in Entries
    BY <1>3
  <2> QED BY <2>1 DEF Entries
<1>5. PICK j \in 0 .. m - 1 : j = c[k].inode
  BY <1>1, <1>2, <1>3 DEF TreesOf, Sound, IsDirectory
<1>6. Child(tree, dir, name) = {j}
  <2>1. Leads(c, name, Child(tree, dir, name))
    BY <1>3, ChildFound
  <2>2. \A l \in DOMAIN c : c[l].name = name => l = k
    BY <1>1, <1>2, <1>3, <1>4 DEF TreesOf, Sound, IsDirectory
  <2> QED BY <1>3, <1>4, <1>5, <2>1, <2>2 DEF Leads, FirstOf
<1>7. PICK n, r : IsWay(tree, path, n, r) /\ dir = r[n]
  BY GetInodeWay
<1>8. n \in Nat /\ Stripped(path) \in [1 .. n -> Items] /\ Len(Stripped(path)) = n
      /\ Leading(tree, Stripped(path), n, r)
  BY <1>7 DEF IsWay
<1>9. PICK pieces \in Seq(Items) : /\ pieces = Stripped(path) /\ Len(pieces) = n
                                   /\ pieces \in [1 .. n -> Items]
  BY <1>8
<1>10. PICK longer : longer = Append(pieces, name)
  OBVIOUS
<1>11. /\ longer \in Seq(Items) /\ Len(longer) = n + 1 /\ longer[n + 1] = name
       /\ longer \in [1 .. n + 1 -> Items]
       /\ \A l \in 1 .. n : longer[l] = pieces[l]
  BY <1>8, <1>9, <1>10, AppendIs, SMTT(30)
<1>12. Join(path, name) = longer
  BY <1>9, <1>10 DEF Join
<1>13. Stripped(longer) = longer /\ ~ IsSlash(longer)
  <2>1. longer[n + 1] # "" /\ Last(longer) = longer[n + 1]
    BY <1>3, <1>4, <1>11 DEF Named, Last
  <2>2. Stripped(longer) = longer
    BY <2>1 DEF Stripped
  <2>3. PICK blank : blank = "" /\ longer[n + 1] # blank
    BY <2>1
  <2>4. longer[n + 1] # blank
    BY <2>3
  <2>5. longer # <<blank>>
    <3> SUFFICES ASSUME longer = <<blank>> PROVE FALSE
      OBVIOUS
    <3>1. Len(<<blank>>) = 1 /\ <<blank>>[1] = blank
      OBVIOUS
    <3>2. n + 1 = 1
      BY <1>11, <3>1
    <3> QED BY <1>11, <2>4, <3>1, <3>2
  <2> QED BY <2>2, <2>3, <2>5 DEF IsSlash
<1>14. PICK q : q = [l \in 0 .. n + 1 |-> IF l = n + 1 THEN j ELSE r[l]]
  OBVIOUS
<1>15. Leading(tree, longer, n + 1, q)
  <2>1. q \in [0 .. n + 1 -> Nat] /\ q[0] = Root
    BY <1>8, <1>14 DEF Leading
  <2>2. ASSUME NEW l \in 1 .. n + 1
        PROVE  /\ q[l - 1] \in DOMAIN tree /\ IsDirectory(tree, q[l - 1])
               /\ Child(tree, q[l - 1], longer[l]) = {q[l]}
    <3>1. CASE l = n + 1
      <4>1. q[l - 1] = dir /\ q[l] = j /\ longer[l] = name
        BY <1>7, <1>8, <1>11, <1>14, <3>1
      <4> QED BY <1>1, <1>2, <1>6, <4>1
    <3>2. CASE l # n + 1
      <4>1. l \in 1 .. n /\ q[l - 1] = r[l - 1] /\ q[l] = r[l] /\ longer[l] = pieces[l]
        BY <1>8, <1>11, <1>14, <3>2
      <4> QED BY <1>8, <1>9, <4>1 DEF Leading
    <3> QED BY <3>1, <3>2
  <2> QED BY <2>1, <2>2 DEF Leading
<1>16. \E p : Leading(tree, longer, n + 1, p) /\ GetInode(tree, longer) = p[n + 1]
  <2>1. n + 1 \in Nat \ {0} /\ Named(longer[n + 1])
    BY <1>3, <1>4, <1>8, <1>11
  <2> QED BY <1>11, <1>13, <1>15, <2>1, GetInodeLeads
<1>17. PICK p : Leading(tree, longer, n + 1, p) /\ GetInode(tree, longer) = p[n + 1]
  BY <1>16
<1>18. p[n + 1] = q[n + 1]
  <2>1. n + 1 \in Nat
    BY <1>8
  <2> QED BY <1>15, <1>17, <2>1, LeadingOne
<1>19. q[n + 1] = j
  BY <1>8, <1>14
<1> QED BY <1>3, <1>4, <1>5, <1>12, <1>17, <1>18, <1>19

\* The parent's path is a path.
LEMMA ParentPathIs ==
  ASSUME NEW path \in AllPaths, ~ IsSlash(path)
  PROVE  ParentPath(path) \in AllPaths /\ NameOf(path) \in Items
<1>1. PICK n \in Nat \ {0} : Stripped(path) \in [1 .. n -> Items] /\ Len(Stripped(path)) = n
  BY StrippedIs
<1>2. PICK s \in Seq(Items) : s = Stripped(path) /\ Len(s) = n /\ s # << >>
  BY <1>1
<1>3. PICK m \in Nat : Len(s) = m + 1 /\ Front(s) \in [1 .. m -> Items] /\ Last(s) \in Items
  BY <1>2, FrontLast
<1>4. NameOf(path) \in Items
  BY <1>2, <1>3 DEF NameOf
<1>5. CASE n = 1
  <2>1. PICK blank \in Items : blank = ""
    BY DEF Items
  <2>2. ParentPath(path) = <<blank>>
    BY <1>1, <1>5, <2>1 DEF ParentPath
  <2>3. <<blank>> \in Seq(Items) /\ <<blank>> # << >>
    <3> HIDE <2>1
    <3> QED OBVIOUS
  <2> QED BY <1>4, <2>2, <2>3 DEF AllPaths
<1>6. CASE n # 1
  <2>1. ParentPath(path) = Front(s)
    BY <1>1, <1>2, <1>6 DEF ParentPath
  <2>2. Front(s) \in Seq(Items) /\ Front(s) # << >>
    BY <1>2, <1>3, <1>6
  <2> QED BY <1>4, <2>1, <2>2 DEF AllPaths
<1> QED BY <1>5, <1>6

\* create_shared_file_node
LEMMA CreatedSound ==
  ASSUME NEW tree \in Trees, NEW path \in AllPaths, MayCreate(tree, path),
         NEW type \in {"DIRECTORY", "FILE"}
  PROVE  /\ Created(tree, path, type) \in Trees
         /\ Grows(tree, Created(tree, path, type))
         /\ \E n \in Nat : /\ DOMAIN tree = 0 .. n - 1 /\ Cardinality(DOMAIN tree) = n
                           /\ DOMAIN Created(tree, path, type) = 0 .. n
<1>1. PICK n \in Nat \ {0} : /\ DOMAIN tree = 0 .. n - 1 /\ Cardinality(DOMAIN tree) = n
                             /\ tree \in TreesOf(n)
  BY TreeType
<1>2. ~ IsSlash(path)
  BY DEF MayCreate, IsSlash
<1>3. PICK parent \in AllPaths : parent = ParentPath(path)
  BY <1>2, ParentPathIs
<1>4. PICK name \in Items : name = NameOf(path)
  BY <1>2, ParentPathIs
<1>5. PICK dir : dir = GetInode(tree, parent)
  OBVIOUS
<1>6. dir # NoInode /\ IsDirectory(tree, dir) /\ Child(tree, dir, name) = {}
  BY <1>3, <1>4, <1>5 DEF MayCreate
<1>7. dir \in 0 .. n - 1
  BY <1>1, <1>5, <1>6, GetInodeIn
<1>8. PICK u : u = Added(tree, dir, name, type)
  OBVIOUS
<1>9. u \in TreesOf(n + 1) /\ Grows(tree, u)
  BY <1>1, <1>6, <1>7, <1>8, AddedSound
<1>10. n + 1 \in Nat \ {0} /\ (n + 1) - 1 = n
  OBVIOUS
<1>11. u \in Trees /\ DOMAIN u = 0 .. n
  BY <1>9, <1>10, TreesOfTrees
<1>12. Created(tree, path, type) = u
  BY <1>3, <1>4, <1>5, <1>8 DEF Created
<1> QED BY <1>1, <1>9, <1>11, <1>12

\* A file is written.
LEMMA FileSound ==
  ASSUME NEW tree \in Trees, NEW i \in DOMAIN tree, ~ IsDirectory(tree, i), NEW text \in Seq(Items)
  PROVE  LET t == [tree EXCEPT ![i].content = text]
         IN  t \in Trees /\ Grows(tree, t) /\ DOMAIN t = DOMAIN tree
<1>1. PICK n \in Nat \ {0} : DOMAIN tree = 0 .. n - 1 /\ tree \in TreesOf(n)
  BY TreeType
<1>2. PICK t : t = [tree EXCEPT ![i].content = text]
  OBVIOUS
<1>3. t \in TreesOf(n) /\ Grows(tree, t)
  BY <1>1, <1>2, ContentSound
<1> QED BY <1>1, <1>2, <1>3, TreesOfTrees

-----------------------------------------------------------------------------
(* Nodes                                                                   *)

Process == Shell \cup {Programs}

Lists == [Inode -> [Process -> Nat]]

\* The nodes: who is listed at one has it open.
TableType ==
  [opened : SUBSET Inode, readers : Lists, writers : Lists, fifo : [{} -> {}]]

ListedOpen(t) ==
  \A i \in Inode, p \in Process : t.readers[i][p] > 0 \/ t.writers[i][p] > 0 => i \in t.opened

\* How often a shell is listed as a writer.
Writes(t, s) == [i \in Inode |-> t.writers[i][s]]

\* open_shared_file_node
LEMMA OpenNodeIs ==
  ASSUME NEW t \in TableType, NEW p \in Process, NEW i \in Inode, NEW mode
  PROVE  LET u == OpenNode(t, p, i, mode)
         IN  /\ u \in TableType
             /\ u.opened = t.opened \cup {i}
             /\ \A j \in Inode, q \in Process :
                  /\ u.readers[j][q] = IF j = i /\ q = p /\ mode = "READONLY"
                                       THEN t.readers[j][q] + 1 ELSE t.readers[j][q]
                  /\ u.writers[j][q] = IF j = i /\ q = p /\ mode # "READONLY"
                                       THEN t.writers[j][q] + 1 ELSE t.writers[j][q]
<1> DEFINE Increment(list) == [list EXCEPT ![i][p] = list[i][p] + 1]
<1>1. \A list \in Lists :
        /\ Increment(list) \in Lists
        /\ \A j \in Inode, q \in Process :
             Increment(list)[j][q] = IF j = i /\ q = p THEN list[j][q] + 1 ELSE list[j][q]
  BY DEF Lists
<1>2. PICK o \in SUBSET Inode : o = t.opened \cup {i}
  <2>1. t.opened \subseteq Inode
    BY DEF TableType
  <2>2. t.opened \cup {i} \in SUBSET Inode
    BY <2>1
  <2> QED BY <2>2
<1>3. PICK added \in TableType : /\ added.opened = o /\ added.fifo = t.fifo
                                 /\ added.readers = t.readers /\ added.writers = t.writers
                                 /\ added = [t EXCEPT !.opened = o, !.fifo = t.fifo]
  BY <1>2 DEF TableType
<1>4. PICK u : u = OpenNode(t, p, i, mode)
  OBVIOUS
<1>5. u = IF mode = "READONLY" THEN [added EXCEPT !.readers = Increment(added.readers)]
          ELSE [added EXCEPT !.writers = Increment(added.writers)]
  BY <1>2, <1>3, <1>4 DEF OpenNode
<1>6. t.readers \in Lists /\ t.writers \in Lists
  BY DEF TableType
<1>7. PICK R \in Lists : /\ R = Increment(t.readers)
                         /\ \A j \in Inode, q \in Process :
                              R[j][q] = IF j = i /\ q = p THEN t.readers[j][q] + 1 ELSE t.readers[j][q]
  BY <1>1, <1>6, ZenonT(30)
<1>8. PICK W \in Lists : /\ W = Increment(t.writers)
                         /\ \A j \in Inode, q \in Process :
                              W[j][q] = IF j = i /\ q = p THEN t.writers[j][q] + 1 ELSE t.writers[j][q]
  BY <1>1, <1>6, ZenonT(30)
<1> HIDE DEF Increment
<1>9. CASE mode = "READONLY"
  <2>1. u = [added EXCEPT !.readers = R]
    BY <1>3, <1>5, <1>7, <1>9
  <2>2. u \in TableType /\ u.opened = o /\ u.readers = R /\ u.writers = t.writers
    BY <1>3, <2>1 DEF TableType
  <2> QED BY <1>2, <1>4, <1>7, <1>9, <2>2
<1>10. CASE mode # "READONLY"
  <2>1. u = [added EXCEPT !.writers = W]
    BY <1>3, <1>5, <1>8, <1>10
  <2>2. u \in TableType /\ u.opened = o /\ u.readers = t.readers /\ u.writers = W
    BY <1>3, <2>1 DEF TableType
  <2> QED BY <1>2, <1>4, <1>8, <1>10, <2>2
<1> QED BY <1>9, <1>10

\* What an open leaves of the nodes.
LEMMA OpenNodeKeeps ==
  ASSUME NEW t \in TableType, ListedOpen(t), NEW s \in Shell, NEW i \in Inode,
         NEW mode \in {"READONLY", "WRITEONLY"}, NEW u, u = OpenNode(t, s, i, mode)
  PROVE  /\ u \in TableType /\ ListedOpen(u) /\ u.opened = t.opened \cup {i}
         /\ \A p \in Shell : p # s => Writes(u, p) = Writes(t, p)
         /\ \A j \in Inode : Writes(u, s)[j] = IF j = i /\ mode = "WRITEONLY" THEN Writes(t, s)[j] + 1
                                               ELSE Writes(t, s)[j]
<1>0. Shell \subseteq Process
  BY DEF Process
<1>1. /\ u \in TableType
      /\ u.opened = t.opened \cup {i}
      /\ \A j \in Inode, q \in Process :
           /\ u.readers[j][q] = IF j = i /\ q = s /\ mode = "READONLY"
                                THEN t.readers[j][q] + 1 ELSE t.readers[j][q]
           /\ u.writers[j][q] = IF j = i /\ q = s /\ mode # "READONLY"
                                THEN t.writers[j][q] + 1 ELSE t.writers[j][q]
  BY <1>0, OpenNodeIs
<1>2. ListedOpen(u)
  <2> SUFFICES ASSUME NEW j \in Inode, NEW q \in Process, u.readers[j][q] > 0 \/ u.writers[j][q] > 0,
                      j # i
               PROVE  j \in t.opened
    BY <1>1 DEF ListedOpen
  <2> QED BY <1>1 DEF ListedOpen
<1>3. \A p \in Shell : p # s => \A j \in Inode : u.writers[j][p] = t.writers[j][p]
  BY <1>0, <1>1
<1>4. \A j \in Inode : u.writers[j][s] = IF j = i /\ mode = "WRITEONLY" THEN t.writers[j][s] + 1
                                        ELSE t.writers[j][s]
  BY <1>0, <1>1
<1> QED BY <1>1, <1>2, <1>3, <1>4 DEF Writes

\* What a close leaves of them.
LEMMA CloseNodeKeeps ==
  ASSUME NEW t \in TableType, ListedOpen(t), NEW s \in Shell, NEW i \in Inode,
         NEW u, u = CloseNode(t, s, i, 1)
  PROVE  /\ u \in TableType /\ ListedOpen(u) /\ u.opened \subseteq t.opened
         /\ \A p \in Shell : p # s => Writes(u, p) = Writes(t, p)
         /\ \A j \in Inode : j # i => Writes(u, s)[j] = Writes(t, s)[j]
         /\ \A j \in Inode : Writes(u, s)[j] > 0 => Writes(t, s)[j] > 0
<1>0. Shell \subseteq Process
  BY DEF Process
<1>1. PICK R : /\ R \in Lists
               /\ R = [t.readers EXCEPT ![i][s] = Less(t.readers[i][s], 1)]
               /\ \A j \in Inode, q \in Process : j # i \/ q # s => R[j][q] = t.readers[j][q]
  <2>1. t.readers \in Lists /\ s \in Process
    BY <1>0 DEF TableType
  <2>2. t.readers[i][s] \in Nat
    BY <2>1 DEF Lists
  <2>3. PICK x \in Nat : x = Less(t.readers[i][s], 1)
    BY <2>2 DEF Less
  <2> QED BY <2>1, <2>3 DEF Lists
<1>2. PICK W : /\ W \in Lists
               /\ W = [t.writers EXCEPT ![i][s] = Less(t.writers[i][s], 1)]
               /\ \A j \in Inode, q \in Process : j # i \/ q # s => W[j][q] = t.writers[j][q]
  <2>1. t.writers \in Lists /\ s \in Process
    BY <1>0 DEF TableType
  <2>2. t.writers[i][s] \in Nat
    BY <2>1 DEF Lists
  <2>3. PICK x \in Nat : x = Less(t.writers[i][s], 1)
    BY <2>2 DEF Less
  <2> QED BY <2>1, <2>3 DEF Lists
<1>3. PICK struck : struck = [t EXCEPT !.readers = R, !.writers = W]
  OBVIOUS
<1>b. /\ struck \in TableType /\ struck.opened = t.opened
      /\ struck.readers = R /\ struck.writers = W
  <2>1. R \in Lists /\ W \in Lists
    BY <1>1, <1>2
  <2> QED BY <1>3, <2>1 DEF TableType
<1>4. \A j \in Inode, q \in Process : j # i => R[j][q] = t.readers[j][q] /\ W[j][q] = t.writers[j][q]
  BY <1>1, <1>2
<1>5. PICK o \in SUBSET Inode : o = t.opened \ {i}
  <2>1. t.opened \subseteq Inode
    BY DEF TableType
  <2>2. t.opened \ {i} \in SUBSET Inode
    BY <2>1
  <2> QED BY <2>2
<1>6. u = IF Unused(struck, i) THEN [struck EXCEPT !.opened = o] ELSE struck
  BY <1>1, <1>2, <1>3, <1>5 DEF CloseNode
<1>7. /\ u \in TableType /\ u.readers = R /\ u.writers = W
      /\ u.opened = IF Unused(struck, i) THEN o ELSE t.opened
  BY <1>b, <1>5, <1>6 DEF TableType
<1>8. ListedOpen(u)
  <2> SUFFICES ASSUME NEW j \in Inode, NEW q \in Process, R[j][q] > 0 \/ W[j][q] > 0
               PROVE  j \in u.opened
    BY <1>7 DEF ListedOpen
  <2>1. CASE j # i
    <3>1. j \in t.opened
      BY <1>4, <2>1 DEF ListedOpen
    <3> QED BY <1>5, <1>7, <2>1, <3>1
  <2>2. CASE j = i
    <3>1. Registered(struck, i)
      BY <1>b, <2>2 DEF Registered, Process
    <3>2. u.opened = t.opened
      BY <1>7, <3>1 DEF Unused
    <3>3. t.readers[i][q] > 0 \/ t.writers[i][q] > 0
      <4>1. CASE q = s
        <5>1. t.readers[i][s] \in Nat /\ t.writers[i][s] \in Nat
          BY <1>0 DEF TableType, Lists
        <5>2. R[i][s] = Less(t.readers[i][s], 1) /\ W[i][s] = Less(t.writers[i][s], 1)
          BY <1>0, <1>1, <1>2 DEF TableType, Lists
        <5> QED BY <2>2, <4>1, <5>1, <5>2 DEF Less
      <4>2. CASE q # s
        BY <1>1, <1>2, <2>2, <4>2
      <4> QED BY <4>1, <4>2
    <3> QED BY <2>2, <3>2, <3>3 DEF ListedOpen
  <2> QED BY <2>1, <2>2
<1>9. \A p \in Shell : p # s => \A j \in Inode : W[j][p] = t.writers[j][p]
  BY <1>0, <1>2
<1>10. \A j \in Inode : j # i => W[j][s] = t.writers[j][s]
  BY <1>0, <1>4
<1>11. W[i][s] > 0 => t.writers[i][s] > 0
  <2>1. t.writers[i][s] \in Nat /\ W[i][s] = Less(t.writers[i][s], 1)
    BY <1>0, <1>2 DEF TableType, Lists
  <2> QED BY <2>1 DEF Less
<1>12. \A j \in Inode : W[j][s] > 0 => t.writers[j][s] > 0
  BY <1>10, <1>11
<1> QED BY <1>5, <1>7, <1>8, <1>9, <1>10, <1>12 DEF Writes

\* What a fork leaves of them: the child, a program, is listed where its
\* parent is.
LEMMA InheritKeeps ==
  ASSUME NEW t \in TableType, ListedOpen(t), NEW s \in Shell, NEW opens \in [Inode -> Nat],
         NEW u, u = Inherit(t, s, Programs, opens)
  PROVE  /\ u \in TableType /\ ListedOpen(u) /\ u.opened = t.opened
         /\ \A p \in Shell : Writes(u, p) = Writes(t, p)
<1>0. Shell \subseteq Process /\ Programs \in Process /\ Programs \notin Shell
  BY CommandsAssumption DEF Process
<1> DEFINE listed(list) == [i \in Inode |-> [list[i] EXCEPT ![Programs] = list[i][Programs] + opens[i] * list[i][s]]]
<1>1. ASSUME NEW list \in Lists
      PROVE  /\ listed(list) \in Lists
             /\ \A i \in Inode : /\ listed(list)[i][Programs] = list[i][Programs] + opens[i] * list[i][s]
                                 /\ \A p \in Process \ {Programs} : listed(list)[i][p] = list[i][p]
  <2>1. ASSUME NEW i \in Inode
        PROVE  list[i] \in [Process -> Nat] /\ list[i][Programs] + opens[i] * list[i][s] \in Nat
    <3>1. list[i] \in [Process -> Nat]
      BY DEF Lists
    <3>2. PICK a \in Nat, b \in Nat, o \in Nat : a = list[i][Programs] /\ b = list[i][s] /\ o = opens[i]
      BY <1>0, <3>1
    <3>3. a + o * b \in Nat
      OBVIOUS
    <3> QED BY <3>1, <3>2, <3>3
  <2>2. ASSUME NEW i \in Inode
        PROVE  /\ listed(list)[i] \in [Process -> Nat]
               /\ listed(list)[i][Programs] = list[i][Programs] + opens[i] * list[i][s]
               /\ \A p \in Process \ {Programs} : listed(list)[i][p] = list[i][p]
    <3>1. PICK x \in Nat : x = list[i][Programs] + opens[i] * list[i][s]
      BY <2>1
    <3>2. listed(list)[i] = [list[i] EXCEPT ![Programs] = x]
      BY <3>1
    <3> HIDE DEF listed
    <3> QED BY <1>0, <2>1, <3>1, <3>2
  <2>3. listed(list) = [i \in Inode |-> listed(list)[i]]
    OBVIOUS
  <2> HIDE DEF listed
  <2> QED BY <2>2, <2>3 DEF Lists
<1>2. t.readers \in Lists /\ t.writers \in Lists
  BY DEF TableType
<1>3. PICK R \in Lists : R = listed(t.readers)
  BY <1>1, <1>2
<1>4. PICK W \in Lists : W = listed(t.writers)
  BY <1>1, <1>2
<1>5. u = [t EXCEPT !.readers = R, !.writers = W]
  BY <1>3, <1>4 DEF Inherit
<1>6. u \in TableType /\ u.opened = t.opened /\ u.readers = R /\ u.writers = W
  BY <1>5 DEF TableType
<1>7. \A i \in Inode : /\ R[i][Programs] = t.readers[i][Programs] + opens[i] * t.readers[i][s]
                       /\ W[i][Programs] = t.writers[i][Programs] + opens[i] * t.writers[i][s]
                       /\ \A p \in Process \ {Programs} : /\ R[i][p] = t.readers[i][p]
                                                          /\ W[i][p] = t.writers[i][p]
  <2> HIDE DEF listed
  <2> QED BY <1>1, <1>2, <1>3, <1>4
<1> HIDE DEF listed
<1>8. ListedOpen(u)
  <2> SUFFICES ASSUME NEW i \in Inode, NEW p \in Process, R[i][p] > 0 \/ W[i][p] > 0
               PROVE  i \in t.opened
    BY <1>6 DEF ListedOpen
  <2>1. CASE p # Programs
    BY <1>7, <2>1 DEF ListedOpen
  <2>2. CASE p = Programs
    <3>1. PICK a \in Nat, b \in Nat, c \in Nat, d \in Nat, o \in Nat :
            /\ a = t.readers[i][Programs] /\ b = t.readers[i][s]
            /\ c = t.writers[i][Programs] /\ d = t.writers[i][s] /\ o = opens[i]
      <4>1. t.readers[i] \in [Process -> Nat] /\ t.writers[i] \in [Process -> Nat]
        BY <1>2 DEF Lists
      <4>2. /\ t.readers[i][Programs] \in Nat /\ t.readers[i][s] \in Nat
            /\ t.writers[i][Programs] \in Nat /\ t.writers[i][s] \in Nat
        BY <1>0, <4>1
      <4>3. opens[i] \in Nat
        OBVIOUS
      <4> QED BY <4>2, <4>3
    <3>2. a + o * b > 0 \/ c + o * d > 0
      BY <1>7, <2>2, <3>1
    <3>3. (b = 0 => o * b = 0) /\ (d = 0 => o * d = 0)
      OBVIOUS
    <3>4. a > 0 \/ b > 0 \/ c > 0 \/ d > 0
      BY <3>2, <3>3
    <3> QED BY <1>0, <3>1, <3>4 DEF ListedOpen
  <2> QED BY <2>1, <2>2
<1>9. \A p \in Shell : p \in Process \ {Programs}
  BY <1>0
<1> QED BY <1>6, <1>7, <1>8, <1>9 DEF Writes

-----------------------------------------------------------------------------
(* The invariant, of one shell                                             *)

Early == {"prompt", "output", "create", "reopen", "input"}

Working == {"children", "child", "read", "close"}

Spots == Early \cup Working \cup {"command", "fork", "relay", "reset"}

Modes == {"READONLY", "WRITEONLY"}

Cmds == {[success |-> FALSE]} \cup {Parse(tokens) : tokens \in Lines}

Shells ==
  [at : Spots, cmd : Cmds, stdin : Nat, stdout : Nat, pending : Seq(Items), fd : Nat,
   size : Nat, names : Seq(Items), shown : Nat, before : Seq(Items), last : Items,
   rest : Seq(Items), failed : BOOLEAN]

Descriptors == [node : Nat, mode : Modes, offset : Nat]

(***************************************************************************)
(* What holds of one shell h, of its descriptors d and their counter c, of *)
(* the files f it opens and of how often, w, it is listed as a writer.     *)
(***************************************************************************)
FdsFit(f, d, c) ==
  /\ c \in Nat /\ c >= 2
  /\ d \in [DOMAIN d -> Descriptors]
  /\ \A fd \in DOMAIN d : /\ fd \in 2 .. c - 1
                          /\ d[fd].node \in DOMAIN f
                          /\ d[fd].mode = "WRITEONLY" => ~ IsDirectory(f, d[fd].node)

StreamsFit(d, h) ==
  /\ h.stdin # 0 => h.stdin \in DOMAIN d
  /\ h.stdout # 1 => h.stdout \in DOMAIN d /\ d[h.stdout].mode = "WRITEONLY"
  /\ h.stdin # h.stdout
  /\ h.pending # << >> => h.stdout # 1

PlaceFits(h) ==
  /\ h.at # "prompt" => h.cmd.success
  /\ h.at \in Early => h.stdin = 0
  /\ h.at = "prompt" /\ h.stdout # 1 => h.failed

\* A token of the line is a path to an inode.
Reads(f, token, i) == token \in DOMAIN Pieces /\ GetInode(f, Pieces[token]) = i

InputFits(f, d, h) == h.stdin # 0 => Reads(f, h.cmd.input, d[h.stdin].node)

ArgFits(f, d, h) ==
  h.at \in Working => /\ h.fd \in DOMAIN d /\ h.fd # h.stdin /\ h.fd # h.stdout
                      /\ h.cmd.args[1] \in Range(h.cmd.args)
                      /\ Reads(f, h.cmd.args[1], d[h.fd].node)

ReadBy(f, h, i) == \E token \in Range(h.cmd.args) \cup {h.cmd.input} : Reads(f, token, i)

HeldFits(f, w, d, h) ==
  h.stdout # 1 => /\ h.at # "reset" => w[d[h.stdout].node] > 0
                  /\ w[d[h.stdout].node] > 0 \/ ReadBy(f, h, d[h.stdout].node)

ListFits(f, d, h) ==
  /\ h.at = "children" /\ IsDirectory(f, d[h.fd].node) => Extends(h.before, Names(f, d[h.fd].node))
  /\ h.at = "child" => /\ IsDirectory(f, d[h.fd].node) /\ h.shown < Len(h.names)
                       /\ Extends(Visible(h.before), h.names)
                       /\ Extends(h.names, Visible(Names(f, d[h.fd].node)))

Fits(f, w, d, c, h) ==
  /\ h \in Shells /\ w \in [Inode -> Nat]
  /\ FdsFit(f, d, c) /\ StreamsFit(d, h) /\ PlaceFits(h)
  /\ InputFits(f, d, h) /\ ArgFits(f, d, h) /\ HeldFits(f, w, d, h) /\ ListFits(f, d, h)

-----------------------------------------------------------------------------
\* Prefixes.
LEMMA ExtendsTransitive ==
  ASSUME NEW a, NEW b, NEW c, Len(a) \in Nat, Len(b) \in Nat, Len(c) \in Nat,
         Extends(a, b), Extends(b, c)
  PROVE  Extends(a, c)
BY DEF Extends

\* Up to the first empty name.
LEMMA VisibleIs ==
  ASSUME NEW a \in Seq(Items)
  PROVE  \E n \in Nat : /\ n <= Len(a) /\ Visible(a) \in [1 .. n -> Items]
                        /\ Len(Visible(a)) = n /\ \A k \in 1 .. n : Visible(a)[k] = a[k] /\ Named(a[k])
                        /\ n < Len(a) => ~ Named(a[n + 1])
<1>1. PICK I : I = {i \in 1 .. Len(a) : a[i] = ""}
  OBVIOUS
<1>2. PICK e : e = IF I # {} THEN Min(I) ELSE 0
  OBVIOUS
<1>3. Visible(a) = IF e = 0 THEN a ELSE SubSeq(a, 1, e - 1)
  BY <1>1, <1>2 DEF Visible, SelectInSeq
<1>4. I = {i \in 1 .. Len(a) : ~ Named(a[i])}
  BY <1>1 DEF Named
<1>5. \/ e = 0 /\ I = {}
      \/ e \in I /\ \A k \in I : e <= k
  <2>1. Len(a) \in Nat /\ I \in SUBSET (1 .. Len(a))
    BY <1>4
  <2> QED BY <1>2, <2>1, FirstWith
<1>6. CASE e = 0 /\ I = {}
  <2>1. Visible(a) = a
    BY <1>3, <1>6
  <2>2. Len(a) \in Nat /\ a \in [1 .. Len(a) -> Items]
    OBVIOUS
  <2>3. \A k \in 1 .. Len(a) : Named(a[k])
    BY <1>4, <1>6
  <2>4. PICK n \in Nat : n = Len(a)
    OBVIOUS
  <2>5. ~ (n < n) /\ n <= n
    OBVIOUS
  <2> QED BY <2>1, <2>2, <2>3, <2>4, <2>5
<1>7. CASE e \in I /\ \A k \in I : e <= k
  <2>1. e \in 1 .. Len(a) /\ ~ Named(a[e]) /\ e - 1 \in Nat /\ e # 0
    BY <1>4, <1>7
  <2>2. Visible(a) = SubSeq(a, 1, e - 1)
    BY <1>3, <2>1
  <2>3. /\ SubSeq(a, 1, e - 1) \in [1 .. e - 1 -> Items] /\ Len(SubSeq(a, 1, e - 1)) = e - 1
        /\ \A k \in 1 .. e - 1 : SubSeq(a, 1, e - 1)[k] = a[k]
    <3>1. PICK n \in Nat : n = e - 1 /\ n <= Len(a)
      BY <2>1
    <3>a. SubSeq(a, 1, n) = [k \in 1 .. n |-> a[k]]
      OBVIOUS
    <3>b. PICK v : v = SubSeq(a, 1, n)
      OBVIOUS
    <3>2. v = SubSeq(a, 1, n) /\ v = [k \in 1 .. n |-> a[k]]
      BY <3>a, <3>b
    <3>3. \A k \in 1 .. n : a[k] \in Items
      BY <3>1
    <3>4. v \in [1 .. n -> Items] /\ \A k \in 1 .. n : v[k] = a[k]
      BY <3>2, <3>3
    <3>5. Len(v) = n
      BY <3>2
    <3> QED BY <3>1, <3>2, <3>4, <3>5
  <2>4. \A k \in 1 .. e - 1 : Named(a[k])
    BY <1>4, <1>7, <2>1
  <2>5. e - 1 <= Len(a) /\ (e - 1) + 1 = e
    BY <2>1
  <2> QED BY <2>1, <2>2, <2>3, <2>4, <2>5
<1> QED BY <1>5, <1>6, <1>7

\* What is visible of a part is visible of the whole.
LEMMA VisibleGrows ==
  ASSUME NEW a \in Seq(Items), NEW b \in Seq(Items), Extends(a, b)
  PROVE  Extends(Visible(a), Visible(b))
<1>1. PICK m \in Nat : /\ m <= Len(a) /\ Visible(a) \in [1 .. m -> Items]
                       /\ Len(Visible(a)) = m /\ \A k \in 1 .. m : Visible(a)[k] = a[k] /\ Named(a[k])
  BY VisibleIs
<1>2. PICK n \in Nat : /\ n <= Len(b) /\ Visible(b) \in [1 .. n -> Items]
                       /\ Len(Visible(b)) = n /\ \A k \in 1 .. n : Visible(b)[k] = b[k] /\ Named(b[k])
                       /\ n < Len(b) => ~ Named(b[n + 1])
  BY VisibleIs
<1>3. Len(a) \in Nat /\ Len(b) \in Nat /\ Len(a) <= Len(b) /\ \A k \in 1 .. Len(a) : b[k] = a[k]
  BY DEF Extends
<1>4. m <= n
  <2> SUFFICES ASSUME n < m PROVE FALSE
    BY <1>1, <1>2
  <2>1. n + 1 \in 1 .. m /\ n < Len(b) /\ n + 1 \in 1 .. Len(a)
    BY <1>1, <1>2, <1>3
  <2>2. Named(a[n + 1]) /\ a[n + 1] = b[n + 1]
    BY <1>1, <1>3, <2>1
  <2> QED BY <1>2, <2>1, <2>2
<1>5. \A k \in 1 .. m : k \in 1 .. n /\ k \in 1 .. Len(a)
  BY <1>1, <1>2, <1>3, <1>4
<1> QED BY <1>1, <1>2, <1>3, <1>4, <1>5 DEF Extends

\* The names of a directory.
LEMMA NamesIs ==
  ASSUME NEW tree \in Trees, NEW i \in DOMAIN tree, IsDirectory(tree, i)
  PROVE  /\ Names(tree, i) \in Seq(Items) /\ Len(Names(tree, i)) = Len(tree[i].content)
         /\ \A k \in 1 .. Len(tree[i].content) : Names(tree, i)[k] = tree[i].content[k].name
<1>1. PICK n \in Nat \ {0} : DOMAIN tree = 0 .. n - 1 /\ tree \in TreesOf(n)
  BY TreeType
<1>2. PICK c \in Seq(Entries) : c = tree[i].content
  BY <1>1, ContentType DEF IsDirectory
<1>3. Names(tree, i) = [k \in 1 .. Len(c) |-> c[k].name] /\ Len(c) \in Nat
  BY <1>2 DEF Names
<1>4. ASSUME NEW k \in 1 .. Len(c) PROVE c[k].name \in Items
  <2>1. c[k] \in Entries
    OBVIOUS
  <2> QED BY <2>1 DEF Entries
<1>5. Names(tree, i) \in [1 .. Len(c) -> Items]
  BY <1>3, <1>4
<1>6. Names(tree, i) \in Seq(Items) /\ Len(Names(tree, i)) = Len(c)
  BY <1>3, <1>5
<1> QED BY <1>2, <1>3, <1>6

\* The names of a directory grow.
LEMMA NamesGrow ==
  ASSUME NEW t \in Trees, NEW u \in Trees, Grows(t, u), NEW i \in DOMAIN t, IsDirectory(t, i)
  PROVE  i \in DOMAIN u /\ IsDirectory(u, i) /\ Extends(Names(t, i), Names(u, i))
<1>1. i \in DOMAIN u /\ IsDirectory(u, i) /\ Extends(t[i].content, u[i].content)
  BY DEF Grows, IsDirectory
<1>2. PICK n \in Nat \ {0} : DOMAIN t = 0 .. n - 1 /\ t \in TreesOf(n)
  BY TreeType
<1>3. PICK c \in Seq(Entries) : c = t[i].content
  BY <1>2, ContentType DEF IsDirectory
<1>4. PICK m \in Nat \ {0} : DOMAIN u = 0 .. m - 1 /\ u \in TreesOf(m)
  BY TreeType
<1>5. PICK d \in Seq(Entries) : d = u[i].content
  BY <1>1, <1>4, ContentType DEF IsDirectory
<1>6. /\ Len(Names(t, i)) = Len(c) /\ \A k \in 1 .. Len(c) : Names(t, i)[k] = c[k].name
      /\ Len(Names(u, i)) = Len(d) /\ \A k \in 1 .. Len(d) : Names(u, i)[k] = d[k].name
  BY <1>1, <1>3, <1>5, NamesIs
<1>7. Len(c) \in Nat /\ Len(d) \in Nat /\ Len(c) <= Len(d) /\ \A k \in 1 .. Len(c) : d[k] = c[k]
  BY <1>1, <1>3, <1>5 DEF Extends
<1>8. \A k \in 1 .. Len(c) : k \in 1 .. Len(d)
  BY <1>7
<1> QED BY <1>1, <1>6, <1>7, <1>8 DEF Extends

\* A path that has led to an inode leads there.
LEMMA ReadsKept ==
  ASSUME NEW t \in Trees, NEW u \in Trees, Grows(t, u), NEW token, NEW i \in Nat, Reads(t, token, i)
  PROVE  Reads(u, token, i)
<1>1. token \in DOMAIN Pieces /\ GetInode(t, Pieces[token]) = i
  BY DEF Reads
<1>2. Pieces[token] \in AllPaths
  <2>1. Pieces[token] \in Seq(STRING) /\ Pieces[token] # << >>
    BY <1>1, CommandsAssumption
  <2>2. STRING \subseteq Items
    BY DEF Items
  <2>3. Pieces[token] \in Seq(Items)
    BY <2>1, <2>2, SeqLarger
  <2> QED BY <2>1, <2>3 DEF AllPaths
<1>3. i # NoInode
  BY DEF NoInode
<1>4. PICK path \in AllPaths : path = Pieces[token]
  BY <1>2
<1>5. GetInode(u, path) = GetInode(t, path)
  BY <1>1, <1>3, <1>4, GetInodeStable
<1> QED BY <1>1, <1>4, <1>5 DEF Reads

\* Descriptors that are kept while others are added.
Adds(d, e) ==
  \A fd \in DOMAIN d : fd \in DOMAIN e /\ e[fd].node = d[fd].node /\ e[fd].mode = d[fd].mode

(***************************************************************************)
(* What holds of a shell goes on to hold while the tree grows, descriptors *)
(* are added or their offsets change, and it is listed no less often.      *)
(***************************************************************************)
LEMMA FitsMore ==
  ASSUME NEW f \in Trees, NEW g \in Trees, Grows(f, g), NEW w, NEW v \in [Inode -> Nat],
         \A i \in Inode : v[i] >= w[i], DOMAIN f \subseteq Inode,
         NEW d, NEW e, Adds(d, e), NEW c, NEW b, FdsFit(g, e, b), NEW h, Fits(f, w, d, c, h)
  PROVE  Fits(g, v, e, b, h)
<1>0. h \in Shells /\ w \in [Inode -> Nat]
  BY DEF Fits
<1>1. \A fd \in DOMAIN d : /\ fd \in DOMAIN e /\ e[fd].node = d[fd].node /\ e[fd].mode = d[fd].mode
                           /\ d[fd].node \in DOMAIN f /\ d[fd].node \in Nat /\ d[fd].node \in Inode
  BY DEF Adds, Fits, FdsFit, Inode
<1>2. StreamsFit(e, h)
  BY <1>1 DEF Fits, StreamsFit
<1>3. InputFits(g, e, h)
  <2> SUFFICES ASSUME h.stdin # 0 PROVE Reads(g, h.cmd.input, e[h.stdin].node)
    BY DEF InputFits
  <2>1. PICK i \in Nat : i = d[h.stdin].node /\ i = e[h.stdin].node
    BY <1>1 DEF Fits, StreamsFit
  <2>2. Reads(f, h.cmd.input, i)
    BY <2>1 DEF Fits, InputFits
  <2> QED BY <2>1, <2>2, ReadsKept
<1>4. ArgFits(g, e, h)
  <2> SUFFICES ASSUME h.at \in Working
               PROVE  /\ h.fd \in DOMAIN e /\ h.fd # h.stdin /\ h.fd # h.stdout
                      /\ h.cmd.args[1] \in Range(h.cmd.args)
                      /\ Reads(g, h.cmd.args[1], e[h.fd].node)
    BY DEF ArgFits
  <2>1. /\ h.fd \in DOMAIN d /\ h.fd # h.stdin /\ h.fd # h.stdout
        /\ h.cmd.args[1] \in Range(h.cmd.args)
        /\ Reads(f, h.cmd.args[1], d[h.fd].node)
    BY DEF Fits, ArgFits
  <2>2. PICK i \in Nat : i = d[h.fd].node /\ i = e[h.fd].node
    BY <1>1, <2>1
  <2>3. Reads(g, h.cmd.args[1], i)
    BY <2>1, <2>2, ReadsKept
  <2> QED BY <1>1, <2>1, <2>2, <2>3
<1>5. HeldFits(g, v, e, h)
  <2> SUFFICES ASSUME h.stdout # 1
               PROVE  /\ h.at # "reset" => v[e[h.stdout].node] > 0
                      /\ v[e[h.stdout].node] > 0 \/ ReadBy(g, h, e[h.stdout].node)
    BY DEF HeldFits
  <2>1. PICK i \in Nat : i \in Inode /\ i = d[h.stdout].node /\ i = e[h.stdout].node
    BY <1>1 DEF Fits, StreamsFit
  <2>2. (h.at # "reset" => w[i] > 0) /\ (w[i] > 0 \/ ReadBy(f, h, i))
    BY <2>1 DEF Fits, HeldFits
  <2>3. ReadBy(f, h, i) => ReadBy(g, h, i)
    BY <2>1, ReadsKept DEF ReadBy
  <2>4. w[i] > 0 => v[i] > 0
    <3>1. PICK a \in Nat, x \in Nat : a = w[i] /\ x = v[i] /\ x >= a
      BY <1>0, <2>1
    <3> QED BY <3>1
  <2> QED BY <2>1, <2>2, <2>3, <2>4
<1>6. ListFits(g, e, h)
  <2>1. CASE h.at = "children"
    <3>1. PICK i \in DOMAIN f : i = d[h.fd].node /\ i = e[h.fd].node
      BY <1>1, <2>1 DEF Fits, ArgFits, Working
    <3>2. IsDirectory(g, i) => IsDirectory(f, i)
      BY DEF Grows, IsDirectory
    <3>3. IsDirectory(f, i) => Extends(h.before, Names(f, i))
      BY <2>1, <3>1 DEF Fits, ListFits
    <3>4. IsDirectory(f, i) => Extends(h.before, Names(g, i))
      <4> SUFFICES ASSUME IsDirectory(f, i) PROVE Extends(h.before, Names(g, i))
        OBVIOUS
      <4>1. Names(f, i) \in Seq(Items)
        BY NamesIs
      <4>2. i \in DOMAIN g /\ IsDirectory(g, i) /\ Extends(Names(f, i), Names(g, i))
        BY NamesGrow
      <4>3. Names(g, i) \in Seq(Items)
        BY <4>2, NamesIs
      <4>4. h.before \in Seq(Items)
        BY <1>0 DEF Shells
      <4>5. Len(h.before) \in Nat /\ Len(Names(f, i)) \in Nat /\ Len(Names(g, i)) \in Nat
        BY <4>1, <4>3, <4>4
      <4> QED BY <3>3, <4>2, <4>5, ExtendsTransitive
    <3> QED BY <2>1, <3>1, <3>2, <3>4 DEF ListFits
  <2>2. CASE h.at = "child"
    <3>1. PICK i \in DOMAIN f : i = d[h.fd].node /\ i = e[h.fd].node
      BY <1>1, <2>2 DEF Fits, ArgFits, Working
    <3>2. /\ IsDirectory(f, i) /\ h.shown < Len(h.names)
          /\ Extends(Visible(h.before), h.names)
          /\ Extends(h.names, Visible(Names(f, i)))
      BY <2>2, <3>1 DEF Fits, ListFits
    <3>3. IsDirectory(g, i) /\ Extends(Names(f, i), Names(g, i))
      BY <3>2, NamesGrow
    <3>4. Names(f, i) \in Seq(Items) /\ Names(g, i) \in Seq(Items)
      <4>1. i \in DOMAIN g
        BY <3>2, NamesGrow
      <4> QED BY <3>2, <3>3, <4>1, NamesIs
    <3>5. Extends(Visible(Names(f, i)), Visible(Names(g, i)))
      BY <3>3, <3>4, VisibleGrows
    <3>6. Len(Visible(Names(f, i))) \in Nat /\ Len(Visible(Names(g, i))) \in Nat
      BY <3>4, VisibleIs
    <3>7. Len(h.names) \in Nat
      <4>1. h.names \in Seq(Items)
        BY <1>0 DEF Shells
      <4> QED BY <4>1
    <3>8. Extends(h.names, Visible(Names(g, i)))
      BY <3>2, <3>5, <3>6, <3>7, ExtendsTransitive
    <3> QED BY <2>2, <3>1, <3>2, <3>3, <3>8 DEF ListFits
  <2>3. CASE h.at # "children" /\ h.at # "child"
    BY <2>3 DEF ListFits
  <2> QED BY <2>1, <2>2, <2>3
<1>7. PlaceFits(h)
  BY DEF Fits
<1> QED BY <1>0, <1>2, <1>3, <1>4, <1>5, <1>6, <1>7 DEF Fits

-----------------------------------------------------------------------------
(* The invariant                                                           *)

System ==
  /\ files \in Trees /\ Cardinality(DOMAIN files) <= MaxInodes
  /\ table \in TableType /\ ListedOpen(table) /\ table.opened \subseteq DOMAIN files
  /\ DOMAIN fds = Shell /\ fds = [s \in Shell |-> fds[s]]
  /\ DOMAIN fd_counter = Shell /\ fd_counter = [s \in Shell |-> fd_counter[s]]
  /\ DOMAIN shell = Shell /\ shell = [s \in Shell |-> shell[s]]
  /\ halted \in BOOLEAN

ShellFits(s) == Fits(files, Writes(table, s), fds[s], fd_counter[s], shell[s])

Inv == System /\ \A s \in Shell : ShellFits(s)

\* The inodes of the tree are within the bound.
LEMMA InodesBound ==
  ASSUME NEW f \in Trees, Cardinality(DOMAIN f) <= MaxInodes
  PROVE  DOMAIN f \subseteq Inode /\ Inode \subseteq Nat
<1>1. PICK n \in Nat \ {0} : DOMAIN f = 0 .. n - 1 /\ Cardinality(DOMAIN f) = n
  BY TreeType
<1>2. MaxInodes \in Nat
  BY CommandsAssumption
<1> QED BY <1>1, <1>2 DEF Inode

\* How often a shell is listed.
LEMMA WritesType ==
  ASSUME NEW t \in TableType, NEW s \in Shell
  PROVE  Writes(t, s) \in [Inode -> Nat]
<1>1. s \in Process
  BY DEF Process
<1>2. t.writers \in Lists
  BY DEF TableType
<1> QED BY <1>1, <1>2 DEF Writes, Lists

\* Descriptors stay fit as the tree grows.
LEMMA FdsMore ==
  ASSUME NEW f, NEW g, Grows(f, g), NEW d, NEW c, FdsFit(f, d, c)
  PROVE  FdsFit(g, d, c)
<1>1. ASSUME NEW fd \in DOMAIN d
      PROVE  /\ fd \in 2 .. c - 1 /\ d[fd].node \in DOMAIN g
             /\ d[fd].mode = "WRITEONLY" => ~ IsDirectory(g, d[fd].node)
  BY DEF FdsFit, Grows, IsDirectory
<1>2. c \in Nat /\ c >= 2 /\ d \in [DOMAIN d -> Descriptors]
  BY DEF FdsFit
<1> QED BY <1>1, <1>2 DEF FdsFit

(***************************************************************************)
(* A step of one shell keeps the invariant, if what it leaves of its own   *)
(* variables fits, the tree grows and the others are listed as before.     *)
(***************************************************************************)
LEMMA StepKeeps ==
  ASSUME Inv, NEW s \in Shell, NEW d, NEW c, NEW h,
         files' \in Trees, Grows(files, files'), Cardinality(DOMAIN files') <= MaxInodes,
         table' \in TableType, ListedOpen(table'), table'.opened \subseteq DOMAIN files',
         \A p \in Shell : p # s => Writes(table', p) = Writes(table, p),
         fds' = [fds EXCEPT ![s] = d], fd_counter' = [fd_counter EXCEPT ![s] = c],
         shell' = [shell EXCEPT ![s] = h], halted' \in BOOLEAN,
         Fits(files', Writes(table', s), d, c, h)
  PROVE  Inv'
<1>1. System'
  BY DEF Inv, System
<1>2. fds'[s] = d /\ fd_counter'[s] = c /\ shell'[s] = h
  BY DEF Inv, System
<1>3. ShellFits(s)'
  BY <1>2 DEF ShellFits
<1>4. ASSUME NEW p \in Shell, p # s PROVE ShellFits(p)'
  <2>1. fds'[p] = fds[p] /\ fd_counter'[p] = fd_counter[p] /\ shell'[p] = shell[p]
    BY <1>4 DEF Inv, System
  <2>2. PICK f, g, e, b, k, w : /\ f = files /\ g = files' /\ Grows(f, g)
                                /\ f \in Trees /\ g \in Trees
                                /\ e = fds[p] /\ b = fd_counter[p] /\ k = shell[p]
                                /\ w = Writes(table, p) /\ w = Writes(table', p)
    BY <1>4 DEF Inv, System
  <2>3. Fits(f, w, e, b, k)
    BY <2>2 DEF Inv, ShellFits
  <2>4. w \in [Inode -> Nat] /\ \A i \in Inode : w[i] >= w[i]
    <3>1. w \in [Inode -> Nat]
      BY <2>3 DEF Fits
    <3>2. \A i \in Inode : w[i] \in Nat
      BY <3>1
    <3> QED BY <3>1, <3>2
  <2>5. DOMAIN f \subseteq Inode
    BY <2>2, InodesBound DEF Inv, System
  <2>6. FdsFit(g, e, b) /\ Adds(e, e)
    BY <2>2, <2>3, FdsMore DEF Fits, Adds
  <2>7. Fits(g, w, e, b, k)
    BY <2>2, <2>3, <2>4, <2>5, <2>6, FitsMore
  <2> QED BY <2>1, <2>2, <2>7 DEF ShellFits
<1>5. \A p \in Shell : ShellFits(p)'
  BY <1>3, <1>4
<1> QED BY <1>1, <1>5 DEF Inv

\* A step in which only the shell's own variables change.
LEMMA AloneKeeps ==
  ASSUME Inv, NEW s \in Shell, NEW h, UNCHANGED <<files, kernel>>, halted' \in BOOLEAN,
         shell' = [shell EXCEPT ![s] = h],
         Fits(files, Writes(table, s), fds[s], fd_counter[s], h)
  PROVE  Inv'
<1>1. files' = files /\ table' = table /\ fds' = fds /\ fd_counter' = fd_counter
  BY DEF kernel
<1>2. /\ files' \in Trees /\ Cardinality(DOMAIN files') <= MaxInodes
      /\ table' \in TableType /\ ListedOpen(table') /\ table'.opened \subseteq DOMAIN files'
  BY <1>1 DEF Inv, System
<1>3. Grows(files, files')
  BY <1>1, <1>2, GrowsSelf
<1>4. fds' = [fds EXCEPT ![s] = fds[s]] /\ fd_counter' = [fd_counter EXCEPT ![s] = fd_counter[s]]
  BY <1>1 DEF Inv, System
<1>5. Fits(files', Writes(table', s), fds[s], fd_counter[s], h)
  BY <1>1
<1>6. \A p \in Shell : p # s => Writes(table', p) = Writes(table, p)
  BY <1>1
<1>7. PICK d, c : d = fds[s] /\ c = fd_counter[s]
  OBVIOUS
<1> QED BY <1>2, <1>3, <1>4, <1>5, <1>6, <1>7, StepKeeps

(***************************************************************************)
(* A shell goes on, with the same command and the same redirections.       *)
(***************************************************************************)
LEMMA Turned ==
  ASSUME NEW f, NEW w, NEW d, NEW c, NEW h, Fits(f, w, d, c, h),
         NEW g \in Shells, g.cmd = h.cmd, g.stdin = h.stdin, g.stdout = h.stdout,
         g.pending # << >> => g.stdout # 1,
         g.at # "reset" /\ g.stdout # 1 => h.at # "reset",
         PlaceFits(g), ArgFits(f, d, g), ListFits(f, d, g)
  PROVE  Fits(f, w, d, c, g)
<1>1. StreamsFit(d, g)
  BY DEF Fits, StreamsFit
<1>2. InputFits(f, d, g)
  BY DEF Fits, InputFits
<1>3. HeldFits(f, w, d, g)
  BY DEF Fits, HeldFits, ReadBy
<1> QED BY <1>1, <1>2, <1>3 DEF Fits

\* What a command line is parsed to.
LEMMA ParseArgs ==
  ASSUME NEW tokens \in Lines, Parse(tokens).success
  PROVE  Parse(tokens).args \in Seq(STRING)
<1>1. tokens \in Seq(STRING)
  BY CommandsAssumption
<1>2. PICK words : words = WordsOf(tokens)
  OBVIOUS
<1>3. Parse(tokens).args = Tail(words) /\ words # << >>
  BY <1>2 DEF Parse
<1>4. words \in Seq(STRING)
  <2>1. PICK I : I = {i \in 1 .. Len(tokens) : tokens[i] \in Redirect}
    OBVIOUS
  <2>2. PICK e : e = IF I # {} THEN Min(I) ELSE 0
    OBVIOUS
  <2>3. words = IF e = 0 THEN tokens ELSE SubSeq(tokens, 1, e - 1)
    BY <1>2, <2>1, <2>2 DEF WordsOf, SelectInSeq
  <2>4. Len(tokens) \in Nat /\ I \in SUBSET (1 .. Len(tokens))
    BY <1>1, <2>1
  <2>5. PICK n \in Nat : n = Len(tokens) /\ I \in SUBSET (1 .. n)
    BY <2>4
  <2>6. \/ e = 0 /\ I = {}
        \/ e \in I /\ \A k \in I : e <= k
    BY <2>2, <2>5, FirstWith
  <2>7. CASE e = 0
    BY <1>1, <2>3, <2>7
  <2>8. CASE e # 0
    <3>a. e \in I
      BY <2>6, <2>8
    <3>b. e \in 1 .. n
      BY <2>5, <3>a
    <3>1. e \in 1 .. n /\ e - 1 \in Nat
      BY <3>b
    <3>2. words = SubSeq(tokens, 1, e - 1)
      BY <2>3, <2>8
    <3>3. \A k \in 1 .. e - 1 : tokens[k] \in STRING
      BY <1>1, <2>5, <3>1
    <3>4. PICK m \in Nat : m = e - 1
      BY <3>1
    <3>5. SubSeq(tokens, 1, m) = [k \in 1 .. m |-> tokens[k]]
      OBVIOUS
    <3>6. words \in [1 .. m -> STRING]
      BY <3>2, <3>3, <3>4, <3>5
    <3> QED BY <3>6
  <2> QED BY <2>7, <2>8
<1>5. Tail(words) \in Seq(STRING)
  BY <1>3, <1>4
<1> QED BY <1>3, <1>5

-----------------------------------------------------------------------------
(* Opening and closing                                                     *)

\* What a shell puts by itself.
LEMMA Literals ==
  /\ "newline" \in Items /\ "message" \in Items /\ "prompt" \in Items
  /\ "text" \in Items /\ "unknown" \in Items /\ STRING \subseteq Items
BY DEF Items

\* A pending text.
LEMMA SayIs ==
  ASSUME NEW s, NEW items \in Seq(Items)
  PROVE  Say(s, items) \in Seq(Items) /\ (Say(s, items) # << >> => shell[s].stdout # 1)
BY DEF Say

\* The argument of a command that has one.
LEMMA ArgIs ==
  ASSUME NEW s, shell[s].cmd \in Cmds, shell[s].cmd.success, OneArg(s)
  PROVE  Arg(s) \in Range(shell[s].cmd.args)
<1>1. shell[s].cmd.args \in Seq(STRING)
  <2>1. PICK cmd : cmd = shell[s].cmd
    OBVIOUS
  <2>2. CASE cmd = [success |-> FALSE]
    BY <2>1, <2>2
  <2>3. CASE cmd \in {Parse(tokens) : tokens \in Lines}
    <3>1. PICK tokens \in Lines : cmd = Parse(tokens)
      BY <2>3
    <3> QED BY <2>1, <3>1, ParseArgs
  <2> QED BY <2>1, <2>2, <2>3 DEF Cmds
<1>2. PICK args \in Seq(STRING) : args = shell[s].cmd.args /\ Len(args) = 1
  BY <1>1 DEF OneArg
<1>3. 1 \in DOMAIN args
  BY <1>2
<1> QED BY <1>2, <1>3 DEF Arg, Range

\* What a token that is a path leads to.
LEMMA PiecesIs ==
  ASSUME NEW token \in DOMAIN Pieces
  PROVE  Pieces[token] \in AllPaths
<1>1. Pieces[token] \in Seq(STRING) /\ Pieces[token] # << >>
  BY CommandsAssumption
<1>2. STRING \subseteq Items
  BY DEF Items
<1>3. Pieces[token] \in Seq(Items)
  BY <1>1, <1>2, SeqLarger
<1> QED BY <1>1, <1>3 DEF AllPaths

(***************************************************************************)
(* What a step leaves of the files and the nodes, as far as the others are *)
(* concerned.                                                              *)
(***************************************************************************)
Shared(s) ==
  /\ files' \in Trees /\ Grows(files, files') /\ Cardinality(DOMAIN files') <= MaxInodes
  /\ table' \in TableType /\ ListedOpen(table') /\ table'.opened \subseteq DOMAIN files'
  /\ \A p \in Shell : p # s => Writes(table', p) = Writes(table, p)

(***************************************************************************)
(* What an open leaves: a descriptor on inode i, under its number.         *)
(***************************************************************************)
Opens(s, path, mode, i, d) ==
  /\ i = GetInode(files, path) /\ i \in Nat /\ i \in DOMAIN files /\ GetInode(files', path) = i
  /\ Shared(s)
  /\ fds' = [fds EXCEPT ![s] = d]
  /\ fd_counter' = [fd_counter EXCEPT ![s] = fd_counter[s] + 1]
  /\ Adds(fds[s], d)
  /\ fd_counter[s] \in DOMAIN d /\ fd_counter[s] \notin DOMAIN fds[s]
  /\ fd_counter[s] \in Nat /\ fd_counter[s] >= 2
  /\ d[fd_counter[s]].node = i /\ d[fd_counter[s]].mode = mode
  /\ mode = "READONLY" => files' = files
  /\ mode = "WRITEONLY" => Writes(table', s)[i] > 0
  /\ Fits(files', Writes(table', s), d, fd_counter[s] + 1, shell[s])

\* current_task_open
LEMMA OpenPathIs ==
  ASSUME Inv, NEW s \in Shell, NEW path \in AllPaths, NEW mode \in Modes,
         MayOpen(files, path, mode), OpenPath(s, path, mode)
  PROVE  \E i, d : Opens(s, path, mode, i, d)
<1>1. PICK i : i = GetInode(files, path)
  OBVIOUS
<1>2. i # NoInode /\ ~ (IsDirectory(files, i) /\ mode = "WRITEONLY")
  BY <1>1 DEF MayOpen
<1>3. files \in Trees /\ Cardinality(DOMAIN files) <= MaxInodes /\ table \in TableType
      /\ ListedOpen(table) /\ table.opened \subseteq DOMAIN files
  BY DEF Inv, System
<1>4. i \in DOMAIN files
  BY <1>1, <1>2, <1>3, GetInodeIn
<1>5. DOMAIN files \subseteq Inode /\ Inode \subseteq Nat
  BY <1>3, InodesBound
<1>6. PICK c, old : c = fd_counter[s] /\ old = fds[s]
  OBVIOUS
<1>7. PICK d : d = [fd \in DOMAIN old \cup {c} |->
                      IF fd = c THEN [node |-> i, mode |-> mode, offset |-> 0] ELSE old[fd]]
  OBVIOUS
<1>8. /\ table' = OpenNode(table, s, i, mode)
      /\ fds' = [fds EXCEPT ![s] = d]
      /\ fd_counter' = [fd_counter EXCEPT ![s] = c + 1]
      /\ files' = IF mode = "WRITEONLY" THEN [files EXCEPT ![i].content = << >>] ELSE files
  BY <1>1, <1>6, <1>7 DEF OpenPath, Inv, System
<1>9. files' \in Trees /\ Grows(files, files') /\ DOMAIN files' = DOMAIN files
  <2>1. CASE mode = "WRITEONLY"
    <3>1. << >> \in Seq(Items) /\ ~ IsDirectory(files, i)
      BY <1>2, <2>1
    <3>2. PICK text \in Seq(Items) : text = << >>
      BY <3>1
    <3>3. PICK t : t = [files EXCEPT ![i].content = text]
      OBVIOUS
    <3>4. t \in Trees /\ Grows(files, t) /\ DOMAIN t = DOMAIN files
      BY <1>3, <1>4, <3>1, <3>3, FileSound
    <3>5. files' = t
      BY <1>8, <2>1, <3>2, <3>3
    <3> QED BY <3>4, <3>5
  <2>2. CASE mode # "WRITEONLY"
    <3>1. files' = files
      BY <1>8, <2>2
    <3> QED BY <1>3, <3>1, GrowsSelf
  <2> QED BY <2>1, <2>2
<1>10. GetInode(files', path) = i
  BY <1>1, <1>2, <1>3, <1>9, GetInodeStable
<1>11. /\ table' \in TableType /\ ListedOpen(table') /\ table'.opened = table.opened \cup {i}
       /\ \A p \in Shell : p # s => Writes(table', p) = Writes(table, p)
       /\ \A j \in Inode : Writes(table', s)[j] = IF j = i /\ mode = "WRITEONLY" THEN Writes(table, s)[j] + 1
                                                  ELSE Writes(table, s)[j]
  <2>1. PICK u : u = table' /\ u = OpenNode(table, s, i, mode)
    BY <1>8
  <2>2. i \in Inode /\ mode \in {"READONLY", "WRITEONLY"}
    BY <1>4, <1>5 DEF Modes
  <2> QED BY <1>3, <2>1, <2>2, OpenNodeKeeps
<1>12. Shared(s)
  BY <1>3, <1>4, <1>9, <1>11 DEF Shared
<1>13. FdsFit(files, old, c)
  BY <1>6 DEF Inv, ShellFits, Fits
<1>14. /\ c \in Nat /\ c >= 2 /\ old \in [DOMAIN old -> Descriptors]
       /\ \A fd \in DOMAIN old : /\ fd \in 2 .. c - 1
                                 /\ old[fd].node \in DOMAIN files
                                 /\ old[fd].mode = "WRITEONLY" => ~ IsDirectory(files, old[fd].node)
  BY <1>13 DEF FdsFit
<1>15. c \in DOMAIN d /\ c \notin DOMAIN old /\ d[c].node = i /\ d[c].mode = mode /\ Adds(old, d)
  BY <1>7, <1>14 DEF Adds
<1>16. FdsFit(files, d, c + 1)
  <2>1. DOMAIN d = DOMAIN old \cup {c} /\ c + 1 \in Nat /\ c + 1 >= 2
    BY <1>7, <1>14
  <2>2. [node |-> i, mode |-> mode, offset |-> 0] \in Descriptors
    BY <1>4, <1>5 DEF Descriptors
  <2>3. ASSUME NEW fd \in DOMAIN d
        PROVE  /\ fd \in 2 .. (c + 1) - 1 /\ d[fd] \in Descriptors /\ d[fd].node \in DOMAIN files
               /\ d[fd].mode = "WRITEONLY" => ~ IsDirectory(files, d[fd].node)
    <3>1. CASE fd = c
      BY <1>2, <1>4, <1>7, <1>14, <1>15, <2>2, <3>1
    <3>2. CASE fd # c
      <4>1. fd \in DOMAIN old /\ d[fd] = old[fd]
        BY <1>7, <2>1, <3>2
      <4> QED BY <1>14, <4>1
    <3> QED BY <3>1, <3>2
  <2>4. d \in [DOMAIN d -> Descriptors]
    BY <1>7, <2>3
  <2> QED BY <2>1, <2>3, <2>4 DEF FdsFit
<1>17. PICK f, g, w, v, b, h :
         /\ f = files /\ g = files' /\ f \in Trees /\ g \in Trees /\ w = Writes(table, s) /\ v = Writes(table', s)
         /\ b = c + 1 /\ h = shell[s]
  BY <1>3, <1>9
<1>18. FdsFit(g, d, b)
  BY <1>9, <1>16, <1>17, FdsMore
<1>19. w \in [Inode -> Nat] /\ v \in [Inode -> Nat]
  BY <1>3, <1>11, <1>17, WritesType
<1>20. \A j \in Inode : v[j] = IF j = i /\ mode = "WRITEONLY" THEN w[j] + 1 ELSE w[j]
  BY <1>11, <1>17
<1>21. \A j \in Inode : v[j] >= w[j]
  BY <1>19, <1>20
<1>22. mode = "WRITEONLY" => v[i] > 0
  <2>1. i \in Inode
    BY <1>4, <1>5
  <2> QED BY <1>19, <1>20, <2>1
<1>23. Fits(f, w, old, c, h)
  BY <1>6, <1>17 DEF Inv, ShellFits
<1>24. Grows(f, g) /\ DOMAIN f \subseteq Inode /\ Adds(old, d)
  BY <1>5, <1>9, <1>15, <1>17
<1>25. Fits(g, v, d, b, h)
  BY <1>17, <1>18, <1>19, <1>21, <1>23, <1>24, FitsMore
<1>26. mode = "READONLY" => files' = files
  BY <1>8
<1>27. i \in Nat
  BY <1>4, <1>5
<1>28. Opens(s, path, mode, i, d)
  BY <1>1, <1>4, <1>6, <1>8, <1>10, <1>12, <1>14, <1>15, <1>17, <1>22, <1>25, <1>26, <1>27 DEF Opens
<1> QED BY <1>28

(***************************************************************************)
(* What a close leaves.                                                    *)
(***************************************************************************)
Closes(s, fd, i, d) ==
  /\ i = fds[s][fd].node /\ i \in Inode
  /\ files' = files /\ Shared(s) /\ halted' \in BOOLEAN
  /\ fds' = [fds EXCEPT ![s] = d]
  /\ fd_counter' = [fd_counter EXCEPT ![s] = fd_counter[s]]
  /\ FdsFit(files, d, fd_counter[s])
  /\ DOMAIN d = DOMAIN fds[s] \ {fd}
  /\ \A x \in DOMAIN d : d[x] = fds[s][x]
  /\ Writes(table', s) \in [Inode -> Nat]
  /\ \A j \in Inode : j # i => Writes(table', s)[j] = Writes(table, s)[j]
  /\ \A j \in Inode : Writes(table', s)[j] > 0 => Writes(table, s)[j] > 0

\* current_task_close
LEMMA CloseIs ==
  ASSUME Inv, NEW s \in Shell, NEW fd \in DOMAIN fds[s], Close(s, fd)
  PROVE  \E i, d : Closes(s, fd, i, d)
<1>1. PICK i, old, c : i = fds[s][fd].node /\ old = fds[s] /\ c = fd_counter[s]
  OBVIOUS
<1>2. PICK d : d = [x \in DOMAIN old \ {fd} |-> old[x]]
  OBVIOUS
<1>3. /\ halted' = Dangles(s, fd)
      /\ table' = IF halted' THEN table ELSE CloseNode(table, s, i, 1)
      /\ fds' = [fds EXCEPT ![s] = d]
      /\ files' = files /\ fd_counter' = fd_counter
  BY <1>1, <1>2 DEF Close, Inv, System
<1>4. halted' \in BOOLEAN
  BY <1>3 DEF Dangles
<1>5. files \in Trees /\ Cardinality(DOMAIN files) <= MaxInodes /\ table \in TableType
      /\ ListedOpen(table) /\ table.opened \subseteq DOMAIN files
  BY DEF Inv, System
<1>6. /\ table' \in TableType /\ ListedOpen(table') /\ table'.opened \subseteq table.opened
      /\ \A p \in Shell : p # s => Writes(table', p) = Writes(table, p)
      /\ \A j \in Inode : j # i => Writes(table', s)[j] = Writes(table, s)[j]
      /\ \A j \in Inode : Writes(table', s)[j] > 0 => Writes(table, s)[j] > 0
  <2>1. CASE halted'
    BY <1>3, <1>5, <2>1
  <2>2. CASE ~ halted'
    <3>1. PICK u : u = table' /\ u = CloseNode(table, s, i, 1)
      BY <1>3, <2>2
    <3>2. i \in Inode
      <4>1. FdsFit(files, old, c)
        BY <1>1 DEF Inv, ShellFits, Fits
      <4>2. i \in DOMAIN files
        BY <1>1, <4>1 DEF FdsFit
      <4> QED BY <1>5, <4>2, InodesBound
    <3> QED BY <1>5, <3>1, <3>2, CloseNodeKeeps
  <2> QED BY <2>1, <2>2
<1>7. Grows(files, files')
  BY <1>3, <1>5, GrowsSelf
<1>8. Shared(s)
  BY <1>3, <1>5, <1>6, <1>7 DEF Shared
<1>9. FdsFit(files, old, c)
  BY <1>1 DEF Inv, ShellFits, Fits
<1>10. DOMAIN d = DOMAIN old \ {fd} /\ \A x \in DOMAIN d : d[x] = old[x]
  BY <1>2
<1>11. FdsFit(files, d, c)
  <2>1. d \in [DOMAIN d -> Descriptors]
    BY <1>2, <1>9, <1>10 DEF FdsFit
  <2> QED BY <1>9, <1>10, <2>1 DEF FdsFit
<1>12. i \in Inode
  <2>1. i \in DOMAIN files
    BY <1>1, <1>9 DEF FdsFit
  <2> QED BY <1>5, <2>1, InodesBound
<1>13. Writes(table', s) \in [Inode -> Nat]
  BY <1>6, WritesType
<1>14. fd_counter' = [fd_counter EXCEPT ![s] = c]
  BY <1>1, <1>3 DEF Inv, System
<1>15. Closes(s, fd, i, d)
  BY <1>1, <1>3, <1>4, <1>6, <1>8, <1>10, <1>11, <1>12, <1>13, <1>14 DEF Closes
<1> QED BY <1>15

\* The shell as it was.
LEMMA ShellIs ==
  ASSUME Inv, NEW s \in Shell
  PROVE  /\ shell[s] \in Shells
         /\ Fits(files, Writes(table, s), fds[s], fd_counter[s], shell[s])
         /\ FdsFit(files, fds[s], fd_counter[s]) /\ StreamsFit(fds[s], shell[s])
         /\ PlaceFits(shell[s]) /\ InputFits(files, fds[s], shell[s])
         /\ ArgFits(files, fds[s], shell[s])
         /\ HeldFits(files, Writes(table, s), fds[s], shell[s])
         /\ ListFits(files, fds[s], shell[s])
BY DEF Inv, ShellFits, Fits

\* A step that leaves what it shares sound.
LEMMA SharedKeeps ==
  ASSUME Inv, NEW s \in Shell, NEW d, NEW c, NEW h, Shared(s), halted' \in BOOLEAN,
         fds' = [fds EXCEPT ![s] = d], fd_counter' = [fd_counter EXCEPT ![s] = c],
         shell' = [shell EXCEPT ![s] = h], Fits(files', Writes(table', s), d, c, h)
  PROVE  Inv'
BY StepKeeps DEF Shared

-----------------------------------------------------------------------------
(* Commands that change the tree or nothing                                *)

\* What fits a shell fits it when the tree grows and descriptors are added.
LEMMA SharedFits ==
  ASSUME Inv, NEW s \in Shell, Shared(s),
         \A j \in Inode : Writes(table', s)[j] >= Writes(table, s)[j],
         NEW d, NEW c, Adds(fds[s], d), FdsFit(files', d, c)
  PROVE  Fits(files', Writes(table', s), d, c, shell[s])
<1>1. files \in Trees /\ Cardinality(DOMAIN files) <= MaxInodes /\ table \in TableType
  BY DEF Inv, System
<1>2. files' \in Trees /\ Grows(files, files') /\ table' \in TableType
  BY DEF Shared
<1>3. DOMAIN files \subseteq Inode
  BY <1>1, InodesBound
<1>4. PICK f, g, w, v, old, b, h :
        /\ f = files /\ g = files' /\ f \in Trees /\ g \in Trees /\ w = Writes(table, s) /\ v = Writes(table', s)
        /\ old = fds[s] /\ b = fd_counter[s] /\ h = shell[s]
  BY <1>1, <1>2
<1>5. v \in [Inode -> Nat] /\ \A j \in Inode : v[j] >= w[j]
  BY <1>2, <1>4, WritesType
<1>6. Fits(f, w, old, b, h) /\ FdsFit(g, d, c) /\ Adds(old, d) /\ Grows(f, g) /\ DOMAIN f \subseteq Inode
  BY <1>2, <1>3, <1>4, ShellIs
<1>7. Fits(g, v, d, c, h)
  BY <1>4, <1>5, <1>6, FitsMore
<1> QED BY <1>4, <1>7

\* Where nothing that is shared changes.
LEMMA SharedSame ==
  ASSUME Inv, NEW s \in Shell, files' = files, table' = table
  PROVE  Shared(s) /\ \A j \in Inode : Writes(table', s)[j] >= Writes(table, s)[j]
<1>1. files \in Trees /\ Cardinality(DOMAIN files) <= MaxInodes
      /\ table \in TableType /\ ListedOpen(table) /\ table.opened \subseteq DOMAIN files
  BY DEF Inv, System
<1>2. Grows(files, files)
  BY <1>1, GrowsSelf
<1>3. \A j \in Inode : Writes(table, s)[j] >= Writes(table, s)[j]
  <2>1. PICK w : w = Writes(table, s)
    OBVIOUS
  <2>2. w \in [Inode -> Nat]
    BY <1>1, <2>1, WritesType
  <2>3. \A j \in Inode : w[j] \in Nat
    BY <2>2
  <2> QED BY <2>1, <2>3
<1> QED BY <1>1, <1>2, <1>3 DEF Shared

\* An inode is created.
LEMMA CreateShares ==
  ASSUME Inv, NEW s \in Shell, NEW token, CanCreate(token), HasInode,
         NEW type \in {"DIRECTORY", "FILE"}, files' = Created(files, Pieces[token], type),
         table' = table
  PROVE  Shared(s) /\ \A j \in Inode : Writes(table', s)[j] >= Writes(table, s)[j]
<1>1. files \in Trees /\ Cardinality(DOMAIN files) <= MaxInodes
      /\ table \in TableType /\ ListedOpen(table) /\ table.opened \subseteq DOMAIN files
  BY DEF Inv, System
<1>2. PICK path \in AllPaths : path = Pieces[token] /\ MayCreate(files, path)
  BY PiecesIs DEF CanCreate
<1>3. PICK f : f = files' /\ f = Created(files, path, type)
  BY <1>2
<1>4. /\ f \in Trees /\ Grows(files, f)
      /\ \E n \in Nat : /\ DOMAIN files = 0 .. n - 1 /\ Cardinality(DOMAIN files) = n
                        /\ DOMAIN f = 0 .. n
  BY <1>1, <1>2, <1>3, CreatedSound
<1>5. PICK n \in Nat : DOMAIN files = 0 .. n - 1 /\ Cardinality(DOMAIN files) = n /\ DOMAIN f = 0 .. n
  BY <1>4
<1>6. Cardinality(DOMAIN f) <= MaxInodes
  <2>1. PICK m \in Nat : m = n + 1 /\ 0 .. n = 0 .. m - 1
    <3>1. n + 1 \in Nat /\ (n + 1) - 1 = n
      OBVIOUS
    <3> QED BY <3>1
  <2>2. Cardinality(0 .. m - 1) = m
    BY FS_Interval
  <2>3. MaxInodes \in Nat
    BY CommandsAssumption
  <2> QED BY <1>5, <2>1, <2>2, <2>3 DEF HasInode
<1>7. table'.opened \subseteq DOMAIN f
  BY <1>1, <1>5
<1>8. \A j \in Inode : Writes(table, s)[j] >= Writes(table, s)[j]
  <2>1. PICK w : w = Writes(table, s)
    OBVIOUS
  <2>2. w \in [Inode -> Nat]
    BY <1>1, <2>1, WritesType
  <2>3. \A j \in Inode : w[j] \in Nat
    BY <2>2
  <2> QED BY <2>1, <2>3
<1> QED BY <1>1, <1>3, <1>4, <1>6, <1>7, <1>8 DEF Shared

(***************************************************************************)
(* The shell goes on at a place where no descriptor is worked on.          *)
(***************************************************************************)
LEMMA GoFits ==
  ASSUME Inv, NEW s \in Shell, NEW place \in {"create", "reopen", "fork", "relay", "reset"},
         NEW items \in Seq(Items), Go(s, place, items),
         shell[s].cmd.success,
         place \in {"create", "reopen"} => shell[s].stdin = 0,
         place # "reset" => shell[s].at # "reset",
         NEW f, NEW w, NEW d, NEW c, Fits(f, w, d, c, shell[s])
  PROVE  \E g : shell' = [shell EXCEPT ![s] = g] /\ Fits(f, w, d, c, g)
<1>1. PICK h : h = shell[s] /\ h \in Shells
  BY ShellIs
<1>2. PICK put : put = Say(s, items)
  OBVIOUS
<1>3. PICK g : g = [h EXCEPT !.at = place, !.pending = put]
  OBVIOUS
<1>4. shell' = [shell EXCEPT ![s] = g]
  BY <1>1, <1>2, <1>3 DEF Go, Inv, System
<1>5. put \in Seq(Items) /\ (put # << >> => h.stdout # 1)
  BY <1>1, <1>2, SayIs
<1>6. place \in Spots
  BY DEF Spots, Early
<1>7. /\ g \in Shells /\ g.at = place /\ g.pending = put /\ g.cmd = h.cmd /\ g.stdin = h.stdin
      /\ g.stdout = h.stdout
  BY <1>1, <1>3, <1>5, <1>6 DEF Shells
<1>8. PlaceFits(g)
  BY <1>1, <1>7 DEF PlaceFits, Early
<1>9. ArgFits(f, d, g) /\ ListFits(f, d, g)
  BY <1>7 DEF ArgFits, ListFits, Working
<1>10. Fits(f, w, d, c, h)
  BY <1>1
<1>11. Fits(f, w, d, c, g)
  BY <1>1, <1>5, <1>7, <1>8, <1>9, <1>10, Turned
<1> QED BY <1>4, <1>11

\* A shell that runs a command has one.
LEMMA Succeeds ==
  ASSUME Inv, NEW s \in Shell, shell[s].at # "prompt"
  PROVE  shell[s].cmd.success /\ shell[s].cmd \in Cmds
BY ShellIs DEF PlaceFits, Shells

\* A command ends without touching the files.
LEMMA EndKeeps ==
  ASSUME Inv, NEW s \in Shell, shell[s].at # "prompt", NEW items \in Seq(Items), End(s, items),
         UNCHANGED <<files, kernel, halted>>
  PROVE  Inv'
<1>1. shell[s].cmd.success
  BY Succeeds
<1>2. Fits(files, Writes(table, s), fds[s], fd_counter[s], shell[s])
  BY ShellIs
<1>3. PICK f, w, d, c : f = files /\ w = Writes(table, s) /\ d = fds[s] /\ c = fd_counter[s]
  OBVIOUS
<1>4. Fits(f, w, d, c, shell[s])
  BY <1>2, <1>3
<1>5. PICK place : place = "reset"
  OBVIOUS
<1>6. Go(s, place, items)
  BY <1>5 DEF End
<1>7. PICK g : shell' = [shell EXCEPT ![s] = g] /\ Fits(f, w, d, c, g)
  BY <1>1, <1>4, <1>5, <1>6, GoFits
<1>8. halted' \in BOOLEAN
  BY DEF Inv, System
<1> QED BY <1>3, <1>7, <1>8, AloneKeeps

\* The message of a command that fails.
LEMMA Message ==
  /\ << >> \in Seq(Items) /\ <<"message">> \in Seq(Items) /\ <<"text">> \in Seq(Items)
  /\ <<"prompt">> \in Seq(Items) /\ <<"newline">> \in Seq(Items)
  /\ <<"message", "prompt">> \in Seq(Items)
<1>1. PICK m \in Items, p \in Items : m = "message" /\ p = "prompt"
  BY Literals
<1>2. <<m, p>> \in Seq(Items)
  OBVIOUS
<1> QED BY <1>1, <1>2, Literals

\* A command fails.
LEMMA FailKeeps ==
  ASSUME Inv, NEW s \in Shell, shell[s].at # "prompt", Fail(s)
  PROVE  Inv'
<1>1. PICK items \in Seq(Items) : items = <<"message">>
  BY Message
<1> QED BY <1>1, EndKeeps DEF Fail

\* echo puts something.
LEMMA EchoKeeps ==
  ASSUME Inv, NEW s \in Shell, Echo(s)
  PROVE  Inv'
<1>1. PICK items \in Seq(Items) : items = <<"text">>
  BY Message
<1>2. shell[s].at # "prompt"
  BY DEF Echo, Runs, At
<1> QED BY <1>1, <1>2, EndKeeps DEF Echo

\* mkdir creates a directory.
LEMMA MkdirKeeps ==
  ASSUME Inv, NEW s \in Shell, Mkdir(s)
  PROVE  Inv'
<1>1. shell[s].at # "prompt"
  BY DEF Mkdir, Runs, At
<1>2. CASE Fail(s)
  BY <1>1, <1>2, FailKeeps
<1>3. CASE ~ Fail(s)
  <2>1. /\ CanCreate(Arg(s)) /\ HasInode /\ files' = Created(files, Pieces[Arg(s)], "DIRECTORY")
        /\ End(s, << >>) /\ UNCHANGED <<kernel, halted>>
    BY <1>3 DEF Mkdir
  <2>2. table' = table /\ fds' = fds /\ fd_counter' = fd_counter /\ halted' \in BOOLEAN
    BY <2>1 DEF kernel, Inv, System
  <2>3. Shared(s) /\ \A j \in Inode : Writes(table', s)[j] >= Writes(table, s)[j]
    <3>1. PICK token : token = Arg(s)
      OBVIOUS
    <3>2. PICK type \in {"DIRECTORY", "FILE"} : type = "DIRECTORY"
      OBVIOUS
    <3> QED BY <2>1, <2>2, <3>1, <3>2, CreateShares
  <2>4. PICK d, c : d = fds[s] /\ c = fd_counter[s]
    OBVIOUS
  <2>5. FdsFit(files', d, c) /\ Adds(fds[s], d)
    BY <2>3, <2>4, ShellIs, FdsMore DEF Shared, Adds
  <2>6. Fits(files', Writes(table', s), d, c, shell[s])
    BY <2>3, <2>5, SharedFits
  <2>a. PICK items \in Seq(Items) : items = << >>
    BY Message
  <2>b. PICK f, w, place : f = files' /\ w = Writes(table', s) /\ place = "reset"
    OBVIOUS
  <2>7. /\ items = << >> /\ items \in Seq(Items)
        /\ f = files' /\ w = Writes(table', s) /\ place = "reset"
    BY <2>a, <2>b
  <2>8. Go(s, place, items) /\ Fits(f, w, d, c, shell[s]) /\ shell[s].cmd.success
    BY <1>1, <2>1, <2>6, <2>7, Succeeds DEF End
  <2>9. PICK g : shell' = [shell EXCEPT ![s] = g] /\ Fits(f, w, d, c, g)
    BY <2>7, <2>8, GoFits
  <2>10. fds' = [fds EXCEPT ![s] = d] /\ fd_counter' = [fd_counter EXCEPT ![s] = c]
    BY <2>2, <2>4 DEF Inv, System
  <2> QED BY <2>2, <2>3, <2>7, <2>9, <2>10, SharedKeeps
<1> QED BY <1>2, <1>3

\* `> file', created.
LEMMA CreateOutputKeeps ==
  ASSUME Inv, NEW s \in Shell, CreateOutput(s)
  PROVE  Inv'
<1>1. shell[s].at = "create" /\ Go(s, "reopen", << >>)
  BY DEF CreateOutput, At
<1>2. table' = table /\ fds' = fds /\ fd_counter' = fd_counter /\ halted' \in BOOLEAN
  BY DEF CreateOutput, kernel, Inv, System
<1>3. Shared(s) /\ \A j \in Inode : Writes(table', s)[j] >= Writes(table, s)[j]
  <2>a. PICK token : token = shell[s].cmd.output
    OBVIOUS
  <2>b. PICK type \in {"DIRECTORY", "FILE"} : type = "FILE"
    OBVIOUS
  <2>1. token = shell[s].cmd.output /\ type = "FILE"
    BY <2>a, <2>b
  <2>2. CASE CanCreate(token)
    <3>1. HasInode /\ files' = Created(files, Pieces[token], type)
      BY <2>1, <2>2 DEF CreateOutput
    <3> QED BY <1>2, <2>1, <2>2, <3>1, CreateShares
  <2>3. CASE ~ CanCreate(token)
    <3>1. files' = files
      BY <2>1, <2>3 DEF CreateOutput
    <3> QED BY <1>2, <3>1, SharedSame
  <2> QED BY <2>2, <2>3
<1>4. PICK d, c : d = fds[s] /\ c = fd_counter[s]
  OBVIOUS
<1>5. FdsFit(files', d, c) /\ Adds(fds[s], d)
  BY <1>3, <1>4, ShellIs, FdsMore DEF Shared, Adds
<1>6. Fits(files', Writes(table', s), d, c, shell[s])
  BY <1>3, <1>5, SharedFits
<1>a. PICK items \in Seq(Items) : items = << >>
  BY Message
<1>b. PICK f, w, place : f = files' /\ w = Writes(table', s) /\ place = "reopen"
  OBVIOUS
<1>7. /\ items = << >> /\ items \in Seq(Items)
      /\ f = files' /\ w = Writes(table', s) /\ place = "reopen"
  BY <1>a, <1>b
<1>8. /\ Go(s, place, items) /\ Fits(f, w, d, c, shell[s]) /\ shell[s].cmd.success
      /\ shell[s].stdin = 0
  <2>1. shell[s].cmd.success
    BY <1>1, Succeeds
  <2>2. shell[s].stdin = 0
    BY <1>1, ShellIs DEF PlaceFits, Early
  <2> QED BY <1>1, <1>6, <1>7, <2>1, <2>2
<1>9. PICK g : shell' = [shell EXCEPT ![s] = g] /\ Fits(f, w, d, c, g)
  BY <1>1, <1>7, <1>8, GoFits
<1>10. fds' = [fds EXCEPT ![s] = d] /\ fd_counter' = [fd_counter EXCEPT ![s] = c]
  BY <1>2, <1>4 DEF Inv, System
<1> QED BY <1>2, <1>3, <1>7, <1>9, <1>10, SharedKeeps

-----------------------------------------------------------------------------
(* Redirections                                                            *)

\* A redirection has failed.
LEMMA GiveUpKeeps ==
  ASSUME Inv, NEW s \in Shell, shell[s].at \in Early, GiveUp(s), UNCHANGED halted
  PROVE  Inv'
<1>1. PICK h : h = shell[s] /\ h \in Shells
  BY ShellIs
<1>2. PICK items \in Seq(Items) : items = <<"message", "prompt">>
  BY Message
<1>3. PICK put : put = Say(s, items)
  OBVIOUS
<1>4. PICK g : g = [h EXCEPT !.at = "prompt", !.failed = TRUE, !.pending = put]
  OBVIOUS
<1>5. shell' = [shell EXCEPT ![s] = g]
  BY <1>1, <1>2, <1>3, <1>4 DEF GiveUp, Inv, System
<1>6. put \in Seq(Items) /\ (put # << >> => h.stdout # 1)
  BY <1>1, <1>3, SayIs
<1>7. /\ g \in Shells /\ g.at = "prompt" /\ g.pending = put /\ g.cmd = h.cmd /\ g.stdin = h.stdin
      /\ g.stdout = h.stdout /\ g.failed
  BY <1>1, <1>4, <1>6 DEF Shells, Spots, Early
<1>8. PlaceFits(g) /\ h.at # "reset"
  BY <1>1, <1>7, ShellIs DEF PlaceFits, Early
<1>9. PICK f, w, d, c : f = files /\ w = Writes(table, s) /\ d = fds[s] /\ c = fd_counter[s]
  OBVIOUS
<1>10. ArgFits(f, d, g) /\ ListFits(f, d, g)
  BY <1>7 DEF ArgFits, ListFits, Working
<1>11. Fits(f, w, d, c, h)
  BY <1>1, <1>9, ShellIs
<1>12. Fits(f, w, d, c, g)
  BY <1>6, <1>7, <1>8, <1>10, <1>11, Turned
<1>13. UNCHANGED <<files, kernel>> /\ halted' \in BOOLEAN
  BY DEF GiveUp, Inv, System
<1> QED BY <1>5, <1>9, <1>12, <1>13, AloneKeeps

\* A token is opened.
LEMMA TokenOpens ==
  ASSUME Inv, NEW s \in Shell, NEW token, NEW mode \in Modes, CanOpen(token, mode),
         OpenPath(s, Pieces[token], mode)
  PROVE  \E i, d : Opens(s, Pieces[token], mode, i, d) /\ Reads(files', token, i)
<1>1. PICK path \in AllPaths : path = Pieces[token]
  BY PiecesIs DEF CanOpen
<1>2. MayOpen(files, path, mode) /\ OpenPath(s, path, mode) /\ token \in DOMAIN Pieces
  BY <1>1 DEF CanOpen
<1>3. PICK i, d : Opens(s, path, mode, i, d)
  BY <1>2, OpenPathIs
<1>4. Reads(files', token, i)
  BY <1>1, <1>2, <1>3 DEF Opens, Reads
<1> QED BY <1>1, <1>3, <1>4

\* The new descriptor is none of those a shell has redirected to.
LEMMA FreshFd ==
  ASSUME Inv, NEW s \in Shell, NEW path, NEW mode, NEW i, NEW d, Opens(s, path, mode, i, d)
  PROVE  fd_counter[s] # shell[s].stdin /\ fd_counter[s] # shell[s].stdout
<1>1. fd_counter[s] \in Nat /\ fd_counter[s] >= 2 /\ fd_counter[s] \notin DOMAIN fds[s]
  BY DEF Opens
<1>2. StreamsFit(fds[s], shell[s])
  BY ShellIs
<1> QED BY <1>1, <1>2 DEF StreamsFit

\* After an open.
LEMMA OpenKeeps ==
  ASSUME Inv, NEW s \in Shell, NEW path, NEW mode, NEW i, NEW d, Opens(s, path, mode, i, d),
         UNCHANGED halted, NEW g, shell' = [shell EXCEPT ![s] = g],
         Fits(files', Writes(table', s), d, fd_counter[s] + 1, g)
  PROVE  Inv'
<1>1. PICK c : c = fd_counter[s] + 1
  OBVIOUS
<1>2. fds' = [fds EXCEPT ![s] = d] /\ fd_counter' = [fd_counter EXCEPT ![s] = c] /\ Shared(s)
  BY <1>1 DEF Opens
<1>3. halted' \in BOOLEAN
  BY DEF Inv, System
<1> QED BY <1>1, <1>2, <1>3, SharedKeeps

\* Where main() goes on.
LEMMA AfterIs ==
  ASSUME NEW cmd
  PROVE  AfterOutput(cmd) \in {"input", "command"}
BY DEF AfterOutput

\* The output is redirected.
LEMMA OutputFits ==
  ASSUME NEW f, NEW w, NEW d, NEW c, NEW h, Fits(f, w, d, c, h), h.cmd.success,
         NEW fd \in DOMAIN d, fd \in Nat, fd >= 2, d[fd].mode = "WRITEONLY", w[d[fd].node] > 0,
         NEW g \in Shells, g.at \in {"input", "command"}, g.stdout = fd, g.stdin = 0, g.cmd = h.cmd,
         g.pending = << >>
  PROVE  Fits(f, w, d, c, g)
<1>1. StreamsFit(d, g)
  BY DEF StreamsFit
<1>2. PlaceFits(g)
  BY DEF PlaceFits
<1>3. InputFits(f, d, g) /\ HeldFits(f, w, d, g)
  BY DEF InputFits, HeldFits
<1>4. ArgFits(f, d, g) /\ ListFits(f, d, g)
  BY DEF ArgFits, ListFits, Working
<1> QED BY <1>1, <1>2, <1>3, <1>4 DEF Fits

\* `> file', opened.
LEMMA OpenOutputKeeps ==
  ASSUME Inv, NEW s \in Shell, OpenOutput(s)
  PROVE  Inv'
<1>1. /\ shell[s].at \in {"output", "reopen"} /\ shell[s].pending = << >> /\ UNCHANGED halted
      /\ shell[s].cmd.success /\ shell[s].stdin = 0
  <2>1. shell[s].at \in {"output", "reopen"} /\ shell[s].pending = << >> /\ UNCHANGED halted
    BY DEF OpenOutput, At
  <2>2. shell[s].at # "prompt" /\ shell[s].at \in Early
    BY <2>1 DEF Early
  <2>3. shell[s].cmd.success /\ shell[s].stdin = 0
    BY <2>2, ShellIs DEF PlaceFits
  <2> QED BY <2>1, <2>3
<1>2. PICK h, cmd : h = shell[s] /\ h \in Shells /\ cmd = h.cmd
  BY ShellIs
<1>3. CASE CanOpen(cmd.output, "WRITEONLY")
  <2>1. PICK token : token = cmd.output
    OBVIOUS
  <2>2. PICK mode \in Modes : mode = "WRITEONLY"
    BY DEF Modes
  <2>3. /\ CanOpen(token, mode) /\ OpenPath(s, Pieces[token], mode)
        /\ shell' = [shell EXCEPT ![s].stdout = fd_counter[s], ![s].at = AfterOutput(cmd)]
    BY <1>2, <1>3, <2>1, <2>2 DEF OpenOutput
  <2>4. PICK i, d : Opens(s, Pieces[token], mode, i, d)
    BY <2>3, TokenOpens
  <2>5. PICK c : c = fd_counter[s]
    OBVIOUS
  <2>6. PICK place \in {"input", "command"} : place = AfterOutput(cmd)
    BY AfterIs
  <2>7. PICK g : g = [h EXCEPT !.stdout = c, !.at = place]
    OBVIOUS
  <2>8. shell' = [shell EXCEPT ![s] = g]
    BY <1>2, <2>3, <2>5, <2>6, <2>7 DEF Inv, System
  <2>9. /\ c \in Nat /\ c \in DOMAIN d /\ d[c].mode = "WRITEONLY" /\ c >= 2
        /\ d[c].node = i /\ Writes(table', s)[i] > 0
        /\ Fits(files', Writes(table', s), d, c + 1, h)
    BY <1>2, <2>2, <2>4, <2>5 DEF Opens
  <2>10. PICK f, w, b : f = files' /\ w = Writes(table', s) /\ b = c + 1
    OBVIOUS
  <2>11. Fits(f, w, d, b, h) /\ w[d[c].node] > 0
    BY <2>9, <2>10
  <2>12. /\ g \in Shells /\ g.at = place /\ g.stdout = c /\ g.stdin = 0 /\ g.cmd = h.cmd
         /\ g.pending = << >>
    BY <1>1, <1>2, <2>7, <2>9 DEF Shells, Spots, Early
  <2>13. Fits(f, w, d, b, g)
    BY <1>1, <1>2, <2>9, <2>11, <2>12, OutputFits
  <2> QED BY <1>1, <2>4, <2>5, <2>8, <2>10, <2>13, OpenKeeps
<1>4. CASE ~ CanOpen(cmd.output, "WRITEONLY") /\ At(s, "output")
  <2>1. Go(s, "create", << >>) /\ UNCHANGED <<files, kernel>>
    BY <1>2, <1>4 DEF OpenOutput
  <2>2. PICK place, f, w, d, c : /\ place = "create" /\ f = files /\ w = Writes(table, s)
                                 /\ d = fds[s] /\ c = fd_counter[s]
    OBVIOUS
  <2>3. PICK items \in Seq(Items) : items = << >>
    BY Message
  <2>4. Go(s, place, items) /\ Fits(f, w, d, c, shell[s])
    BY <2>1, <2>2, <2>3, ShellIs
  <2>5. PICK g : shell' = [shell EXCEPT ![s] = g] /\ Fits(f, w, d, c, g)
    BY <1>1, <2>2, <2>4, GoFits
  <2>6. halted' \in BOOLEAN
    BY <1>1 DEF Inv, System
  <2> QED BY <2>1, <2>2, <2>5, <2>6, AloneKeeps
<1>5. CASE ~ CanOpen(cmd.output, "WRITEONLY") /\ ~ At(s, "output")
  <2>1. GiveUp(s) /\ shell[s].at \in Early
    BY <1>1, <1>2, <1>5 DEF OpenOutput, Early
  <2> QED BY <1>1, <2>1, GiveUpKeeps
<1> QED BY <1>3, <1>4, <1>5

\* The input is redirected.
LEMMA InputRedirected ==
  ASSUME NEW f, NEW w, NEW d, NEW c, NEW h, Fits(f, w, d, c, h), h.cmd.success, h.at # "reset",
         NEW fd \in DOMAIN d, fd # h.stdout, Reads(f, h.cmd.input, d[fd].node),
         NEW g \in Shells, g.at = "command", g.stdout = h.stdout, g.stdin = fd, g.cmd = h.cmd,
         g.pending = << >>
  PROVE  Fits(f, w, d, c, g)
<1>1. StreamsFit(d, g)
  BY DEF Fits, StreamsFit
<1>2. PlaceFits(g)
  BY DEF PlaceFits, Early
<1>3. InputFits(f, d, g)
  BY DEF InputFits
<1>4. HeldFits(f, w, d, g)
  BY DEF Fits, HeldFits
<1>5. ArgFits(f, d, g) /\ ListFits(f, d, g)
  BY DEF ArgFits, ListFits, Working
<1> QED BY <1>1, <1>2, <1>3, <1>4, <1>5 DEF Fits

\* `< file', opened.
LEMMA OpenInputKeeps ==
  ASSUME Inv, NEW s \in Shell, OpenInput(s)
  PROVE  Inv'
<1>1. shell[s].at = "input" /\ shell[s].pending = << >> /\ UNCHANGED halted
  BY DEF OpenInput, At
<1>2. PICK h, cmd : h = shell[s] /\ h \in Shells /\ cmd = h.cmd
  BY ShellIs
<1>3. h.cmd.success
  BY <1>1, <1>2, Succeeds
<1>4. CASE CanOpen(cmd.input, "READONLY")
  <2>1. PICK token : token = cmd.input
    OBVIOUS
  <2>2. PICK mode \in Modes : mode = "READONLY"
    BY DEF Modes
  <2>3. /\ CanOpen(token, mode) /\ OpenPath(s, Pieces[token], mode)
        /\ shell' = [shell EXCEPT ![s].stdin = fd_counter[s], ![s].at = "command"]
    BY <1>2, <1>4, <2>1, <2>2 DEF OpenInput
  <2>4. PICK i, d : Opens(s, Pieces[token], mode, i, d) /\ Reads(files', token, i)
    BY <2>3, TokenOpens
  <2>5. PICK c : c = fd_counter[s]
    OBVIOUS
  <2>6. PICK g : g = [h EXCEPT !.stdin = c, !.at = "command"]
    OBVIOUS
  <2>7. shell' = [shell EXCEPT ![s] = g]
    BY <1>2, <2>3, <2>5, <2>6 DEF Inv, System
  <2>8. /\ c \in Nat /\ c \in DOMAIN d /\ d[c].node = i
        /\ Fits(files', Writes(table', s), d, c + 1, h)
    BY <1>2, <2>4, <2>5 DEF Opens
  <2>9. c # h.stdout
    BY <1>2, <2>4, <2>5, FreshFd
  <2>10. PICK f, w, b : f = files' /\ w = Writes(table', s) /\ b = c + 1
    OBVIOUS
  <2>11. Fits(f, w, d, b, h) /\ Reads(f, h.cmd.input, d[c].node)
    BY <1>2, <2>1, <2>4, <2>8, <2>10
  <2>12. /\ g \in Shells /\ g.at = "command" /\ g.stdout = h.stdout /\ g.stdin = c /\ g.cmd = h.cmd
         /\ g.pending = << >>
    BY <1>1, <1>2, <2>6, <2>8 DEF Shells, Spots
  <2>13. Fits(f, w, d, b, g)
    BY <1>1, <1>2, <1>3, <2>8, <2>9, <2>11, <2>12, InputRedirected
  <2> QED BY <1>1, <2>4, <2>5, <2>7, <2>10, <2>13, OpenKeeps
<1>5. CASE ~ CanOpen(cmd.input, "READONLY")
  <2>1. GiveUp(s) /\ shell[s].at \in Early
    BY <1>1, <1>2, <1>5 DEF OpenInput, Early
  <2> QED BY <1>1, <2>1, GiveUpKeeps
<1> QED BY <1>4, <1>5

\* A program is opened.
LEMMA ExternalKeeps ==
  ASSUME Inv, NEW s \in Shell, External(s)
  PROVE  Inv'
<1>1. shell[s].at = "command"
  BY DEF External, At
<1>2. PICK token : token = shell[s].cmd.command
  OBVIOUS
<1>3. CASE CanOpen(token, "READONLY")
  <2>1. PICK mode \in Modes : mode = "READONLY"
    BY DEF Modes
  <2>2. /\ CanOpen(token, mode) /\ OpenPath(s, Pieces[token], mode) /\ Go(s, "fork", << >>)
        /\ UNCHANGED halted
    BY <1>2, <1>3, <2>1 DEF External
  <2>3. PICK i, d : Opens(s, Pieces[token], mode, i, d)
    BY <2>2, TokenOpens
  <2>4. PICK place, f, w, c : /\ place = "fork" /\ f = files' /\ w = Writes(table', s)
                              /\ c = fd_counter[s] + 1
    OBVIOUS
  <2>5. PICK items \in Seq(Items) : items = << >>
    BY Message
  <2>6. Go(s, place, items) /\ Fits(f, w, d, c, shell[s]) /\ shell[s].cmd.success
    BY <1>1, <2>2, <2>3, <2>4, <2>5, Succeeds DEF Opens
  <2>7. PICK g : shell' = [shell EXCEPT ![s] = g] /\ Fits(f, w, d, c, g)
    BY <1>1, <2>4, <2>6, GoFits
  <2> QED BY <2>2, <2>3, <2>4, <2>7, OpenKeeps
<1>4. CASE ~ CanOpen(token, "READONLY")
  <2>1. Fail(s)
    BY <1>2, <1>4 DEF External
  <2> QED BY <1>1, <2>1, FailKeeps
<1> QED BY <1>3, <1>4

(***************************************************************************)
(* A command opens its argument and goes on to work on the descriptor.     *)
(***************************************************************************)
LEMMA ArgOpens ==
  ASSUME Inv, NEW s \in Shell, shell[s].at = "command", shell[s].pending = << >>, OneArg(s),
         CanOpen(Arg(s), "READONLY"), OpenPath(s, Pieces[Arg(s)], "READONLY"), UNCHANGED halted,
         NEW g \in Shells, shell' = [shell EXCEPT ![s] = g], g.at \in {"children", "read"},
         g.fd = fd_counter[s], g.cmd = shell[s].cmd, g.stdin = shell[s].stdin,
         g.stdout = shell[s].stdout, g.pending = << >>,
         NEW i, i = GetInode(files, Pieces[Arg(s)]),
         \A d : d[fd_counter[s]].node = i => ListFits(files, d, g)
  PROVE  Inv'
<1>1. PICK h : h = shell[s] /\ h \in Shells
  BY ShellIs
<1>2. h.cmd.success /\ h.cmd \in Cmds
  BY <1>1, Succeeds
<1>3. Arg(s) \in Range(h.cmd.args) /\ Arg(s) = h.cmd.args[1]
  BY <1>1, <1>2, ArgIs DEF Arg
<1>4. PICK token : token = Arg(s)
  OBVIOUS
<1>a. PICK mode \in Modes : mode = "READONLY"
  BY DEF Modes
<1>b. PICK j, d : Opens(s, Pieces[token], mode, j, d) /\ Reads(files', token, j)
  BY <1>4, <1>a, TokenOpens
<1>5. Opens(s, Pieces[token], mode, i, d) /\ Reads(files', token, i)
  BY <1>4, <1>b DEF Opens
<1>6. PICK c : c = fd_counter[s]
  OBVIOUS
<1>7. /\ c \in DOMAIN d /\ d[c].node = i /\ i = GetInode(files, Pieces[token])
      /\ i \in DOMAIN files /\ files' = files
      /\ Fits(files', Writes(table', s), d, c + 1, h)
  BY <1>1, <1>5, <1>6, <1>a DEF Opens
<1>8. c # h.stdin /\ c # h.stdout
  BY <1>1, <1>5, <1>6, FreshFd
<1>9. PICK f, w, b : f = files' /\ w = Writes(table', s) /\ b = c + 1
  OBVIOUS
<1>10. Fits(f, w, d, b, h)
  BY <1>7, <1>9
<1>11. ArgFits(f, d, g)
  BY <1>1, <1>3, <1>4, <1>5, <1>6, <1>7, <1>8, <1>9 DEF ArgFits
<1>12. ListFits(f, d, g)
  BY <1>4, <1>6, <1>7, <1>9
<1>13. PlaceFits(g)
  BY <1>1, <1>2 DEF PlaceFits, Early
<1>14. Fits(f, w, d, b, g)
  BY <1>1, <1>10, <1>11, <1>12, <1>13, Turned
<1> QED BY <1>5, <1>6, <1>9, <1>14, OpenKeeps

\* cat opens its file.
LEMMA CatKeeps ==
  ASSUME Inv, NEW s \in Shell, Cat(s)
  PROVE  Inv'
<1>1. shell[s].at = "command" /\ shell[s].pending = << >>
  BY DEF Cat, Runs, At
<1>2. CASE OneArg(s) /\ CanOpen(Arg(s), "READONLY")
  <2>1. PICK i : i = GetInode(files, Pieces[Arg(s)])
    OBVIOUS
  <2>2. PICK h : h = shell[s] /\ h \in Shells
    BY ShellIs
  <2>3. PICK c : c = fd_counter[s]
    OBVIOUS
  <2>4. PICK blank \in Items : blank = ""
    BY DEF Items
  <2>5. /\ OpenPath(s, Pieces[Arg(s)], "READONLY") /\ UNCHANGED halted
        /\ shell' = [shell EXCEPT ![s].at = "read", ![s].fd = c, ![s].last = blank]
    BY <1>2, <2>3, <2>4 DEF Cat
  <2>6. PICK g : g = [h EXCEPT !.at = "read", !.fd = c, !.last = blank]
    OBVIOUS
  <2>7. c \in Nat
    BY <2>3, ShellIs DEF FdsFit
  <2>8. /\ g \in Shells /\ g.at = "read" /\ g.fd = c /\ g.cmd = h.cmd /\ g.stdin = h.stdin
        /\ g.stdout = h.stdout /\ g.pending = h.pending
    BY <2>2, <2>6, <2>7 DEF Shells, Spots, Working
  <2>9. shell' = [shell EXCEPT ![s] = g]
    BY <2>2, <2>5, <2>6 DEF Inv, System
  <2>10. \A d : ListFits(files, d, g)
    BY <2>8 DEF ListFits
  <2> QED BY <1>1, <1>2, <2>1, <2>2, <2>3, <2>5, <2>8, <2>9, <2>10, ArgOpens
<1>3. CASE ~ (OneArg(s) /\ CanOpen(Arg(s), "READONLY"))
  <2>1. Fail(s)
    BY <1>3 DEF Cat
  <2> QED BY <1>1, <2>1, FailKeeps
<1> QED BY <1>2, <1>3

\* ls opens its directory, and the entries it has are remembered.
LEMMA LsKeeps ==
  ASSUME Inv, NEW s \in Shell, Ls(s)
  PROVE  Inv'
<1>1. shell[s].at = "command" /\ shell[s].pending = << >>
  BY DEF Ls, Runs, At
<1>2. CASE OneArg(s) /\ CanOpen(Arg(s), "READONLY")
  <2>1. PICK i : i = GetInode(files, Pieces[Arg(s)])
    OBVIOUS
  <2>2. PICK h : h = shell[s] /\ h \in Shells
    BY ShellIs
  <2>3. PICK c : c = fd_counter[s]
    OBVIOUS
  <2>4. PICK names : names = IF IsDirectory(files, i) THEN Names(files, i) ELSE << >>
    OBVIOUS
  <2>5. /\ OpenPath(s, Pieces[Arg(s)], "READONLY") /\ UNCHANGED halted
        /\ shell' = [shell EXCEPT ![s].at = "children", ![s].fd = c, ![s].size = BufferSize,
                                  ![s].before = names]
    BY <1>2, <2>1, <2>3, <2>4 DEF Ls
  <2>6. PICK g : g = [h EXCEPT !.at = "children", !.fd = c, !.size = BufferSize, !.before = names]
    OBVIOUS
  <2>7. c \in Nat /\ BufferSize \in Nat
    BY <2>3, ShellIs, CommandsAssumption DEF FdsFit
  <2>8. files \in Trees
    BY DEF Inv, System
  <2>9. i \in DOMAIN files
    <3>1. PICK path \in AllPaths : path = Pieces[Arg(s)]
      BY <1>2, PiecesIs DEF CanOpen
    <3>2. GetInode(files, path) # NoInode
      BY <1>2, <3>1 DEF CanOpen, MayOpen
    <3> QED BY <2>1, <2>8, <3>1, <3>2, GetInodeIn
  <2>10. names \in Seq(Items)
    <3>1. CASE IsDirectory(files, i)
      BY <2>4, <2>8, <2>9, <3>1, NamesIs
    <3>2. CASE ~ IsDirectory(files, i)
      BY <2>4, <3>2, Message
    <3> QED BY <3>1, <3>2
  <2>11. /\ g \in Shells /\ g.at = "children" /\ g.fd = c /\ g.cmd = h.cmd /\ g.stdin = h.stdin
         /\ g.stdout = h.stdout /\ g.pending = h.pending /\ g.before = names
    BY <2>2, <2>6, <2>7, <2>10 DEF Shells, Spots, Working
  <2>12. shell' = [shell EXCEPT ![s] = g]
    BY <2>2, <2>5, <2>6 DEF Inv, System
  <2>13. ASSUME NEW d, d[c].node = i PROVE ListFits(files, d, g)
    <3>1. Extends(names, names)
      <4>1. Len(names) \in Nat
        BY <2>10
      <4> QED BY <4>1 DEF Extends
    <3>2. IsDirectory(files, i) => Extends(g.before, Names(files, i))
      BY <2>4, <2>11, <3>1
    <3> QED BY <2>11, <2>13, <3>2 DEF ListFits
  <2>14. \A d : d[fd_counter[s]].node = i => ListFits(files, d, g)
    BY <2>3, <2>13
  <2> QED BY <1>1, <1>2, <2>1, <2>2, <2>3, <2>5, <2>11, <2>12, <2>14, ArgOpens
<1>3. CASE ~ (OneArg(s) /\ CanOpen(Arg(s), "READONLY"))
  <2>1. Fail(s)
    BY <1>3 DEF Ls
  <2> QED BY <1>1, <2>1, FailKeeps
<1> QED BY <1>2, <1>3

-----------------------------------------------------------------------------
(* ls                                                                      *)

\* The path of a child.
LEMMA JoinIs ==
  ASSUME NEW path \in AllPaths, NEW name \in Items
  PROVE  Join(path, name) \in AllPaths
<1>1. PICK n \in Nat : Stripped(path) \in [1 .. n -> Items]
  <2>1. CASE Stripped(path) = << >>
    <3>1. << >> \in [1 .. 0 -> Items]
      OBVIOUS
    <3> QED BY <2>1, <3>1
  <2> QED BY <2>1, StrippedIs
<1>2. PICK t : t = Stripped(path)
  OBVIOUS
<1>3. Append(t, name) \in Seq(Items) /\ Len(Append(t, name)) = n + 1
  BY <1>1, <1>2, AppendIs
<1>4. Append(t, name) # << >>
  <2>1. Len(<< >>) = 0 /\ n + 1 # 0
    OBVIOUS
  <2> QED BY <1>3, <2>1
<1> QED BY <1>2, <1>3, <1>4 DEF Join, AllPaths

\* The path of the next child.
LEMMA ChildPath ==
  ASSUME Inv, NEW s \in Shell, shell[s].at = "child"
  PROVE  Join(Pieces[Arg(s)], shell[s].names[shell[s].shown + 1]) \in AllPaths
<1>1. PICK h : h = shell[s] /\ h \in Shells
  BY ShellIs
<1>2. h.shown \in Nat /\ h.names \in Seq(Items) /\ h.shown < Len(h.names)
  BY <1>1, ShellIs DEF Shells, ListFits
<1>3. PICK name \in Items : name = h.names[h.shown + 1]
  BY <1>2
<1>4. Arg(s) \in DOMAIN Pieces
  BY ShellIs DEF ArgFits, Working, Reads, Arg
<1>5. PICK dir \in AllPaths : dir = Pieces[Arg(s)]
  BY <1>4, PiecesIs
<1> QED BY <1>1, <1>3, <1>5, JoinIs

\* ls opens a child and shows it.
LEMMA ShowChildKeeps ==
  ASSUME Inv, NEW s \in Shell, ShowChild(s)
  PROVE  Inv'
<1>1. shell[s].at = "child" /\ shell[s].pending = << >>
  BY DEF ShowChild, At
<1>2. PICK h : h = shell[s] /\ h \in Shells
  BY ShellIs
<1>3. PICK k, names : k = h.shown + 1 /\ names = h.names
  OBVIOUS
<1>4. PICK path : path = Join(Pieces[Arg(s)], names[k])
  OBVIOUS
<1>5. CASE ~ MayOpen(files, path, "READONLY")
  <2>1. Fail(s)
    BY <1>2, <1>3, <1>4, <1>5 DEF ShowChild
  <2> QED BY <1>1, <2>1, FailKeeps
<1>6. CASE MayOpen(files, path, "READONLY")
  <2>1. PICK mode \in Modes : mode = "READONLY"
    BY DEF Modes
  <2>2. PICK place : place = IF k = Len(names) THEN "reset" ELSE "child"
    OBVIOUS
  <2>3. PICK put : put = Say(s, <<names[k]>>)
    OBVIOUS
  <2>4. /\ MayOpen(files, path, mode) /\ OpenPath(s, path, mode) /\ UNCHANGED halted
        /\ shell' = [shell EXCEPT ![s].shown = k, ![s].at = place, ![s].pending = put]
    BY <1>2, <1>3, <1>4, <1>6, <2>1, <2>2, <2>3 DEF ShowChild
  <2>5. PICK g : g = [h EXCEPT !.shown = k, !.at = place, !.pending = put]
    OBVIOUS
  <2>6. shell' = [shell EXCEPT ![s] = g]
    BY <1>2, <2>4, <2>5 DEF Inv, System
  <2>7. h.shown \in Nat /\ names \in Seq(Items)
    BY <1>2, <1>3 DEF Shells
  <2>8. k \in 1 .. Len(names) /\ (place = "child" => k < Len(names)) /\ names[k] \in Items /\ k \in Nat
    <3>1. h.shown < Len(names)
      BY <1>1, <1>2, <1>3, ShellIs DEF ListFits
    <3>2. Len(names) \in Nat
      BY <2>7
    <3>3. k \in 1 .. Len(names) /\ (place = "child" => k < Len(names)) /\ k \in Nat
      BY <1>3, <2>2, <2>7, <3>1, <3>2
    <3> QED BY <2>7, <3>3
  <2>9. path \in AllPaths
    BY <1>1, <1>2, <1>3, <1>4, ChildPath
  <2>10. PICK i, d : Opens(s, path, mode, i, d)
    BY <2>4, <2>9, OpenPathIs
  <2>11. put \in Seq(Items) /\ (put # << >> => h.stdout # 1)
    <3>1. PICK items \in Seq(Items) : items = <<names[k]>>
      <4>1. PICK name \in Items : name = names[k]
        BY <2>8
      <4>2. <<name>> \in Seq(Items)
        OBVIOUS
      <4> QED BY <4>1, <4>2
    <3> QED BY <1>2, <2>3, <3>1, SayIs
  <2>12. place \in Spots
    BY <2>2 DEF Spots, Working
  <2>13. /\ g \in Shells /\ g.at = place /\ g.shown = k /\ g.pending = put /\ g.cmd = h.cmd
         /\ g.stdin = h.stdin /\ g.stdout = h.stdout /\ g.fd = h.fd /\ g.names = h.names
         /\ g.before = h.before
    BY <1>2, <2>5, <2>8, <2>11, <2>12 DEF Shells
  <2>14. PICK f, w, c : f = files' /\ w = Writes(table', s) /\ c = fd_counter[s] + 1
    OBVIOUS
  <2>15. Fits(f, w, d, c, h)
    BY <1>2, <2>10, <2>14 DEF Opens
  <2>16. ArgFits(f, d, g)
    <3>1. ArgFits(f, d, h)
      BY <2>15 DEF Fits
    <3> QED BY <1>1, <1>2, <2>13, <3>1 DEF ArgFits, Working
  <2>17. ListFits(f, d, g)
    <3>1. ListFits(f, d, h)
      BY <2>15 DEF Fits
    <3>2. place \in {"reset", "child"}
      BY <2>2
    <3> QED BY <1>1, <1>2, <1>3, <2>8, <2>13, <3>1, <3>2 DEF ListFits
  <2>18. PlaceFits(g)
    <3>1. h.cmd.success
      BY <1>1, <1>2, Succeeds
    <3>2. place \in {"reset", "child"}
      BY <2>2
    <3> QED BY <2>13, <3>1, <3>2 DEF PlaceFits, Early
  <2>19. Fits(f, w, d, c, g)
    BY <1>1, <1>2, <2>11, <2>13, <2>15, <2>16, <2>17, <2>18, Turned
  <2> QED BY <2>4, <2>6, <2>10, <2>14, <2>19, OpenKeeps
<1> QED BY <1>5, <1>6

(***************************************************************************)
(* A shell goes on working on its descriptor, with its descriptors where   *)
(* they were.                                                              *)
(***************************************************************************)
LEMMA WorkFits ==
  ASSUME NEW f, NEW w, NEW d, NEW c, NEW h, Fits(f, w, d, c, h), h.at \in Working,
         NEW g \in Shells, g.at \in Working, g.cmd = h.cmd, g.stdin = h.stdin,
         g.stdout = h.stdout, g.fd = h.fd, g.pending # << >> => g.stdout # 1, ListFits(f, d, g)
  PROVE  Fits(f, w, d, c, g)
<1>1. ArgFits(f, d, g)
  BY DEF Fits, ArgFits
<1>2. PlaceFits(g)
  BY DEF Fits, PlaceFits, Working, Early
<1>3. h.at # "reset"
  BY DEF Working
<1> QED BY <1>1, <1>2, <1>3, Turned

\* ls takes the names of a directory, or asks again with a larger buffer.
LEMMA GetChildrenKeeps ==
  ASSUME Inv, NEW s \in Shell, GetChildren(s)
  PROVE  Inv'
<1>1. shell[s].at = "children" /\ UNCHANGED <<files, kernel, halted>>
  BY DEF GetChildren, At
<1>2. PICK h : h = shell[s] /\ h \in Shells /\ h.at \in Working
  BY <1>1, ShellIs DEF Working
<1>3. PICK f, w, d, c : f = files /\ w = Writes(table, s) /\ d = fds[s] /\ c = fd_counter[s]
  OBVIOUS
<1>4. Fits(f, w, d, c, h)
  BY <1>2, <1>3, ShellIs
<1>5. PICK i : i = d[h.fd].node
  OBVIOUS
<1>6. i \in DOMAIN f /\ f \in Trees
  <2>1. h.fd \in DOMAIN d
    BY <1>2, <1>4 DEF Fits, ArgFits
  <2> QED BY <1>3, <1>4, <1>5, <2>1 DEF Fits, FdsFit, Inv, System
<1>7. halted' \in BOOLEAN /\ UNCHANGED <<files, kernel>>
  BY <1>1 DEF Inv, System
<1>8. ASSUME NEW g, shell' = [shell EXCEPT ![s] = g], Fits(f, w, d, c, g) PROVE Inv'
  BY <1>3, <1>7, <1>8, AloneKeeps
<1>9. CASE ~ IsDirectory(f, i)
  <2>1. PICK put : put = Say(s, <<"message">>)
    OBVIOUS
  <2>2. PICK none \in Seq(Items) : none = << >>
    BY Message
  <2>3. PICK g : g = [h EXCEPT !.at = "close", !.rest = none, !.pending = put]
    OBVIOUS
  <2>4. shell' = [shell EXCEPT ![s] = g]
    BY <1>2, <1>3, <1>5, <1>9, <2>1, <2>2, <2>3 DEF GetChildren, Inv, System
  <2>5. put \in Seq(Items) /\ (put # << >> => h.stdout # 1)
    <3>1. PICK items \in Seq(Items) : items = <<"message">>
      BY Message
    <3> QED BY <1>2, <2>1, <3>1, SayIs
  <2>6. /\ g \in Shells /\ g.at = "close" /\ g.pending = put /\ g.cmd = h.cmd
        /\ g.stdin = h.stdin /\ g.stdout = h.stdout /\ g.fd = h.fd /\ g.at \in Working
    BY <1>2, <2>3, <2>5 DEF Shells, Spots, Working
  <2>7. ListFits(f, d, g)
    BY <2>6 DEF ListFits
  <2>8. Fits(f, w, d, c, g)
    BY <1>2, <1>4, <2>5, <2>6, <2>7, WorkFits
  <2> QED BY <1>8, <2>4, <2>8
<1>10. CASE IsDirectory(f, i)
  <2>1. PICK all \in Seq(Items) : all = Names(f, i)
    BY <1>6, <1>10, NamesIs
  <2>2. PICK names : names = Visible(all)
    OBVIOUS
  <2>3. names \in Seq(Items) /\ Len(names) \in Nat /\ Len(all) \in Nat
    <3>1. PICK n \in Nat : names \in [1 .. n -> Items] /\ Len(names) = n
      BY <2>2, VisibleIs
    <3> QED BY <3>1
  <2>4. ListFits(f, d, h)
    BY <1>4 DEF Fits
  <2>5. Extends(h.before, all) /\ h.before \in Seq(Items)
    BY <1>1, <1>2, <1>5, <1>10, <2>1, <2>4 DEF ListFits, Shells
  <2>6. CASE Len(all) > h.size
    <3>1. PICK size \in Nat : size = Len(all)
      BY <2>3
    <3>2. PICK g : g = [h EXCEPT !.size = size]
      OBVIOUS
    <3>3. shell' = [shell EXCEPT ![s] = g]
      BY <1>2, <1>3, <1>5, <1>10, <2>1, <2>6, <3>1, <3>2 DEF GetChildren, Inv, System
    <3>4. /\ g \in Shells /\ g.at = h.at /\ g.pending = h.pending /\ g.cmd = h.cmd
          /\ g.stdin = h.stdin /\ g.stdout = h.stdout /\ g.fd = h.fd /\ g.before = h.before
      BY <1>2, <3>1, <3>2 DEF Shells
    <3>5. ListFits(f, d, g)
      BY <1>1, <1>2, <2>4, <3>4 DEF ListFits
    <3>6. g.pending # << >> => g.stdout # 1
      BY <1>4, <3>4 DEF Fits, StreamsFit
    <3>7. Fits(f, w, d, c, g)
      BY <1>2, <1>4, <3>4, <3>5, <3>6, WorkFits
    <3> QED BY <1>8, <3>3, <3>7
  <2>7. CASE ~ (Len(all) > h.size) /\ names = << >>
    <3>1. PICK items \in Seq(Items) : items = <<"message">>
      BY Message
    <3>2. End(s, items)
      BY <1>2, <1>3, <1>5, <1>10, <2>1, <2>2, <2>7, <3>1 DEF GetChildren
    <3>3. shell[s].at # "prompt"
      BY <1>1
    <3> QED BY <1>1, <3>2, <3>3, EndKeeps
  <2>8. CASE ~ (Len(all) > h.size) /\ names # << >>
    <3>1. PICK g : g = [h EXCEPT !.at = "child", !.names = names, !.shown = 0]
      OBVIOUS
    <3>2. shell' = [shell EXCEPT ![s] = g]
      BY <1>2, <1>3, <1>5, <1>10, <2>1, <2>2, <2>8, <3>1 DEF GetChildren, Inv, System
    <3>3. /\ g \in Shells /\ g.at = "child" /\ g.pending = h.pending /\ g.cmd = h.cmd
          /\ g.stdin = h.stdin /\ g.stdout = h.stdout /\ g.fd = h.fd /\ g.before = h.before
          /\ g.names = names /\ g.shown = 0 /\ g.at \in Working
      BY <1>2, <2>3, <3>1 DEF Shells, Spots, Working
    <3>4. 0 < Len(names)
      BY <2>3, <2>8
    <3>5. Extends(Visible(h.before), names)
      <4>1. PICK before \in Seq(Items) : before = h.before
        BY <2>5
      <4> QED BY <2>2, <2>5, <4>1, VisibleGrows
    <3>6. Extends(names, names)
      BY <2>3 DEF Extends
    <3>7. ListFits(f, d, g)
      BY <1>5, <1>10, <2>1, <2>2, <3>3, <3>4, <3>5, <3>6 DEF ListFits
    <3>8. g.pending # << >> => g.stdout # 1
      BY <1>4, <3>3 DEF Fits, StreamsFit
    <3>9. Fits(f, w, d, c, g)
      BY <1>2, <1>4, <3>3, <3>7, <3>8, WorkFits
    <3> QED BY <1>8, <3>2, <3>9
  <2> QED BY <2>6, <2>7, <2>8
<1> QED BY <1>9, <1>10

-----------------------------------------------------------------------------
(* Lines, and what is put to a file                                        *)

\* A shell with a new command line.
LEMMA LineFits ==
  ASSUME NEW f, NEW w, NEW d, NEW c, NEW h, Fits(f, w, d, c, h), h.at = "prompt", h.pending = << >>,
         NEW g \in Shells, g.at \in {"output", "input", "command"}, g.cmd.success, g.stdin = h.stdin,
         g.stdout = h.stdout, g.pending = << >>
  PROVE  Fits(f, w, d, c, g)
<1>1. h.stdin = 0 /\ StreamsFit(d, h) /\ HeldFits(f, w, d, h)
  BY DEF Fits, PlaceFits, Early
<1>2. StreamsFit(d, g)
  BY <1>1 DEF StreamsFit
<1>3. InputFits(f, d, g) /\ HeldFits(f, w, d, g)
  BY <1>1 DEF InputFits, HeldFits
<1>4. ArgFits(f, d, g) /\ ListFits(f, d, g)
  BY DEF ArgFits, ListFits, Working
<1>5. PlaceFits(g)
  BY <1>1 DEF PlaceFits
<1> QED BY <1>2, <1>3, <1>4, <1>5 DEF Fits

\* A line is typed.
LEMMA ReadLineKeeps ==
  ASSUME Inv, NEW s \in Shell, ReadLine(s)
  PROVE  Inv'
<1>1. shell[s].at = "prompt" /\ shell[s].pending = << >> /\ UNCHANGED <<files, kernel, halted>>
  BY DEF ReadLine, At
<1>2. PICK h : h = shell[s] /\ h \in Shells
  BY ShellIs
<1>3. PICK f, w, d, c : f = files /\ w = Writes(table, s) /\ d = fds[s] /\ c = fd_counter[s]
  OBVIOUS
<1>4. Fits(f, w, d, c, h)
  BY <1>2, <1>3, ShellIs
<1>5. halted' \in BOOLEAN /\ UNCHANGED <<files, kernel>>
  BY <1>1 DEF Inv, System
<1>6. ASSUME NEW g, shell' = [shell EXCEPT ![s] = g], Fits(f, w, d, c, g) PROVE Inv'
  BY <1>3, <1>5, <1>6, AloneKeeps
<1>7. PICK tokens \in Lines :
        IF Parse(tokens).success
        THEN shell' = [shell EXCEPT ![s].cmd = Parse(tokens),
                         ![s].at = IF Parse(tokens).output # "" THEN "output"
                                   ELSE AfterOutput(Parse(tokens))]
        ELSE Go(s, "prompt", IF tokens = << >> THEN <<"prompt">> ELSE <<"message", "prompt">>)
  BY DEF ReadLine
<1>8. PICK cmd : cmd = Parse(tokens)
  OBVIOUS
<1>9. CASE cmd.success
  <2>1. PICK place : place = IF cmd.output # "" THEN "output" ELSE AfterOutput(cmd)
    OBVIOUS
  <2>2. place \in {"output", "input", "command"}
    <3>1. place = "output" \/ place = AfterOutput(cmd)
      BY <2>1
    <3> QED BY <3>1, AfterIs
  <2>3. shell' = [shell EXCEPT ![s].cmd = cmd, ![s].at = place]
    BY <1>7, <1>8, <1>9, <2>1
  <2>4. PICK g : g = [h EXCEPT !.cmd = cmd, !.at = place]
    OBVIOUS
  <2>5. shell' = [shell EXCEPT ![s] = g]
    BY <1>2, <2>3, <2>4 DEF Inv, System
  <2>6. cmd \in Cmds /\ place \in Spots
    BY <1>8, <2>2 DEF Cmds, Spots, Early
  <2>7. /\ g \in Shells /\ g.at = place /\ g.cmd = cmd /\ g.stdin = h.stdin /\ g.stdout = h.stdout
        /\ g.pending = h.pending
    BY <1>2, <2>4, <2>6 DEF Shells
  <2>8. Fits(f, w, d, c, g)
    BY <1>1, <1>2, <1>4, <1>9, <2>2, <2>7, LineFits
  <2> QED BY <1>6, <2>5, <2>8
<1>10. CASE ~ cmd.success
  <2>1. PICK items : items = IF tokens = << >> THEN <<"prompt">> ELSE <<"message", "prompt">>
    OBVIOUS
  <2>2. items \in Seq(Items)
    BY <2>1, Message
  <2>3. PICK put : put = Say(s, items)
    OBVIOUS
  <2>4. Go(s, "prompt", items)
    BY <1>7, <1>8, <1>10, <2>1
  <2>5. PICK g : g = [h EXCEPT !.at = "prompt", !.pending = put]
    OBVIOUS
  <2>6. shell' = [shell EXCEPT ![s] = g]
    BY <1>2, <2>3, <2>4, <2>5 DEF Go, Inv, System
  <2>7. put \in Seq(Items) /\ (put # << >> => h.stdout # 1)
    BY <1>2, <2>2, <2>3, SayIs
  <2>8. /\ g \in Shells /\ g.at = "prompt" /\ g.cmd = h.cmd /\ g.stdin = h.stdin
        /\ g.stdout = h.stdout /\ g.pending = put /\ g.failed = h.failed
    BY <1>2, <2>5, <2>7 DEF Shells, Spots, Early
  <2>9. PlaceFits(g)
    <3>1. PlaceFits(h)
      BY <1>4 DEF Fits
    <3> QED BY <1>1, <1>2, <2>8, <3>1 DEF PlaceFits
  <2>10. ArgFits(f, d, g) /\ ListFits(f, d, g)
    BY <2>8 DEF ArgFits, ListFits, Working
  <2>11. Fits(f, w, d, c, g)
    BY <1>1, <1>2, <1>4, <2>7, <2>8, <2>9, <2>10, Turned
  <2> QED BY <1>6, <2>6, <2>11
<1> QED BY <1>9, <1>10

\* An offset changes.
LEMMA OffsetIs ==
  ASSUME NEW f, NEW d, NEW c, FdsFit(f, d, c), NEW fd \in DOMAIN d, NEW offset \in Nat,
         NEW e, e = [d EXCEPT ![fd].offset = offset]
  PROVE  Adds(d, e) /\ FdsFit(f, e, c)
<1>1. DOMAIN e = DOMAIN d
  OBVIOUS
<1>2. d[fd] \in Descriptors
  BY DEF FdsFit
<1>3. PICK x : x = [d[fd] EXCEPT !.offset = offset]
  OBVIOUS
<1>4. x \in Descriptors /\ x.node = d[fd].node /\ x.mode = d[fd].mode
  BY <1>2, <1>3 DEF Descriptors
<1>5. e = [d EXCEPT ![fd] = x]
  BY <1>3
<1>6. ASSUME NEW y \in DOMAIN d
      PROVE  e[y] \in Descriptors /\ e[y].node = d[y].node /\ e[y].mode = d[y].mode
  <2>1. CASE y = fd
    BY <1>4, <1>5, <2>1 DEF FdsFit
  <2>2. CASE y # fd
    <3>1. e[y] = d[y]
      BY <1>5, <2>2 DEF FdsFit
    <3> QED BY <3>1 DEF FdsFit
  <2> QED BY <2>1, <2>2
<1>7. e \in [DOMAIN e -> Descriptors]
  BY <1>1, <1>5, <1>6 DEF FdsFit
<1> QED BY <1>1, <1>6, <1>7 DEF Adds, FdsFit

\* An item is put to a file.
LEMMA PutKeeps ==
  ASSUME Inv, NEW s \in Shell, Put(s)
  PROVE  Inv'
<1>1. PICK h : h = shell[s] /\ h \in Shells
  BY ShellIs
<1>2. PICK old, c : old = fds[s] /\ c = fd_counter[s] /\ FdsFit(files, old, c)
  BY ShellIs
<1>3. h.pending # << >> /\ h.pending \in Seq(Items) /\ h.stdout \in Nat
  BY <1>1 DEF Put, Shells
<1>4. h.stdout # 1 /\ h.stdout \in DOMAIN old /\ old[h.stdout].mode = "WRITEONLY"
  BY <1>1, <1>2, <1>3, ShellIs DEF StreamsFit
<1>5. PICK i, offset : i = old[h.stdout].node /\ offset = old[h.stdout].offset
  OBVIOUS
<1>6. i \in DOMAIN files /\ ~ IsDirectory(files, i) /\ offset \in Nat /\ files \in Trees
  <2>1. old[h.stdout] \in Descriptors
    BY <1>2, <1>4 DEF FdsFit
  <2> QED BY <1>2, <1>4, <1>5, <2>1 DEF FdsFit, Descriptors, Inv, System
<1>7. PICK item \in Items : item = Head(h.pending)
  BY <1>3
<1>8. PICK unknown \in Items : unknown = "unknown"
  BY Literals
<1>9. PICK text : text = Written(files[i].content, offset, <<item>>, unknown)
  OBVIOUS
<1>10. text \in Seq(Items)
  <2>1. PICK n \in Nat \ {0} : DOMAIN files = 0 .. n - 1 /\ files \in TreesOf(n)
    BY <1>6, TreeType
  <2>2. PICK content \in Seq(Items) : content = files[i].content
    BY <1>6, <2>1, ContentType DEF IsDirectory
  <2>3. PICK one \in Seq(Items) : one = <<item>>
    <3>1. <<item>> \in Seq(Items)
      OBVIOUS
    <3> QED BY <3>1
  <2>4. Written(content, offset, one, unknown) \in Seq(Items)
    BY <1>6, WrittenType
  <2> QED BY <1>9, <2>2, <2>3, <2>4
<1>11. files' \in Trees /\ Grows(files, files') /\ DOMAIN files' = DOMAIN files
  <2>1. CASE offset = MaxSize
    <3>1. files' = files
      BY <1>1, <1>2, <1>5, <2>1 DEF Put
    <3> QED BY <1>6, <3>1, GrowsSelf
  <2>2. CASE offset # MaxSize
    <3>1. PICK t : t = [files EXCEPT ![i].content = text]
      OBVIOUS
    <3>2. files' = t
      BY <1>1, <1>2, <1>5, <1>7, <1>8, <1>9, <2>2, <3>1 DEF Put
    <3>3. t \in Trees /\ Grows(files, t) /\ DOMAIN t = DOMAIN files
      BY <1>6, <1>10, <3>1, FileSound
    <3> QED BY <3>2, <3>3
  <2> QED BY <2>1, <2>2
<1>12. table' = table /\ fd_counter' = fd_counter /\ halted' \in BOOLEAN
  BY DEF Put
<1>13. Shared(s) /\ \A j \in Inode : Writes(table', s)[j] >= Writes(table, s)[j]
  <2>1. /\ table' \in TableType /\ ListedOpen(table') /\ table'.opened \subseteq DOMAIN files'
        /\ Cardinality(DOMAIN files') <= MaxInodes
    BY <1>11, <1>12 DEF Inv, System
  <2>2. \A j \in Inode : Writes(table, s)[j] >= Writes(table, s)[j]
    <3>1. PICK w : w = Writes(table, s)
      OBVIOUS
    <3>2. w \in [Inode -> Nat]
      BY <3>1, WritesType DEF Inv, System
    <3>3. \A j \in Inode : w[j] \in Nat
      BY <3>2
    <3> QED BY <3>1, <3>3
  <2> QED BY <1>11, <1>12, <2>1, <2>2 DEF Shared
<1>14. PICK next \in Nat : next = offset + 1
  BY <1>6
<1>15. PICK d : d = [old EXCEPT ![h.stdout].offset = next]
  OBVIOUS
<1>16. fds' = [fds EXCEPT ![s] = d]
  BY <1>1, <1>2, <1>4, <1>5, <1>14, <1>15 DEF Put, Inv, System
<1>17. Adds(old, d) /\ FdsFit(files, d, c)
  BY <1>2, <1>4, <1>15, OffsetIs
<1>18. FdsFit(files', d, c)
  BY <1>11, <1>17, FdsMore
<1>19. Fits(files', Writes(table', s), d, c, h)
  BY <1>1, <1>2, <1>13, <1>17, <1>18, SharedFits
<1>20. PICK f, w : f = files' /\ w = Writes(table', s)
  OBVIOUS
<1>21. PICK put \in Seq(Items) : put = Tail(h.pending)
  <2>1. Tail(h.pending) \in Seq(Items)
    BY <1>3
  <2> QED BY <2>1
<1>22. PICK g : g = [h EXCEPT !.pending = put]
  OBVIOUS
<1>23. shell' = [shell EXCEPT ![s] = g]
  BY <1>1, <1>21, <1>22 DEF Put, Inv, System
<1>24. /\ g \in Shells /\ g.at = h.at /\ g.pending = put /\ g.cmd = h.cmd /\ g.stdin = h.stdin
       /\ g.stdout = h.stdout /\ g.fd = h.fd /\ g.names = h.names /\ g.before = h.before
       /\ g.shown = h.shown /\ g.failed = h.failed
  BY <1>1, <1>22 DEF Shells
<1>25. Fits(f, w, d, c, h)
  BY <1>19, <1>20
<1>26. PlaceFits(g)
  BY <1>24, <1>25 DEF Fits, PlaceFits
<1>27. ArgFits(f, d, g)
  BY <1>24, <1>25 DEF Fits, ArgFits
<1>28. ListFits(f, d, g)
  BY <1>24, <1>25 DEF Fits, ListFits
<1>29. Fits(f, w, d, c, g)
  BY <1>4, <1>24, <1>25, <1>26, <1>27, <1>28, Turned
<1>30. fd_counter' = [fd_counter EXCEPT ![s] = c]
  BY <1>2, <1>12 DEF Inv, System
<1> QED BY <1>12, <1>13, <1>16, <1>20, <1>23, <1>29, <1>30, SharedKeeps

\* Nothing happens, or the kernel halts.
LEMMA UnchangedKeeps ==
  ASSUME Inv, UNCHANGED <<files, kernel, shell>>, halted' \in BOOLEAN
  PROVE  Inv'
BY DEF Inv, System, ShellFits, kernel

\* An item is put to a file that has been freed.
LEMMA PutFreedKeeps ==
  ASSUME Inv, NEW s \in Shell, PutFreed(s)
  PROVE  Inv'
BY UnchangedKeeps DEF PutFreed

-----------------------------------------------------------------------------
(* Closing, the end of a command, and fork                                 *)

(***************************************************************************)
(* A shell that closes a descriptor on a file its command reads goes on to *)
(* take back the redirections.                                             *)
(***************************************************************************)
LEMMA ClosedFits ==
  ASSUME Inv, NEW s \in Shell, NEW fd \in DOMAIN fds[s], NEW i, NEW d, Closes(s, fd, i, d),
         NEW g \in Shells, g.at = "reset", g.cmd = shell[s].cmd, g.cmd.success,
         g.stdout = shell[s].stdout, g.stdout # fd,
         g.stdin = 0 \/ (g.stdin = shell[s].stdin /\ g.stdin # fd),
         g.pending # << >> => g.stdout # 1, ReadBy(files, g, i)
  PROVE  Fits(files', Writes(table', s), d, fd_counter[s], g)
<1>1. PICK h, old, c, w, v : /\ h = shell[s] /\ old = fds[s] /\ c = fd_counter[s]
                             /\ w = Writes(table, s) /\ v = Writes(table', s)
  OBVIOUS
<1>2. /\ StreamsFit(old, h) /\ InputFits(files, old, h) /\ HeldFits(files, w, old, h)
      /\ FdsFit(files, old, c)
  BY <1>1, ShellIs
<1>3. /\ i = old[fd].node /\ i \in Inode /\ files' = files /\ FdsFit(files, d, c)
      /\ DOMAIN d = DOMAIN old \ {fd} /\ (\A x \in DOMAIN d : d[x] = old[x])
      /\ v \in [Inode -> Nat] /\ (\A j \in Inode : j # i => v[j] = w[j])
  BY <1>1 DEF Closes
<1>4. 0 \notin DOMAIN old
  BY <1>2 DEF FdsFit
<1>5. StreamsFit(d, g)
  BY <1>1, <1>2, <1>3, <1>4 DEF StreamsFit
<1>6. InputFits(files, d, g)
  BY <1>1, <1>2, <1>3, <1>5 DEF InputFits, StreamsFit
<1>7. HeldFits(files, v, d, g)
  <2> SUFFICES ASSUME g.stdout # 1
               PROVE  v[d[g.stdout].node] > 0 \/ ReadBy(files, g, d[g.stdout].node)
    BY DEF HeldFits
  <2>1. g.stdout \in DOMAIN d /\ d[g.stdout] = old[h.stdout]
    BY <1>1, <1>3, <1>5 DEF StreamsFit
  <2>2. PICK j : j = d[g.stdout].node
    OBVIOUS
  <2>3. CASE j = i
    BY <2>2, <2>3
  <2>4. CASE j # i
    <3>1. w[j] > 0 \/ ReadBy(files, h, j)
      BY <1>1, <1>2, <2>1, <2>2 DEF HeldFits
    <3>2. j \in Inode
      <4>1. j \in DOMAIN files
        BY <1>3, <2>1, <2>2 DEF FdsFit
      <4> QED BY <4>1, InodesBound DEF Inv, System
    <3>3. v[j] = w[j]
      BY <1>3, <2>4, <3>2
    <3>4. ReadBy(files, h, j) => ReadBy(files, g, j)
      BY <1>1 DEF ReadBy
    <3> QED BY <2>2, <3>1, <3>3, <3>4
  <2> QED BY <2>3, <2>4
<1>8. PlaceFits(g)
  BY DEF PlaceFits, Early
<1>9. ArgFits(files, d, g) /\ ListFits(files, d, g)
  BY DEF ArgFits, ListFits, Working
<1>10. Fits(files, v, d, c, g)
  BY <1>3, <1>5, <1>6, <1>7, <1>8, <1>9 DEF Fits
<1> QED BY <1>1, <1>3, <1>10

\* After a close.
LEMMA CloseKeeps ==
  ASSUME Inv, NEW s \in Shell, NEW fd, NEW i, NEW d, Closes(s, fd, i, d),
         NEW g, shell' = [shell EXCEPT ![s] = g],
         Fits(files', Writes(table', s), d, fd_counter[s], g)
  PROVE  Inv'
<1>1. PICK c : c = fd_counter[s]
  OBVIOUS
<1>2. /\ Shared(s) /\ halted' \in BOOLEAN
      /\ fds' = [fds EXCEPT ![s] = d] /\ fd_counter' = [fd_counter EXCEPT ![s] = c]
  BY <1>1 DEF Closes
<1> QED BY <1>1, <1>2, SharedKeeps

\* ls or cat closes its descriptor.
LEMMA CloseFdKeeps ==
  ASSUME Inv, NEW s \in Shell, CloseFd(s)
  PROVE  Inv'
<1>1. PICK h : h = shell[s] /\ h \in Shells /\ h.at = "close" /\ h.at \in Working
  BY ShellIs DEF CloseFd, At, Working
<1>2. PICK fd : fd = h.fd
  OBVIOUS
<1>3. /\ fd \in DOMAIN fds[s] /\ fd # h.stdin /\ fd # h.stdout
      /\ h.cmd.args[1] \in Range(h.cmd.args) /\ Reads(files, h.cmd.args[1], fds[s][fd].node)
  BY <1>1, <1>2, ShellIs DEF ArgFits
<1>4. PICK i, d : Closes(s, fd, i, d)
  BY <1>1, <1>2, <1>3, CloseIs DEF CloseFd
<1>5. PICK items \in Seq(Items) : items = h.rest
  BY <1>1 DEF Shells
<1>6. PICK put : put = Say(s, items)
  OBVIOUS
<1>7. PICK g : g = [h EXCEPT !.at = "reset", !.pending = put]
  OBVIOUS
<1>8. shell' = [shell EXCEPT ![s] = g]
  BY <1>1, <1>5, <1>6, <1>7 DEF CloseFd, End, Go, Inv, System
<1>9. put \in Seq(Items) /\ (put # << >> => h.stdout # 1)
  BY <1>1, <1>6, SayIs
<1>10. /\ g \in Shells /\ g.at = "reset" /\ g.pending = put /\ g.cmd = h.cmd /\ g.stdin = h.stdin
       /\ g.stdout = h.stdout
  BY <1>1, <1>7, <1>9 DEF Shells, Spots
<1>11. ReadBy(files, g, i)
  BY <1>3, <1>4, <1>10 DEF ReadBy, Closes
<1>12. h.cmd.success
  BY <1>1, Succeeds
<1>13. Fits(files', Writes(table', s), d, fd_counter[s], g)
  BY <1>1, <1>3, <1>4, <1>9, <1>10, <1>11, <1>12, ClosedFits
<1> QED BY <1>4, <1>8, <1>13, CloseKeeps

\* The input is taken back.
LEMMA InputBack ==
  ASSUME Inv, NEW s \in Shell, shell[s].at = "reset", shell[s].pending = << >>,
         shell[s].stdin # 0, Close(s, shell[s].stdin), shell' = [shell EXCEPT ![s].stdin = 0]
  PROVE  Inv'
<1>1. PICK h, fd : h = shell[s] /\ h \in Shells /\ fd = h.stdin
  BY ShellIs
<1>2. /\ fd \in DOMAIN fds[s] /\ fd # h.stdout /\ Reads(files, h.cmd.input, fds[s][fd].node)
  BY <1>1, ShellIs DEF StreamsFit, InputFits
<1>3. PICK i, d : Closes(s, fd, i, d)
  BY <1>1, <1>2, CloseIs
<1>4. PICK g : g = [h EXCEPT !.stdin = 0]
  OBVIOUS
<1>5. shell' = [shell EXCEPT ![s] = g]
  BY <1>1, <1>4 DEF Inv, System
<1>6. /\ g \in Shells /\ g.at = "reset" /\ g.pending = << >> /\ g.cmd = h.cmd /\ g.stdin = 0
      /\ g.stdout = h.stdout
  BY <1>1, <1>4 DEF Shells
<1>7. ReadBy(files, g, i)
  BY <1>2, <1>3, <1>6 DEF ReadBy, Closes
<1>8. h.cmd.success
  BY <1>1, Succeeds
<1>9. Fits(files', Writes(table', s), d, fd_counter[s], g)
  BY <1>1, <1>2, <1>3, <1>6, <1>7, <1>8, ClosedFits
<1> QED BY <1>3, <1>5, <1>9, CloseKeeps

\* A shell at its prompt, with the terminal on both sides.
LEMMA PromptFits ==
  ASSUME NEW f, NEW w \in [Inode -> Nat], NEW d, NEW c, FdsFit(f, d, c), NEW g \in Shells,
         g.at = "prompt", g.stdin = 0, g.stdout = 1, g.pending = << >>
  PROVE  Fits(f, w, d, c, g)
<1>1. StreamsFit(d, g) /\ PlaceFits(g) /\ InputFits(f, d, g) /\ HeldFits(f, w, d, g)
  BY DEF StreamsFit, PlaceFits, InputFits, HeldFits
<1>2. ArgFits(f, d, g) /\ ListFits(f, d, g)
  BY DEF ArgFits, ListFits, Working
<1> QED BY <1>1, <1>2 DEF Fits

\* The redirections are taken back.
LEMMA ResetKeeps ==
  ASSUME Inv, NEW s \in Shell, Reset(s)
  PROVE  Inv'
<1>1. shell[s].at = "reset" /\ shell[s].pending = << >>
  BY DEF Reset, At
<1>2. PICK h : h = shell[s] /\ h \in Shells
  BY ShellIs
<1>3. CASE h.stdin # 0
  BY <1>1, <1>2, <1>3, InputBack DEF Reset
<1>4. CASE h.stdin = 0
  <2>1. PICK g : g = [h EXCEPT !.stdout = 1, !.at = "prompt", !.failed = FALSE]
    OBVIOUS
  <2>2. /\ g \in Shells /\ g.at = "prompt" /\ g.stdin = 0 /\ g.stdout = 1 /\ g.pending = << >>
    BY <1>1, <1>2, <1>4, <2>1 DEF Shells, Spots, Early
  <2>3. CASE h.stdout # 1
    <3>1. PICK fd : fd = h.stdout /\ fd \in DOMAIN fds[s]
      BY <1>2, <2>3, ShellIs DEF StreamsFit
    <3>2. /\ Close(s, fd)
          /\ shell' = [shell EXCEPT ![s].stdout = 1, ![s].at = "prompt", ![s].failed = FALSE]
      BY <1>2, <1>4, <2>3, <3>1 DEF Reset
    <3>3. PICK i, d : Closes(s, fd, i, d)
      BY <3>1, <3>2, CloseIs
    <3>4. shell' = [shell EXCEPT ![s] = g]
      BY <1>2, <2>1, <3>2 DEF Inv, System
    <3>5. PICK f, w, c : f = files' /\ w = Writes(table', s) /\ c = fd_counter[s]
      OBVIOUS
    <3>6. w \in [Inode -> Nat] /\ FdsFit(f, d, c)
      BY <3>3, <3>5 DEF Closes
    <3>7. Fits(f, w, d, c, g)
      BY <2>2, <3>6, PromptFits
    <3> QED BY <3>3, <3>4, <3>5, <3>7, CloseKeeps
  <2>4. CASE h.stdout = 1
    <3>1. /\ shell' = [shell EXCEPT ![s].at = "prompt", ![s].failed = FALSE]
          /\ UNCHANGED <<files, kernel, halted>>
      BY <1>2, <1>4, <2>4 DEF Reset
    <3>2. g = [h EXCEPT !.at = "prompt", !.failed = FALSE]
      BY <1>2, <2>1, <2>4 DEF Shells
    <3>3. shell' = [shell EXCEPT ![s] = g]
      BY <1>2, <3>1, <3>2 DEF Inv, System
    <3>4. PICK f, w, d, c : f = files /\ w = Writes(table, s) /\ d = fds[s] /\ c = fd_counter[s]
      OBVIOUS
    <3>5. w \in [Inode -> Nat] /\ FdsFit(f, d, c)
      BY <3>4, ShellIs DEF Fits
    <3>6. Fits(f, w, d, c, g)
      BY <2>2, <3>5, PromptFits
    <3>7. halted' \in BOOLEAN /\ UNCHANGED <<files, kernel>>
      BY <3>1 DEF Inv, System
    <3> QED BY <3>3, <3>4, <3>6, <3>7, AloneKeeps
  <2> QED BY <2>3, <2>4
<1> QED BY <1>3, <1>4

\* How often a shell has an inode open.
LEMMA OpensType ==
  ASSUME NEW f, NEW d, NEW c, FdsFit(f, d, c)
  PROVE  [i \in Inode |-> Cardinality({fd \in DOMAIN d : d[fd].node = i})] \in [Inode -> Nat]
<1>1. ASSUME NEW i \in Inode PROVE Cardinality({fd \in DOMAIN d : d[fd].node = i}) \in Nat
  <2>1. PICK S : S = {fd \in DOMAIN d : d[fd].node = i}
    OBVIOUS
  <2>2. c \in Nat /\ \A fd \in S : fd \in 2 .. c - 1
    BY <2>1 DEF FdsFit
  <2>3. S \in SUBSET (2 .. c - 1)
    BY <2>2
  <2>4. IsFiniteSet(2 .. c - 1)
    BY <2>2, FS_Interval
  <2>5. IsFiniteSet(S)
    BY <2>3, <2>4, FS_Subset
  <2> QED BY <2>1, <2>5, FS_CardinalityType
<1> QED BY <1>1

\* The shell forks.
LEMMA ForkKeeps ==
  ASSUME Inv, NEW s \in Shell, Fork(s)
  PROVE  Inv'
<1>1. shell[s].at = "fork" /\ Go(s, "relay", << >>) /\ files' = files /\ fds' = fds
  BY DEF Fork, At
<1>2. PICK d, c : d = fds[s] /\ c = fd_counter[s] /\ FdsFit(files, d, c)
  BY ShellIs
<1>3. PICK opens : opens = [i \in Inode |-> Cardinality({fd \in DOMAIN d : d[fd].node = i})]
  OBVIOUS
<1>4. opens \in [Inode -> Nat]
  BY <1>2, <1>3, OpensType
<1>5. PICK u : u = table' /\ u = Inherit(table, s, Programs, opens)
  BY <1>2, <1>3 DEF Fork
<1>6. /\ u \in TableType /\ ListedOpen(u) /\ u.opened = table.opened
      /\ \A p \in Shell : Writes(u, p) = Writes(table, p)
  BY <1>4, <1>5, InheritKeeps DEF Inv, System
<1>7. files \in Trees /\ Cardinality(DOMAIN files) <= MaxInodes /\ table.opened \subseteq DOMAIN files
      /\ table \in TableType
  BY DEF Inv, System
<1>8. Grows(files, files)
  BY <1>7, GrowsSelf
<1>9. Shared(s)
  BY <1>1, <1>5, <1>6, <1>7, <1>8 DEF Shared
<1>10. PICK w : w = Writes(table, s) /\ w = Writes(table', s)
  BY <1>5, <1>6
<1>11. \A j \in Inode : w[j] >= w[j]
  <2>1. w \in [Inode -> Nat]
    BY <1>7, <1>10, WritesType
  <2>2. \A j \in Inode : w[j] \in Nat
    BY <2>1
  <2> QED BY <2>2
<1>12. PICK b : b = c + 2
  OBVIOUS
<1>13. FdsFit(files', d, b) /\ Adds(fds[s], d)
  <2>1. c \in Nat /\ b \in Nat /\ b >= 2
    BY <1>2, <1>12 DEF FdsFit
  <2>2. \A fd \in 2 .. c - 1 : fd \in 2 .. b - 1
    BY <1>12, <2>1
  <2>3. FdsFit(files, d, b)
    BY <1>2, <2>1, <2>2 DEF FdsFit
  <2> QED BY <1>1, <1>2, <2>3 DEF Adds
<1>14. Fits(files', Writes(table', s), d, b, shell[s])
  BY <1>9, <1>10, <1>11, <1>13, SharedFits
<1>15. PICK items \in Seq(Items) : items = << >>
  BY Message
<1>16. PICK f, place : f = files' /\ place = "relay"
  OBVIOUS
<1>17. Go(s, place, items) /\ Fits(f, w, d, b, shell[s]) /\ shell[s].cmd.success
  BY <1>1, <1>10, <1>14, <1>15, <1>16, Succeeds
<1>18. PICK g : shell' = [shell EXCEPT ![s] = g] /\ Fits(f, w, d, b, g)
  BY <1>1, <1>16, <1>17, GoFits
<1>19. fds' = [fds EXCEPT ![s] = d] /\ fd_counter' = [fd_counter EXCEPT ![s] = b]
  BY <1>1, <1>2, <1>12 DEF Fork, Inv, System
<1>20. halted' \in BOOLEAN
  BY DEF Fork, Dangles
<1> QED BY <1>9, <1>10, <1>16, <1>18, <1>19, <1>20, SharedKeeps

(***************************************************************************)
(* While the relay goes on the offset of the input may change, and a       *)
(* message may be put.                                                     *)
(***************************************************************************)
LEMMA RelayMoves ==
  ASSUME Inv, NEW s \in Shell, shell[s].at = "relay",
         NEW d, Adds(fds[s], d), FdsFit(files, d, fd_counter[s]), fds' = [fds EXCEPT ![s] = d],
         UNCHANGED <<files, table, fd_counter, halted>>,
         Go(s, "relay", <<"message">>) \/ UNCHANGED shell
  PROVE  Inv'
<1>1. files' = files /\ table' = table /\ fd_counter' = fd_counter /\ halted' \in BOOLEAN
  BY DEF Inv, System
<1>2. Shared(s) /\ \A j \in Inode : Writes(table', s)[j] >= Writes(table, s)[j]
  BY <1>1, SharedSame
<1>3. PICK f, w, c : f = files' /\ w = Writes(table', s) /\ c = fd_counter[s]
  OBVIOUS
<1>4. Fits(f, w, d, c, shell[s])
  BY <1>1, <1>2, <1>3, SharedFits
<1>5. fd_counter' = [fd_counter EXCEPT ![s] = c]
  BY <1>1, <1>3 DEF Inv, System
<1>6. CASE Go(s, "relay", <<"message">>)
  <2>1. PICK items \in Seq(Items) : items = <<"message">>
    BY Message
  <2>2. PICK place : place = "relay"
    OBVIOUS
  <2>3. Go(s, place, items) /\ shell[s].cmd.success
    BY <1>6, <2>1, <2>2, Succeeds
  <2>4. PICK g : shell' = [shell EXCEPT ![s] = g] /\ Fits(f, w, d, c, g)
    BY <1>4, <2>2, <2>3, GoFits
  <2> QED BY <1>1, <1>2, <1>3, <1>5, <2>4, SharedKeeps
<1>7. CASE UNCHANGED shell
  <2>1. PICK h : h = shell[s]
    OBVIOUS
  <2>2. shell' = [shell EXCEPT ![s] = h]
    BY <1>7, <2>1 DEF Inv, System
  <2> QED BY <1>1, <1>2, <1>3, <1>4, <1>5, <2>1, <2>2, SharedKeeps
<1> QED BY <1>6, <1>7

\* The relay reads its input.
LEMMA RelayInputKeeps ==
  ASSUME Inv, NEW s \in Shell, RelayInput(s)
  PROVE  Inv'
<1>1. PICK h : h = shell[s] /\ h.at = "relay" /\ h.stdin # 0
  BY DEF RelayInput, At
<1>2. PICK old, c, fd : old = fds[s] /\ c = fd_counter[s] /\ fd = h.stdin
  OBVIOUS
<1>3. FdsFit(files, old, c) /\ fd \in DOMAIN old
  BY <1>1, <1>2, ShellIs DEF StreamsFit
<1>4. PICK i, end : i = old[fd].node /\ end = Len(files[i].content)
  OBVIOUS
<1>5. end \in Nat
  <2>1. PICK n \in Nat \ {0} : DOMAIN files = 0 .. n - 1 /\ files \in TreesOf(n)
    BY TreeType DEF Inv, System
  <2>2. i \in 0 .. n - 1
    BY <1>3, <1>4, <2>1 DEF FdsFit
  <2>3. files[i].content \in Seq(Entries) \/ files[i].content \in Seq(Items)
    BY <2>1, <2>2, ContentType
  <2> QED BY <1>4, <2>3
<1>6. Adds(old, old)
  BY DEF Adds
<1>7. PICK moved : moved = [old EXCEPT ![fd].offset = end]
  OBVIOUS
<1>8. Adds(old, moved) /\ FdsFit(files, moved, c)
  BY <1>3, <1>5, <1>7, OffsetIs
<1>9. UNCHANGED <<files, table, fd_counter, stale>>
  BY DEF RelayInput
<1>10. /\ fds' = fds => fds' = [fds EXCEPT ![s] = old]
       /\ fds' = [fds EXCEPT ![s][fd].offset = end] => fds' = [fds EXCEPT ![s] = moved]
  BY <1>2, <1>7 DEF Inv, System
<1>11. CASE Go(s, "relay", <<"message">>) /\ UNCHANGED <<fds, halted>>
  <2>1. fds' = [fds EXCEPT ![s] = old] /\ UNCHANGED <<files, table, fd_counter, halted>>
    BY <1>9, <1>10, <1>11
  <2> QED BY <1>1, <1>2, <1>3, <1>6, <1>11, <2>1, RelayMoves
<1>12. CASE /\ fds' = [fds EXCEPT ![s][fd].offset = end] /\ UNCHANGED halted
            /\ Go(s, "relay", <<"message">>) \/ UNCHANGED shell
  <2>1. fds' = [fds EXCEPT ![s] = moved] /\ UNCHANGED <<files, table, fd_counter, halted>>
    BY <1>9, <1>10, <1>12
  <2> QED BY <1>1, <1>2, <1>8, <1>12, <2>1, RelayMoves
<1>13. CASE halted' = TRUE /\ UNCHANGED <<fds, shell>>
  BY <1>9, <1>13, UnchangedKeeps DEF kernel
<1> QED BY <1>1, <1>2, <1>4, <1>11, <1>12, <1>13 DEF RelayInput

\* The program has ended.
LEMMA RelayEndKeeps ==
  ASSUME Inv, NEW s \in Shell, RelayEnd(s)
  PROVE  Inv'
<1>1. PICK items \in Seq(Items) : items = <<"text">>
  BY Message
<1>2. shell[s].at # "prompt"
  BY DEF RelayEnd, At
<1> QED BY <1>1, <1>2, EndKeeps DEF RelayEnd

-----------------------------------------------------------------------------
(* cat                                                                     *)

\* A shell reads its descriptor, whose offset may change.
LEMMA ReadKeeps ==
  ASSUME Inv, NEW s \in Shell, NEW h, h = shell[s], h.at = "read",
         NEW d, Adds(fds[s], d), FdsFit(files, d, fd_counter[s]), fds' = [fds EXCEPT ![s] = d],
         UNCHANGED <<files, table, fd_counter>>, halted' \in BOOLEAN,
         NEW g \in Shells, shell' = [shell EXCEPT ![s] = g], g.at \in {"read", "close"},
         g.cmd = h.cmd, g.stdin = h.stdin, g.stdout = h.stdout, g.fd = h.fd,
         g.pending # << >> => g.stdout # 1
  PROVE  Inv'
<1>1. files' = files /\ table' = table /\ fd_counter' = fd_counter
  OBVIOUS
<1>2. Shared(s) /\ \A j \in Inode : Writes(table', s)[j] >= Writes(table, s)[j]
  BY <1>1, SharedSame
<1>3. PICK f, w, c : f = files' /\ w = Writes(table', s) /\ c = fd_counter[s]
  OBVIOUS
<1>4. Fits(f, w, d, c, h)
  BY <1>1, <1>2, <1>3, SharedFits
<1>5. ListFits(f, d, g)
  BY DEF ListFits
<1>6. h.at \in Working /\ g.at \in Working
  BY DEF Working
<1>7. Fits(f, w, d, c, g)
  BY <1>4, <1>5, <1>6, WorkFits
<1>8. fd_counter' = [fd_counter EXCEPT ![s] = c]
  BY <1>1, <1>3 DEF Inv, System
<1> QED BY <1>2, <1>3, <1>7, <1>8, SharedKeeps

\* cat reads a chunk, reaches the end, or fails.
LEMMA ReadChunkKeeps ==
  ASSUME Inv, NEW s \in Shell, ReadChunk(s)
  PROVE  Inv'
<1>1. PICK h : h = shell[s] /\ h \in Shells /\ h.at = "read" /\ h.pending = << >>
  BY ShellIs DEF ReadChunk, At
<1>2. PICK old, c, fd : old = fds[s] /\ c = fd_counter[s] /\ fd = h.fd
  OBVIOUS
<1>3. FdsFit(files, old, c) /\ fd \in DOMAIN old
  BY <1>1, <1>2, ShellIs DEF ArgFits, Working
<1>4. PICK i, offset, content :
        i = old[fd].node /\ offset = old[fd].offset /\ content = files[i].content
  OBVIOUS
<1>5. i \in DOMAIN files /\ offset \in Nat
  <2>1. old[fd] \in Descriptors
    BY <1>3 DEF FdsFit
  <2> QED BY <1>3, <1>4, <2>1 DEF FdsFit, Descriptors
<1>6. /\ Len(content) \in Nat
      /\ ~ IsDirectory(files, i) => content \in Seq(Items)
  <2>1. files \in Trees
    BY DEF Inv, System
  <2>2. PICK n \in Nat \ {0} : DOMAIN files = 0 .. n - 1 /\ files \in TreesOf(n)
    BY <2>1, TreeType
  <2>3. /\ IsDirectory(files, i) => content \in Seq(Entries)
        /\ ~ IsDirectory(files, i) => content \in Seq(Items)
    BY <1>4, <1>5, <2>2, ContentType DEF IsDirectory
  <2>4. content \in Seq(Entries) => Len(content) \in Nat
    OBVIOUS
  <2>5. content \in Seq(Items) => Len(content) \in Nat
    OBVIOUS
  <2> QED BY <2>3, <2>4, <2>5
<1>7. PICK end : end = IF offset + Chunk < Len(content) THEN offset + Chunk ELSE Len(content)
  OBVIOUS
<1>8. end \in Nat /\ end <= Len(content)
  BY <1>5, <1>6, <1>7, CommandsAssumption
<1>9. UNCHANGED <<files, table, fd_counter, stale>>
  BY DEF ReadChunk
<1>10. Adds(old, old)
  BY DEF Adds
<1>11. PICK moved : moved = [old EXCEPT ![fd].offset = end]
  OBVIOUS
<1>12. Adds(old, moved) /\ FdsFit(files, moved, c)
  BY <1>3, <1>8, <1>11, OffsetIs
<1>13. fds' = fds => fds' = [fds EXCEPT ![s] = old]
  BY <1>2 DEF Inv, System
<1>14. fds' = [fds EXCEPT ![s][fd].offset = end] => fds' = [fds EXCEPT ![s] = moved]
  BY <1>2, <1>11 DEF Inv, System
<1>15. halted \in BOOLEAN
  BY DEF Inv, System
<1>16. ASSUME ReadError(s), NEW d, Adds(old, d), FdsFit(files, d, c), fds' = [fds EXCEPT ![s] = d]
       PROVE  Inv'
  <2>1. PICK put : put = Say(s, <<"message">>)
    OBVIOUS
  <2>2. PICK none \in Seq(Items) : none = << >>
    BY Message
  <2>3. PICK g : g = [h EXCEPT !.at = "close", !.rest = none, !.pending = put]
    OBVIOUS
  <2>4. shell' = [shell EXCEPT ![s] = g] /\ halted' \in BOOLEAN
    BY <1>1, <1>15, <1>16, <2>1, <2>2, <2>3 DEF ReadError, Inv, System
  <2>5. put \in Seq(Items) /\ (put # << >> => h.stdout # 1)
    <3>1. PICK items \in Seq(Items) : items = <<"message">>
      BY Message
    <3> QED BY <1>1, <2>1, <3>1, SayIs
  <2>6. /\ g \in Shells /\ g.at = "close" /\ g.pending = put /\ g.cmd = h.cmd
        /\ g.stdin = h.stdin /\ g.stdout = h.stdout /\ g.fd = h.fd
    BY <1>1, <2>3, <2>5 DEF Shells, Spots, Working
  <2> QED BY <1>1, <1>2, <1>9, <1>16, <2>4, <2>5, <2>6, ReadKeeps
<1>17. CASE ReadError(s) /\ UNCHANGED fds
  BY <1>3, <1>10, <1>13, <1>16, <1>17
<1>18. CASE /\ ~ IsDirectory(files, i) /\ offset < end
            /\ shell' = [shell EXCEPT ![s].last = content[end],
                           ![s].pending = Say(s, SubSeq(content, offset + 1, end))]
            /\ fds' = [fds EXCEPT ![s][fd].offset = end]
            /\ UNCHANGED halted
  <2>1. PICK items : items = SubSeq(content, offset + 1, end)
    OBVIOUS
  <2>2. items \in Seq(Items)
    BY <1>5, <1>6, <1>8, <1>18, <2>1
  <2>3. PICK put : put = Say(s, items)
    OBVIOUS
  <2>4. put \in Seq(Items) /\ (put # << >> => h.stdout # 1)
    BY <1>1, <2>2, <2>3, SayIs
  <2>5. PICK last \in Items : last = content[end]
    <3>1. end \in 1 .. Len(content)
      BY <1>5, <1>6, <1>8, <1>18
    <3>2. content[end] \in Items
      BY <1>6, <1>18, <3>1
    <3> QED BY <3>2
  <2>6. PICK g : g = [h EXCEPT !.last = last, !.pending = put]
    OBVIOUS
  <2>7. shell' = [shell EXCEPT ![s] = g]
    BY <1>1, <1>18, <2>1, <2>3, <2>5, <2>6 DEF Inv, System
  <2>8. /\ g \in Shells /\ g.at = "read" /\ g.pending = put /\ g.cmd = h.cmd
        /\ g.stdin = h.stdin /\ g.stdout = h.stdout /\ g.fd = h.fd
    BY <1>1, <2>4, <2>6 DEF Shells
  <2>9. /\ halted' \in BOOLEAN /\ fds' = [fds EXCEPT ![s] = moved] /\ Adds(fds[s], moved)
        /\ FdsFit(files, moved, fd_counter[s])
    BY <1>2, <1>12, <1>14, <1>15, <1>18
  <2>10. g.pending # << >> => g.stdout # 1
    BY <2>4, <2>8
  <2> QED BY <1>1, <1>9, <2>7, <2>8, <2>9, <2>10, ReadKeeps
<1>19. CASE /\ shell' = [shell EXCEPT ![s].at = "close",
                           ![s].rest = IF shell[s].last \in Partial THEN <<"newline">> ELSE << >>]
            /\ UNCHANGED <<fds, halted>>
  <2>1. PICK rest : rest = IF h.last \in Partial THEN <<"newline">> ELSE << >>
    OBVIOUS
  <2>2. rest \in Seq(Items)
    BY <2>1, Message
  <2>3. PICK g : g = [h EXCEPT !.at = "close", !.rest = rest]
    OBVIOUS
  <2>4. shell' = [shell EXCEPT ![s] = g]
    BY <1>1, <1>19, <2>1, <2>3 DEF Inv, System
  <2>5. /\ g \in Shells /\ g.at = "close" /\ g.pending = h.pending /\ g.cmd = h.cmd
        /\ g.stdin = h.stdin /\ g.stdout = h.stdout /\ g.fd = h.fd
    BY <1>1, <2>2, <2>3 DEF Shells, Spots, Working
  <2>6. /\ halted' \in BOOLEAN /\ fds' = [fds EXCEPT ![s] = old] /\ Adds(fds[s], old)
        /\ FdsFit(files, old, fd_counter[s])
    BY <1>2, <1>3, <1>10, <1>13, <1>15, <1>19
  <2>7. g.pending # << >> => g.stdout # 1
    BY <1>1, <2>5
  <2> QED BY <1>1, <1>9, <2>4, <2>5, <2>6, <2>7, ReadKeeps
<1>20. CASE halted' = TRUE /\ UNCHANGED <<fds, shell>>
  BY <1>9, <1>20, UnchangedKeeps DEF kernel
<1>21. CASE ReadError(s) /\ fds' = [fds EXCEPT ![s][fd].offset = end]
  BY <1>12, <1>14, <1>16, <1>21
<1> QED
  BY <1>1, <1>2, <1>4, <1>7, <1>17, <1>18, <1>19, <1>20, <1>21 DEF ReadChunk

-----------------------------------------------------------------------------
(* The theorems                                                            *)

\* A shell that has just started.
LEMMA InitFits ==
  ASSUME NEW f, NEW w \in [Inode -> Nat]
  PROVE  Fits(f, w, << >>, 2, Start)
<1>1. PICK blank \in Items : blank = ""
  BY DEF Items
<1>2. << >> \in Seq(Items)
  BY Message
<1>3. [success |-> FALSE] \in Cmds
  BY DEF Cmds
<1>4. PICK g : g = [at |-> "prompt", cmd |-> [success |-> FALSE], stdin |-> 0, stdout |-> 1,
                    pending |-> << >>, fd |-> 0, size |-> 0, names |-> << >>, shown |-> 0,
                    before |-> << >>, last |-> blank, rest |-> << >>, failed |-> FALSE]
  OBVIOUS
<1>5. Start = g
  BY <1>1, <1>4 DEF Start
<1>6. /\ g \in Shells /\ g.at = "prompt" /\ g.stdin = 0 /\ g.stdout = 1 /\ g.pending = << >>
  BY <1>2, <1>3, <1>4 DEF Shells, Spots, Early
<1>7. FdsFit(f, << >>, 2)
  <2>1. DOMAIN << >> = {}
    OBVIOUS
  <2>2. << >> \in [{} -> Descriptors]
    OBVIOUS
  <2> QED BY <2>1, <2>2 DEF FdsFit
<1>8. PICK d, c : d = << >> /\ c = 2
  OBVIOUS
<1>9. Fits(f, w, d, c, g)
  BY <1>6, <1>7, <1>8, PromptFits
<1> QED BY <1>5, <1>8, <1>9

\* The image is a tree, and nothing is open.
LEMMA InitHolds ==
  ASSUME Init
  PROVE  Inv
<1>1. ImageTree \in Trees
  <2>1. Image \in Seq((Seq(STRING) \ {<< >>}) \X Seq(STRING))
    BY CommandsAssumption
  <2>2. (Seq(STRING) \ {<< >>}) \X Seq(STRING) \subseteq Contents
    <3>1. STRING \subseteq Items
      BY Literals
    <3>2. ASSUME NEW t \in Seq(STRING) PROVE t \in Seq(Items)
      BY <3>1, SeqLarger
    <3> QED BY <3>2 DEF Contents
  <2>3. PICK S : S = (Seq(STRING) \ {<< >>}) \X Seq(STRING)
    OBVIOUS
  <2>a. PICK N \in Nat : Image \in [1 .. N -> S]
    <3>1. PICK image \in Seq(S) : image = Image
      BY <2>1, <2>3
    <3>2. Len(image) \in Nat /\ image \in [1 .. Len(image) -> S]
      OBVIOUS
    <3> QED BY <3>1, <3>2
  <2>4. Image \in [1 .. N -> Contents]
    BY <2>2, <2>3, <2>a
  <2>5. PICK image \in [1 .. N -> Contents] : image = Image
    BY <2>4
  <2>6. FoldLeft(AddFile, EmptyTree, image) \in Trees
    BY ImageSound
  <2> QED BY <2>5, <2>6 DEF ImageTree
<1>2. files = ImageTree /\ table = NoNodes /\ halted = FALSE
  BY DEF Init
<1>3. Cardinality(DOMAIN files) <= MaxInodes
  BY <1>2, CommandsAssumption
<1>4. table \in TableType /\ ListedOpen(table) /\ table.opened = {}
  <2>1. PICK none \in Lists : none = [i \in Inode |-> [p \in Process |-> 0]]
    <3>1. [i \in Inode |-> [p \in Process |-> 0]] \in Lists
      BY DEF Lists
    <3> QED BY <3>1
  <2>2. table = [opened |-> {}, readers |-> none, writers |-> none, fifo |-> [i \in {} |-> << >>]]
    BY <1>2, <2>1 DEF NoNodes, Process
  <2>3. [i \in {} |-> << >>] \in [{} -> {}]
    OBVIOUS
  <2>4. table \in TableType /\ table.opened = {} /\ table.readers = none /\ table.writers = none
    BY <2>2, <2>3 DEF TableType
  <2>5. \A i \in Inode, p \in Process : none[i][p] = 0
    BY <2>1
  <2> QED BY <2>4, <2>5 DEF ListedOpen
<1>5. System
  BY <1>1, <1>2, <1>3, <1>4 DEF Init, System
<1>6. ASSUME NEW s \in Shell PROVE ShellFits(s)
  <2>1. Writes(table, s) \in [Inode -> Nat]
    BY <1>4, WritesType
  <2>2. fds[s] = << >> /\ fd_counter[s] = 2 /\ shell[s] = Start
    BY DEF Init
  <2> QED BY <2>1, <2>2, InitFits DEF ShellFits
<1> QED BY <1>5, <1>6 DEF Inv

(***************************************************************************)
(* The invariant holds always.                                             *)
(***************************************************************************)
THEOREM Invariance == Spec => []Inv
<1>1. Init => Inv
  BY InitHolds
<1>2. Inv /\ [Next]_vars => Inv'
  <2> SUFFICES ASSUME Inv, [Next]_vars PROVE Inv'
    OBVIOUS
  <2>1. CASE UNCHANGED vars
    <3>1. UNCHANGED <<files, kernel, shell>> /\ halted' \in BOOLEAN
      BY <2>1 DEF vars, Inv, System
    <3> QED BY <3>1, UnchangedKeeps
  <2>2. ASSUME NEW s \in Shell, ReadLine(s) PROVE Inv'
    BY <2>2, ReadLineKeeps
  <2>3. ASSUME NEW s \in Shell, Works(s) PROVE Inv'
    <3>1. CASE OpenOutput(s)
      BY <3>1, OpenOutputKeeps
    <3>2. CASE CreateOutput(s)
      BY <3>2, CreateOutputKeeps
    <3>3. CASE OpenInput(s)
      BY <3>3, OpenInputKeeps
    <3>4. CASE Put(s)
      BY <3>4, PutKeeps
    <3>5. CASE PutFreed(s)
      BY <3>5, PutFreedKeeps
    <3>6. CASE Echo(s)
      BY <3>6, EchoKeeps
    <3>7. CASE Mkdir(s)
      BY <3>7, MkdirKeeps
    <3>8. CASE External(s)
      BY <3>8, ExternalKeeps
    <3>9. CASE Fork(s)
      BY <3>9, ForkKeeps
    <3>10. CASE Ls(s)
      BY <3>10, LsKeeps
    <3>11. CASE GetChildren(s)
      BY <3>11, GetChildrenKeeps
    <3>12. CASE ShowChild(s)
      BY <3>12, ShowChildKeeps
    <3>13. CASE Cat(s)
      BY <3>13, CatKeeps
    <3>14. CASE ReadChunk(s)
      BY <3>14, ReadChunkKeeps
    <3>15. CASE CloseFd(s)
      BY <3>15, CloseFdKeeps
    <3>16. CASE Reset(s)
      BY <3>16, ResetKeeps
    <3>17. CASE RelayInput(s)
      BY <3>17, RelayInputKeeps
    <3>18. CASE RelayEnd(s)
      BY <3>18, RelayEndKeeps
    <3> QED BY <2>3, <3>1, <3>2, <3>3, <3>4, <3>5, <3>6, <3>7, <3>8, <3>9, <3>10, <3>11,
               <3>12, <3>13, <3>14, <3>15, <3>16, <3>17, <3>18 DEF Works
  <2> QED BY <2>1, <2>2, <2>3 DEF Next
<1> QED BY <1>1, <1>2, PTL DEF Spec

-----------------------------------------------------------------------------
(* Freed nodes                                                             *)

\* All the descriptors of the shells.
Owned == UNION {{s} \X DOMAIN fds[s] : s \in Shell}

\* When the node a shell writes to has been freed, the shell is not listed at
\* the file any more.
Struck(s) ==
  shell[s].stdout # 1 /\ Dangles(s, shell[s].stdout) =>
    ~ (Writes(table, s)[fds[s][shell[s].stdout].node] > 0)

Fresh == stale \subseteq Owned /\ \A s \in Shell : Struck(s)

\* A step of one shell in which no node is freed, and which leaves the output
\* where it was or takes it elsewhere.
Stays(s) ==
  /\ stale' = stale
  /\ \A p \in Shell : p # s => /\ Writes(table', p) = Writes(table, p)
                               /\ fds'[p] = fds[p] /\ shell'[p] = shell[p]
  /\ Adds(fds[s], fds'[s])
  /\ \/ shell'[s].stdout \in {1, fd_counter[s]}
     \/ /\ shell'[s].stdout = shell[s].stdout
        /\ shell[s].at # "reset" \/ table' = table

\* What dangles is a descriptor.
LEMMA StaleOwned ==
  ASSUME Fresh, NEW s \in Shell, NEW fd, Dangles(s, fd)
  PROVE  fd \in DOMAIN fds[s]
<1>1. <<s, fd>> \in Owned
  BY DEF Fresh, Dangles
<1>2. PICK p \in Shell : <<s, fd>> \in {p} \X DOMAIN fds[p]
  BY <1>1 DEF Owned
<1> QED BY <1>2

\* Such a step keeps what is known of freed nodes.
LEMMA StaysFresh ==
  ASSUME Inv, Fresh, NEW s \in Shell, Stays(s)
  PROVE  Fresh'
<1>1. stale' = stale /\ Adds(fds[s], fds'[s])
  BY DEF Stays
<1>2. \A p \in Shell : p # s => /\ Writes(table', p) = Writes(table, p)
                                /\ fds'[p] = fds[p] /\ shell'[p] = shell[p]
  BY DEF Stays
<1>3. (stale \subseteq Owned)'
  <2>1. \A p \in Shell : DOMAIN fds[p] \subseteq DOMAIN fds'[p]
    BY <1>1, <1>2 DEF Adds
  <2>2. Owned \subseteq Owned'
    <3> SUFFICES ASSUME NEW p \in Shell, NEW x \in {p} \X DOMAIN fds[p]
                 PROVE  x \in {p} \X DOMAIN fds'[p]
      BY DEF Owned
    <3> QED BY <2>1
  <2>3. stale \subseteq Owned
    BY DEF Fresh
  <2> QED BY <1>1, <2>2, <2>3
<1>4. ASSUME NEW p \in Shell, p # s PROVE Struck(p)'
  <2>1. Struck(p)
    BY DEF Fresh
  <2>2. Writes(table', p) = Writes(table, p) /\ fds'[p] = fds[p] /\ shell'[p] = shell[p]
    BY <1>2, <1>4
  <2> QED BY <1>1, <2>1, <2>2 DEF Struck, Dangles
<1>5. Struck(s)'
  <2>1. PICK k : k = shell'[s].stdout
    OBVIOUS
  <2> SUFFICES ASSUME k # 1, Dangles(s, k) PROVE ~ (Writes(table', s)[fds'[s][k].node] > 0)
    BY <1>1, <2>1 DEF Struck, Dangles
  <2>2. k \in DOMAIN fds[s]
    BY StaleOwned
  <2>3. k # fd_counter[s]
    BY <2>2, ShellIs DEF FdsFit
  <2>4. k = shell[s].stdout /\ (shell[s].at # "reset" \/ table' = table)
    BY <2>1, <2>3 DEF Stays
  <2>5. fds'[s][k].node = fds[s][k].node
    BY <1>1, <2>2 DEF Adds
  <2>6. ~ (Writes(table, s)[fds[s][k].node] > 0)
    BY <2>4 DEF Fresh, Struck
  <2>7. shell[s].at = "reset"
    BY <2>4, <2>6, ShellIs DEF HeldFits
  <2> QED BY <2>4, <2>5, <2>6, <2>7
<1> QED BY <1>3, <1>4, <1>5 DEF Fresh

\* Only the shell's own variables and the tree change.
LEMMA QuietStays ==
  ASSUME Inv, NEW s \in Shell, UNCHANGED kernel,
         \A p \in Shell : p # s => shell'[p] = shell[p],
         shell'[s].stdout \in {1, shell[s].stdout}
  PROVE  Stays(s)
<1>1. table' = table /\ fds' = fds /\ stale' = stale
  BY DEF kernel
<1>2. Adds(fds[s], fds[s])
  BY DEF Adds
<1> QED BY <1>1, <1>2 DEF Stays

\* An offset changes, too.
LEMMA MoveStays ==
  ASSUME Inv, NEW s \in Shell, UNCHANGED <<table, stale>>, NEW fd \in DOMAIN fds[s], NEW offset,
         fds' = [fds EXCEPT ![s][fd].offset = offset],
         \A p \in Shell : p # s => shell'[p] = shell[p],
         shell'[s].stdout = shell[s].stdout
  PROVE  Stays(s)
<1>1. PICK old : old = fds[s] /\ old \in [DOMAIN old -> Descriptors]
  BY ShellIs DEF FdsFit
<1>2. PICK moved : moved = [old EXCEPT ![fd].offset = offset]
  OBVIOUS
<1>3. fds'[s] = moved /\ \A p \in Shell : p # s => fds'[p] = fds[p]
  BY <1>1, <1>2 DEF Inv, System
<1>4. ASSUME NEW x \in DOMAIN old
      PROVE  x \in DOMAIN moved /\ moved[x].node = old[x].node /\ moved[x].mode = old[x].mode
  <2>1. x \in DOMAIN moved
    BY <1>2
  <2>2. old[x] \in Descriptors
    BY <1>1
  <2>3. moved[x] = IF x = fd THEN [old[x] EXCEPT !.offset = offset] ELSE old[x]
    BY <1>1, <1>2
  <2> QED BY <2>1, <2>2, <2>3 DEF Descriptors
<1>5. Adds(old, moved)
  BY <1>4 DEF Adds
<1> QED BY <1>1, <1>3, <1>5 DEF Stays

\* Something is opened.
LEMMA OpenStays ==
  ASSUME Inv, NEW s \in Shell, shell[s].at # "reset",
         NEW path \in AllPaths, NEW mode \in Modes, MayOpen(files, path, mode),
         OpenPath(s, path, mode),
         \A p \in Shell : p # s => shell'[p] = shell[p],
         shell'[s].stdout \in {fd_counter[s], shell[s].stdout}
  PROVE  Stays(s)
<1>1. PICK i, d : Opens(s, path, mode, i, d)
  BY OpenPathIs
<1>2. /\ fds' = [fds EXCEPT ![s] = d] /\ Adds(fds[s], d)
      /\ \A p \in Shell : p # s => Writes(table', p) = Writes(table, p)
  BY <1>1 DEF Opens, Shared
<1>3. fds'[s] = d /\ \A p \in Shell : p # s => fds'[p] = fds[p]
  BY <1>2 DEF Inv, System
<1>4. stale' = stale
  BY DEF OpenPath
<1> QED BY <1>2, <1>3, <1>4 DEF Stays

\* A token of the line is opened.
LEMMA TokenStays ==
  ASSUME Inv, NEW s \in Shell, shell[s].at # "reset",
         NEW token, NEW mode \in Modes, CanOpen(token, mode), OpenPath(s, Pieces[token], mode),
         \A p \in Shell : p # s => shell'[p] = shell[p],
         shell'[s].stdout \in {fd_counter[s], shell[s].stdout}
  PROVE  Stays(s)
<1>1. PICK path \in AllPaths : path = Pieces[token]
  BY PiecesIs DEF CanOpen
<1>2. MayOpen(files, path, mode) /\ OpenPath(s, path, mode)
  BY <1>1 DEF CanOpen
<1> QED BY <1>2, OpenStays

\* What changes of the shells while one of them goes on.
LEMMA GoIs ==
  ASSUME Inv, NEW s \in Shell, NEW place, NEW items, Go(s, place, items)
  PROVE  /\ \A p \in Shell : p # s => shell'[p] = shell[p]
         /\ shell'[s].stdout = shell[s].stdout
<1>1. PICK h : h = shell[s] /\ h \in Shells
  BY ShellIs
<1>2. PICK put : put = Say(s, items)
  OBVIOUS
<1>3. PICK g : g = [h EXCEPT !.at = place, !.pending = put]
  OBVIOUS
<1>4. shell' = [shell EXCEPT ![s] = g]
  BY <1>1, <1>2, <1>3 DEF Go, Inv, System
<1>5. g.stdout = h.stdout
  BY <1>1, <1>3 DEF Shells
<1> QED BY <1>1, <1>4, <1>5 DEF Inv, System

\* A command fails.
LEMMA FailStays ==
  ASSUME Inv, NEW s \in Shell, Fail(s)
  PROVE  Stays(s)
<1>1. UNCHANGED kernel /\ Go(s, "reset", <<"message">>)
  BY DEF Fail, End
<1> QED BY <1>1, GoIs, QuietStays

\* A redirection fails.
LEMMA GiveUpStays ==
  ASSUME Inv, NEW s \in Shell, GiveUp(s)
  PROVE  Stays(s)
<1>1. PICK h : h = shell[s] /\ h \in Shells
  BY ShellIs
<1>2. PICK put : put = Say(s, <<"message", "prompt">>)
  OBVIOUS
<1>3. PICK g : g = [h EXCEPT !.at = "prompt", !.failed = TRUE, !.pending = put]
  OBVIOUS
<1>4. shell' = [shell EXCEPT ![s] = g]
  BY <1>1, <1>2, <1>3 DEF GiveUp, Inv, System
<1>5. g.stdout = h.stdout
  BY <1>1, <1>3 DEF Shells
<1>6. UNCHANGED kernel
  BY DEF GiveUp
<1> QED BY <1>1, <1>4, <1>5, <1>6, QuietStays DEF Inv, System

\* A shell's own variables change, its output not.
LEMMA AloneStays ==
  ASSUME Inv, NEW s \in Shell, UNCHANGED kernel, NEW g, shell' = [shell EXCEPT ![s] = g],
         g.stdout = shell[s].stdout
  PROVE  Stays(s)
<1>1. shell'[s] = g /\ \A p \in Shell : p # s => shell'[p] = shell[p]
  BY DEF Inv, System
<1> QED BY <1>1, QuietStays

\* A line is typed.
LEMMA ReadLineStays ==
  ASSUME Inv, NEW s \in Shell, ReadLine(s)
  PROVE  Stays(s)
<1>1. UNCHANGED kernel
  BY DEF ReadLine
<1>2. PICK h : h = shell[s] /\ h \in Shells
  BY ShellIs
<1>3. PICK tokens \in Lines :
        IF Parse(tokens).success
        THEN shell' = [shell EXCEPT ![s].cmd = Parse(tokens),
                         ![s].at = IF Parse(tokens).output # "" THEN "output"
                                   ELSE AfterOutput(Parse(tokens))]
        ELSE Go(s, "prompt", IF tokens = << >> THEN <<"prompt">> ELSE <<"message", "prompt">>)
  BY DEF ReadLine
<1>4. PICK cmd : cmd = Parse(tokens)
  OBVIOUS
<1>5. CASE cmd.success
  <2>1. PICK place : place = IF cmd.output # "" THEN "output" ELSE AfterOutput(cmd)
    OBVIOUS
  <2>2. shell' = [shell EXCEPT ![s].cmd = cmd, ![s].at = place]
    BY <1>3, <1>4, <1>5, <2>1
  <2>3. PICK g : g = [h EXCEPT !.cmd = cmd, !.at = place]
    OBVIOUS
  <2>4. shell' = [shell EXCEPT ![s] = g]
    BY <1>2, <2>2, <2>3 DEF Inv, System
  <2>5. g.stdout = h.stdout
    BY <1>2, <2>3 DEF Shells
  <2> QED BY <1>1, <1>2, <2>4, <2>5, AloneStays
<1>6. CASE ~ cmd.success
  <2>1. PICK items : items = IF tokens = << >> THEN <<"prompt">> ELSE <<"message", "prompt">>
    OBVIOUS
  <2>2. Go(s, "prompt", items)
    BY <1>3, <1>4, <1>6, <2>1
  <2> QED BY <1>1, <2>2, GoIs, QuietStays
<1> QED BY <1>5, <1>6

\* ls asks for the children.
LEMMA GetChildrenStays ==
  ASSUME Inv, NEW s \in Shell, GetChildren(s)
  PROVE  Stays(s)
<1>1. UNCHANGED kernel
  BY DEF GetChildren
<1>2. PICK h : h = shell[s] /\ h \in Shells
  BY ShellIs
<1>3. PICK i : i = fds[s][h.fd].node
  OBVIOUS
<1>4. PICK all : all = Names(files, i)
  OBVIOUS
<1>5. PICK names : names = Visible(all)
  OBVIOUS
<1>6. PICK required : required = Len(all)
  OBVIOUS
<1>7. PICK put : put = Say(s, <<"message">>)
  OBVIOUS
<1>8. IF ~ IsDirectory(files, i)
      THEN shell' = [shell EXCEPT ![s].at = "close", ![s].rest = << >>, ![s].pending = put]
      ELSE IF required > h.size
      THEN shell' = [shell EXCEPT ![s].size = required]
      ELSE IF names = << >>
      THEN End(s, <<"message">>)
      ELSE shell' = [shell EXCEPT ![s].at = "child", ![s].names = names, ![s].shown = 0]
  BY <1>2, <1>3, <1>4, <1>5, <1>6, <1>7 DEF GetChildren
<1>9. CASE End(s, <<"message">>)
  BY <1>1, <1>9, GoIs, QuietStays DEF End
<1>10. CASE shell' = [shell EXCEPT ![s].at = "close", ![s].rest = << >>, ![s].pending = put]
  <2>1. PICK g : g = [h EXCEPT !.at = "close", !.rest = << >>, !.pending = put]
    OBVIOUS
  <2>2. shell' = [shell EXCEPT ![s] = g] /\ g.stdout = h.stdout
    BY <1>2, <1>10, <2>1 DEF Shells, Inv, System
  <2> QED BY <1>1, <1>2, <2>2, AloneStays
<1>11. CASE shell' = [shell EXCEPT ![s].size = required]
  <2>1. PICK g : g = [h EXCEPT !.size = required]
    OBVIOUS
  <2>2. shell' = [shell EXCEPT ![s] = g] /\ g.stdout = h.stdout
    BY <1>2, <1>11, <2>1 DEF Shells, Inv, System
  <2> QED BY <1>1, <1>2, <2>2, AloneStays
<1>12. CASE shell' = [shell EXCEPT ![s].at = "child", ![s].names = names, ![s].shown = 0]
  <2>1. PICK g : g = [h EXCEPT !.at = "child", !.names = names, !.shown = 0]
    OBVIOUS
  <2>2. shell' = [shell EXCEPT ![s] = g] /\ g.stdout = h.stdout
    BY <1>2, <1>12, <2>1 DEF Shells, Inv, System
  <2> QED BY <1>1, <1>2, <2>2, AloneStays
<1> QED BY <1>8, <1>9, <1>10, <1>11, <1>12

\* Something is said, or a file is created.
LEMMA QuietActions ==
  ASSUME Inv, NEW s \in Shell, CreateOutput(s) \/ PutFreed(s) \/ Echo(s) \/ RelayEnd(s)
  PROVE  Stays(s)
<1>1. CASE CreateOutput(s)
  <2>1. UNCHANGED kernel /\ Go(s, "reopen", << >>)
    BY <1>1 DEF CreateOutput
  <2> QED BY <2>1, GoIs, QuietStays
<1>2. CASE PutFreed(s)
  <2>1. UNCHANGED kernel /\ shell' = shell
    BY <1>2 DEF PutFreed
  <2> QED BY <2>1, QuietStays
<1>3. CASE Echo(s) \/ RelayEnd(s)
  <2>1. UNCHANGED kernel /\ Go(s, "reset", <<"text">>)
    BY <1>3 DEF Echo, RelayEnd, End
  <2> QED BY <2>1, GoIs, QuietStays
<1> QED BY <1>1, <1>2, <1>3

\* A command that creates or opens something.
LEMMA MkdirStays ==
  ASSUME Inv, NEW s \in Shell, Mkdir(s)
  PROVE  Stays(s)
<1>1. CASE Fail(s)
  BY <1>1, FailStays
<1>2. CASE ~ Fail(s)
  <2>1. Go(s, "reset", << >>) /\ UNCHANGED kernel
    BY <1>2 DEF Mkdir, End
  <2> QED BY <2>1, GoIs, QuietStays
<1> QED BY <1>1, <1>2

\* A redirection is opened.
LEMMA RedirectStays ==
  ASSUME Inv, NEW s \in Shell, OpenOutput(s) \/ OpenInput(s)
  PROVE  Stays(s)
<1>1. PICK h : h = shell[s] /\ h \in Shells /\ h.at # "reset"
  BY ShellIs DEF OpenOutput, OpenInput, At
<1>2. PICK after, fd : after = AfterOutput(h.cmd) /\ fd = fd_counter[s]
  OBVIOUS
<1>3. PICK out, in : out = [h EXCEPT !.stdout = fd, !.at = after] /\ in = [h EXCEPT !.stdin = fd, !.at = "command"]
  OBVIOUS
<1>4. out.stdout = fd /\ in.stdout = h.stdout
  BY <1>1, <1>3 DEF Shells
<1>5. CASE GiveUp(s)
  BY <1>5, GiveUpStays
<1>6. CASE Go(s, "create", << >>) /\ UNCHANGED <<files, kernel>>
  BY <1>6, GoIs, QuietStays
<1>7. CASE /\ CanOpen(h.cmd.output, "WRITEONLY") /\ OpenPath(s, Pieces[h.cmd.output], "WRITEONLY")
           /\ shell' = [shell EXCEPT ![s].stdout = fd, ![s].at = after]
  <2>1. shell' = [shell EXCEPT ![s] = out]
    BY <1>1, <1>3, <1>7 DEF Inv, System
  <2>2. shell'[s] = out /\ \A p \in Shell : p # s => shell'[p] = shell[p]
    BY <2>1 DEF Inv, System
  <2>3. "WRITEONLY" \in Modes
    BY DEF Modes
  <2>4. PICK token : token = h.cmd.output
    OBVIOUS
  <2>5. CanOpen(token, "WRITEONLY") /\ OpenPath(s, Pieces[token], "WRITEONLY")
    BY <1>7, <2>4
  <2> QED BY <1>1, <1>2, <1>4, <2>2, <2>3, <2>5, TokenStays
<1>8. CASE /\ CanOpen(h.cmd.input, "READONLY") /\ OpenPath(s, Pieces[h.cmd.input], "READONLY")
           /\ shell' = [shell EXCEPT ![s].stdin = fd, ![s].at = "command"]
  <2>1. shell' = [shell EXCEPT ![s] = in]
    BY <1>1, <1>3, <1>8 DEF Inv, System
  <2>2. shell'[s] = in /\ \A p \in Shell : p # s => shell'[p] = shell[p]
    BY <2>1 DEF Inv, System
  <2>3. "READONLY" \in Modes
    BY DEF Modes
  <2>4. PICK token : token = h.cmd.input
    OBVIOUS
  <2>5. CanOpen(token, "READONLY") /\ OpenPath(s, Pieces[token], "READONLY")
    BY <1>8, <2>4
  <2> QED BY <1>1, <1>4, <2>2, <2>3, <2>5, TokenStays
<1> QED BY <1>1, <1>2, <1>5, <1>6, <1>7, <1>8 DEF OpenOutput, OpenInput

\* ls or cat opens what it is given, or a program is opened.
LEMMA OpenerStays ==
  ASSUME Inv, NEW s \in Shell, Ls(s) \/ Cat(s) \/ External(s)
  PROVE  Stays(s)
<1>1. PICK h : h = shell[s] /\ h \in Shells /\ h.at # "reset"
  BY ShellIs DEF Ls, Cat, External, Runs, At
<1>2. CASE Fail(s)
  BY <1>2, FailStays
<1>3. "READONLY" \in Modes
  BY DEF Modes
<1>4. ASSUME NEW token, CanOpen(token, "READONLY"), OpenPath(s, Pieces[token], "READONLY"),
             NEW g, shell' = [shell EXCEPT ![s] = g], g.stdout = h.stdout
      PROVE  Stays(s)
  <2>1. shell'[s] = g /\ \A p \in Shell : p # s => shell'[p] = shell[p]
    BY <1>4 DEF Inv, System
  <2> QED BY <1>1, <1>3, <1>4, <2>1, TokenStays
<1>5. CASE Ls(s) /\ ~ Fail(s)
  <2>1. PICK token : token = Arg(s)
    OBVIOUS
  <2>2. PICK fd : fd = fd_counter[s]
    OBVIOUS
  <2>3. PICK i : i = GetInode(files, Pieces[token])
    OBVIOUS
  <2>4. PICK before : before = IF IsDirectory(files, i) THEN Names(files, i) ELSE << >>
    OBVIOUS
  <2>5. /\ CanOpen(token, "READONLY") /\ OpenPath(s, Pieces[token], "READONLY")
        /\ shell' = [shell EXCEPT ![s].at = "children", ![s].fd = fd, ![s].size = BufferSize,
                                  ![s].before = before]
    BY <1>5, <2>1, <2>2, <2>3, <2>4 DEF Ls
  <2>6. PICK g : g = [h EXCEPT !.at = "children", !.fd = fd, !.size = BufferSize, !.before = before]
    OBVIOUS
  <2>7. shell' = [shell EXCEPT ![s] = g] /\ g.stdout = h.stdout
    BY <1>1, <2>5, <2>6 DEF Shells, Inv, System
  <2> QED BY <1>4, <2>5, <2>7
<1>6. CASE Cat(s) /\ ~ Fail(s)
  <2>1. PICK token : token = Arg(s)
    OBVIOUS
  <2>2. PICK fd : fd = fd_counter[s]
    OBVIOUS
  <2>3. /\ CanOpen(token, "READONLY") /\ OpenPath(s, Pieces[token], "READONLY")
        /\ shell' = [shell EXCEPT ![s].at = "read", ![s].fd = fd, ![s].last = ""]
    BY <1>6, <2>1, <2>2 DEF Cat
  <2>4. PICK g : g = [h EXCEPT !.at = "read", !.fd = fd, !.last = ""]
    OBVIOUS
  <2>5. shell' = [shell EXCEPT ![s] = g] /\ g.stdout = h.stdout
    BY <1>1, <2>3, <2>4 DEF Shells, Inv, System
  <2> QED BY <1>4, <2>3, <2>5
<1>7. CASE External(s) /\ ~ Fail(s)
  <2>1. PICK token : token = shell[s].cmd.command
    OBVIOUS
  <2>2. /\ CanOpen(token, "READONLY") /\ OpenPath(s, Pieces[token], "READONLY")
        /\ Go(s, "fork", << >>)
    BY <1>7, <2>1 DEF External
  <2> QED BY <1>1, <1>3, <2>2, GoIs, TokenStays
<1> QED BY <1>2, <1>5, <1>6, <1>7

\* ls opens and shows a child.
LEMMA ShowChildStays ==
  ASSUME Inv, NEW s \in Shell, ShowChild(s)
  PROVE  Stays(s)
<1>1. PICK h : h = shell[s] /\ h \in Shells /\ h.at = "child"
  BY ShellIs DEF ShowChild, At
<1>2. CASE Fail(s)
  BY <1>2, FailStays
<1>3. PICK k : k = h.shown + 1
  OBVIOUS
<1>4. PICK name : name = h.names[k]
  OBVIOUS
<1>5. PICK path : path = Join(Pieces[Arg(s)], name)
  OBVIOUS
<1>6. PICK at : at = IF k = Len(h.names) THEN "reset" ELSE "child"
  OBVIOUS
<1>7. PICK put : put = Say(s, <<name>>)
  OBVIOUS
<1>8. CASE ~ Fail(s)
  <2>1. /\ MayOpen(files, path, "READONLY") /\ OpenPath(s, path, "READONLY")
        /\ shell' = [shell EXCEPT ![s].shown = k, ![s].at = at, ![s].pending = put]
    BY <1>1, <1>3, <1>4, <1>5, <1>6, <1>7, <1>8 DEF ShowChild
  <2>2. PICK g : g = [h EXCEPT !.shown = k, !.at = at, !.pending = put]
    OBVIOUS
  <2>3. shell' = [shell EXCEPT ![s] = g] /\ g.stdout = h.stdout
    BY <1>1, <2>1, <2>2 DEF Shells, Inv, System
  <2>4. shell'[s] = g /\ \A p \in Shell : p # s => shell'[p] = shell[p]
    BY <2>3 DEF Inv, System
  <2>5. path \in AllPaths
    BY <1>1, <1>3, <1>4, <1>5, ChildPath
  <2>6. "READONLY" \in Modes
    BY DEF Modes
  <2> QED BY <1>1, <2>1, <2>3, <2>4, <2>5, <2>6, OpenStays
<1> QED BY <1>2, <1>8

\* An item is put.
LEMMA PutStays ==
  ASSUME Inv, NEW s \in Shell, Put(s)
  PROVE  Stays(s)
<1>1. PICK h : h = shell[s] /\ h \in Shells /\ h.stdout \in DOMAIN fds[s]
  BY ShellIs DEF Put, StreamsFit
<1>2. PICK next : next = fds[s][h.stdout].offset + 1
  OBVIOUS
<1>3. UNCHANGED <<table, stale>> /\ fds' = [fds EXCEPT ![s][h.stdout].offset = next]
  BY <1>1, <1>2 DEF Put
<1>4. PICK put : put = Tail(h.pending)
  OBVIOUS
<1>5. PICK g : g = [h EXCEPT !.pending = put]
  OBVIOUS
<1>6. shell' = [shell EXCEPT ![s] = g] /\ g.stdout = h.stdout
  BY <1>1, <1>4, <1>5 DEF Put, Shells, Inv, System
<1>7. shell'[s] = g /\ \A p \in Shell : p # s => shell'[p] = shell[p]
  BY <1>6 DEF Inv, System
<1> QED BY <1>1, <1>3, <1>6, <1>7, MoveStays

\* What a read leaves of the shells.
LEMMA ReadErrorIs ==
  ASSUME Inv, NEW s \in Shell, ReadError(s)
  PROVE  /\ \A p \in Shell : p # s => shell'[p] = shell[p]
         /\ shell'[s].stdout = shell[s].stdout
<1>1. PICK h : h = shell[s] /\ h \in Shells
  BY ShellIs
<1>2. PICK put : put = Say(s, <<"message">>)
  OBVIOUS
<1>3. PICK g : g = [h EXCEPT !.at = "close", !.rest = << >>, !.pending = put]
  OBVIOUS
<1>4. shell' = [shell EXCEPT ![s] = g] /\ g.stdout = h.stdout
  BY <1>1, <1>2, <1>3 DEF ReadError, Shells, Inv, System
<1> QED BY <1>1, <1>4 DEF Inv, System

\* cat or the relay reads.
LEMMA ReadStays ==
  ASSUME Inv, NEW s \in Shell, ReadChunk(s) \/ RelayInput(s)
  PROVE  Stays(s)
<1>1. PICK h : h = shell[s] /\ h \in Shells
  BY ShellIs
<1>2. ASSUME NEW fd \in DOMAIN fds[s], NEW end, UNCHANGED <<table, fd_counter, stale>>,
             fds' = fds \/ fds' = [fds EXCEPT ![s][fd].offset = end],
             \A p \in Shell : p # s => shell'[p] = shell[p], shell'[s].stdout = shell[s].stdout
      PROVE  Stays(s)
  <2>1. CASE fds' = fds
    <3>1. UNCHANGED kernel
      BY <1>2, <2>1 DEF kernel
    <3> QED BY <1>2, <3>1, QuietStays
  <2>2. CASE fds' = [fds EXCEPT ![s][fd].offset = end]
    BY <1>2, <2>2, MoveStays
  <2> QED BY <1>2, <2>1, <2>2
<1>3. CASE ReadChunk(s)
  <2>1. PICK fd : fd = h.fd
    OBVIOUS
  <2>2. fd \in DOMAIN fds[s]
    BY <1>1, <1>3, <2>1, ShellIs DEF ReadChunk, At, ArgFits, Working
  <2>3. PICK offset : offset = fds[s][fd].offset
    OBVIOUS
  <2>4. PICK content : content = files[fds[s][fd].node].content
    OBVIOUS
  <2>5. PICK end : end = IF offset + Chunk < Len(content) THEN offset + Chunk ELSE Len(content)
    OBVIOUS
  <2>6. PICK put : put = Say(s, SubSeq(content, offset + 1, end))
    OBVIOUS
  <2>7. PICK rest : rest = IF h.last \in Partial THEN <<"newline">> ELSE << >>
    OBVIOUS
  <2>8. PICK last : last = content[end]
    OBVIOUS
  <2>9. UNCHANGED <<table, fd_counter, stale>>
    BY <1>3 DEF ReadChunk
  <2>10. /\ fds' = fds \/ fds' = [fds EXCEPT ![s][fd].offset = end]
         /\ \/ ReadError(s)
            \/ shell' = [shell EXCEPT ![s].last = last, ![s].pending = put]
            \/ shell' = [shell EXCEPT ![s].at = "close", ![s].rest = rest]
            \/ shell' = shell
    BY <1>1, <1>3, <2>1, <2>3, <2>4, <2>5, <2>6, <2>7, <2>8 DEF ReadChunk
  <2>11. CASE ReadError(s)
    BY <1>2, <2>2, <2>9, <2>10, <2>11, ReadErrorIs
  <2>12. CASE shell' = [shell EXCEPT ![s].last = last, ![s].pending = put]
    <3>1. PICK g : g = [h EXCEPT !.last = last, !.pending = put]
      OBVIOUS
    <3>2. shell' = [shell EXCEPT ![s] = g] /\ g.stdout = h.stdout
      BY <1>1, <2>12, <3>1 DEF Shells, Inv, System
    <3>3. shell'[s] = g /\ \A p \in Shell : p # s => shell'[p] = shell[p]
      BY <3>2 DEF Inv, System
    <3> QED BY <1>1, <1>2, <2>2, <2>9, <2>10, <3>2, <3>3
  <2>13. CASE shell' = [shell EXCEPT ![s].at = "close", ![s].rest = rest]
    <3>1. PICK g : g = [h EXCEPT !.at = "close", !.rest = rest]
      OBVIOUS
    <3>2. shell' = [shell EXCEPT ![s] = g] /\ g.stdout = h.stdout
      BY <1>1, <2>13, <3>1 DEF Shells, Inv, System
    <3>3. shell'[s] = g /\ \A p \in Shell : p # s => shell'[p] = shell[p]
      BY <3>2 DEF Inv, System
    <3> QED BY <1>1, <1>2, <2>2, <2>9, <2>10, <3>2, <3>3
  <2>14. CASE shell' = shell
    BY <1>2, <2>2, <2>9, <2>10, <2>14
  <2> QED BY <2>10, <2>11, <2>12, <2>13, <2>14
<1>4. CASE RelayInput(s)
  <2>1. PICK fd : fd = h.stdin
    OBVIOUS
  <2>2. fd \in DOMAIN fds[s]
    BY <1>1, <1>4, <2>1, ShellIs DEF RelayInput, StreamsFit
  <2>3. PICK end : end = Len(files[fds[s][fd].node].content)
    OBVIOUS
  <2>4. UNCHANGED <<table, fd_counter, stale>>
    BY <1>4 DEF RelayInput
  <2>5. /\ fds' = fds \/ fds' = [fds EXCEPT ![s][fd].offset = end]
        /\ Go(s, "relay", <<"message">>) \/ shell' = shell
    BY <1>1, <1>4, <2>1, <2>3 DEF RelayInput
  <2>6. CASE Go(s, "relay", <<"message">>)
    BY <1>2, <2>2, <2>4, <2>5, <2>6, GoIs
  <2>7. CASE shell' = shell
    BY <1>2, <2>2, <2>4, <2>5, <2>7
  <2> QED BY <2>5, <2>6, <2>7
<1> QED BY <1>3, <1>4

\* The shell forks.
LEMMA ForkStays ==
  ASSUME Inv, NEW s \in Shell, Fork(s)
  PROVE  Stays(s)
<1>1. PICK d, c : d = fds[s] /\ c = fd_counter[s] /\ FdsFit(files, d, c)
  BY ShellIs
<1>2. PICK opens : opens = [i \in Inode |-> Cardinality({fd \in DOMAIN d : d[fd].node = i})]
  OBVIOUS
<1>3. opens \in [Inode -> Nat]
  BY <1>1, <1>2, OpensType
<1>4. PICK u : u = table' /\ u = Inherit(table, s, Programs, opens)
  BY <1>1, <1>2 DEF Fork
<1>5. \A p \in Shell : Writes(u, p) = Writes(table, p)
  BY <1>3, <1>4, InheritKeeps DEF Inv, System
<1>6. Go(s, "relay", << >>) /\ fds' = fds /\ stale' = stale
  BY DEF Fork
<1>7. \A p \in Shell : p # s => shell'[p] = shell[p]
  BY <1>6, GoIs
<1>8. shell'[s].stdout = shell[s].stdout /\ shell[s].at # "reset"
  BY <1>6, GoIs DEF Fork, At
<1>9. Adds(fds[s], fds'[s])
  BY <1>6 DEF Adds
<1> QED BY <1>4, <1>5, <1>6, <1>7, <1>8, <1>9 DEF Stays

(***************************************************************************)
(* A close that frees a node: whoever is not listed there any more points  *)
(* to nothing, the others are listed as before.                            *)
(***************************************************************************)
LEMMA CloseFresh ==
  ASSUME Inv, Inv', Fresh, NEW s \in Shell, NEW fd \in DOMAIN fds[s], Close(s, fd),
         \A p \in Shell : p # s => shell'[p] = shell[p],
         shell'[s].stdout \in {1, shell[s].stdout}
  PROVE  Fresh'
<1>1. PICK i, d : Closes(s, fd, i, d)
  BY CloseIs
<1>2. /\ \A p \in Shell : p # s => Writes(table', p) = Writes(table, p)
      /\ \A j \in Inode : Writes(table', s)[j] > 0 => Writes(table, s)[j] > 0
      /\ fds' = [fds EXCEPT ![s] = d] /\ DOMAIN d = DOMAIN fds[s] \ {fd}
      /\ \A x \in DOMAIN d : d[x] = fds[s][x]
  BY <1>1 DEF Closes, Shared
<1>3. /\ fds'[s] = d
      /\ \A p \in Shell : p # s => fds'[p] = fds[p]
  BY <1>2 DEF Inv, System
<1>4. PICK freed : freed = table.opened \ table'.opened
  OBVIOUS
<1>5. PICK dropped : dropped = PointTo(freed)
  OBVIOUS
<1>6. stale' = (stale \cup dropped) \ {<<s, fd>>}
  BY <1>4, <1>5 DEF Close
<1>7. ASSUME NEW p \in Shell, NEW x, <<p, x>> \in dropped
      PROVE  x \in DOMAIN fds[p] /\ fds[p][x].node \in freed
  <2>1. PICK q \in Shell : <<p, x>> \in {q} \X {y \in DOMAIN fds[q] : fds[q][y].node \in freed}
    BY <1>5, <1>7 DEF PointTo
  <2> QED BY <2>1
<1>8. dropped \subseteq Owned
  <2>1. ASSUME NEW q \in Shell
        PROVE  {q} \X {y \in DOMAIN fds[q] : fds[q][y].node \in freed} \subseteq {q} \X DOMAIN fds[q]
    OBVIOUS
  <2> QED BY <1>5, <2>1 DEF PointTo, Owned
<1>9. (stale \subseteq Owned)'
  <2> SUFFICES ASSUME NEW x \in stale' PROVE x \in Owned'
    OBVIOUS
  <2>1. x \in Owned /\ x # <<s, fd>>
    BY <1>6, <1>8 DEF Fresh
  <2>2. PICK p \in Shell : \E k \in DOMAIN fds[p] : x = <<p, k>>
    BY <2>1 DEF Owned
  <2>3. PICK k \in DOMAIN fds[p] : x = <<p, k>>
    BY <2>2
  <2>4. k \in DOMAIN fds'[p]
    BY <1>2, <1>3, <2>1, <2>3
  <2> QED BY <2>3, <2>4 DEF Owned
<1>10. ASSUME NEW p \in Shell PROVE Struck(p)'
  <2>1. PICK k : k = shell'[p].stdout
    OBVIOUS
  <2> SUFFICES ASSUME k # 1, <<p, k>> \in stale'
               PROVE  ~ (Writes(table', p)[fds'[p][k].node] > 0)
    BY <2>1 DEF Struck, Dangles
  <2>2. k \in DOMAIN fds'[p]
    <3>1. <<p, k>> \in Owned'
      BY <1>9
    <3>2. PICK q \in Shell : <<p, k>> \in {q} \X DOMAIN fds'[q]
      BY <3>1 DEF Owned
    <3> QED BY <3>2
  <2>3. PICK n : n = fds'[p][k].node
    OBVIOUS
  <2>4. n = fds[p][k].node /\ k = shell[p].stdout
    BY <1>2, <1>3, <2>1, <2>2, <2>3
  <2>5. n \in Inode
    <3>1. k \in DOMAIN fds[p]
      BY <1>2, <1>3, <2>2
    <3>2. n \in DOMAIN files
      BY <2>4, <3>1, ShellIs DEF FdsFit
    <3> QED BY <3>2, InodesBound DEF Inv, System
  <2>6. CASE <<p, k>> \in stale
    <3>1. ~ (Writes(table, p)[n] > 0)
      BY <2>4, <2>6 DEF Fresh, Struck, Dangles
    <3> QED BY <1>2, <2>3, <2>5, <3>1
  <2>7. CASE <<p, k>> \in dropped
    <3>1. n \notin table'.opened
      BY <1>4, <1>7, <2>4, <2>7
    <3>2. ListedOpen(table') /\ p \in Process
      BY DEF Inv, System, Process
    <3>3. ~ (table'.writers[n][p] > 0)
      BY <2>5, <3>1, <3>2 DEF ListedOpen
    <3> QED BY <2>3, <2>5, <3>3 DEF Writes
  <2> QED BY <1>6, <2>6, <2>7
<1> QED BY <1>9, <1>10 DEF Fresh

\* ls or cat closes its descriptor, or a redirection is taken back.
LEMMA ClosingFresh ==
  ASSUME Inv, Inv', Fresh, NEW s \in Shell, CloseFd(s) \/ Reset(s)
  PROVE  Fresh'
<1>1. PICK h : h = shell[s] /\ h \in Shells
  BY ShellIs
<1>2. ASSUME NEW g, shell' = [shell EXCEPT ![s] = g]
      PROVE  shell'[s] = g /\ \A p \in Shell : p # s => shell'[p] = shell[p]
  BY <1>2 DEF Inv, System
<1>3. CASE CloseFd(s)
  <2>1. Close(s, h.fd) /\ Go(s, "reset", h.rest)
    BY <1>1, <1>3 DEF CloseFd, End
  <2>2. h.fd \in DOMAIN fds[s]
    BY <1>1, <1>3, ShellIs DEF CloseFd, At, ArgFits, Working
  <2> QED BY <1>1, <2>1, <2>2, GoIs, CloseFresh
<1>4. CASE Reset(s) /\ h.stdin # 0
  <2>1. PICK g : g = [h EXCEPT !.stdin = 0]
    OBVIOUS
  <2>2. Close(s, h.stdin) /\ shell' = [shell EXCEPT ![s].stdin = 0]
    BY <1>1, <1>4 DEF Reset
  <2>3. shell' = [shell EXCEPT ![s] = g] /\ g.stdout = h.stdout
    BY <1>1, <2>1, <2>2 DEF Shells, Inv, System
  <2>4. PICK fd \in DOMAIN fds[s] : fd = h.stdin
    BY <1>1, <1>4, ShellIs DEF StreamsFit
  <2>5. Close(s, fd) /\ shell'[s].stdout \in {1, shell[s].stdout}
    BY <1>1, <1>2, <2>2, <2>3, <2>4
  <2>6. \A p \in Shell : p # s => shell'[p] = shell[p]
    BY <1>2, <2>3
  <2> QED BY <2>5, <2>6, CloseFresh
<1>5. CASE Reset(s) /\ h.stdin = 0 /\ h.stdout # 1
  <2>1. PICK g : g = [h EXCEPT !.stdout = 1, !.at = "prompt", !.failed = FALSE]
    OBVIOUS
  <2>2. /\ Close(s, h.stdout)
        /\ shell' = [shell EXCEPT ![s].stdout = 1, ![s].at = "prompt", ![s].failed = FALSE]
    BY <1>1, <1>5 DEF Reset
  <2>3. shell' = [shell EXCEPT ![s] = g] /\ g.stdout = 1
    BY <1>1, <2>1, <2>2 DEF Shells, Inv, System
  <2>4. PICK fd \in DOMAIN fds[s] : fd = h.stdout
    BY <1>1, <1>5, ShellIs DEF StreamsFit
  <2>5. Close(s, fd) /\ shell'[s].stdout \in {1, shell[s].stdout}
    BY <1>1, <1>2, <2>2, <2>3, <2>4
  <2>6. \A p \in Shell : p # s => shell'[p] = shell[p]
    BY <1>2, <2>3
  <2> QED BY <2>5, <2>6, CloseFresh
<1>6. CASE Reset(s) /\ h.stdin = 0 /\ h.stdout = 1
  <2>1. PICK g : g = [h EXCEPT !.at = "prompt", !.failed = FALSE]
    OBVIOUS
  <2>2. UNCHANGED kernel /\ shell' = [shell EXCEPT ![s].at = "prompt", ![s].failed = FALSE]
    BY <1>1, <1>6 DEF Reset
  <2>3. shell' = [shell EXCEPT ![s] = g] /\ g.stdout = h.stdout
    BY <1>1, <2>1, <2>2 DEF Shells, Inv, System
  <2> QED BY <1>1, <2>2, <2>3, AloneStays, StaysFresh
<1> QED BY <1>3, <1>4, <1>5, <1>6

(***************************************************************************)
(* A file under a shell's output is never freed while the shell is listed  *)
(* at it.                                                                  *)
(***************************************************************************)
THEOREM Freshness == Spec => [](Inv /\ Fresh)
<1>1. Init => Inv /\ Fresh
  <2> SUFFICES ASSUME Init PROVE Fresh
    BY InitHolds
  <2>1. stale = {}
    BY DEF Init
  <2> QED BY <2>1 DEF Fresh, Struck, Dangles
<1>2. Inv /\ Inv' /\ Fresh /\ [Next]_vars => Fresh'
  <2> SUFFICES ASSUME Inv, Inv', Fresh, [Next]_vars PROVE Fresh'
    OBVIOUS
  <2>1. CASE UNCHANGED vars
    <3>1. table' = table /\ fds' = fds /\ stale' = stale /\ shell' = shell
      BY <2>1 DEF vars, kernel
    <3> QED BY <3>1 DEF Fresh, Owned, Struck, Dangles
  <2>2. ASSUME NEW s \in Shell, ReadLine(s) \/ Works(s) PROVE Fresh'
    <3>1. CASE CloseFd(s) \/ Reset(s)
      BY <3>1, ClosingFresh
    <3>2. CASE ReadLine(s)
      BY <3>2, ReadLineStays, StaysFresh
    <3>3. CASE OpenOutput(s) \/ OpenInput(s)
      BY <3>3, RedirectStays, StaysFresh
    <3>4. CASE CreateOutput(s) \/ PutFreed(s) \/ Echo(s) \/ RelayEnd(s)
      BY <3>4, QuietActions, StaysFresh
    <3>5. CASE Put(s)
      BY <3>5, PutStays, StaysFresh
    <3>6. CASE Mkdir(s)
      BY <3>6, MkdirStays, StaysFresh
    <3>7. CASE Ls(s) \/ Cat(s) \/ External(s)
      BY <3>7, OpenerStays, StaysFresh
    <3>8. CASE GetChildren(s)
      BY <3>8, GetChildrenStays, StaysFresh
    <3>9. CASE ShowChild(s)
      BY <3>9, ShowChildStays, StaysFresh
    <3>10. CASE ReadChunk(s) \/ RelayInput(s)
      BY <3>10, ReadStays, StaysFresh
    <3>11. CASE Fork(s)
      BY <3>11, ForkStays, StaysFresh
    <3> QED BY <2>2, <3>1, <3>2, <3>3, <3>4, <3>5, <3>6, <3>7, <3>8, <3>9, <3>10, <3>11 DEF Works
  <2> QED BY <2>1, <2>2 DEF Next
<1> QED BY <1>1, <1>2, Invariance, PTL DEF Spec

-----------------------------------------------------------------------------
(* The properties                                                          *)

\* Every entry is found.
THEOREM EveryEntryFoundHolds == Spec => []EveryEntryFound
<1>1. Inv => EveryEntryFound
  <2> SUFFICES ASSUME Inv PROVE EveryEntryFound
    OBVIOUS
  <2>1. files \in Trees
    BY DEF Inv, System
  <2>2. ASSUME NEW path \in Range(Pieces), NEW dir, dir = GetInode(files, path), dir # NoInode,
               IsDirectory(files, dir), NEW e \in Range(files[dir].content), Named(e.name)
        PROVE  GetInode(files, Join(path, e.name)) = e.inode
    <3>1. path \in AllPaths
      <4>1. PICK token \in DOMAIN Pieces : path = Pieces[token]
        BY DEF Range
      <4> QED BY <4>1, PiecesIs
    <3>2. PICK k \in DOMAIN files[dir].content : e = files[dir].content[k]
      BY DEF Range
    <3> QED BY <2>1, <2>2, <3>1, <3>2, JoinFound
  <2> QED BY <2>2 DEF EveryEntryFound, Named
<1> QED BY <1>1, Invariance, PTL

\* A redirection ends with its command.
THEOREM RedirectionEndsHolds == Spec => []RedirectionEnds
<1>1. Inv /\ Fresh => RedirectionEnds
  <2> SUFFICES ASSUME Inv, Fresh PROVE RedirectionEnds
    OBVIOUS
  <2>1. DOMAIN files = 0 .. Cardinality(DOMAIN files) - 1
    BY TreeType DEF Inv, System
  <2>2. table.opened \subseteq DOMAIN files /\ halted \in BOOLEAN
    BY DEF Inv, System
  <2>3. ASSUME NEW s \in Shell
        PROVE  /\ fd_counter[s] \in Nat
               /\ DOMAIN fds[s] \subseteq 2 .. fd_counter[s] - 1
               /\ shell[s].stdin \in {0} \cup DOMAIN fds[s]
               /\ shell[s].stdout \in {1} \cup DOMAIN fds[s]
    BY ShellIs DEF FdsFit, StreamsFit
  <2>4. TypeOK
    BY <2>1, <2>2, <2>3 DEF TypeOK, Fresh, Owned
  <2>5. ASSUME NEW s \in Shell, shell[s].at = "prompt"
        PROVE  /\ shell[s].stdin = 0
               /\ shell[s].stdout # 1 => /\ shell[s].failed
                                         /\ fds[s][shell[s].stdout].mode = "WRITEONLY"
    BY <2>5, ShellIs DEF PlaceFits, StreamsFit, Early
  <2> QED BY <2>4, <2>5 DEF RedirectionEnds
<1> QED BY <1>1, Freshness, PTL

\* A prefix, as SequencesExt defines it.
LEMMA PrefixIs ==
  ASSUME NEW a \in Seq(Items), NEW b \in Seq(Items), Extends(a, b)
  PROVE  IsPrefix(a, b)
<1>1. PICK n \in Nat : n = Len(a) /\ n <= Len(b)
  BY DEF Extends
<1>2. SubSeq(a, 1, n) = [k \in 1 .. n |-> a[k]]
  OBVIOUS
<1>3. SubSeq(b, 1, n) = [k \in 1 .. n |-> b[k]]
  OBVIOUS
<1>4. \A k \in 1 .. n : b[k] = a[k]
  BY <1>1 DEF Extends
<1>5. SubSeq(a, 1, n) = SubSeq(b, 1, n)
  BY <1>2, <1>3, <1>4
<1> QED BY <1>1, <1>5 DEF IsPrefix

\* ls shows a directory as it was at one moment.
THEOREM ListingCompleteHolds == Spec => []ListingComplete
<1>1. Inv => ListingComplete
  <2> SUFFICES ASSUME Inv, NEW s \in Shell, shell[s].at = "child"
               PROVE  /\ IsPrefix(Visible(shell[s].before), shell[s].names)
                      /\ IsPrefix(shell[s].names, Visible(Names(files, fds[s][shell[s].fd].node)))
    BY DEF ListingComplete
  <2>1. PICK i : i = fds[s][shell[s].fd].node
    OBVIOUS
  <2>2. PICK h : h = shell[s] /\ h \in Shells
    BY ShellIs
  <2>3. /\ IsDirectory(files, i) /\ Extends(Visible(h.before), h.names)
        /\ Extends(h.names, Visible(Names(files, i)))
    BY <2>1, <2>2, ShellIs DEF ListFits
  <2>4. i \in DOMAIN files /\ files \in Trees
    <3>1. shell[s].fd \in DOMAIN fds[s]
      BY ShellIs DEF ArgFits, Working
    <3> QED BY <2>1, <3>1, ShellIs DEF FdsFit, Inv, System
  <2>5. PICK all \in Seq(Items) : all = Names(files, i)
    BY <2>3, <2>4, NamesIs
  <2>6. PICK before \in Seq(Items) : before = h.before
    BY <2>2 DEF Shells
  <2>7. Visible(all) \in Seq(Items) /\ Visible(before) \in Seq(Items)
    <3>1. PICK n \in Nat : Visible(all) \in [1 .. n -> Items]
      BY VisibleIs
    <3>2. PICK m \in Nat : Visible(before) \in [1 .. m -> Items]
      BY VisibleIs
    <3>3. Visible(all) \in Seq(Items)
      BY <3>1
    <3>4. Visible(before) \in Seq(Items)
      BY <3>2
    <3> QED BY <3>3, <3>4
  <2>8. PICK a \in Seq(Items), b \in Seq(Items), c \in Seq(Items) :
          a = Visible(before) /\ b = h.names /\ c = Visible(all)
    BY <2>2, <2>7 DEF Shells
  <2>9. IsPrefix(a, b) /\ IsPrefix(b, c)
    BY <2>3, <2>5, <2>6, <2>8, PrefixIs
  <2> QED BY <2>1, <2>2, <2>5, <2>6, <2>8, <2>9
<1> QED BY <1>1, Invariance, PTL

\* The file a shell writes to stays open under it.
THEOREM OutputHeldHolds == Spec => []OutputHeld
<1>1. Inv /\ Fresh => OutputHeld
  <2> SUFFICES ASSUME Inv, Fresh, NEW s \in Shell, shell[s].stdout # 1, Dangles(s, shell[s].stdout)
               PROVE  ReadsOutput(s)
    BY DEF OutputHeld
  <2>1. PICK fd, i : fd = shell[s].stdout /\ i = fds[s][fd].node
    OBVIOUS
  <2>2. Writes(table, s)[i] > 0 \/ ReadBy(files, shell[s], i)
    BY <2>1, ShellIs DEF HeldFits
  <2>3. ~ (Writes(table, s)[i] > 0)
    BY <2>1 DEF Fresh, Struck
  <2> QED BY <2>1, <2>2, <2>3 DEF ReadBy, Reads, ReadsOutput
<1> QED BY <1>1, Freshness, PTL
=============================================================================
