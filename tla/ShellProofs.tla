---------------------------- MODULE ShellProofs ----------------------------
(***************************************************************************)
(* Proofs that the shell's relay between a terminal and a child keeps the  *)
(* order of what it carries, for pipes, chunks and a buffer of any size.   *)
(***************************************************************************)
EXTENDS Shell, ListLemmas

-----------------------------------------------------------------------------
(* The buffer and its loops                                                *)

\* The states of the shell's buffer.
Buffers == Rings(BufferSize, Nat)

\* How many bytes it still takes.
Room(q) == BufferSize - q.size

\* The buffer's queue is the ring of the lemmas.
LEMMA BufferItems == \A q : Queue!Items(q) = Ring!Items(q)
BY DEF Queue!Items, Ring!Items, Queue!Capacity, Ring!Capacity,
       Queue!Cardinality, Ring!Cardinality

\* So are its operations.
LEMMA BufferIsRing ==
  ASSUME NEW q, NEW x
  PROVE  /\ Queue!Push(q, x) = Ring!Push(q, x)
         /\ Queue!PushFront(q, x) = Ring!PushFront(q, x)
         /\ Queue!Pop(q, x) = Ring!Pop(q, x)
<1> USE DEF Queue!Capacity, Ring!Capacity, Queue!Cardinality, Ring!Cardinality
<1>1. Queue!Push(q, x) = Ring!Push(q, x)
  BY DEF Queue!Push, Ring!Push, Queue!Full, Ring!Full
<1>2. Queue!PushFront(q, x) = Ring!PushFront(q, x)
  BY DEF Queue!PushFront, Ring!PushFront, Queue!Full, Ring!Full
<1>3. Queue!Pop(q, x) = Ring!Pop(q, x)
  BY DEF Queue!Pop, Ring!Pop
<1> QED BY <1>1, <1>2, <1>3

\* The states the buffer goes through while PushAll pushes the bytes, and PushBack.
PushRun(run, T, q0, bytes) ==
  /\ run \in [0 .. Len(bytes) -> T]
  /\ run[0] = q0
  /\ \A k \in 1 .. Len(bytes) : run[k] = Queue!Push(run[k - 1], bytes[k])
  /\ PushAll(q0, bytes) = run[Len(bytes)]

PushFrontRun(run, T, q0, bytes) ==
  /\ run \in [0 .. Len(bytes) -> T]
  /\ run[0] = q0
  /\ \A k \in 1 .. Len(bytes) : run[k] = Queue!PushFront(run[k - 1], bytes[k])
  /\ PushBack(q0, bytes) = run[Len(bytes)]

\* The loop of PushAll.
LEMMA PushAllRun ==
  ASSUME NEW T, NEW q0 \in T, NEW bytes \in Seq(Nat),
         \A q \in T, b \in Nat : Queue!Push(q, b) \in T
  PROVE  \E run : PushRun(run, T, q0, bytes)
<1> DEFINE N == Len(bytes)
           step == [p \in T \X (1 .. N) |-> Queue!Push(p[1], bytes[p[2]])]
           Is(it) == it = [s \in SUBSET (1 .. N) |->
                IF s = {} THEN q0 ELSE Queue!Push(it[s \ {Max(s)}], bytes[Max(s)])]
<1>1. N \in Nat /\ DOMAIN bytes = 1 .. N /\ \A i \in 1 .. N : bytes[i] \in Nat
  OBVIOUS
<1>2. step \in [T \X (1 .. N) -> T]
  BY <1>1
<1>3. PushAll(q0, bytes) = (CHOOSE it : Is(it))[1 .. N]
  BY <1>1 DEF PushAll, FoldLeft, MapThenFoldSet
<1> HIDE DEF N
<1>4. PICK g : IsFold(g, N, T, q0, step)
  <2> HIDE DEF step
  <2> QED BY <1>1, <1>2, FoldExists
<1>5. ASSUME NEW s \in SUBSET (1 .. N), s # {}
      PROVE  /\ Max(s) \in 1 .. N
             /\ step[<<g[s \ {Max(s)}], Max(s)>>] = Queue!Push(g[s \ {Max(s)}], bytes[Max(s)])
  BY <1>1, <1>4, <1>5, MaxUpTo DEF IsFold
<1>6. Is(g)
  BY <1>4, <1>5 DEF IsFold
<1>7. PICK h : Is(h) /\ PushAll(q0, bytes) = h[1 .. N]
  BY <1>3, <1>6
<1> HIDE DEF step
<1>8. h[{}] = q0
  BY <1>7
<1>9. ASSUME NEW k \in 1 .. N PROVE h[1 .. k] = Queue!Push(h[1 .. k - 1], bytes[k])
  <2>1. k \in Nat \ {0} /\ k \in 1 .. k /\ 1 .. k \in SUBSET (1 .. N)
    BY <1>1
  <2>2. Max(1 .. k) = k /\ (1 .. k) \ {k} = 1 .. k - 1
    BY <2>1, MaxOfInterval
  <2> QED BY <1>7, <2>1, <2>2
<1>10. Unfolds(h, N, T, q0, step)
  BY <1>8, <1>9 DEF step, Unfolds
<1>11. PICK run : IsRun(run, h, N, T, q0, step)
  BY <1>1, <1>2, <1>10, FoldRun
<1>12. ASSUME NEW k \in 1 .. N PROVE run[k] = Queue!Push(run[k - 1], bytes[k])
  <2>1. k - 1 \in 0 .. N
    BY <1>1
  <2>2. run[k - 1] \in T /\ run[k] = step[<<run[k - 1], k>>]
    BY <1>11, <2>1 DEF IsRun
  <2> QED BY <2>2 DEF step
<1> QED BY <1>7, <1>11, <1>12 DEF N, IsRun, PushRun

\* PushAll keeps what there is room for.
LEMMA PushAllItems ==
  ASSUME NEW q0 \in Buffers, NEW bytes \in Seq(Nat)
  PROVE  /\ PushAll(q0, bytes) \in Buffers
         /\ Queue!Items(PushAll(q0, bytes)) =
              Queue!Items(q0) \o SubSeq(bytes, 1, Least(Len(bytes), Room(q0)))
<1> PICK N \in Nat : N = Len(bytes)
  OBVIOUS
<1> DEFINE Kept(k) == Least(k, Room(q0))
<1>1. /\ BufferSize \in Nat \ {0} /\ q0.size \in 0 .. BufferSize
      /\ DOMAIN bytes = 1 .. N /\ \A k \in 1 .. N : bytes[k] \in Nat
  BY ShellAssumption, SMTT(30) DEF Buffers, Rings
<1>2. \A q \in Buffers, b \in Nat : Queue!Push(q, b) \in Buffers
  BY <1>1, RingPush, BufferIsRing DEF Buffers
<1>3. PICK run : PushRun(run, Buffers, q0, bytes)
  BY <1>2, PushAllRun
<1>r. /\ run \in [0 .. N -> Buffers]
      /\ run[0] = q0
      /\ \A k \in 1 .. N : run[k] = Queue!Push(run[k - 1], bytes[k])
      /\ PushAll(q0, bytes) = run[N]
  BY <1>1, <1>3 DEF PushRun
<1> DEFINE Good(k) == /\ run[k].size = q0.size + Kept(k)
                      /\ Queue!Items(run[k]) = Queue!Items(q0) \o SubSeq(bytes, 1, Kept(k))
           S == {k \in 0 .. N : Good(k)}
<1>i. Queue!Items(q0) \in Seq(Nat)
  BY <1>1, RingItems, BufferItems DEF Buffers
<1>4. Good(0)
  <2>1. Kept(0) = 0
    BY <1>1 DEF Least, Room
  <2>2. SubSeq(bytes, 1, 0) = << >>
    BY SubSeqEmpty
  <2>3. Queue!Items(q0) \o << >> = Queue!Items(q0)
    BY <1>i, ConcatEmptySeq
  <2> QED BY <1>1, <1>r, <2>1, <2>2, <2>3, SMTT(30)
<1>5. ASSUME NEW k \in 0 .. N - 1, Good(k) PROVE Good(k + 1)
  <2>1. k + 1 \in 1 .. N /\ (k + 1) - 1 = k /\ k \in 0 .. N
    BY <1>1
  <2>2. run[k] \in Buffers /\ bytes[k + 1] \in Nat
    BY <1>1, <1>r, <2>1
  <2>3. run[k + 1] = Ring!Push(run[k], bytes[k + 1])
    BY <1>r, <2>1, BufferIsRing
  <2>4. Queue!Items(run[k]) = Ring!Items(run[k]) /\ Queue!Items(run[k + 1]) = Ring!Items(run[k + 1])
    BY BufferItems
  <2>5. CASE k < Room(q0)
    <3>1. Kept(k) = k /\ Kept(k + 1) = k + 1 /\ run[k].size < BufferSize
      BY <1>1, <1>5, <2>5 DEF Least, Room
    <3>2. /\ run[k + 1].size = run[k].size + 1
          /\ Ring!Items(run[k + 1]) = Append(Ring!Items(run[k]), bytes[k + 1])
      BY <1>1, <2>2, <2>3, <3>1, RingPush, SMTT(30) DEF Buffers
    <3> DEFINE kept == SubSeq(bytes, 1, k)
    <3>3. kept \in Seq(Nat) /\ SubSeq(bytes, 1, k + 1) = kept \o <<bytes[k + 1]>>
      <4>1. k \in 0 .. Len(bytes) /\ k + 1 \in 1 .. Len(bytes) /\ 1 \in 1 .. Len(bytes)
        BY <1>1, <2>1
      <4>2. kept \in Seq(Nat)
        BY <4>1, Split
      <4>3. SubSeq(bytes, 1, k + 1) = SubSeq(bytes, 1, (k + 1) - 1) \o <<bytes[k + 1]>>
        BY <4>1, SubSeqRecursiveSecond
      <4> QED BY <2>1, <4>2, <4>3
    <3>4. PICK e \in Seq(Nat) : e = <<bytes[k + 1]>>
      <4>1. <<bytes[k + 1]>> \in Seq(Nat)
        BY <2>2
      <4> QED BY <4>1, Zenon
    <3>5. Append(Queue!Items(q0) \o kept, bytes[k + 1]) = (Queue!Items(q0) \o kept) \o e
      BY <1>i, <2>2, <3>3, <3>4, AppendIsConcat, ConcatProperties
    <3> HIDE DEF kept
    <3>6. (Queue!Items(q0) \o kept) \o e = Queue!Items(q0) \o (kept \o e)
      <4>1. PICK items \in Seq(Nat) : items = Queue!Items(q0)
        BY <1>i
      <4>2. PICK front \in Seq(Nat) : front = kept
        BY <3>3
      <4>3. (items \o front) \o e = items \o (front \o e)
        BY ConcatNat
      <4> QED BY <4>1, <4>2, <4>3, Zenon
    <3>7. Queue!Items(run[k + 1]) = Queue!Items(q0) \o SubSeq(bytes, 1, k + 1)
      <4>1. Queue!Items(run[k]) = Queue!Items(q0) \o kept
        BY <1>5, <3>1 DEF kept
      <4> QED BY <2>4, <3>2, <3>3, <3>4, <3>5, <3>6, <4>1
    <3>8. run[k].size = q0.size + k
      BY <1>5, <3>1
    <3>9. run[k + 1].size = q0.size + (k + 1)
      BY <1>1, <3>2, <3>8, SMTT(30)
    <3> QED BY <3>1, <3>7, <3>9
  <2>6. CASE k >= Room(q0)
    <3>1. Kept(k) = Room(q0) /\ Kept(k + 1) = Room(q0) /\ run[k].size = BufferSize
      <4>1. Kept(k) = Room(q0) /\ Kept(k + 1) = Room(q0)
        BY <1>1, <2>6 DEF Least, Room
      <4>2. run[k].size = q0.size + Room(q0)
        BY <1>5, <4>1
      <4>3. PICK a \in Nat : a = q0.size
        BY <1>1
      <4>4. BufferSize \in Nat /\ Room(q0) = BufferSize - q0.size
        BY <1>1 DEF Room
      <4>5. q0.size + Room(q0) = BufferSize
        BY ONLY <4>3, <4>4
      <4> QED BY ONLY <4>1, <4>2, <4>5
    <3>2. run[k + 1] = run[k]
      BY <1>1, <2>2, <2>3, <3>1, RingPush DEF Buffers
    <3> QED BY <1>5, <3>1, <3>2
  <2> HIDE DEF Good
  <2> QED BY <1>1, <2>5, <2>6 DEF Room
<1> HIDE DEF Good
<1>6. 0 .. N \subseteq S
  <2>1. 0 \in S
    BY <1>4
  <2>2. \A k \in 0 .. N - 1 : k \in S => k + 1 \in S
    BY <1>5
  <2> HIDE DEF S
  <2> QED BY <2>1, <2>2, IntervalInduction
<1>7. Good(N)
  BY <1>6
<1> USE DEF Good
<1> QED BY <1>1, <1>r, <1>7, SMTT(30)

\* The loop of PushBack.
LEMMA PushBackRun ==
  ASSUME NEW T, NEW q0 \in T, NEW bytes \in Seq(Nat),
         \A q \in T, b \in Nat : Queue!PushFront(q, b) \in T
  PROVE  \E run : PushFrontRun(run, T, q0, bytes)
<1> DEFINE N == Len(bytes)
           step == [p \in T \X (1 .. N) |-> Queue!PushFront(p[1], bytes[p[2]])]
           Is(it) == it = [s \in SUBSET (1 .. N) |->
                IF s = {} THEN q0 ELSE Queue!PushFront(it[s \ {Max(s)}], bytes[Max(s)])]
<1>1. N \in Nat /\ DOMAIN bytes = 1 .. N /\ \A i \in 1 .. N : bytes[i] \in Nat
  OBVIOUS
<1>2. step \in [T \X (1 .. N) -> T]
  BY <1>1
<1>3. PushBack(q0, bytes) = (CHOOSE it : Is(it))[1 .. N]
  BY <1>1 DEF PushBack, FoldLeft, MapThenFoldSet
<1> HIDE DEF N
<1>4. PICK g : IsFold(g, N, T, q0, step)
  <2> HIDE DEF step
  <2> QED BY <1>1, <1>2, FoldExists
<1>5. ASSUME NEW s \in SUBSET (1 .. N), s # {}
      PROVE  /\ Max(s) \in 1 .. N
             /\ step[<<g[s \ {Max(s)}], Max(s)>>] = Queue!PushFront(g[s \ {Max(s)}], bytes[Max(s)])
  BY <1>1, <1>4, <1>5, MaxUpTo DEF IsFold
<1>6. Is(g)
  BY <1>4, <1>5 DEF IsFold
<1>7. PICK h : Is(h) /\ PushBack(q0, bytes) = h[1 .. N]
  BY <1>3, <1>6
<1> HIDE DEF step
<1>8. h[{}] = q0
  BY <1>7
<1>9. ASSUME NEW k \in 1 .. N PROVE h[1 .. k] = Queue!PushFront(h[1 .. k - 1], bytes[k])
  <2>1. k \in Nat \ {0} /\ k \in 1 .. k /\ 1 .. k \in SUBSET (1 .. N)
    BY <1>1
  <2>2. Max(1 .. k) = k /\ (1 .. k) \ {k} = 1 .. k - 1
    BY <2>1, MaxOfInterval
  <2> QED BY <1>7, <2>1, <2>2
<1>10. Unfolds(h, N, T, q0, step)
  BY <1>8, <1>9 DEF step, Unfolds
<1>11. PICK run : IsRun(run, h, N, T, q0, step)
  BY <1>1, <1>2, <1>10, FoldRun
<1>12. ASSUME NEW k \in 1 .. N PROVE run[k] = Queue!PushFront(run[k - 1], bytes[k])
  <2>1. k - 1 \in 0 .. N
    BY <1>1
  <2>2. run[k - 1] \in T /\ run[k] = step[<<run[k - 1], k>>]
    BY <1>11, <2>1 DEF IsRun
  <2> QED BY <2>2 DEF step
<1> QED BY <1>7, <1>11, <1>12 DEF N, IsRun, PushFrontRun

\* PushBack puts the bytes in front, the last one first, if they fit.
LEMMA PushBackItems ==
  ASSUME NEW q0 \in Buffers, NEW bytes \in Seq(Nat), Len(bytes) <= Room(q0)
  PROVE  /\ PushBack(q0, bytes) \in Buffers
         /\ Queue!Items(PushBack(q0, bytes)) = Reverse(bytes) \o Queue!Items(q0)
<1> PICK N \in Nat : N = Len(bytes)
  OBVIOUS
<1> DEFINE Turned(k) == Reverse(SubSeq(bytes, 1, k))
<1>1. /\ BufferSize \in Nat \ {0} /\ q0.size \in 0 .. BufferSize
      /\ DOMAIN bytes = 1 .. N /\ \A k \in 1 .. N : bytes[k] \in Nat
  BY ShellAssumption, SMTT(30) DEF Buffers, Rings
<1>2. \A q \in Buffers, b \in Nat : Queue!PushFront(q, b) \in Buffers
  <2> SUFFICES ASSUME NEW q \in Buffers, NEW b \in Nat PROVE Queue!PushFront(q, b) \in Buffers
    OBVIOUS
  <2>1. Ring!PushFront(q, b) \in Rings(BufferSize, Nat)
    BY <1>1, RingPushFront DEF Buffers
  <2> QED BY <2>1, BufferIsRing DEF Buffers
<1>3. PICK run : PushFrontRun(run, Buffers, q0, bytes)
  BY <1>2, PushBackRun
<1>r. /\ run \in [0 .. N -> Buffers]
      /\ run[0] = q0
      /\ \A k \in 1 .. N : run[k] = Queue!PushFront(run[k - 1], bytes[k])
      /\ PushBack(q0, bytes) = run[N]
  BY <1>1, <1>3 DEF PushFrontRun
<1> DEFINE Good(k) == /\ run[k].size = q0.size + k
                      /\ Queue!Items(run[k]) = Turned(k) \o Queue!Items(q0)
           S == {k \in 0 .. N : Good(k)}
<1>i. Queue!Items(q0) \in Seq(Nat)
  BY <1>1, RingItems, BufferItems DEF Buffers
<1>t. \A k \in 0 .. N : Turned(k) \in Seq(Nat)
  BY Split, ReverseProperties
<1>4. Good(0)
  <2>1. Turned(0) = << >>
    <3>1. SubSeq(bytes, 1, 0) = << >>
      BY SubSeqEmpty
    <3> QED BY <3>1 DEF Reverse
  <2>2. << >> \o Queue!Items(q0) = Queue!Items(q0)
    BY <1>i, ConcatEmptySeq
  <2>3. q0.size = q0.size + 0
    BY <1>1
  <2> HIDE DEF Turned
  <2> QED BY <1>r, <2>1, <2>2, <2>3, Zenon
<1>5. ASSUME NEW k \in 0 .. N - 1, Good(k) PROVE Good(k + 1)
  <2>1. k + 1 \in 1 .. N /\ (k + 1) - 1 = k /\ k \in 0 .. N /\ k + 1 \in 0 .. N
    BY <1>1
  <2>2. run[k] \in Buffers /\ bytes[k + 1] \in Nat
    BY <1>1, <1>r, <2>1
  <2>3. run[k + 1] = Ring!PushFront(run[k], bytes[k + 1])
    BY <1>r, <2>1, BufferIsRing
  <2>4. Queue!Items(run[k]) = Ring!Items(run[k]) /\ Queue!Items(run[k + 1]) = Ring!Items(run[k + 1])
    BY BufferItems
  <2>5. run[k].size < BufferSize
    BY <1>1, <1>5 DEF Room
  <2>6. /\ run[k + 1].size = run[k].size + 1
        /\ Ring!Items(run[k + 1]) = <<bytes[k + 1]>> \o Ring!Items(run[k])
    <3>1. PICK q \in Rings(BufferSize, Nat) : q = run[k]
      BY <2>2 DEF Buffers
    <3>2. PICK x \in Nat : x = bytes[k + 1]
      BY <2>2
    <3>3. BufferSize \in Nat \ {0} /\ q.size < BufferSize
      BY <1>1, <2>5, <3>1
    <3>4. PICK p : p = Ring!PushFront(q, x)
      OBVIOUS
    <3>5. p.size = q.size + 1 /\ Ring!Items(p) = <<x>> \o Ring!Items(q)
      BY <3>3, <3>4, RingPushFront, SMTT(30)
    <3> QED BY ONLY <2>3, <3>1, <3>2, <3>4, <3>5
  <2>7. PICK e \in Seq(Nat) : e = <<bytes[k + 1]>>
    <3>1. <<bytes[k + 1]>> \in Seq(Nat)
      BY <2>2
    <3> QED BY <3>1, Zenon
  <2>8. Turned(k + 1) = e \o Turned(k)
    BY <2>1, <2>7, ReverseFirst
  <2> HIDE DEF Turned
  <2>9. (e \o Turned(k)) \o Queue!Items(q0) = e \o (Turned(k) \o Queue!Items(q0))
    <3>1. PICK items \in Seq(Nat) : items = Queue!Items(q0)
      BY <1>i
    <3>2. PICK front \in Seq(Nat) : front = Turned(k)
      BY <1>t, <2>1
    <3>3. (e \o front) \o items = e \o (front \o items)
      BY ConcatNat, ZenonT(30)
    <3> QED BY <3>1, <3>2, <3>3, Zenon
  <2>10. Queue!Items(run[k + 1]) = Turned(k + 1) \o Queue!Items(q0)
    BY <1>5, <2>4, <2>6, <2>7, <2>8, <2>9
  <2>11. run[k + 1].size = q0.size + (k + 1)
    <3>1. run[k].size = q0.size + k
      BY <1>5
    <3>2. run[k + 1].size = run[k].size + 1
      BY <2>6
    <3>3. PICK a \in Nat : a = q0.size
      BY <1>1
    <3>4. k \in Nat
      BY <1>1
    <3>5. (a + k) + 1 = a + (k + 1)
      BY ONLY <3>3, <3>4
    <3> QED BY ONLY <3>1, <3>2, <3>3, <3>5
  <2> QED BY <2>10, <2>11
<1> HIDE DEF Good
<1>6. 0 .. N \subseteq S
  <2>1. 0 \in S
    BY <1>4
  <2>2. \A k \in 0 .. N - 1 : k \in S => k + 1 \in S
    BY <1>5
  <2> HIDE DEF S
  <2> QED BY <2>1, <2>2, IntervalInduction
<1>7. Good(N)
  BY <1>6
<1> USE DEF Good
<1>8. Turned(N) = Reverse(bytes)
  BY SubSeqFull
<1> HIDE DEF Turned
<1> QED BY <1>1, <1>r, <1>7, <1>8

-----------------------------------------------------------------------------
(* A path of four parts                                                    *)

\* A path of four parts.
Path(a, b, c, d) == Chain(Chain(Chain(a, b), c), d)

\* A path is a word.
LEMMA PathWords == \A a, b, c, d \in Words : Path(a, b, c, d) \in Words
BY ChainWords DEF Path

\* A stretch moves from the second part to the first.
LEMMA PathMovesFirst ==
  \A a, s, b, c, d \in Words : Path(Chain(a, s), b, c, d) = Path(a, Chain(s, b), c, d)
BY ChainWords, ChainAssociative DEF Path

\* A stretch moves from the third part to the second.
LEMMA PathMovesSecond ==
  \A a, b, s, c, d \in Words : Path(a, Chain(b, s), c, d) = Path(a, b, Chain(s, c), d)
BY ChainWords, ChainAssociative DEF Path

\* A stretch moves from the fourth part to the third.
LEMMA PathMovesThird ==
  \A a, b, c, s, d \in Words : Path(a, b, Chain(c, s), d) = Path(a, b, c, Chain(s, d))
<1> TAKE a, b, c, s, d \in Words
<1>1. Chain(a, b) \in Words /\ Chain(Chain(a, b), c) \in Words
  BY ChainWords
<1> QED BY <1>1, ChainAssociative DEF Path

\* A path grows at its end.
LEMMA PathGrows ==
  \A a, b, c, d, e \in Words : Path(a, b, c, Chain(d, e)) = Chain(Path(a, b, c, d), e)
<1> TAKE a, b, c, d, e \in Words
<1>1. Chain(Chain(a, b), c) \in Words
  BY ChainWords
<1> QED BY <1>1, ChainAssociative DEF Path

\* What thins a part thins the path.
LEMMA PathThin ==
  /\ \A a, b, c, d, r \in Words : Thin(r, c) => Thin(Path(a, b, r, d), Path(a, b, c, d))
  /\ \A a, b, c, d, r \in Words : Thin(r, d) => Thin(Path(a, b, c, r), Path(a, b, c, d))
  /\ \A a, b, c, d, r \in Words : Sparse(r, c) => Sparse(Path(a, b, r, d), Path(a, b, c, d))
<1>1. ASSUME NEW a \in Words, NEW b \in Words, NEW c \in Words, NEW d \in Words, NEW r \in Words
      PROVE  /\ Thin(r, c) => Thin(Path(a, b, r, d), Path(a, b, c, d))
             /\ Thin(r, d) => Thin(Path(a, b, c, r), Path(a, b, c, d))
             /\ Sparse(r, c) => Sparse(Path(a, b, r, d), Path(a, b, c, d))
  <2>1. PICK ab \in Words : ab = Chain(a, b)
    BY ChainWords
  <2>2. Chain(ab, c) \in Words /\ Chain(ab, r) \in Words
    BY ChainWords
  <2>3. /\ Path(a, b, r, d) = Chain(Chain(ab, r), d) /\ Path(a, b, c, d) = Chain(Chain(ab, c), d)
        /\ Path(a, b, c, r) = Chain(Chain(ab, c), r)
    BY <2>1 DEF Path
  <2>4. Thin(r, c) => Thin(Path(a, b, r, d), Path(a, b, c, d))
    BY <2>2, <2>3, ChainThin
  <2>5. Thin(r, d) => Thin(Path(a, b, c, r), Path(a, b, c, d))
    BY <2>2, <2>3, ChainThin
  <2>6. Sparse(r, c) => Sparse(Path(a, b, r, d), Path(a, b, c, d))
    BY <2>2, <2>3, ChainSparse
  <2> QED BY <2>4, <2>5, <2>6
<1> QED BY <1>1

\* What a path holds.
LEMMA PathRange ==
  \A a, b, c, d \in Words :
     Range(Path(a, b, c, d)) = Range(a) \cup Range(b) \cup Range(c) \cup Range(d)
<1> TAKE a, b, c, d \in Words
<1>1. Chain(a, b) \in Words /\ Chain(Chain(a, b), c) \in Words
  BY ChainWords
<1> QED BY <1>1, ChainRange DEF Path

-----------------------------------------------------------------------------
(* The invariant                                                           *)

\* What is on its way from the keyboard to the child, with what has arrived.
InputPath == Path(given, child_stdin, Queue!Items(buffer_stdin), keyboard)

\* What is on its way from the child to the screen, with what is shown.
OutputPath == Path(shown, screen, buffer, child_stdout)

(***************************************************************************)
(* The inductive invariant.  The properties speak of one path through the  *)
(* buffer and the pipes; to be kept by a step that types, or writes, they  *)
(* need to know that nothing on the path is newer than the counter says.   *)
(***************************************************************************)
InputInv ==
  /\ typed \in 0 .. MaxTyped
  /\ buffer_stdin \in Buffers
  /\ given \in Words
  /\ child_stdin \in Words /\ Len(child_stdin) <= FIFO_SIZE
  /\ keyboard \in Words /\ Len(keyboard) <= FIFO_SIZE
  /\ Range(InputPath) \subseteq 1 .. typed
  /\ IsInjective(InputPath)
  /\ intact.input => InputPath = Upto(typed)

OutputInv ==
  /\ written \in 0 .. MaxWritten
  /\ shown \in Words
  /\ screen \in Words /\ Len(screen) <= FIFO_SIZE
  /\ buffer \in Words /\ Len(buffer) <= ChunkSize
  /\ child_stdout \in Words /\ Len(child_stdout) <= FIFO_SIZE
  /\ buffer # << >> <=> pc = "show"
  /\ Range(OutputPath) \subseteq 1 .. written
  /\ Sorted(OutputPath)
  /\ intact.output => OutputPath = Upto(written)

ControlInv ==
  /\ pc \in {"stdin", "feed", "stdout", "show", "stat", "done"}
  /\ exited \in BOOLEAN
  /\ intact \in [input : BOOLEAN, output : BOOLEAN]

IInv == InputInv /\ OutputInv /\ ControlInv

\* Split for words.
LEMMA SplitWords ==
  \A s \in Words : \A k \in 0 .. Len(s) :
     /\ SubSeq(s, 1, k) \in Words /\ Len(SubSeq(s, 1, k)) = k
     /\ SubSeq(s, k + 1, Len(s)) \in Words /\ Len(SubSeq(s, k + 1, Len(s))) = Len(s) - k
     /\ s = Chain(SubSeq(s, 1, k), SubSeq(s, k + 1, Len(s)))
BY Split, ZenonT(30) DEF Words, Chain

\* What is read and what is left make up what was there.
LEMMA ReadSplits ==
  ASSUME NEW s \in Words, NEW n \in Nat
  PROVE  /\ Taken(s, n) \in Words /\ Left(s, n) \in Words
         /\ s = Chain(Taken(s, n), Left(s, n))
         /\ Len(Taken(s, n)) <= n /\ Len(Taken(s, n)) <= Len(s) /\ Len(Left(s, n)) <= Len(s)
         /\ Left(s, n) = SubSeq(s, Len(Taken(s, n)) + 1, Len(s))
<1>1. PICK k \in 0 .. Len(s) : k = Least(n, Len(s)) /\ k <= n
  BY DEF Words, Least
<1>2. /\ SubSeq(s, 1, k) \in Words /\ Len(SubSeq(s, 1, k)) = k
      /\ SubSeq(s, k + 1, Len(s)) \in Words /\ Len(SubSeq(s, k + 1, Len(s))) = Len(s) - k
      /\ s = Chain(SubSeq(s, 1, k), SubSeq(s, k + 1, Len(s)))
  BY SplitWords
<1>3. Taken(s, n) = SubSeq(s, 1, k) /\ Left(s, n) = SubSeq(s, k + 1, Len(s))
  BY <1>1 DEF Taken, Left
<1>4. Len(s) \in Nat
  BY DEF Words
<1>5. Len(s) - k <= Len(s) /\ k <= Len(s)
  BY <1>4
<1> HIDE <1>4
<1> QED BY <1>1, <1>2, <1>3, <1>5

\* What is stored and what is not make up what was written.
LEMMA WriteSplits ==
  ASSUME NEW p \in Words, Len(p) <= FIFO_SIZE, NEW b \in Words
  PROVE  LET k == Stored(p, b)
         IN  /\ k \in 0 .. Len(b)
             /\ SubSeq(b, 1, k) \in Words /\ SubSeq(b, k + 1, Len(b)) \in Words
             /\ Len(SubSeq(b, 1, k)) = k /\ Len(SubSeq(b, k + 1, Len(b))) = Len(b) - k
             /\ b = Chain(SubSeq(b, 1, k), SubSeq(b, k + 1, Len(b)))
             /\ Extended(p, b) = Chain(p, SubSeq(b, 1, k))
             /\ Extended(p, b) \in Words /\ Len(Extended(p, b)) <= FIFO_SIZE
<1>0. FIFO_SIZE \in Nat /\ Len(p) \in Nat /\ Len(b) \in Nat
  BY ShellAssumption DEF Words
<1>1. PICK k \in 0 .. Len(b) : k = Stored(p, b) /\ Len(p) + k <= FIFO_SIZE
  BY <1>0, SMTT(30) DEF Stored, Least
<1>2. /\ SubSeq(b, 1, k) \in Words /\ Len(SubSeq(b, 1, k)) = k
      /\ SubSeq(b, k + 1, Len(b)) \in Words /\ Len(SubSeq(b, k + 1, Len(b))) = Len(b) - k
      /\ b = Chain(SubSeq(b, 1, k), SubSeq(b, k + 1, Len(b)))
  BY SplitWords
<1>3. Extended(p, b) = Chain(p, SubSeq(b, 1, k))
  BY <1>1 DEF Extended, Chain
<1>4. Chain(p, SubSeq(b, 1, k)) \in Words
  BY <1>2, ChainWords
<1>5. Len(Chain(p, SubSeq(b, 1, k))) = Len(p) + k
  <2>1. PICK t \in Seq(Nat) : t = SubSeq(b, 1, k) /\ Len(t) = k
    BY <1>2 DEF Words
  <2>2. Len(p \o t) = Len(p) + Len(t)
    BY ConcatProperties DEF Words
  <2> QED BY <2>1, <2>2 DEF Chain
<1> QED BY <1>1, <1>2, <1>3, <1>4, <1>5

\* What the buffer holds is a word.
LEMMA ItemsWords == \A q \in Buffers : Queue!Items(q) \in Words /\ Len(Queue!Items(q)) = q.size
BY ShellAssumption, RingItems, BufferItems DEF Buffers, Words

-----------------------------------------------------------------------------
(* The input                                                               *)

\* The path of the input is empty at first.
LEMMA InputInit == Init => InputInv
<1> SUFFICES ASSUME Init PROVE InputInv
  OBVIOUS
<1>1. BufferSize \in Nat \ {0} /\ MaxTyped \in Nat /\ FIFO_SIZE \in Nat
  BY ShellAssumption
<1>2. buffer_stdin \in Buffers /\ buffer_stdin.size = 0
  <2>1. (0 + 0) % BufferSize = 0
    BY <1>1
  <2> QED BY <1>1, <2>1 DEF Init, Queue!NewQueue, Buffers, Rings
<1>3. Queue!Items(buffer_stdin) = << >>
  BY <1>2, ItemsWords DEF Words
<1>4. << >> \in Words /\ InputPath = << >>
  <2>1. << >> \in Words /\ Chain(<< >>, << >>) = << >>
    <3>1. << >> \in Words
      BY DEF Words
    <3> QED BY <3>1, ChainEmpty
  <2> QED BY <1>3, <2>1 DEF Init, InputPath, Path
<1>5. Range(<< >>) = {} /\ IsInjective(<< >>) /\ Upto(0) = << >> /\ Len(<< >>) = 0
  BY DEF Range, IsInjective, Upto
<1> QED BY <1>1, <1>2, <1>4, <1>5 DEF Init, InputInv

\* A byte that is read from the keyboard goes to the end of the buffer, or is lost.
LEMMA ReadStdinInput ==
  ASSUME InputInv, ControlInv, ReadStdin
  PROVE  InputInv'
<1>1. ChunkSize \in Nat /\ BufferSize \in Nat /\ FIFO_SIZE \in Nat
  BY ShellAssumption
<1>2. PICK bytes \in Words : bytes = Taken(keyboard, ChunkSize)
  BY <1>1, ReadSplits DEF InputInv
<1>3. PICK l \in Words : l = Left(keyboard, ChunkSize) /\ Len(l) <= Len(keyboard)
  BY <1>1, ReadSplits DEF InputInv
<1>4. keyboard = Chain(bytes, l)
  BY <1>1, <1>2, <1>3, ReadSplits DEF InputInv
<1>5. buffer_stdin.size \in 0 .. BufferSize
  BY DEF InputInv, Buffers, Rings
<1>6. PICK m \in 0 .. Len(bytes) :
        /\ m = Least(Len(bytes), Room(buffer_stdin))
        /\ Len(bytes) <= BufferSize - buffer_stdin.size => m = Len(bytes)
  BY <1>1, <1>5 DEF Words, Least, Room
<1>7. PICK s \in Words : s = SubSeq(bytes, 1, m)
  BY Split DEF Words
<1>8. PICK t \in Words : t = SubSeq(bytes, m + 1, Len(bytes)) /\ Len(t) = Len(bytes) - m
  BY Split, ZenonT(30) DEF Words
<1>9. bytes = Chain(s, t)
  BY <1>7, <1>8, SplitWords
<1>10. /\ buffer_stdin' \in Buffers
       /\ Queue!Items(buffer_stdin)' = Chain(Queue!Items(buffer_stdin), s)
  <2>1. buffer_stdin' = PushAll(buffer_stdin, bytes)
    BY <1>2 DEF ReadStdin
  <2>2. /\ PushAll(buffer_stdin, bytes) \in Buffers
        /\ Queue!Items(PushAll(buffer_stdin, bytes)) =
              Queue!Items(buffer_stdin) \o SubSeq(bytes, 1, Least(Len(bytes), Room(buffer_stdin)))
    BY PushAllItems DEF InputInv, Words
  <2> QED BY <1>6, <1>7, <2>1, <2>2 DEF Chain
<1>11. PICK b \in Words : b = Queue!Items(buffer_stdin)
  BY ItemsWords DEF InputInv
<1>12. /\ keyboard' = l /\ given' = given /\ child_stdin' = child_stdin /\ typed' = typed
       /\ intact'.input => intact.input /\ Len(bytes) <= BufferSize - buffer_stdin.size
  BY <1>2, <1>3 DEF ReadStdin, ControlInv, child, terminal
<1>13. InputPath = Path(given, child_stdin, b, keyboard)
  BY <1>11 DEF InputPath
<1>14. InputPath' = Path(given, child_stdin, Chain(b, s), l)
  BY <1>10, <1>11, <1>12 DEF InputPath
<1>15. Thin(InputPath', InputPath) /\ (t = << >> => InputPath' = InputPath)
  <2>1. given \in Words /\ child_stdin \in Words /\ keyboard \in Words /\ Chain(s, l) \in Words
    BY ChainWords DEF InputInv
  <2>2. InputPath' = Path(given, child_stdin, b, Chain(s, l))
    BY <1>14, <2>1, PathMovesThird
  <2>3. Thin(Chain(s, l), keyboard)
    BY <1>4, <1>9, ChainWords, ChainPrefix, ChainThin
  <2>4. t = << >> => Chain(s, l) = keyboard
    BY <1>4, <1>9, ChainEmpty
  <2> QED BY <1>13, <2>1, <2>2, <2>3, <2>4, PathThin
<1>16. intact'.input => t = << >>
  BY <1>6, <1>8, <1>12 DEF Words
<1>17. Len(keyboard') <= FIFO_SIZE
  BY <1>1, <1>3, <1>12 DEF InputInv, Words
<1> QED BY <1>3, <1>10, <1>12, <1>15, <1>16, <1>17 DEF InputInv, Thin

\* A chunk goes from the buffer to the child; the rest of a short write comes back.
LEMMA FeedInput ==
  ASSUME InputInv, ControlInv, Feed
  PROVE  InputInv'
<1>1. ChunkSize \in Nat /\ BufferSize \in Nat \ {0} /\ FIFO_SIZE \in Nat
  BY ShellAssumption
<1>2. PICK items \in Words : items = Queue!Items(buffer_stdin) /\ Len(items) = buffer_stdin.size
  BY ItemsWords DEF InputInv
<1>3. PICK bytes \in Words : bytes = Taken(items, ChunkSize) /\ Len(bytes) <= Len(items)
  BY <1>1, <1>2, ReadSplits
<1>4. PICK d \in Words : d = Left(items, ChunkSize)
  BY <1>1, <1>2, ReadSplits
<1>5. items = Chain(bytes, d) /\ d = SubSeq(items, Len(bytes) + 1, Len(items))
  BY <1>1, <1>3, <1>4, ReadSplits
<1>6. PICK k \in 0 .. Len(bytes) : k = Stored(child_stdin, bytes)
  BY WriteSplits DEF InputInv
<1>7. PICK s \in Words : s = SubSeq(bytes, 1, k)
  BY <1>6, WriteSplits DEF InputInv
<1>8. PICK t \in Words : t = SubSeq(bytes, k + 1, Len(bytes)) /\ Len(t) = Len(bytes) - k
  BY <1>6, WriteSplits DEF InputInv
<1>9. /\ bytes = Chain(s, t)
      /\ Extended(child_stdin, bytes) = Chain(child_stdin, s)
      /\ Len(Extended(child_stdin, bytes)) <= FIFO_SIZE
  BY <1>6, <1>7, <1>8, WriteSplits DEF InputInv
<1>10. PICK popped \in Buffers :
         /\ popped = Queue!Pop(buffer_stdin, Len(bytes))
         /\ popped.size = buffer_stdin.size - Len(bytes)
         /\ Queue!Items(popped) = d
  <2>1. buffer_stdin \in Rings(BufferSize, Nat) /\ buffer_stdin.size \in Nat
    BY DEF InputInv, Buffers, Rings
  <2>2. PICK n \in 0 .. buffer_stdin.size : n = Len(bytes)
    BY <1>2, <1>3, <2>1 DEF Words
  <2>3. /\ Ring!Pop(buffer_stdin, n) \in Rings(BufferSize, Nat)
        /\ Ring!Pop(buffer_stdin, n).size = buffer_stdin.size - n
        /\ Ring!Items(Ring!Pop(buffer_stdin, n))
             = SubSeq(Ring!Items(buffer_stdin), n + 1, buffer_stdin.size)
    BY <1>1, <2>1, RingPop
  <2>4. Queue!Pop(buffer_stdin, n) = Ring!Pop(buffer_stdin, n)
    BY BufferIsRing
  <2>5. Ring!Items(buffer_stdin) = items
    BY <1>2, BufferItems
  <2>6. Queue!Items(Ring!Pop(buffer_stdin, n)) = Ring!Items(Ring!Pop(buffer_stdin, n))
    BY BufferItems
  <2> QED BY <1>2, <1>5, <2>2, <2>3, <2>4, <2>5, <2>6 DEF Buffers
<1>11. /\ keyboard' = keyboard /\ given' = given /\ typed' = typed
       /\ child_stdin' = Chain(child_stdin, s)
       /\ intact'.input => intact.input /\ t = << >>
       /\ IF k = 0 THEN buffer_stdin' = popped ELSE buffer_stdin' = PushBack(popped, t)
  BY <1>2, <1>3, <1>6, <1>8, <1>9, <1>10 DEF Feed, ControlInv, child, terminal
<1>12. PICK r \in Words :
         /\ Thin(r, t)
         /\ t = << >> => r = << >>
         /\ buffer_stdin' \in Buffers
         /\ Queue!Items(buffer_stdin)' = Chain(r, d)
  <2>1. CASE k = 0
    <3>1. Range(<< >>) = {} /\ IsInjective(<< >>) /\ << >> \in Words
      BY DEF Range, IsInjective, Words
    <3>2. Queue!Items(buffer_stdin)' = Chain(<< >>, d)
      BY <1>10, <1>11, <2>1, ChainEmpty
    <3>3. Thin(<< >>, t)
      BY <3>1 DEF Thin
    <3> QED BY <1>10, <1>11, <2>1, <3>1, <3>2, <3>3
  <2>2. CASE k # 0
    <3>1. Len(t) <= Room(popped)
      <4>0. Len(bytes) \in Nat
        BY DEF Words
      <4>1. Len(t) <= Len(bytes) /\ buffer_stdin.size \in 0 .. BufferSize
        BY <1>8, <4>0 DEF InputInv, Buffers, Rings
      <4>2. Room(popped) = BufferSize - (buffer_stdin.size - Len(bytes))
        BY <1>10 DEF Room
      <4>3. Len(t) \in Nat
        BY DEF Words
      <4> QED BY <1>1, <4>0, <4>1, <4>2, <4>3
    <3>2. /\ PushBack(popped, t) \in Buffers
          /\ Queue!Items(PushBack(popped, t)) = Reverse(t) \o Queue!Items(popped)
      BY <3>1, PushBackItems DEF Words
    <3>3. PICK r \in Words : r = Reverse(t)
      BY ReverseProperties DEF Words
    <3>5. Thin(r, t)
      BY <3>3, ReverseProperties DEF Words, Thin
    <3>6. t = << >> => r = << >>
      BY <3>3 DEF Reverse
    <3>7. buffer_stdin' \in Buffers /\ Queue!Items(buffer_stdin)' = Chain(r, d)
      BY <1>10, <1>11, <2>2, <3>2, <3>3 DEF Chain
    <3> QED BY <3>5, <3>6, <3>7
  <2> QED BY <2>1, <2>2
<1>13. InputPath = Path(given, child_stdin, items, keyboard)
  BY <1>2 DEF InputPath
<1>14. InputPath' = Path(given, Chain(child_stdin, s), Chain(r, d), keyboard)
  BY <1>11, <1>12 DEF InputPath
<1>15. Thin(InputPath', InputPath) /\ (t = << >> => InputPath' = InputPath)
  <2>1. given \in Words /\ child_stdin \in Words /\ keyboard \in Words /\ Chain(r, d) \in Words
    BY <1>12, ChainWords DEF InputInv
  <2>2. InputPath' = Path(given, child_stdin, Chain(s, Chain(r, d)), keyboard)
    <3>1. PICK rd \in Words : rd = Chain(r, d)
      BY <2>1
    <3>2. Path(given, Chain(child_stdin, s), rd, keyboard) = Path(given, child_stdin, Chain(s, rd), keyboard)
      BY <2>1, PathMovesSecond, SMTT(30)
    <3> QED BY <1>14, <3>1, <3>2, Zenon
  <2>3. Chain(s, Chain(r, d)) = Chain(Chain(s, r), d) /\ items = Chain(Chain(s, t), d)
    BY <1>5, <1>9, <1>12, ChainAssociative
  <2>4. Chain(s, r) \in Words /\ Chain(s, t) \in Words /\ Chain(Chain(s, r), d) \in Words
    BY <1>12, ChainWords
  <2>5. Thin(Chain(Chain(s, r), d), items)
    <3>1. Thin(Chain(s, r), Chain(s, t))
      BY <1>12, ChainThin
    <3> QED BY <2>3, <2>4, <3>1, ChainThin
  <2>6. t = << >> => Chain(Chain(s, r), d) = items
    BY <1>12, <2>3
  <2> QED BY <1>13, <2>1, <2>2, <2>3, <2>4, <2>5, <2>6, PathThin
<1>16. child_stdin' \in Words /\ Len(child_stdin') <= FIFO_SIZE
  BY <1>9, <1>11, ChainWords DEF InputInv
<1> QED BY <1>11, <1>12, <1>15, <1>16 DEF InputInv, Thin

\* One number more.
LEMMA UptoGrows ==
  ASSUME NEW n \in Nat, NEW k \in Nat
  PROVE  /\ [i \in 1 .. k |-> n + i] \in Words /\ Len([i \in 1 .. k |-> n + i]) = k
         /\ Upto(n) \in Words
         /\ Chain(Upto(n), [i \in 1 .. k |-> n + i]) = Upto(n + k)
         /\ Range([i \in 1 .. k |-> n + i]) = n + 1 .. n + k
         /\ Sorted([i \in 1 .. k |-> n + i])
<1> DEFINE more == [i \in 1 .. k |-> n + i]
<1>1. more \in Seq(Nat) /\ Len(more) = k /\ DOMAIN more = 1 .. k
  OBVIOUS
<1>2. Upto(n) \in Seq(Nat) /\ Len(Upto(n)) = n /\ \A i \in 1 .. n : Upto(n)[i] = i
  BY DEF Upto
<1>3. Upto(n + k) \in Seq(Nat) /\ Len(Upto(n + k)) = n + k /\ \A i \in 1 .. n + k : Upto(n + k)[i] = i
  BY DEF Upto
<1>4. \A i \in 1 .. k : more[i] = n + i
  OBVIOUS
<1> HIDE DEF more
<1>5. /\ Upto(n) \o more \in Seq(Nat) /\ Len(Upto(n) \o more) = n + k
      /\ \A i \in 1 .. n + k : (Upto(n) \o more)[i] = IF i <= n THEN Upto(n)[i] ELSE more[i - n]
  BY <1>1, <1>2, ConcatProperties, ZenonT(30)
<1>6. ASSUME NEW i \in 1 .. n + k PROVE (Upto(n) \o more)[i] = Upto(n + k)[i]
  <2>1. CASE i <= n
    BY <2>1, <1>2, <1>3, <1>5
  <2>2. CASE ~ (i <= n)
    <3>1. i - n \in 1 .. k /\ n + (i - n) = i
      BY <2>2
    <3> QED BY <2>2, <3>1, <1>3, <1>4, <1>5
  <2> QED BY <2>1, <2>2
<1>7. Upto(n) \o more = Upto(n + k)
  <2>1. PICK u \in Seq(Nat) : u = Upto(n) \o more
    BY <1>5
  <2>2. Len(u) = Len(Upto(n + k)) /\ \A i \in 1 .. Len(u) : u[i] = Upto(n + k)[i]
    BY <1>3, <1>5, <1>6, <2>1
  <2>3. u = Upto(n + k)
    BY <1>3, <2>2, SeqEqual
  <2> QED BY <2>1, <2>3
<1>8. Range(more) = n + 1 .. n + k
  <2>1. \A x \in n + 1 .. n + k : x - n \in 1 .. k /\ more[x - n] = x
    BY <1>4
  <2>2. \A i \in 1 .. k : more[i] \in n + 1 .. n + k
    BY <1>4
  <2>3. Range(more) = {more[i] : i \in 1 .. k}
    BY <1>1 DEF Range
  <2> QED BY <2>1, <2>2, <2>3
<1>9. Sorted(more)
  BY <1>1, <1>4 DEF Sorted
<1>10. more \in Words /\ Upto(n) \in Words /\ Chain(Upto(n), more) = Upto(n + k)
  BY <1>1, <1>2, <1>7 DEF Words, Chain
<1> QED BY <1>1, <1>8, <1>9, <1>10 DEF more

\* The child reads the first bytes of its pipe.
LEMMA ChildReadsInput ==
  ASSUME InputInv, ControlInv, NEW n \in Nat, ChildReads(n)
  PROVE  InputInv'
<1>1. PICK s \in Words : s = Taken(child_stdin, n)
  BY ReadSplits DEF InputInv
<1>2. PICK l \in Words : l = Left(child_stdin, n) /\ Len(l) <= Len(child_stdin)
  BY ReadSplits DEF InputInv
<1>3. child_stdin = Chain(s, l)
  BY <1>1, <1>2, ReadSplits DEF InputInv
<1>4. /\ given' = Chain(given, s) /\ child_stdin' = l
      /\ buffer_stdin' = buffer_stdin /\ keyboard' = keyboard /\ typed' = typed /\ intact' = intact
  BY <1>1, <1>2 DEF ChildReads, Chain, shell, terminal
<1>5. PICK b \in Words : b = Queue!Items(buffer_stdin)
  BY ItemsWords DEF InputInv
<1>6. InputPath' = InputPath
  <2>1. Path(Chain(given, s), l, b, keyboard) = Path(given, Chain(s, l), b, keyboard)
    BY PathMovesFirst DEF InputInv
  <2> QED BY <1>3, <1>4, <1>5, <2>1 DEF InputPath
<1>7. given' \in Words /\ Len(child_stdin') <= FIFO_SIZE
  <2>1. Len(l) \in Nat /\ Len(child_stdin) \in Nat /\ FIFO_SIZE \in Nat
    BY ShellAssumption DEF InputInv, Words
  <2> QED BY <1>2, <1>4, <2>1, ChainWords DEF InputInv
<1> QED BY <1>2, <1>4, <1>6, <1>7 DEF InputInv

\* A byte is typed.
LEMMA TypeInput ==
  ASSUME InputInv, ControlInv, Type
  PROVE  InputInv'
<1>1. typed \in Nat /\ typed < MaxTyped /\ MaxTyped \in Nat /\ FIFO_SIZE \in Nat
  BY ShellAssumption DEF InputInv, Type
<1>2. PICK e \in Words : e = [i \in 1 .. 1 |-> typed + i]
  BY <1>1, UptoGrows
<1>3. /\ Len(e) = 1 /\ Chain(Upto(typed), e) = Upto(typed + 1)
      /\ Range(e) = {typed + 1} /\ IsInjective(e)
  <2>1. /\ Len(e) = 1 /\ Chain(Upto(typed), e) = Upto(typed + 1)
        /\ Range(e) = typed + 1 .. typed + 1 /\ Sorted(e)
    BY <1>1, <1>2, UptoGrows
  <2> QED BY <1>1, <2>1, SortedInjective
<1>4. /\ keyboard' = Chain(keyboard, e) /\ typed' = typed + 1
      /\ given' = given /\ child_stdin' = child_stdin /\ buffer_stdin' = buffer_stdin
      /\ intact' = intact
  <2>1. e = <<typed + 1>>
    BY <1>1, <1>2
  <2>2. Append(keyboard, typed + 1) = keyboard \o <<typed + 1>>
    BY <1>1, AppendIsConcat DEF InputInv, Words
  <2> QED BY <2>1, <2>2 DEF Type, Chain, shell, child
<1>5. PICK b \in Words : b = Queue!Items(buffer_stdin)
  BY ItemsWords DEF InputInv
<1>6. InputPath \in Words /\ InputPath' = Chain(InputPath, e)
  <2>1. InputPath = Path(given, child_stdin, b, keyboard)
    BY <1>5 DEF InputPath
  <2>2. InputPath' = Path(given, child_stdin, b, Chain(keyboard, e))
    BY <1>4, <1>5 DEF InputPath
  <2> QED BY <2>1, <2>2, PathWords, PathGrows DEF InputInv
<1>7. Range(InputPath') = Range(InputPath) \cup {typed + 1}
  BY <1>3, <1>6, ChainRange
<1>8. IsInjective(InputPath')
  <2>1. Range(InputPath) \cap Range(e) = {}
    BY <1>1, <1>3 DEF InputInv
  <2> QED BY <1>3, <1>6, <2>1, ChainInjective DEF InputInv
<1>9. Range(InputPath') \subseteq 1 .. typed'
  BY <1>1, <1>4, <1>7 DEF InputInv
<1>10. typed' \in 0 .. MaxTyped
  BY <1>1, <1>4
<1>11. intact'.input => InputPath' = Upto(typed')
  BY <1>3, <1>4, <1>6 DEF InputInv
<1>12. keyboard' \in Words /\ Len(keyboard') <= FIFO_SIZE
  <2>1. keyboard' = Append(keyboard, typed + 1) /\ Len(keyboard) < FIFO_SIZE
    BY DEF Type
  <2>2. keyboard \in Seq(Nat)
    BY DEF InputInv, Words
  <2>3. Append(keyboard, typed + 1) \in Seq(Nat) /\ Len(Append(keyboard, typed + 1)) = Len(keyboard) + 1
    BY <1>1, <2>2, AppendProperties
  <2> QED BY <1>1, <2>1, <2>2, <2>3 DEF Words
<1> QED BY <1>4, <1>8, <1>9, <1>10, <1>11, <1>12 DEF InputInv

\* The other steps leave the path of the input alone.
LEMMA InputStays ==
  ASSUME InputInv, intact'.input = intact.input,
         UNCHANGED <<typed, buffer_stdin, given, child_stdin, keyboard>>
  PROVE  InputInv'
<1>1. InputPath' = InputPath
  BY DEF InputPath
<1> QED BY <1>1 DEF InputInv

-----------------------------------------------------------------------------
(* The output                                                              *)

\* The path of the output is empty at first.
LEMMA OutputInit == Init => OutputInv
<1> SUFFICES ASSUME Init PROVE OutputInv
  OBVIOUS
<1>1. MaxWritten \in Nat /\ FIFO_SIZE \in Nat /\ ChunkSize \in Nat
  BY ShellAssumption
<1>2. << >> \in Words /\ OutputPath = << >>
  <2>1. << >> \in Words
    BY DEF Words
  <2>2. Chain(<< >>, << >>) = << >>
    BY <2>1, ChainEmpty
  <2> QED BY <2>1, <2>2 DEF Init, OutputPath, Path
<1>3. Range(<< >>) = {} /\ Sorted(<< >>) /\ Upto(0) = << >> /\ Len(<< >>) = 0
  BY DEF Range, Sorted, Upto
<1> QED BY <1>1, <1>2, <1>3 DEF Init, OutputInv

\* A chunk is read from the child.
LEMMA ReadStdoutOutput ==
  ASSUME OutputInv, ControlInv, ReadStdout
  PROVE  OutputInv'
<1>1. ChunkSize \in Nat /\ FIFO_SIZE \in Nat
  BY ShellAssumption
<1>2. PICK s \in Words : s = Taken(child_stdout, ChunkSize) /\ Len(s) <= ChunkSize
  BY <1>1, ReadSplits DEF OutputInv
<1>3. PICK l \in Words : l = Left(child_stdout, ChunkSize) /\ Len(l) <= Len(child_stdout)
  BY <1>1, ReadSplits DEF OutputInv
<1>4. child_stdout = Chain(s, l)
  BY <1>1, <1>2, <1>3, ReadSplits DEF OutputInv
<1>5. /\ buffer' = s /\ child_stdout' = l /\ shown' = shown /\ screen' = screen
      /\ written' = written /\ intact' = intact
      /\ pc' = IF s = << >> THEN "stat" ELSE "show"
  BY <1>2, <1>3 DEF ReadStdout, child, terminal
<1>6. buffer = << >>
  BY DEF ReadStdout, OutputInv
<1>7. OutputPath' = OutputPath
  <2>1. OutputPath = Path(shown, screen, << >>, Chain(s, l))
    BY <1>4, <1>6 DEF OutputPath
  <2>2. OutputPath' = Path(shown, screen, s, l)
    BY <1>5 DEF OutputPath
  <2>3. << >> \in Words /\ Chain(<< >>, s) = s
    BY <1>6, ChainEmpty
  <2>4. Path(shown, screen, Chain(<< >>, s), l) = Path(shown, screen, << >>, Chain(s, l))
    BY <2>3, PathMovesThird DEF OutputInv
  <2> QED BY <2>1, <2>2, <2>3, <2>4
<1>8. Len(child_stdout') <= FIFO_SIZE
  <2>1. Len(l) \in Nat /\ Len(child_stdout) \in Nat
    BY DEF OutputInv, Words
  <2> QED BY <1>1, <1>3, <1>5, <2>1 DEF OutputInv
<1> QED BY <1>2, <1>5, <1>7, <1>8 DEF OutputInv

\* A byte goes to the screen, or is lost.
LEMMA ShowOutput ==
  ASSUME OutputInv, ControlInv, Show
  PROVE  OutputInv'
<1>1. ChunkSize \in Nat /\ FIFO_SIZE \in Nat
  BY ShellAssumption
<1>2. buffer # << >> /\ buffer \in Seq(Nat)
  BY DEF Show, OutputInv, Words
<1>3. Head(buffer) \in Nat /\ Tail(buffer) \in Seq(Nat) /\ Len(Tail(buffer)) = Len(buffer) - 1
  BY <1>2, HeadTailProperties
<1>4. PICK h \in Nat : h = Head(buffer)
  BY <1>3
<1>5. PICK e \in Words : e = <<h>> /\ Len(e) = 1
  <2>1. <<h>> \in Seq(Nat) /\ Len(<<h>>) = 1
    OBVIOUS
  <2> QED BY <2>1, Zenon DEF Words
<1>6. PICK c \in Words : c = Tail(buffer)
  BY <1>3 DEF Words
<1>7. buffer = Chain(e, c)
  <2>1. buffer = <<Head(buffer)>> \o Tail(buffer)
    BY <1>2
  <2> QED BY <1>4, <1>5, <1>6, <2>1 DEF Chain
<1>8. /\ screen' = Extended(screen, e) /\ buffer' = c
      /\ shown' = shown /\ child_stdout' = child_stdout /\ written' = written
      /\ pc' = IF c = << >> THEN "stdin" ELSE "show"
      /\ intact'.output => intact.output /\ Len(screen) < FIFO_SIZE
  BY <1>4, <1>5, <1>6 DEF Show, ControlInv, child, terminal
<1>9. screen' \in Words /\ Len(screen') <= FIFO_SIZE
  BY <1>8, WriteSplits DEF OutputInv
<1>10. CASE Len(screen) < FIFO_SIZE
  <2>1. Stored(screen, e) = 1
    <3>1. Len(screen) \in Nat
      BY DEF OutputInv, Words
    <3> QED BY <1>1, <1>5, <1>10, <3>1 DEF Stored, Least
  <2>2. SubSeq(e, 1, 1) = e
    BY <1>5, SubSeqFull DEF Words
  <2>3. screen' = Chain(screen, e)
    BY <1>8, <2>1, <2>2 DEF Extended, Chain
  <2>4. Path(shown, Chain(screen, e), c, child_stdout) = Path(shown, screen, Chain(e, c), child_stdout)
    BY PathMovesSecond DEF OutputInv
  <2>5. OutputPath' = OutputPath
    BY <1>7, <1>8, <2>3, <2>4 DEF OutputPath
  <2>6. Len(buffer') <= ChunkSize
    BY <1>1, <1>2, <1>3, <1>6, <1>8 DEF OutputInv
  <2> QED BY <1>8, <1>9, <2>5, <2>6 DEF OutputInv
<1>11. CASE ~ (Len(screen) < FIFO_SIZE)
  <2>1. Stored(screen, e) = 0
    <3>1. Len(screen) \in Nat /\ Len(screen) <= FIFO_SIZE
      BY DEF OutputInv, Words
    <3> QED BY <1>1, <1>5, <1>11, <3>1 DEF Stored, Least
  <2>2. SubSeq(e, 1, 0) = << >>
    BY SubSeqEmpty
  <2>3. screen' = screen
    <3>1. screen' = Chain(screen, << >>)
      BY <1>8, <2>1, <2>2 DEF Extended, Chain
    <3> QED BY <3>1, ChainEmpty DEF OutputInv
  <2>4. Sparse(OutputPath', OutputPath)
    <3>1. Sparse(c, buffer)
      BY <1>7, ChainPrefix
    <3>2. Sparse(Path(shown, screen, c, child_stdout), Path(shown, screen, buffer, child_stdout))
      BY <3>1, PathThin DEF OutputInv
    <3> QED BY <1>8, <2>3, <3>2 DEF OutputPath
  <2>5. ~ intact'.output
    BY <1>8, <1>11
  <2>6. Len(buffer') <= ChunkSize
    BY <1>1, <1>2, <1>3, <1>6, <1>8 DEF OutputInv
  <2> QED BY <1>8, <1>9, <2>4, <2>5, <2>6 DEF OutputInv, Sparse
<1> QED BY <1>10, <1>11

\* The child writes what its pipe has room for.
LEMMA ChildWritesOutput ==
  ASSUME OutputInv, ControlInv, NEW n \in Nat, ChildWrites(n)
  PROVE  OutputInv'
<1>1. /\ FIFO_SIZE \in Nat /\ MaxWritten \in Nat /\ written \in Nat
      /\ written + n <= MaxWritten
  BY ShellAssumption DEF OutputInv, ChildWrites
<1>2. PICK bytes \in Words : bytes = [i \in 1 .. n |-> written + i] /\ Len(bytes) = n
  BY <1>1, UptoGrows, ZenonT(30)
<1>3. PICK k \in 0 .. n : k = Stored(child_stdout, bytes)
  BY <1>2, WriteSplits DEF OutputInv
<1>4. PICK e \in Words : e = SubSeq(bytes, 1, k)
  BY <1>2, <1>3, WriteSplits DEF OutputInv
<1>5. e = [i \in 1 .. k |-> written + i]
  <2>1. e = [i \in 1 .. k |-> bytes[i]]
    BY <1>4
  <2>2. \A i \in 1 .. k : bytes[i] = written + i
    BY <1>2
  <2> QED BY <2>1, <2>2
<1>6. /\ Range(e) = written + 1 .. written + k /\ Sorted(e)
      /\ Chain(Upto(written), e) = Upto(written + k)
  <2>1. k \in Nat
    OBVIOUS
  <2> QED BY <1>1, <1>5, <2>1, UptoGrows
<1>7. /\ child_stdout' = Chain(child_stdout, e) /\ child_stdout' \in Words
      /\ Len(child_stdout') <= FIFO_SIZE
      /\ shown' = shown /\ screen' = screen /\ buffer' = buffer /\ pc' = pc
      /\ written' = written + k /\ intact' = intact
  <2>1. /\ child_stdout' = Extended(child_stdout, bytes)
        /\ written' = written + Stored(child_stdout, bytes)
        /\ shown' = shown /\ screen' = screen /\ buffer' = buffer /\ pc' = pc
        /\ intact' = intact
    BY <1>2 DEF ChildWrites, shell, terminal
  <2>2. /\ Extended(child_stdout, bytes) = Chain(child_stdout, e)
        /\ Extended(child_stdout, bytes) \in Words
        /\ Len(Extended(child_stdout, bytes)) <= FIFO_SIZE
    BY <1>3, <1>4, WriteSplits DEF OutputInv
  <2> QED BY <1>3, <2>1, <2>2
<1>8. OutputPath \in Words /\ OutputPath' = Chain(OutputPath, e)
  <2>1. OutputPath' = Path(shown, screen, buffer, Chain(child_stdout, e))
    BY <1>7 DEF OutputPath
  <2> QED BY <2>1, PathWords, PathGrows DEF OutputInv, OutputPath
<1>9. Range(OutputPath') = Range(OutputPath) \cup (written + 1 .. written + k)
  BY <1>6, <1>8, ChainRange
<1>10. Range(OutputPath') \subseteq 1 .. written'
  BY <1>1, <1>7, <1>9 DEF OutputInv
<1>11. Sorted(OutputPath')
  <2>1. \A x \in Range(OutputPath), y \in Range(e) : x < y
    BY <1>1, <1>6 DEF OutputInv
  <2> QED BY <1>6, <1>8, <2>1, ChainSorted DEF OutputInv
<1>12. intact'.output => OutputPath' = Upto(written')
  BY <1>6, <1>7, <1>8 DEF OutputInv
<1>13. written' \in 0 .. MaxWritten
  BY <1>1, <1>7
<1> QED BY <1>7, <1>10, <1>11, <1>12, <1>13 DEF OutputInv

\* The screen shows what is in its pipe.
LEMMA DisplayOutput ==
  ASSUME OutputInv, ControlInv, Display
  PROVE  OutputInv'
<1>1. /\ shown' = Chain(shown, screen) /\ screen' = << >> /\ buffer' = buffer /\ pc' = pc
      /\ child_stdout' = child_stdout /\ written' = written /\ intact' = intact
  BY DEF Display, Chain, shell, child
<1>2. << >> \in Words /\ Chain(screen, << >>) = screen /\ shown' \in Words /\ Len(<< >>) = 0
  BY <1>1, ChainEmpty, ChainWords DEF OutputInv
<1>3. OutputPath' = OutputPath
  <2>1. Path(Chain(shown, screen), << >>, buffer, child_stdout)
          = Path(shown, Chain(screen, << >>), buffer, child_stdout)
    BY <1>2, PathMovesFirst DEF OutputInv
  <2> QED BY <1>1, <1>2, <2>1 DEF OutputPath
<1> QED BY ShellAssumption, <1>1, <1>2, <1>3 DEF OutputInv

\* The other steps leave the path of the output alone.
LEMMA OutputStays ==
  ASSUME OutputInv, intact'.output = intact.output, pc = "show" <=> pc' = "show",
         UNCHANGED <<written, shown, screen, buffer, child_stdout>>
  PROVE  OutputInv'
<1>1. OutputPath' = OutputPath
  BY DEF OutputPath
<1> QED BY <1>1 DEF OutputInv

-----------------------------------------------------------------------------
(* The steps and the theorems                                              *)

\* Every step keeps the types of the variables that steer the shell.
LEMMA ControlStep ==
  ASSUME IInv, [Next]_vars
  PROVE  ControlInv'
<1> USE DEF IInv, ControlInv
<1>1. CASE ReadStdin
  BY <1>1 DEF ReadStdin, child
<1>2. CASE Feed
  BY <1>2 DEF Feed, child
<1>3. CASE ReadStdout
  BY <1>3 DEF ReadStdout, child
<1>4. CASE Show
  BY <1>4 DEF Show, child
<1>5. CASE Stat
  BY <1>5 DEF Stat, child
<1>6. CASE Done \/ UNCHANGED vars
  BY <1>6 DEF Done, vars, shell, child
<1>7. ASSUME NEW n, ChildReads(n) PROVE ControlInv'
  BY <1>7 DEF ChildReads, shell
<1>8. ASSUME NEW n, ChildWrites(n) PROVE ControlInv'
  BY <1>8 DEF ChildWrites, shell
<1>9. CASE ChildExits
  BY <1>9 DEF ChildExits, shell
<1>10. CASE Type
  BY <1>10 DEF Type, shell, child
<1>11. CASE Display
  BY <1>11 DEF Display, shell, child
<1> QED BY <1>1, <1>2, <1>3, <1>4, <1>5, <1>6, <1>7, <1>8, <1>9, <1>10, <1>11
        DEF Next, Relay, Others

\* Every step keeps the invariant of the input.
LEMMA InputStep ==
  ASSUME IInv, [Next]_vars
  PROVE  InputInv'
<1>0. InputInv /\ ControlInv
  BY DEF IInv
<1>1. CASE ReadStdin
  BY <1>0, <1>1, ReadStdinInput
<1>2. CASE Feed
  BY <1>0, <1>2, FeedInput
<1>3. CASE ReadStdout
  BY <1>0, <1>3, InputStays DEF ReadStdout, child, terminal
<1>4. CASE Show
  <2>1. intact'.input = intact.input
    BY <1>0, <1>4 DEF Show, ControlInv
  <2> QED BY <1>0, <1>4, <2>1, InputStays DEF Show, child, terminal
<1>5. CASE Stat
  BY <1>0, <1>5, InputStays DEF Stat, pipes, child, terminal
<1>6. CASE Done \/ UNCHANGED vars
  BY <1>0, <1>6, InputStays DEF Done, vars, shell, pipes, child, terminal
<1>7. ASSUME NEW n \in {1, FIFO_SIZE}, ChildReads(n) PROVE InputInv'
  <2>1. n \in Nat
    BY ShellAssumption
  <2> QED BY <1>0, <1>7, <2>1, ChildReadsInput
<1>8. ASSUME NEW n \in 1 .. MaxWritten, ChildWrites(n) PROVE InputInv'
  BY <1>0, <1>8, InputStays DEF ChildWrites, shell, terminal
<1>9. CASE ChildExits
  BY <1>0, <1>9, InputStays DEF ChildExits, shell, pipes, terminal
<1>10. CASE Type
  BY <1>0, <1>10, TypeInput
<1>11. CASE Display
  BY <1>0, <1>11, InputStays DEF Display, shell, child
<1> QED BY <1>1, <1>2, <1>3, <1>4, <1>5, <1>6, <1>7, <1>8, <1>9, <1>10, <1>11
        DEF Next, Relay, Others

\* Every step keeps the invariant of the output.
LEMMA OutputStep ==
  ASSUME IInv, [Next]_vars
  PROVE  OutputInv'
<1>0. OutputInv /\ ControlInv
  BY DEF IInv
<1>1. CASE ReadStdin
  <2>1. intact'.output = intact.output /\ pc # "show" /\ pc' # "show"
    BY <1>0, <1>1 DEF ReadStdin, ControlInv
  <2> QED BY <1>0, <1>1, <2>1, OutputStays DEF ReadStdin, child, terminal
<1>2. CASE Feed
  <2>1. intact'.output = intact.output /\ pc # "show" /\ pc' # "show"
    BY <1>0, <1>2 DEF Feed, ControlInv
  <2> QED BY <1>0, <1>2, <2>1, OutputStays DEF Feed, child, terminal
<1>3. CASE ReadStdout
  BY <1>0, <1>3, ReadStdoutOutput
<1>4. CASE Show
  BY <1>0, <1>4, ShowOutput
<1>5. CASE Stat
  BY <1>0, <1>5, OutputStays DEF Stat, pipes, child, terminal
<1>6. CASE Done \/ UNCHANGED vars
  BY <1>0, <1>6, OutputStays DEF Done, vars, shell, pipes, child, terminal
<1>7. ASSUME NEW n, ChildReads(n) PROVE OutputInv'
  BY <1>0, <1>7, OutputStays DEF ChildReads, shell, terminal
<1>8. ASSUME NEW n \in 1 .. MaxWritten, ChildWrites(n) PROVE OutputInv'
  <2>1. n \in Nat
    OBVIOUS
  <2> QED BY <1>0, <1>8, <2>1, ChildWritesOutput
<1>9. CASE ChildExits
  BY <1>0, <1>9, OutputStays DEF ChildExits, shell, pipes, terminal
<1>10. CASE Type
  BY <1>0, <1>10, OutputStays DEF Type, shell, child
<1>11. CASE Display
  BY <1>0, <1>11, DisplayOutput
<1> QED BY <1>1, <1>2, <1>3, <1>4, <1>5, <1>6, <1>7, <1>8, <1>9, <1>10, <1>11
        DEF Next, Relay, Others

\* The inductive invariant holds, whatever the capacities and the bounds.
THEOREM Invariance == Spec => []IInv
<1>1. Init => IInv
  <2>1. Init => ControlInv
    <3> SUFFICES ASSUME Init PROVE ControlInv
      OBVIOUS
    <3>1. pc = "stdin" /\ exited = FALSE /\ intact = [input |-> TRUE, output |-> TRUE]
      BY DEF Init
    <3>2. exited \in BOOLEAN /\ intact \in [input : BOOLEAN, output : BOOLEAN]
      BY <3>1
    <3> QED BY <3>1, <3>2 DEF ControlInv
  <2> QED BY <2>1, InputInit, OutputInit DEF IInv
<1>2. IInv /\ [Next]_vars => IInv'
  BY InputStep, OutputStep, ControlStep DEF IInv
<1> QED BY <1>1, <1>2, PTL DEF Spec

\* The inductive invariant contains the type invariant.
LEMMA TypeCorrect == IInv => TypeOK
<1> SUFFICES ASSUME IInv PROVE TypeOK
  OBVIOUS
<1>0. InputInv /\ OutputInv /\ ControlInv /\ MaxTyped \in Nat /\ MaxWritten \in Nat
  BY ShellAssumption DEF IInv
<1>1. /\ given \in Seq(1 .. MaxTyped) /\ keyboard \in Pipe(MaxTyped)
      /\ child_stdin \in Pipe(MaxTyped)
  <2>1. PICK b \in Words : b = Queue!Items(buffer_stdin)
    BY <1>0, ItemsWords DEF InputInv
  <2>2. Range(InputPath) = Range(given) \cup Range(child_stdin) \cup Range(b) \cup Range(keyboard)
    BY <1>0, <2>1, PathRange DEF InputInv, InputPath
  <2>3. Range(InputPath) \subseteq 1 .. MaxTyped
    BY <1>0 DEF InputInv
  <2>4. /\ Range(given) \subseteq 1 .. MaxTyped /\ Range(child_stdin) \subseteq 1 .. MaxTyped
        /\ Range(keyboard) \subseteq 1 .. MaxTyped
    BY <2>2, <2>3
  <2>5. /\ given \in Seq(1 .. MaxTyped) /\ keyboard \in Seq(1 .. MaxTyped)
        /\ child_stdin \in Seq(1 .. MaxTyped)
    BY <1>0, <2>4, WordsIn DEF InputInv
  <2> QED BY <1>0, <2>5 DEF InputInv, Pipe
<1>2. /\ shown \in Seq(1 .. MaxWritten) /\ screen \in Pipe(MaxWritten)
      /\ child_stdout \in Pipe(MaxWritten) /\ buffer \in Seq(1 .. MaxWritten)
  <2>2. Range(OutputPath) = Range(shown) \cup Range(screen) \cup Range(buffer) \cup Range(child_stdout)
    BY <1>0, PathRange DEF OutputInv, OutputPath
  <2>3. Range(OutputPath) \subseteq 1 .. MaxWritten
    BY <1>0 DEF OutputInv
  <2>4. /\ Range(shown) \subseteq 1 .. MaxWritten /\ Range(screen) \subseteq 1 .. MaxWritten
        /\ Range(buffer) \subseteq 1 .. MaxWritten /\ Range(child_stdout) \subseteq 1 .. MaxWritten
    BY <2>2, <2>3
  <2>5. /\ shown \in Seq(1 .. MaxWritten) /\ screen \in Seq(1 .. MaxWritten)
        /\ buffer \in Seq(1 .. MaxWritten) /\ child_stdout \in Seq(1 .. MaxWritten)
    BY <1>0, <2>4, WordsIn DEF OutputInv
  <2> QED BY <1>0, <2>5 DEF OutputInv, Pipe
<1>3. /\ DOMAIN buffer_stdin.data = 0 .. BufferSize - 1
      /\ buffer_stdin.size \in 0 .. BufferSize
      /\ buffer_stdin.head \in 0 .. BufferSize - 1
      /\ buffer_stdin.tail = (buffer_stdin.head + buffer_stdin.size) % BufferSize
  BY <1>0 DEF InputInv, Buffers, Rings
<1>4. /\ pc \in {"stdin", "feed", "stdout", "show", "stat", "done"}
      /\ exited \in BOOLEAN /\ intact \in [input : BOOLEAN, output : BOOLEAN]
  BY <1>0 DEF ControlInv
<1>5. typed \in 0 .. MaxTyped /\ written \in 0 .. MaxWritten /\ Len(buffer) <= ChunkSize
  BY <1>0 DEF InputInv, OutputInv
<1> QED BY <1>1, <1>2, <1>3, <1>4, <1>5 DEF TypeOK

(***************************************************************************)
(* The child reads what was typed, in order and nothing twice, and without *)
(* a loss as long as it keeps up: for all capacities of the buffer and of  *)
(* the pipes, whatever the sizes of the chunks and however much is typed.  *)
(* That no byte is doubled when the rest of a short write goes back to the *)
(* front of the buffer is what needs the lemmas about its ring.            *)
(***************************************************************************)
THEOREM InputInOrderHolds == Spec => []InputInOrder
<1>1. IInv => InputInOrder
  <2> SUFFICES ASSUME IInv PROVE InputInOrder
    OBVIOUS
  <2>1. InputPath = given \o child_stdin \o Queue!Items(buffer_stdin) \o keyboard
    BY DEF InputPath, Path, Chain
  <2>2. IsInjective(InputPath) /\ (intact.input => InputPath = Upto(typed))
    BY DEF IInv, InputInv
  <2>3. TypeOK
    BY TypeCorrect
  <2> QED BY <2>1, <2>2, <2>3, Zenon DEF InputInOrder
<1> QED BY <1>1, Invariance, PTL

(***************************************************************************)
(* The screen shows what the child wrote, in order, and without a loss as  *)
(* long as the screen keeps up: for all capacities and bounds.             *)
(***************************************************************************)
THEOREM OutputInOrderHolds == Spec => []OutputInOrder
<1>1. IInv => OutputInOrder
  <2> SUFFICES ASSUME IInv PROVE OutputInOrder
    OBVIOUS
  <2>1. OutputPath = shown \o screen \o buffer \o child_stdout
    BY DEF OutputPath, Path, Chain
  <2>2. Sorted(OutputPath) /\ (intact.output => OutputPath = Upto(written))
    BY DEF IInv, OutputInv
  <2> QED BY <2>1, <2>2, Zenon DEF OutputInOrder, Sorted
<1> QED BY <1>1, Invariance, PTL
=============================================================================
