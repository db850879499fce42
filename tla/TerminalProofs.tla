--------------------------- MODULE TerminalProofs ---------------------------
(***************************************************************************)
(* Proofs that the terminals keep the order of what is typed and written,  *)
(* and that the screen shows the terminal the user is at, for any number   *)
(* of terminals and buffers, pipes and chunks of any size.                 *)
(***************************************************************************)
EXTENDS Terminals, ListLemmas

-----------------------------------------------------------------------------
(* The end of what is kept                                                 *)

\* The greater of two numbers, the Max of FiniteSetsExt.
LEMMA MaxOfTwo ==
  ASSUME NEW a \in Int, NEW b \in Int
  PROVE  Max({a, b}) = IF a >= b THEN a ELSE b
<1>1. \E x \in {a, b} : \A y \in {a, b} : x >= y
  OBVIOUS
<1>2. Max({a, b}) \in {a, b} /\ \A y \in {a, b} : Max({a, b}) >= y
  BY <1>1 DEF Max
<1>3. PICK m \in Int : m = Max({a, b})
  BY <1>2
<1> QED BY <1>2, <1>3

\* What Latest keeps of the bytes is the end of them.
LEMMA LatestProperties ==
  \A bytes \in Words, n \in Nat \ {0} :
    /\ Latest(bytes, n) \in Words /\ Suffix(Latest(bytes, n), bytes)
    /\ Len(Latest(bytes, n)) = IF Len(bytes) <= n THEN Len(bytes) ELSE n
    /\ Len(bytes) <= n => Latest(bytes, n) = bytes
<1> TAKE bytes \in Words, n \in Nat \ {0}
<1>1. Len(bytes) \in Nat /\ Len(bytes) - n + 1 \in Int
  BY ChainLen
<1>2. PICK l \in Nat : l = Len(bytes)
  BY <1>1
<1>3. Max({1, l - n + 1}) = IF 1 >= l - n + 1 THEN 1 ELSE l - n + 1
  BY MaxOfTwo
<1>4. PICK k \in 0 .. l : k = IF l <= n THEN 0 ELSE l - n
  OBVIOUS
<1>5. Max({1, l - n + 1}) = k + 1
  BY <1>3, <1>4
<1>6. Latest(bytes, n) = SubSeq(bytes, k + 1, l)
  BY <1>2, <1>5 DEF Latest
<1>7. PICK a, b \in Words : /\ a = SubSeq(bytes, 1, k) /\ b = SubSeq(bytes, k + 1, Len(bytes))
                            /\ Len(a) = k /\ Len(b) = Len(bytes) - k /\ bytes = Chain(a, b)
  BY <1>2, SplitAt
<1>8. Latest(bytes, n) = b
  BY <1>2, <1>6, <1>7
<1>9. Suffix(b, bytes) /\ Len(b) = IF l <= n THEN l ELSE n
  <2>1. Suffix(b, bytes)
    BY <1>7, SuffixChain
  <2>2. Len(b) = l - k
    BY <1>2, <1>7
  <2>3. l - k = IF l <= n THEN l ELSE n
    BY ONLY <1>4, n \in Nat, l \in Nat
  <2> QED BY <2>1, <2>2, <2>3
<1>10. ASSUME l <= n PROVE b = bytes
  BY <1>2, <1>4, <1>7, <1>9, <1>10, SuffixSelf, SuffixesEqual
<1> QED BY <1>2, <1>8, <1>9, <1>10

\* What is forgotten does not matter for what is kept later.
LEMMA LatestGrows ==
  \A s, t \in Words, n \in Nat \ {0} :
     Latest(Chain(Latest(s, n), t), n) = Latest(Chain(s, t), n)
<1> TAKE s, t \in Words, n \in Nat \ {0}
<1>1. PICK l \in Words : l = Latest(s, n)
  BY LatestProperties
<1>2. Suffix(l, s) /\ Len(l) = IF Len(s) <= n THEN Len(s) ELSE n
  BY <1>1, LatestProperties
<1>3. PICK u \in Words : u = Chain(l, t)
  BY ChainWords
<1>4. PICK v \in Words : v = Chain(s, t)
  BY ChainWords
<1>5. Suffix(u, v)
  BY <1>2, <1>3, <1>4, SuffixGrows
<1>6. /\ Len(s) \in Nat /\ Len(t) \in Nat /\ Len(l) \in Nat
      /\ Len(u) = Len(l) + Len(t) /\ Len(v) = Len(s) + Len(t)
  BY <1>3, <1>4, ChainLen
<1>7. PICK a \in Words : a = Latest(u, n)
  BY LatestProperties
<1>8. PICK b \in Words : b = Latest(v, n)
  BY LatestProperties
<1>9. Suffix(a, u) /\ Len(a) = IF Len(u) <= n THEN Len(u) ELSE n
  BY <1>7, LatestProperties
<1>10. Suffix(b, v) /\ Len(b) = IF Len(v) <= n THEN Len(v) ELSE n
  BY <1>8, LatestProperties
<1>11. Suffix(a, v)
  BY <1>5, <1>9, SuffixTransitive
<1>12. Len(a) = Len(b)
  BY ONLY <1>2, <1>6, <1>9, <1>10
<1>13. a = b
  BY <1>10, <1>11, <1>12, SuffixesEqual
<1> QED BY <1>1, <1>3, <1>4, <1>7, <1>8, <1>13

-----------------------------------------------------------------------------
(* What a terminal remembers                                               *)

\* What a terminal remembers is a ring of the lemmas, which takes the same steps.
LEMMA ProxyIsRing ==
  ASSUME NEW q, NEW x
  PROVE  /\ Queue!Items(q) = Ring!Items(q)
         /\ Queue!Push(q, x) = Ring!Push(q, x)
         /\ Queue!Pop(q, 1) = Ring!Pop(q, 1)
         /\ Queue!PopBack(q) = Ring!PopBack(q)
         /\ Queue!Full(q) = Ring!Full(q)
<1> USE DEF Queue!Capacity, Ring!Capacity, Queue!Cardinality, Ring!Cardinality
<1>1. Queue!Push(q, x) = Ring!Push(q, x)
  BY DEF Queue!Push, Ring!Push, Queue!Full, Ring!Full
<1>2. Queue!Pop(q, 1) = Ring!Pop(q, 1)
  BY DEF Queue!Pop, Ring!Pop
<1>3. Queue!PopBack(q) = Ring!PopBack(q)
  BY DEF Queue!PopBack, Ring!PopBack
<1>4. Queue!Full(q) = Ring!Full(q)
  BY DEF Queue!Full, Ring!Full
<1>5. Queue!Items(q) = Ring!Items(q)
  BY DEF Queue!Items, Ring!Items
<1> QED BY <1>1, <1>2, <1>3, <1>4, <1>5

\* The states of what a terminal remembers.
Proxies == Rings(ProxySize, Nat)

\* What of its screen a terminal remembers, oldest first.
Seen(q) == Queue!Items(q)

\* What is seen is a word.
LEMMA SeenWords ==
  \A q \in Proxies : Seen(q) \in Words /\ Len(Seen(q)) = q.size /\ q.size \in 0 .. ProxySize
<1> TAKE q \in Proxies
<1>1. ProxySize \in Nat \ {0}
  BY TerminalsAssumption
<1>2. Ring!Items(q) \in Seq(Nat) /\ Len(Ring!Items(q)) = q.size
  BY <1>1, RingItems DEF Proxies
<1>3. q.size \in 0 .. ProxySize
  BY <1>1 DEF Proxies, Rings
<1> QED BY <1>2, <1>3, ProxyIsRing DEF Seen, Words

\* A byte is remembered, and the oldest is forgotten.
LEMMA RememberSeen ==
  \A q \in Proxies, x \in Nat :
     /\ Remember(q, x) \in Proxies
     /\ Seen(Remember(q, x)) = Latest(Chain(Seen(q), <<x>>), ProxySize)
<1> TAKE q \in Proxies, x \in Nat
<1>1. ProxySize \in Nat \ {0}
  BY TerminalsAssumption
<1>2. /\ Ring!Capacity(q) = ProxySize /\ Ring!Items(q) \in Seq(Nat) /\ Len(Ring!Items(q)) = q.size
      /\ q.size \in 0 .. ProxySize /\ q \in Rings(ProxySize, Nat)
  BY <1>1, RingItems, SeenWords DEF Proxies
<1>3. <<x>> \in Words /\ Len(<<x>>) = 1
  BY DEF Words
<1>4. Queue!Full(q) <=> q.size = ProxySize
  BY <1>2, ProxyIsRing DEF Ring!Full
<1>5. Seen(q) \in Words /\ Seen(q) = Ring!Items(q) /\ Len(Seen(q)) = q.size
  BY SeenWords, ProxyIsRing DEF Seen
<1>6. PICK e \in Words : e = <<x>> /\ Len(e) = 1
  BY <1>3
<1>7. PICK u \in Words : u = Chain(Seen(q), e)
  BY <1>5, ChainWords
<1>8. Len(u) = q.size + 1
  BY <1>5, <1>6, <1>7, ChainLen
<1>9. CASE q.size < ProxySize
  <2>1. Remember(q, x) = Ring!Push(q, x)
    <3>1. ~ Queue!Full(q)
      BY <1>1, <1>2, <1>4, <1>9
    <3> QED BY <3>1, ProxyIsRing DEF Remember
  <2>2. /\ Ring!Push(q, x) \in Rings(ProxySize, Nat)
        /\ Ring!Items(Ring!Push(q, x)) = Append(Ring!Items(q), x)
    BY <1>1, <1>2, <1>9, RingPush
  <2>3. Append(Ring!Items(q), x) = Ring!Items(q) \o <<x>>
    BY <1>2, AppendIsConcat
  <2>4. Seen(Remember(q, x)) = u
    BY <1>5, <1>6, <1>7, <2>1, <2>2, <2>3, ProxyIsRing DEF Seen, Chain
  <2>5. Latest(u, ProxySize) = u
    BY <1>1, <1>2, <1>8, <1>9, LatestProperties
  <2> QED BY <1>6, <1>7, <2>1, <2>2, <2>4, <2>5 DEF Proxies
<1>10. CASE q.size = ProxySize
  <2>1. 1 \in 0 .. q.size
    BY <1>1, <1>10
  <2>2. PICK p : p = Ring!Pop(q, 1)
    OBVIOUS
  <2>3. p \in Rings(ProxySize, Nat) /\ p.size = q.size - 1 /\ Ring!Items(p) = SubSeq(Ring!Items(q), 2, q.size)
    <3>1. PICK k \in 0 .. q.size : k = 1
      BY <2>1
    <3>2. /\ Ring!Pop(q, k) \in Rings(ProxySize, Nat) /\ Ring!Pop(q, k).size = q.size - k
          /\ Ring!Items(Ring!Pop(q, k)) = SubSeq(Ring!Items(q), k + 1, q.size)
      BY <1>1, <1>2, RingPop
    <3>3. k + 1 = 2
      BY <3>1
    <3> QED BY <2>2, <3>1, <3>2, <3>3
  <2>4. Remember(q, x) = Ring!Push(p, x)
    BY <1>4, <1>10, <2>2, ProxyIsRing DEF Remember
  <2>5. p.size < ProxySize
    BY <1>1, <1>10, <2>3
  <2>6. /\ Ring!Push(p, x) \in Rings(ProxySize, Nat)
        /\ Ring!Items(Ring!Push(p, x)) = Append(Ring!Items(p), x)
    BY <1>1, <2>3, <2>5, RingPush, ZenonT(30)
  <2>7. PICK a, b \in Words : /\ b = SubSeq(Seen(q), 2, Len(Seen(q)))
                              /\ Len(b) = Len(Seen(q)) - 1 /\ Seen(q) = Chain(a, b)
    <3>1. PICK k \in 0 .. Len(Seen(q)) : k = 1
      BY <1>5, <2>1
    <3>2. \E a, b \in Words : /\ a = SubSeq(Seen(q), 1, k) /\ b = SubSeq(Seen(q), k + 1, Len(Seen(q)))
                          /\ Len(a) = k /\ Len(b) = Len(Seen(q)) - k /\ Seen(q) = Chain(a, b)
      BY <1>5, SplitAt, ZenonT(30)
    <3>3. k + 1 = 2
      BY <3>1
    <3> QED BY <3>1, <3>2, <3>3
  <2>8. Ring!Items(p) = b
    BY <1>5, <2>3, <2>7
  <2>9. Append(b, x) = Chain(b, e)
    <3>1. b \in Seq(Nat)
      BY <2>7 DEF Words
    <3> QED BY <3>1, <1>6, AppendIsConcat DEF Chain
  <2>10. Seen(Remember(q, x)) = Chain(b, e)
    BY <2>4, <2>6, <2>8, <2>9, ProxyIsRing DEF Seen
  <2>11. Suffix(Chain(b, e), u) /\ Chain(b, e) \in Words
    BY <1>6, <1>7, <2>7, SuffixChain, SuffixGrows, ChainWords
  <2>12. Len(Chain(b, e)) = ProxySize
    <3>1. Len(Chain(b, e)) = Len(b) + Len(e)
      BY ChainLen
    <3> QED BY <3>1, <1>1, <1>5, <1>6, <1>10, <2>7
  <2>13. Latest(u, ProxySize) \in Words /\ Suffix(Latest(u, ProxySize), u) /\ Len(Latest(u, ProxySize)) = ProxySize
    BY <1>1, <1>8, <1>10, LatestProperties
  <2>14. Chain(b, e) = Latest(u, ProxySize)
    BY <2>11, <2>12, <2>13, SuffixesEqual
  <2> QED BY <1>6, <1>7, <2>4, <2>6, <2>10, <2>14 DEF Proxies
<1>11. q.size < ProxySize \/ q.size = ProxySize
  BY <1>1, <1>2
<1> QED BY <1>9, <1>10, <1>11

\* A word without its last byte.
LEMMA FrontWord ==
  \A s \in Words : s # << >> =>
    /\ Front(s) \in Words /\ Len(Front(s)) = Len(s) - 1 /\ Len(s) \in Nat \ {0}
    /\ Last(s) \in Nat /\ <<Last(s)>> \in Words /\ Last(s) \in Range(s)
    /\ s = Chain(Front(s), <<Last(s)>>)
<1> TAKE s \in Words
<1> HAVE s # << >>
<1>1. s \in Seq(Nat) /\ Len(s) \in Nat \ {0} /\ DOMAIN s = 1 .. Len(s)
  BY EmptySeq DEF Words
<1>2. Last(s) \in Nat /\ Last(s) \in Range(s) /\ Last(s) = s[Len(s)]
  BY <1>1 DEF Last, Range
<1>3. PICK e \in Words : e = <<Last(s)>>
  <2>1. <<Last(s)>> \in Words
    BY <1>2 DEF Words
  <2> QED BY <2>1, Zenon
<1>4. Len(e) = 1 /\ e[1] = Last(s)
  BY <1>3
<1>5. PICK k \in 0 .. Len(s) : k = Len(s) - 1
  <2>1. Len(s) - 1 \in 0 .. Len(s)
    BY <1>1
  <2> QED BY <2>1
<1>6. PICK a, b \in Words : /\ a = SubSeq(s, 1, k) /\ b = SubSeq(s, k + 1, Len(s))
                            /\ Len(a) = k /\ Len(b) = Len(s) - k /\ s = Chain(a, b)
  BY SplitAt
<1>7. Front(s) = a
  BY <1>5, <1>6 DEF Front
<1>8. b = e
  <2>1. Len(b) = 1 /\ Len(a) \in Nat
    BY <1>1, <1>5, <1>6
  <2>2. Len(s) \in 1 .. Len(a) + Len(b) /\ ~ (Len(s) <= Len(a)) /\ Len(s) - Len(a) = 1
    BY <1>1, <1>5, <1>6
  <2>3. s[Len(s)] = b[Len(s) - Len(a)]
    <3>1. PICK i \in 1 .. Len(a) + Len(b) : i = Len(s)
      BY <2>2
    <3>2. s[i] = b[i - Len(a)]
      BY <1>6, <2>2, <3>1, ChainAt
    <3> QED BY <3>1, <3>2
  <2>4. b[1] = e[1]
    BY <1>2, <1>4, <2>2, <2>3
  <2>5. \A i \in 1 .. Len(b) : b[i] = e[i]
    BY <2>1, <2>4
  <2> QED BY <1>4, <2>1, <2>5, SameWords
<1> QED BY <1>1, <1>2, <1>3, <1>5, <1>6, <1>7, <1>8

\* A backspace takes the last byte off what is seen.
LEMMA BackSeen ==
  \A q \in Proxies :
     /\ Queue!PopBack(q) \in Proxies
     /\ Seen(q) = << >> => Queue!PopBack(q) = q
     /\ Seen(q) # << >> => Seen(Queue!PopBack(q)) = Front(Seen(q))
<1> TAKE q \in Proxies
<1>1. ProxySize \in Nat \ {0} /\ q \in Rings(ProxySize, Nat)
  BY TerminalsAssumption DEF Proxies
<1>2. PICK p : p = Ring!PopBack(q) /\ p = Queue!PopBack(q)
  BY ProxyIsRing
<1>3. /\ p \in Rings(ProxySize, Nat)
      /\ q.size = 0 => p = q
      /\ q.size > 0 => Ring!Items(p) = SubSeq(Ring!Items(q), 1, q.size - 1)
  BY <1>1, <1>2, RingPopBack
<1>4. Seen(q) \in Words /\ Len(Seen(q)) = q.size /\ Seen(q) = Ring!Items(q) /\ Seen(p) = Ring!Items(p)
  BY SeenWords, ProxyIsRing DEF Seen
<1>5. Len(<< >>) = 0
  OBVIOUS
<1>6. ASSUME Seen(q) = << >> PROVE p = q
  BY <1>3, <1>4, <1>5, <1>6
<1>7. ASSUME Seen(q) # << >> PROVE Seen(p) = Front(Seen(q))
  <2>1. q.size > 0
    BY <1>4, <1>7, FrontWord
  <2> QED BY <1>3, <1>4, <2>1 DEF Front
<1> QED BY <1>2, <1>3, <1>6, <1>7 DEF Proxies

\* What a terminal remembers once the bytes are shown.
Shown(q, bytes) == FoldLeft(Remember, q, bytes)

\* The states it goes through.
ShowRun(run, q0, bytes) ==
  /\ run \in [0 .. Len(bytes) -> Proxies]
  /\ run[0] = q0
  /\ \A k \in 1 .. Len(bytes) : run[k] = Remember(run[k - 1], bytes[k])
  /\ Shown(q0, bytes) = run[Len(bytes)]

\* The loop that shows the output, byte by byte.
LEMMA ShownRun ==
  ASSUME NEW q0 \in Proxies, NEW bytes \in Words
  PROVE  \E run : ShowRun(run, q0, bytes)
<1> DEFINE N == Len(bytes)
           step == [p \in Proxies \X (1 .. N) |-> Remember(p[1], bytes[p[2]])]
           Is(it) == it = [s \in SUBSET (1 .. N) |->
                IF s = {} THEN q0 ELSE Remember(it[s \ {Max(s)}], bytes[Max(s)])]
<1>1. N \in Nat /\ DOMAIN bytes = 1 .. N /\ \A i \in 1 .. N : bytes[i] \in Nat
  BY DEF Words
<1>2. step \in [Proxies \X (1 .. N) -> Proxies]
  BY <1>1, RememberSeen
<1>3. Shown(q0, bytes) = (CHOOSE it : Is(it))[1 .. N]
  BY <1>1 DEF Shown, FoldLeft, MapThenFoldSet
<1> HIDE DEF N
<1>4. PICK g : IsFold(g, N, Proxies, q0, step)
  <2> HIDE DEF step
  <2> QED BY <1>1, <1>2, FoldExists
<1>5. ASSUME NEW s \in SUBSET (1 .. N), s # {}
      PROVE  /\ Max(s) \in 1 .. N
             /\ step[<<g[s \ {Max(s)}], Max(s)>>] = Remember(g[s \ {Max(s)}], bytes[Max(s)])
  BY <1>1, <1>4, <1>5, MaxUpTo DEF IsFold
<1>6. Is(g)
  BY <1>4, <1>5 DEF IsFold
<1>7. PICK h : Is(h) /\ Shown(q0, bytes) = h[1 .. N]
  BY <1>3, <1>6
<1> HIDE DEF step
<1>8. h[{}] = q0
  BY <1>7
<1>9. ASSUME NEW k \in 1 .. N PROVE h[1 .. k] = Remember(h[1 .. k - 1], bytes[k])
  <2>1. k \in Nat \ {0} /\ k \in 1 .. k /\ 1 .. k \in SUBSET (1 .. N)
    BY <1>1
  <2>2. Max(1 .. k) = k /\ (1 .. k) \ {k} = 1 .. k - 1
    BY <2>1, MaxOfInterval
  <2> QED BY <1>7, <2>1, <2>2
<1>10. Unfolds(h, N, Proxies, q0, step)
  BY <1>8, <1>9 DEF step, Unfolds
<1>11. PICK run : IsRun(run, h, N, Proxies, q0, step)
  BY <1>1, <1>2, <1>10, FoldRun
<1>12. ASSUME NEW k \in 1 .. N PROVE run[k] = Remember(run[k - 1], bytes[k])
  <2>1. k - 1 \in 0 .. N
    BY <1>1
  <2>2. run[k - 1] \in Proxies /\ run[k] = step[<<run[k - 1], k>>]
    BY <1>11, <2>1 DEF IsRun
  <2> QED BY <2>2 DEF step
<1> QED BY <1>7, <1>11, <1>12 DEF N, IsRun, ShowRun

\* The latest of what was seen and of what is shown is seen then.
LEMMA ShownSeen ==
  \A q \in Proxies, bytes \in Words :
     /\ Shown(q, bytes) \in Proxies
     /\ bytes = << >> => Shown(q, bytes) = q
     /\ Seen(Shown(q, bytes)) = Latest(Chain(Seen(q), bytes), ProxySize)
<1> TAKE q \in Proxies, bytes \in Words
<1> PICK N \in Nat : N = Len(bytes)
  BY ChainLen
<1>1. /\ ProxySize \in Nat \ {0} /\ \A i \in 1 .. N : bytes[i] \in Nat
      /\ Seen(q) \in Words /\ Len(Seen(q)) <= ProxySize
  BY TerminalsAssumption, SeenWords DEF Words
<1>2. PICK run : ShowRun(run, q, bytes)
  BY ShownRun
<1>3. /\ run \in [0 .. N -> Proxies] /\ run[0] = q
      /\ \A k \in 1 .. N : run[k] = Remember(run[k - 1], bytes[k])
      /\ Shown(q, bytes) = run[N]
  BY <1>2 DEF ShowRun
<1> DEFINE first(k) == SubSeq(bytes, 1, k)
           Good(k) == Seen(run[k]) = Latest(Chain(Seen(q), first(k)), ProxySize)
           S == {k \in 0 .. N : Good(k)}
<1>4. \A k \in 0 .. N : first(k) \in Words
  BY SplitAt
<1>5. Good(0)
  <2>1. first(0) = << >>
    BY SubSeqEmpty
  <2> HIDE DEF first
  <2>2. Chain(Seen(q), first(0)) = Seen(q)
    BY <1>1, <2>1, ChainEmpty
  <2> QED BY <1>1, <1>3, <2>2, LatestProperties
<1>6. ASSUME NEW k \in 0 .. N - 1, Good(k) PROVE Good(k + 1)
  <2>1. k + 1 \in 1 .. N /\ (k + 1) - 1 = k /\ k \in 0 .. N /\ k + 1 \in 0 .. N
    OBVIOUS
  <2>2. PICK x \in Nat : x = bytes[k + 1]
    BY <1>1, <2>1
  <2>3. PICK e \in Words : e = <<x>>
    <3>1. <<x>> \in Words
      BY DEF Words
    <3> QED BY <3>1, Zenon
  <2>4. first(k + 1) = Chain(first(k), e)
    <3>1. k + 1 \in 1 .. Len(bytes) /\ 1 \in 1 .. Len(bytes) /\ bytes \in Seq(Nat)
      BY <2>1 DEF Words
    <3>2. SubSeq(bytes, 1, k + 1) = SubSeq(bytes, 1, (k + 1) - 1) \o <<bytes[k + 1]>>
      BY <3>1, SubSeqRecursiveSecond
    <3> QED BY <2>1, <2>2, <2>3, <3>2 DEF Chain
  <2>5. first(k) \in Words
    BY <1>4, <2>1
  <2> HIDE DEF first
  <2>6. PICK p \in Proxies : p = run[k]
    BY <1>3, <2>1
  <2>7. Seen(run[k + 1]) = Latest(Chain(Seen(p), e), ProxySize)
    <3>1. run[k + 1] = Remember(p, x)
      BY <1>3, <2>1, <2>2, <2>6
    <3> QED BY <2>3, <3>1, RememberSeen
  <2>8. PICK s \in Words : s = Chain(Seen(q), first(k))
    BY <1>1, <2>5, ChainWords
  <2>9. Seen(p) = Latest(s, ProxySize)
    BY <1>6, <2>6, <2>8
  <2>10. Latest(Chain(Latest(s, ProxySize), e), ProxySize) = Latest(Chain(s, e), ProxySize)
    BY <1>1, LatestGrows
  <2>11. Chain(s, e) = Chain(Seen(q), first(k + 1))
    BY <1>1, <2>4, <2>5, <2>8, ChainAssociative
  <2> QED BY <2>7, <2>9, <2>10, <2>11
<1> HIDE DEF Good
<1>7. 0 .. N \subseteq S
  <2>1. 0 \in S
    BY <1>5
  <2>2. \A k \in 0 .. N - 1 : k \in S => k + 1 \in S
    BY <1>6
  <2> HIDE DEF S
  <2> QED BY <2>1, <2>2, IntervalInduction
<1>8. Good(N)
  BY <1>7
<1>9. first(N) = bytes
  <2>1. bytes \in Seq(Nat)
    BY DEF Words
  <2> QED BY <2>1
<1> HIDE DEF first
<1>10. Seen(Shown(q, bytes)) = Latest(Chain(Seen(q), bytes), ProxySize)
  BY <1>3, <1>8, <1>9 DEF Good
<1>11. Shown(q, bytes) \in Proxies
  BY <1>3
<1>12. ASSUME bytes = << >> PROVE Shown(q, bytes) = q
  <2>1. N = 0
    BY <1>12
  <2> QED BY <1>3, <2>1
<1> QED BY <1>10, <1>11, <1>12

-----------------------------------------------------------------------------
(* What is still to come                                                   *)

\* The greatest of a set of numbers up to n, or 0 if there is none.
LEMMA MaxOrZero ==
  ASSUME NEW n \in Nat, NEW S \in SUBSET (1 .. n)
  PROVE  /\ Max(S \cup {0}) \in 0 .. n
         /\ \A y \in S : y <= Max(S \cup {0})
         /\ Max(S \cup {0}) # 0 => Max(S \cup {0}) \in S
<1>1. \E x \in S \cup {0} : \A y \in S \cup {0} : x >= y
  <2>1. CASE S = {}
    BY <2>1
  <2>2. CASE S # {}
    <3>1. PICK m \in S : \A y \in S : m >= y
      BY <2>2, MaxUpTo
    <3> QED BY <3>1
  <2> QED BY <2>1, <2>2
<1>2. Max(S \cup {0}) \in S \cup {0} /\ \A y \in S \cup {0} : Max(S \cup {0}) >= y
  BY <1>1 DEF Max
<1>3. PICK m \in 0 .. n : m = Max(S \cup {0})
  <2>1. Max(S \cup {0}) \in 0 .. n
    <3>1. S \cup {0} \subseteq 0 .. n
      OBVIOUS
    <3> QED BY <1>2, <3>1, Zenon
  <2> QED BY <2>1
<1> QED BY <1>2, <1>3

\* The bytes up to n come before those above n.
Parted(y, z, n) == (\A u \in Range(y) : u <= n) /\ (\A u \in Range(z) : u > n)

\* Since takes off what has come, up to the last byte, and leaves the rest.
Comes(bytes, owed) ==
  \E y \in Words : owed = Chain(y, Since(bytes, owed)) /\ Parted(y, Since(bytes, owed), Last(bytes))

\* It does so when what is owed is sorted.
LEMMA SincePart ==
  \A bytes, owed \in Words : bytes # << >> /\ Sorted(owed) =>
     Since(bytes, owed) \in Words /\ Comes(bytes, owed)
<1> TAKE bytes, owed \in Words
<1> HAVE bytes # << >> /\ Sorted(owed)
<1>1. PICK n \in Nat : n = Last(bytes)
  BY FrontWord
<1>2. PICK l \in Nat : l = Len(owed) /\ DOMAIN owed = 1 .. l /\ \A i \in 1 .. l : owed[i] \in Nat
  BY SMTT(30) DEF Words
<1> DEFINE come == {i \in DOMAIN owed : owed[i] <= n}
<1>3. come \in SUBSET (1 .. l) /\ \A i \in 1 .. l : i \in come <=> owed[i] <= n
  BY <1>2
<1>4. Since(bytes, owed) = SubSeq(owed, Max(come \cup {0}) + 1, l)
  BY <1>1, <1>2 DEF Since
<1> HIDE DEF come
<1>5. PICK k \in 0 .. l : k = Max(come \cup {0}) /\ (\A i \in come : i <= k) /\ (k # 0 => k \in come)
  BY <1>3, MaxOrZero
<1>6. PICK y, z \in Words : /\ y = SubSeq(owed, 1, k) /\ z = SubSeq(owed, k + 1, Len(owed))
                            /\ Len(y) = k /\ Len(z) = Len(owed) - k /\ owed = Chain(y, z)
  BY <1>2, SplitAt
<1>7. Since(bytes, owed) = z
  BY <1>2, <1>4, <1>5, <1>6
<1>8. /\ DOMAIN y = 1 .. k /\ DOMAIN z = 1 .. l - k
      /\ \A i \in 1 .. k : y[i] = owed[i]
      /\ \A i \in 1 .. l - k : z[i] = owed[k + i] /\ k + i \in 1 .. l
  <2>1. DOMAIN y = 1 .. k /\ DOMAIN z = 1 .. l - k
    BY <1>2, <1>6 DEF Words
  <2>2. Len(y) + Len(z) = l
    <3>1. Len(y) = k /\ Len(z) = l - k
      BY <1>2, <1>6
    <3>2. k + (l - k) = l
      BY ONLY l \in Nat, k \in 0 .. l
    <3> QED BY <3>1, <3>2
  <2>3. \A i \in 1 .. l : owed[i] = IF i <= k THEN y[i] ELSE z[i - k]
    <3> TAKE i \in 1 .. l
    <3>1. i \in 1 .. Len(y) + Len(z)
      BY <2>2
    <3>2. Chain(y, z)[i] = IF i <= Len(y) THEN y[i] ELSE z[i - Len(y)]
      BY <3>1, ChainAt
    <3> QED BY <1>6, <3>2
  <2>4. ASSUME NEW i \in 1 .. k PROVE y[i] = owed[i]
    <3>1. i \in 1 .. l /\ i <= k
      OBVIOUS
    <3> QED BY <2>3, <3>1
  <2>5. ASSUME NEW i \in 1 .. l - k PROVE z[i] = owed[k + i] /\ k + i \in 1 .. l
    <3>1. k + i \in 1 .. l /\ ~ (k + i <= k) /\ (k + i) - k = i
      OBVIOUS
    <3>2. PICK j \in 1 .. l : j = k + i
      BY <3>1
    <3>3. owed[j] = z[j - k]
      BY <2>3, <3>1, <3>2
    <3> QED BY <3>1, <3>2, <3>3
  <2> QED BY <2>1, <2>4, <2>5
<1>9. \A i, j \in 1 .. l : i < j => owed[i] < owed[j]
  BY <1>2 DEF Sorted
<1>10. ASSUME NEW u \in Range(y) PROVE u <= n
  <2>1. PICK i \in 1 .. k : u = owed[i]
    BY <1>8 DEF Range
  <2>2. k \in 1 .. l /\ owed[k] <= n /\ i \in 1 .. l
    BY <1>3, <1>5, <2>1
  <2>3. i = k \/ owed[i] < owed[k]
    BY <1>9, <2>2
  <2> QED BY <1>2, <2>1, <2>2, <2>3
<1>11. ASSUME NEW u \in Range(z) PROVE u > n
  <2>1. PICK i \in 1 .. l - k : u = z[i]
    BY <1>8 DEF Range
  <2>2. PICK j \in 1 .. l : j = k + i
    BY <1>8
  <2>3. u = owed[j]
    BY <1>8, <2>1, <2>2
  <2>4. j \notin come
    <3>1. ~ (j <= k)
      BY ONLY <2>2, k \in 0 .. l, l \in Nat, i \in 1 .. l - k
    <3> QED BY <1>5, <3>1
  <2> QED BY <1>2, <1>3, <2>3, <2>4
<1> QED BY <1>1, <1>6, <1>7, <1>10, <1>11 DEF Comes, Parted

\* An end that comes later than the bytes stays.
LEMMA SinceKeeps ==
  \A bytes, b, owed \in Words :
     /\ bytes # << >> /\ Sorted(owed) /\ Sorted(Chain(bytes, b)) /\ Suffix(b, owed)
     => Suffix(b, Since(bytes, owed))
<1> TAKE bytes, b, owed \in Words
<1> HAVE bytes # << >> /\ Sorted(owed) /\ Sorted(Chain(bytes, b)) /\ Suffix(b, owed)
<1>1. PICK z \in Words : z = Since(bytes, owed)
  BY SincePart
<1>2. PICK y \in Words : owed = Chain(y, z) /\ \A u \in Range(y) : u <= Last(bytes)
  BY <1>1, SincePart DEF Comes, Parted
<1>3. \A u \in Range(b) : Last(bytes) < u
  BY FrontWord, ChainSorted
<1>4. PICK x \in Words : owed = Chain(x, b)
  BY DEF Suffix
<1>5. GoesOn(x, b, y, z) \/ GoesOn(y, z, x, b)
  <2>1. Chain(x, b) = Chain(y, z)
    BY <1>2, <1>4
  <2> QED BY <2>1, Levi
<1>6. CASE GoesOn(x, b, y, z)
  BY <1>1, <1>6 DEF GoesOn, Suffix
<1>7. CASE GoesOn(y, z, x, b)
  <2>1. PICK w \in Words : y = Chain(x, w) /\ b = Chain(w, z)
    BY <1>7 DEF GoesOn
  <2>2. Range(w) \subseteq Range(y) /\ Range(w) \subseteq Range(b)
    BY <2>1, ChainRange
  <2>3. w = << >>
    <3> SUFFICES ASSUME w # << >> PROVE FALSE
      OBVIOUS
    <3>1. PICK u \in Nat : u \in Range(w)
      BY FrontWord
    <3>2. PICK n \in Nat : n = Last(bytes)
      BY FrontWord
    <3>3. u <= n /\ n < u
      BY <1>2, <1>3, <2>2, <3>1, <3>2
    <3> QED BY <3>3
  <2>4. b = z
    BY <2>1, <2>3, ChainEmpty
  <2> QED BY <1>1, <2>4, SuffixSelf
<1> QED BY <1>5, <1>6, <1>7

\* If the bytes, which are not empty, come at the front of what is owed, or end
\* there, the rest is what comes after them.
LEMMA SinceRest ==
  \A x, bytes, b \in Words :
     /\ bytes # << >> /\ Sorted(Chain(Chain(x, bytes), b))
     => Since(bytes, Chain(Chain(x, bytes), b)) = b
<1> TAKE x, bytes, b \in Words
<1> HAVE bytes # << >> /\ Sorted(Chain(Chain(x, bytes), b))
<1>1. PICK a \in Words : a = Chain(x, bytes)
  BY ChainWords
<1>2. PICK owed \in Words : owed = Chain(a, b)
  BY ChainWords
<1>3. PICK z \in Words : z = Since(bytes, owed)
  BY <1>1, <1>2, SincePart
<1>4. PICK y \in Words : owed = Chain(y, z) /\ \A u \in Range(z) : u > Last(bytes)
  BY <1>1, <1>2, <1>3, SincePart DEF Comes, Parted
<1>5. Chain(bytes, b) \in Words /\ owed = Chain(x, Chain(bytes, b))
  BY <1>1, <1>2, ChainWords, ChainAssociative
<1>6. Sorted(Chain(bytes, b))
  BY <1>1, <1>2, <1>5, ChainSorted
<1>7. Suffix(b, z)
  <2>1. Suffix(b, owed) /\ Sorted(owed)
    BY <1>1, <1>2, SuffixChain
  <2> QED BY <1>3, <1>6, <2>1, SinceKeeps
<1>8. PICK w \in Words : z = Chain(w, b)
  BY <1>7 DEF Suffix
<1>9. a = Chain(y, w)
  <2>1. Chain(y, w) \in Words /\ Chain(a, b) = Chain(Chain(y, w), b)
    BY <1>2, <1>4, <1>8, ChainWords, ChainAssociative
  <2>2. Len(a) = Len(Chain(y, w))
    <3>1. PICK c \in Words : c = Chain(y, w)
      BY <2>1
    <3>2. Chain(a, b) = Chain(c, b)
      BY <2>1, <3>1
    <3>3. /\ Len(a) \in Nat /\ Len(b) \in Nat /\ Len(c) \in Nat
          /\ Len(Chain(a, b)) = Len(a) + Len(b) /\ Len(Chain(c, b)) = Len(c) + Len(b)
      BY ChainLen
    <3> QED BY <3>1, <3>2, <3>3
  <2> QED BY <2>1, <2>2, ChainCancels
<1>10. w = << >>
  <2> SUFFICES ASSUME w # << >> PROVE FALSE
    OBVIOUS
  <2>1. PICK f, e \in Words : /\ w = Chain(f, e) /\ e = <<Last(w)>> /\ Last(w) \in Nat
    BY FrontWord
  <2>2. PICK g, d \in Words : bytes = Chain(g, d) /\ d = <<Last(bytes)>> /\ Last(bytes) \in Nat
    BY FrontWord
  <2>3. Last(w) \in Range(z) /\ Last(w) > Last(bytes)
    <3>1. Last(w) \in Range(w)
      BY FrontWord
    <3> QED BY <1>4, <1>8, <3>1, ChainRange
  <2>4. Suffix(e, a)
    <3>1. Suffix(e, w) /\ Suffix(w, a)
      BY <1>9, <2>1, SuffixChain
    <3> QED BY <3>1, SuffixTransitive
  <2>5. Suffix(d, a)
    <3>1. Suffix(d, bytes) /\ Suffix(bytes, a)
      BY <1>1, <2>2, SuffixChain
    <3> QED BY <3>1, SuffixTransitive
  <2>6. Len(e) = Len(d)
    BY <2>1, <2>2
  <2>7. e = d
    BY <2>4, <2>5, <2>6, SuffixesEqual
  <2>8. Last(w) = Last(bytes)
    <3>1. e[1] = Last(w) /\ d[1] = Last(bytes)
      BY <2>1, <2>2
    <3> QED BY <2>7, <3>1
  <2> QED BY <2>1, <2>2, <2>3, <2>8
<1> QED BY <1>1, <1>2, <1>3, <1>8, <1>10, ChainEmpty

\* What is sparse in a part that is sparse in the whole is sparse in the whole.
LEMMA SparseTransitive ==
  \A r, s, t \in Words : Sparse(r, s) /\ Sparse(s, t) => Sparse(r, t)
BY DEF Sparse

-----------------------------------------------------------------------------
(* The way in                                                              *)

\* What is on its way from the line to the shell, up to byte n: in the pipe, in
\* the buffer, entered and not read, and in the line.
Journey(in, buf, owed, line, n) ==
  /\ Sorted(Chain(owed, line)) /\ Range(Chain(owed, line)) \subseteq 1 .. n
  /\ Suffix(buf, owed)
  /\ Sparse(Chain(in, buf), owed)

\* A byte is typed.
LEMMA JourneyTypes ==
  \A in, buf, owed, line, e \in Words, n \in Nat :
     Journey(in, buf, owed, line, n) /\ e = <<n + 1>> => Journey(in, buf, owed, Chain(line, e), n + 1)
<1> TAKE in, buf, owed, line, e \in Words, n \in Nat
<1> HAVE Journey(in, buf, owed, line, n) /\ e = <<n + 1>>
<1>1. PICK u \in Words : u = Chain(owed, line) /\ Sorted(u) /\ Range(u) \subseteq 1 .. n
  BY ChainWords DEF Journey
<1>2. Chain(owed, Chain(line, e)) = Chain(u, e)
  BY <1>1, ChainAssociative
<1>3. Range(e) = {n + 1} /\ Sorted(e)
  BY DEF Range, Sorted
<1>4. Range(Chain(u, e)) \subseteq 1 .. n + 1
  <2>1. Range(Chain(u, e)) = Range(u) \cup Range(e)
    BY ChainRange
  <2> QED BY <1>1, <1>3, <2>1
<1>5. Sorted(Chain(u, e))
  <2>1. \A x \in Range(u), y \in Range(e) : x < y
    BY <1>1, <1>3
  <2> QED BY <1>1, <1>3, <2>1, ChainSorted
<1> QED BY <1>2, <1>4, <1>5 DEF Journey

\* Nothing happens but elsewhere.
LEMMA JourneyWaits ==
  \A in, buf, owed, line \in Words, n \in Nat :
     Journey(in, buf, owed, line, n) => Journey(in, buf, owed, line, n + 1)
<1> TAKE in, buf, owed, line \in Words, n \in Nat
<1> HAVE Journey(in, buf, owed, line, n)
<1>1. 1 .. n \subseteq 1 .. n + 1
  OBVIOUS
<1> QED BY <1>1 DEF Journey

\* The line is entered, and the buffer holds the end of it all.
LEMMA JourneyEnters ==
  \A in, buf, owed, line, kept \in Words, n \in Nat :
     Journey(in, buf, owed, line, n) /\ Suffix(kept, Chain(buf, line))
       => Journey(in, kept, Chain(owed, line), << >>, n)
<1> TAKE in, buf, owed, line, kept \in Words, n \in Nat
<1> HAVE Journey(in, buf, owed, line, n) /\ Suffix(kept, Chain(buf, line))
<1>1. PICK u \in Words : u = Chain(owed, line) /\ Sorted(u) /\ Range(u) \subseteq 1 .. n
  BY ChainWords DEF Journey
<1>2. Chain(u, << >>) = u /\ << >> \in Words
  BY ChainEmpty
<1>3. PICK b \in Words : b = Chain(buf, line)
  BY ChainWords
<1>4. Suffix(kept, u)
  <2>1. Suffix(b, u)
    BY <1>1, <1>3, SuffixGrows DEF Journey
  <2> QED BY <1>3, <2>1, SuffixTransitive
<1>5. Sparse(Chain(in, kept), u)
  <2>1. Sparse(Chain(in, kept), Chain(in, b))
    BY <1>3, SuffixSparse, ChainSparse
  <2>2. PICK p \in Words : p = Chain(in, buf)
    BY ChainWords
  <2>3. Sparse(Chain(p, line), u)
    <3>1. Sparse(p, owed)
      BY <2>2 DEF Journey
    <3> QED BY <1>1, <3>1, ChainSparse
  <2>4. Chain(p, line) = Chain(in, b)
    BY <1>3, <2>2, ChainAssociative
  <2>5. Chain(in, kept) \in Words /\ Chain(in, b) \in Words
    BY ChainWords
  <2> QED BY <2>1, <2>3, <2>4, <2>5, SparseTransitive
<1> QED BY <1>1, <1>2, <1>4, <1>5 DEF Journey

\* The last byte of the line is erased.
LEMMA JourneyErases ==
  \A in, buf, owed, line, e \in Words, n \in Nat :
     Journey(in, buf, owed, Chain(line, e), n) => Journey(in, buf, owed, line, n)
<1> TAKE in, buf, owed, line, e \in Words, n \in Nat
<1> HAVE Journey(in, buf, owed, Chain(line, e), n)
<1>1. PICK u \in Words : u = Chain(owed, line)
  BY ChainWords
<1>2. Chain(owed, Chain(line, e)) = Chain(u, e)
  BY <1>1, ChainAssociative
<1>3. Sorted(u) /\ Range(u) \subseteq 1 .. n
  <2>1. Sorted(Chain(u, e)) /\ Range(Chain(u, e)) \subseteq 1 .. n
    BY <1>2 DEF Journey
  <2> QED BY <2>1, ChainSorted, ChainRange
<1> QED BY <1>1, <1>3 DEF Journey

\* A byte goes from the buffer to the pipe.
LEMMA JourneyFeeds ==
  \A in, buf, owed, line, e \in Words, n \in Nat :
     Journey(in, Chain(e, buf), owed, line, n) => Journey(Chain(in, e), buf, owed, line, n)
<1> TAKE in, buf, owed, line, e \in Words, n \in Nat
<1> HAVE Journey(in, Chain(e, buf), owed, line, n)
<1>1. Chain(Chain(in, e), buf) = Chain(in, Chain(e, buf))
  BY ChainAssociative
<1>2. Suffix(buf, owed)
  <2>1. Suffix(Chain(e, buf), owed)
    BY DEF Journey
  <2> QED BY <2>1, ChainWords, SuffixChain, SuffixTransitive
<1> QED BY <1>1, <1>2 DEF Journey

\* The shell reads what is in the pipe.
LEMMA JourneyReads ==
  \A in, buf, owed, line \in Words, n \in Nat :
     Journey(in, buf, owed, line, n) /\ in # << >>
       => /\ Since(in, owed) \in Words
          /\ Journey(<< >>, buf, Since(in, owed), line, n)
          /\ Chain(in, buf) = owed => Chain(<< >>, buf) = Since(in, owed)
<1> TAKE in, buf, owed, line \in Words, n \in Nat
<1> HAVE Journey(in, buf, owed, line, n) /\ in # << >>
<1>1. Sorted(Chain(owed, line)) /\ Range(Chain(owed, line)) \subseteq 1 .. n
  BY DEF Journey
<1>2. Sorted(owed)
  BY <1>1, ChainSorted
<1>3. Sorted(Chain(in, buf))
  BY <1>2 DEF Journey, Sparse
<1>4. PICK z \in Words : z = Since(in, owed)
  BY <1>2, SincePart
<1>5. PICK y \in Words : owed = Chain(y, z)
  BY <1>2, <1>4, SincePart DEF Comes
<1>6. Suffix(buf, z)
  BY <1>2, <1>3, <1>4, SinceKeeps DEF Journey
<1>7. Chain(<< >>, buf) = buf
  BY ChainEmpty
<1>8. Sorted(Chain(z, line)) /\ Range(Chain(z, line)) \subseteq 1 .. n
  <2>1. PICK u \in Words : u = Chain(z, line)
    BY ChainWords
  <2>2. Chain(owed, line) = Chain(y, u)
    BY <1>5, <2>1, ChainAssociative
  <2>3. Sorted(u) /\ Range(u) \subseteq 1 .. n
    BY <1>1, <2>2, ChainSorted, ChainRange
  <2> QED BY <2>1, <2>3
<1>9. Journey(<< >>, buf, z, line, n)
  <2>1. Sparse(buf, z)
    BY <1>6, SuffixSparse
  <2> QED BY <1>6, <1>7, <1>8, <2>1 DEF Journey
<1>10. ASSUME Chain(in, buf) = owed PROVE buf = z
  <2>1. << >> \in Words /\ Chain(<< >>, in) = in
    BY ChainEmpty
  <2>2. Chain(Chain(<< >>, in), buf) = owed
    BY <1>10, <2>1
  <2>3. Since(in, Chain(Chain(<< >>, in), buf)) = buf
    BY <1>2, <2>1, <2>2, SinceRest
  <2> QED BY <1>4, <2>2, <2>3
<1> QED BY <1>4, <1>7, <1>9, <1>10

-----------------------------------------------------------------------------
(* The way out                                                             *)

\* What is on its way to the screen, up to byte n: in the buffer, in the pipe,
\* written and not shown.
Return(buf, out, owed, n) ==
  /\ Sorted(owed) /\ Range(owed) \subseteq 1 .. n
  /\ Suffix(Chain(buf, out), owed)

\* A byte is written.
LEMMA ReturnWrites ==
  \A buf, out, owed, e \in Words, n \in Nat :
     Return(buf, out, owed, n) /\ e = <<n + 1>> => Return(buf, Chain(out, e), Chain(owed, e), n + 1)
<1> TAKE buf, out, owed, e \in Words, n \in Nat
<1> HAVE Return(buf, out, owed, n) /\ e = <<n + 1>>
<1>1. Sorted(owed) /\ Range(owed) \subseteq 1 .. n
  BY DEF Return
<1>2. Range(e) = {n + 1} /\ Sorted(e)
  BY DEF Range, Sorted
<1>3. Range(Chain(owed, e)) \subseteq 1 .. n + 1
  <2>1. Range(Chain(owed, e)) = Range(owed) \cup Range(e)
    BY ChainRange
  <2> QED BY <1>1, <1>2, <2>1
<1>4. Sorted(Chain(owed, e))
  <2>1. \A x \in Range(owed), y \in Range(e) : x < y
    BY <1>1, <1>2
  <2> QED BY <1>1, <1>2, <2>1, ChainSorted
<1>5. Suffix(Chain(buf, Chain(out, e)), Chain(owed, e))
  <2>1. Chain(buf, out) \in Words /\ Suffix(Chain(buf, out), owed)
    BY ChainWords DEF Return
  <2>2. Chain(buf, Chain(out, e)) = Chain(Chain(buf, out), e)
    BY ChainAssociative
  <2> QED BY <2>1, <2>2, SuffixGrows
<1> QED BY <1>3, <1>4, <1>5 DEF Return

\* Nothing happens but elsewhere.
LEMMA ReturnWaits ==
  \A buf, out, owed \in Words, n \in Nat : Return(buf, out, owed, n) => Return(buf, out, owed, n + 1)
<1> TAKE buf, out, owed \in Words, n \in Nat
<1> HAVE Return(buf, out, owed, n)
<1>1. 1 .. n \subseteq 1 .. n + 1
  OBVIOUS
<1> QED BY <1>1 DEF Return

\* A chunk is read, and the buffer holds the end of it all.
LEMMA ReturnReads ==
  \A buf, out, owed, chunk, kept \in Words, n \in Nat :
     Return(buf, Chain(chunk, out), owed, n) /\ Suffix(kept, Chain(buf, chunk))
       => Return(kept, out, owed, n)
<1> TAKE buf, out, owed, chunk, kept \in Words, n \in Nat
<1> HAVE Return(buf, Chain(chunk, out), owed, n) /\ Suffix(kept, Chain(buf, chunk))
<1>1. PICK u \in Words : u = Chain(buf, chunk)
  BY ChainWords
<1>2. Chain(buf, Chain(chunk, out)) = Chain(u, out)
  BY <1>1, ChainAssociative
<1>3. Suffix(Chain(u, out), owed)
  BY <1>2 DEF Return
<1>4. Suffix(Chain(kept, out), Chain(u, out))
  BY <1>1, SuffixGrows
<1>5. Suffix(Chain(kept, out), owed)
  BY <1>3, <1>4, ChainWords, SuffixTransitive
<1> QED BY <1>5 DEF Return

\* What is in the buffer is shown.
LEMMA ReturnShows ==
  \A buf, out, owed \in Words, n \in Nat :
     Return(buf, out, owed, n)
       => /\ Since(buf, owed) \in Words
          /\ Return(<< >>, out, Since(buf, owed), n)
          /\ Chain(buf, out) = owed => Chain(<< >>, out) = Since(buf, owed)
<1> TAKE buf, out, owed \in Words, n \in Nat
<1> HAVE Return(buf, out, owed, n)
<1>1. Sorted(owed) /\ Range(owed) \subseteq 1 .. n /\ Suffix(Chain(buf, out), owed)
  BY DEF Return
<1>2. Chain(<< >>, out) = out
  BY ChainEmpty
<1>3. CASE buf = << >>
  BY <1>1, <1>3 DEF Since, Return
<1>4. CASE buf # << >>
  <2>1. PICK x \in Words : owed = Chain(x, Chain(buf, out))
    BY <1>1 DEF Suffix
  <2>2. owed = Chain(Chain(x, buf), out)
    BY <2>1, ChainAssociative
  <2>3. Since(buf, owed) = out
    BY <1>1, <1>4, <2>2, SinceRest
  <2>4. Sorted(out) /\ Range(out) \subseteq 1 .. n
    <3>1. PICK u \in Words : u = Chain(x, buf)
      BY ChainWords
    <3> QED BY <1>1, <2>2, <3>1, ChainSorted, ChainRange
  <2>5. Suffix(out, out)
    BY SuffixSelf
  <2> QED BY <1>2, <2>3, <2>4, <2>5 DEF Return
<1> QED BY <1>3, <1>4

-----------------------------------------------------------------------------
(* The line and the screen                                                 *)

\* What is seen and the line have the same end, as far as they go.
Fits(line, seen) == Suffix(line, seen) \/ Suffix(seen, line)

\* A byte is typed and shown.
LEMMA FitsTypes ==
  \A line, seen, e \in Words, n \in Nat \ {0} :
     Fits(line, seen) => Fits(Chain(line, e), Latest(Chain(seen, e), n))
<1> TAKE line, seen, e \in Words, n \in Nat \ {0}
<1> HAVE Fits(line, seen)
<1>1. PICK u \in Words : u = Chain(line, e)
  BY ChainWords
<1>2. PICK v \in Words : v = Chain(seen, e)
  BY ChainWords
<1>3. PICK w \in Words : w = Latest(v, n) /\ Suffix(w, v)
  BY LatestProperties
<1>4. CASE Suffix(line, seen)
  BY <1>1, <1>2, <1>3, <1>4, SuffixGrows, SuffixesCompare DEF Fits
<1>5. CASE Suffix(seen, line)
  BY <1>1, <1>2, <1>3, <1>5, SuffixGrows, SuffixTransitive DEF Fits
<1> QED BY <1>4, <1>5 DEF Fits

\* A line begins.
LEMMA FitsFirst ==
  \A seen, e \in Words, n \in Nat \ {0} : Fits(e, Latest(Chain(seen, e), n))
<1> TAKE seen, e \in Words, n \in Nat \ {0}
<1>1. PICK v \in Words : v = Chain(seen, e) /\ Suffix(e, v)
  BY ChainWords, SuffixChain
<1>2. PICK w \in Words : w = Latest(v, n) /\ Suffix(w, v)
  BY LatestProperties
<1> QED BY <1>1, <1>2, SuffixesCompare DEF Fits

\* An end without its last byte.
LEMMA SuffixFront ==
  \A s, t \in Words : Suffix(s, t) /\ s # << >> => t # << >> /\ Suffix(Front(s), Front(t))
<1> TAKE s, t \in Words
<1> HAVE Suffix(s, t) /\ s # << >>
<1>1. PICK x \in Words : t = Chain(x, s)
  BY DEF Suffix
<1>2. PICK f, e \in Words : f = Front(s) /\ s = Chain(f, e) /\ Len(e) = 1 /\ Len(f) \in Nat
  <2>1. Front(s) \in Words /\ <<Last(s)>> \in Words /\ s = Chain(Front(s), <<Last(s)>>)
    BY FrontWord
  <2>2. Len(<<Last(s)>>) = 1 /\ Len(Front(s)) \in Nat
    BY <2>1, ChainLen
  <2> QED BY <2>1, <2>2
<1>3. PICK u \in Words : u = Chain(x, f)
  BY ChainWords
<1>4. t = Chain(u, e)
  <2>1. Chain(x, Chain(f, e)) = Chain(Chain(x, f), e)
    BY ChainAssociative
  <2> QED BY <1>1, <1>2, <1>3, <2>1
<1>5. Len(t) = Len(u) + 1 /\ Len(u) \in Nat
  BY <1>2, <1>4, ChainLen
<1>6. t # << >>
  BY <1>5
<1>7. Front(t) \in Words /\ <<Last(t)>> \in Words /\ t = Chain(Front(t), <<Last(t)>>) /\ Len(Front(t)) = Len(t) - 1
  BY <1>6, FrontWord
<1>8. Front(t) = u
  BY <1>4, <1>5, <1>7, ChainCancels
<1> QED BY <1>2, <1>3, <1>6, <1>8, SuffixChain

\* The last byte is erased, of the line and of what is seen of it.
LEMMA FitsErases ==
  \A line, seen \in Words :
     Fits(line, seen) /\ line # << >>
       => Fits(Front(line), IF seen = << >> THEN seen ELSE Front(seen))
<1> TAKE line, seen \in Words
<1> HAVE Fits(line, seen) /\ line # << >>
<1>1. Front(line) \in Words
  BY FrontWord
<1>2. CASE seen = << >>
  BY <1>1, <1>2, SuffixSelf DEF Fits
<1>3. CASE seen # << >>
  BY <1>3, SuffixFront DEF Fits
<1> QED BY <1>2, <1>3

-----------------------------------------------------------------------------
(* The invariant                                                           *)

\* Where the program is: the terminal shown, and the one read next, are initialized.
ControlInv ==
  /\ pc \in {"key", "command", "feed", "read"}
  /\ ttys \subseteq Tty /\ 0 \in ttys /\ current_tty \in ttys
  /\ next \in ttys \cup {N_TTYS + 1}

\* What was entered at a terminal and not read is on its way there, in order; all of it,
\* unless the buffer dropped a byte.
InputInv ==
  /\ typed \in 0 .. MaxTyped
  /\ buffer_line \in [Tty -> Words] /\ buffer_stdin \in [Tty -> Words]
  /\ stdin \in [Tty -> Words] /\ entered \in [Tty -> Words]
  /\ \A t \in Tty :
       /\ Len(stdin[t]) <= FIFO_SIZE /\ Len(buffer_stdin[t]) <= BufferSize
       /\ Journey(stdin[t], buffer_stdin[t], entered[t], buffer_line[t], typed)
       /\ t \notin overrun.input => Chain(stdin[t], buffer_stdin[t]) = entered[t]

\* So is what the programs of a terminal wrote, on its way to the screen.
OutputInv ==
  /\ written \in 0 .. MaxWritten
  /\ buffer_stdout \in [Tty -> Words] /\ stdout \in [Tty -> Words] /\ wrote \in [Tty -> Words]
  /\ \A t \in Tty :
       /\ Len(stdout[t]) <= FIFO_SIZE /\ Len(buffer_stdout[t]) <= BufferSize
       /\ Return(buffer_stdout[t], stdout[t], wrote[t], MaxTyped + written)
       /\ t \notin overrun.output => Chain(buffer_stdout[t], stdout[t]) = wrote[t]

\* The screen shows what the current terminal remembers, and that ends with the line
\* being typed, unless other output came in between.
SeenInv ==
  /\ proxy \in [Tty -> Proxies] /\ screen \in Words
  /\ \A t \in Tty : Range(Seen(proxy[t])) \subseteq Byte
  /\ pc # "command" => screen = Seen(proxy[current_tty])
  /\ pc = "command" => screen = << >>
  /\ \A t \in Tty : t \notin mixed => Fits(buffer_line[t], Seen(proxy[t]))

\* The terminals whose buffers dropped a byte.
OverrunInv == overrun \in [input : SUBSET Tty, output : SUBSET Tty]

\* The inductive invariant.
IInv == ControlInv /\ OverrunInv /\ InputInv /\ OutputInv /\ SeenInv

\* A buffer is empty at first.
LEMMA EmptyWord == << >> \in Words /\ Len(<< >>) = 0
BY DEF Words

\* A byte is put at the end of a word.
LEMMA AppendWord ==
  \A s \in Words, x \in Nat :
     <<x>> \in Words /\ Append(s, x) = Chain(s, <<x>>) /\ Append(s, x) \in Words
<1> TAKE s \in Words, x \in Nat
<1>1. s \in Seq(Nat) /\ <<x>> \in Seq(Nat)
  BY DEF Words
<1>2. Append(s, x) = s \o <<x>> /\ Append(s, x) \in Seq(Nat)
  BY <1>1, AppendIsConcat, AppendProperties
<1> QED BY <1>1, <1>2 DEF Words, Chain

\* Nothing is on its way at first.
LEMMA NothingWaits == Journey(<< >>, << >>, << >>, << >>, 0) /\ Return(<< >>, << >>, << >>, MaxTyped)
<1>1. << >> \in Words /\ Chain(<< >>, << >>) = << >>
  BY EmptyWord, ChainEmpty
<1>2. Suffix(<< >>, << >>)
  BY <1>1, SuffixSelf
<1>3. Range(<< >>) = {} /\ Sorted(<< >>)
  BY DEF Range, Sorted
<1>4. Sparse(<< >>, << >>)
  BY DEF Sparse
<1> QED BY <1>1, <1>2, <1>3, <1>4 DEF Journey, Return

-----------------------------------------------------------------------------
(* The input                                                               *)

\* The first state.
LEMMA InputInit == Init => InputInv
<1> SUFFICES ASSUME Init PROVE InputInv
  OBVIOUS
<1>1. /\ typed = 0 /\ buffer_line = [t \in Tty |-> << >>] /\ buffer_stdin = [t \in Tty |-> << >>]
      /\ stdin = [t \in Tty |-> << >>] /\ entered = [t \in Tty |-> << >>]
  BY DEF Init
<1>2. << >> \in Words /\ Chain(<< >>, << >>) = << >> /\ Len(<< >>) = 0
  BY EmptyWord, ChainEmpty
<1>3. Journey(<< >>, << >>, << >>, << >>, 0)
  BY NothingWaits
<1>4. 0 \in 0 .. MaxTyped /\ 0 <= FIFO_SIZE /\ 0 <= BufferSize
  BY TerminalsAssumption
<1> QED BY <1>1, <1>2, <1>3, <1>4 DEF InputInv

\* The state of one terminal's input, before and after a step.
LEMMA TypeInput == ASSUME InputInv, ControlInv, Type PROVE InputInv'
<1> DEFINE c == current_tty
<1>1. c \in Tty /\ typed < MaxTyped /\ typed' = typed + 1 /\ typed \in Nat /\ typed' \in 0 .. MaxTyped
  BY TerminalsAssumption DEF Type, ControlInv, InputInv
<1>2. /\ buffer_line' = [buffer_line EXCEPT ![c] = Append(@, typed + 1)]
      /\ UNCHANGED <<buffer_stdin, stdin, entered, overrun>>
  BY DEF Type
<1> HIDE DEF c
<1>3. PICK e \in Words : e = <<typed + 1>>
  <2>1. <<typed + 1>> \in Words
    BY <1>1 DEF Words
  <2> QED BY <2>1, Zenon
<1>4. PICK v \in Words : v = Append(buffer_line[c], typed + 1) /\ v = Chain(buffer_line[c], e)
  <2>1. buffer_line[c] \in Words /\ typed + 1 \in Nat
    BY <1>1 DEF InputInv
  <2> QED BY <1>3, <2>1, AppendWord
<1>5. /\ buffer_line' \in [Tty -> Words]
      /\ buffer_line'[c] = Chain(buffer_line[c], e)
      /\ \A t \in Tty : t # c => buffer_line'[t] = buffer_line[t]
  <2>1. buffer_line' = [buffer_line EXCEPT ![c] = v] /\ buffer_line \in [Tty -> Words]
    BY <1>2, <1>4 DEF InputInv
  <2> QED BY <1>1, <1>4, <2>1
<1>6. ASSUME NEW t \in Tty
      PROVE Journey(stdin[t], buffer_stdin[t], entered[t], buffer_line'[t], typed + 1)
  <2>1. /\ stdin[t] \in Words /\ buffer_stdin[t] \in Words /\ entered[t] \in Words /\ buffer_line[t] \in Words
        /\ Journey(stdin[t], buffer_stdin[t], entered[t], buffer_line[t], typed)
    BY DEF InputInv
  <2>2. CASE t = c
    <3>1. PICK n \in Nat : n = typed /\ e = <<n + 1>>
      BY <1>1, <1>3
    <3>2. Journey(stdin[t], buffer_stdin[t], entered[t], Chain(buffer_line[t], e), n + 1)
      BY <2>1, <3>1, JourneyTypes
    <3> QED BY <1>5, <2>2, <3>1, <3>2
  <2>3. CASE t # c
    BY <1>1, <1>5, <2>1, <2>3, JourneyWaits
  <2> QED BY <2>2, <2>3
<1> QED BY <1>1, <1>2, <1>5, <1>6 DEF InputInv

\* The line moves to the buffer, which drops the oldest it holds when it is full.
LEMMA EnterInput == ASSUME InputInv, ControlInv, OverrunInv, Enter PROVE InputInv'
<1> DEFINE c == current_tty
           line == Append(buffer_line[c], typed + 1)
<1>1. c \in Tty /\ typed < MaxTyped /\ typed' = typed + 1 /\ typed \in Nat /\ typed' \in 0 .. MaxTyped
  BY TerminalsAssumption, SMTT(30) DEF Enter, ControlInv, InputInv
<1>2. /\ buffer_stdin' = [buffer_stdin EXCEPT ![c] = Buffered(@, line)]
      /\ buffer_line' = [buffer_line EXCEPT ![c] = << >>]
      /\ entered' = [entered EXCEPT ![c] = @ \o line]
      /\ overrun' = IF Overruns(buffer_stdin[c], line)
                    THEN [overrun EXCEPT !.input = @ \cup {c}] ELSE overrun
      /\ UNCHANGED stdin
  BY DEF Enter
<1>3. PICK e \in Words : e = <<typed + 1>>
  <2>1. <<typed + 1>> \in Words
    BY <1>1 DEF Words
  <2> QED BY <2>1, Zenon
<1>0. buffer_line[c] \in Words /\ stdin[c] \in Words /\ buffer_stdin[c] \in Words /\ entered[c] \in Words
  BY <1>1 DEF InputInv
<1>4. line = Chain(buffer_line[c], e)
  <2>1. typed + 1 \in Nat
    BY <1>1
  <2> QED BY <1>0, <1>3, <2>1, AppendWord
<1>5. PICK l \in Words : l = line /\ l = Chain(buffer_line[c], e)
  BY <1>0, <1>3, <1>4, ChainWords
<1>6. PICK b \in Words : b = Chain(buffer_stdin[c], l)
  BY <1>0, ChainWords
<1>7. PICK kept \in Words : /\ kept = Latest(b, BufferSize) /\ Suffix(kept, b) /\ Len(kept) <= BufferSize
                            /\ Len(b) <= BufferSize => kept = b
  <2>1. BufferSize \in Nat \ {0} /\ Len(b) \in Nat
    BY TerminalsAssumption, ChainLen
  <2> QED BY <2>1, LatestProperties
<1>8. Buffered(buffer_stdin[c], line) = kept /\ entered[c] \o line = Chain(entered[c], l)
  BY <1>5, <1>6, <1>7 DEF Buffered, Chain
<1>9. Overruns(buffer_stdin[c], line) <=> Len(b) > BufferSize
  <2>1. Len(b) = Len(buffer_stdin[c]) + Len(l)
    BY <1>0, <1>6, ChainLen
  <2> QED BY <1>5, <2>1 DEF Overruns
<1> HIDE DEF c, line
<1>10. /\ buffer_line' \in [Tty -> Words] /\ buffer_line'[c] = << >>
       /\ \A t \in Tty : t # c => buffer_line'[t] = buffer_line[t]
  BY <1>1, <1>2, ChainEmpty, SeenWords DEF InputInv
<1>11. /\ buffer_stdin' \in [Tty -> Words] /\ buffer_stdin'[c] = kept
       /\ \A t \in Tty : t # c => buffer_stdin'[t] = buffer_stdin[t]
  BY <1>1, <1>2, <1>8 DEF InputInv
<1>12. /\ entered' \in [Tty -> Words] /\ entered'[c] = Chain(entered[c], l)
       /\ \A t \in Tty : t # c => entered'[t] = entered[t]
  BY <1>0, <1>1, <1>2, <1>8, ChainWords DEF InputInv
<1>13. /\ c \notin overrun'.input => c \notin overrun.input /\ Len(b) <= BufferSize
       /\ \A t \in Tty : t \notin overrun'.input => t \notin overrun.input
  <2>1. CASE Overruns(buffer_stdin[c], line)
    <3>1. overrun'.input = overrun.input \cup {c}
      BY <1>2, <2>1 DEF OverrunInv
    <3> QED BY <3>1
  <2>2. CASE ~ Overruns(buffer_stdin[c], line)
    <3>1. overrun' = overrun
      BY <1>2, <2>2
    <3>2. Len(b) \in Nat /\ BufferSize \in Nat
      BY ChainLen, TerminalsAssumption
    <3> QED BY <1>9, <2>2, <3>1, <3>2
  <2> QED BY <2>1, <2>2
<1>14. ASSUME NEW t \in Tty
       PROVE  /\ Len(stdin[t]) <= FIFO_SIZE /\ Len(buffer_stdin'[t]) <= BufferSize
              /\ Journey(stdin[t], buffer_stdin'[t], entered'[t], buffer_line'[t], typed + 1)
              /\ t \notin overrun'.input => Chain(stdin[t], buffer_stdin'[t]) = entered'[t]
  <2>1. /\ stdin[t] \in Words /\ buffer_stdin[t] \in Words /\ entered[t] \in Words /\ buffer_line[t] \in Words
        /\ Journey(stdin[t], buffer_stdin[t], entered[t], buffer_line[t], typed)
        /\ Len(stdin[t]) <= FIFO_SIZE /\ Len(buffer_stdin[t]) <= BufferSize
        /\ t \notin overrun.input => Chain(stdin[t], buffer_stdin[t]) = entered[t]
    BY DEF InputInv
  <2>2. CASE t = c
    <3>1. Journey(stdin[c], buffer_stdin[c], entered[c], l, typed + 1)
      <4>1. Journey(stdin[c], buffer_stdin[c], entered[c], buffer_line[c], typed)
        BY <2>1, <2>2
      <4>2. PICK n \in Nat : n = typed /\ e = <<n + 1>>
        BY <1>1, <1>3
      <4>3. Journey(stdin[c], buffer_stdin[c], entered[c], Chain(buffer_line[c], e), n + 1)
        BY <1>0, <4>1, <4>2, JourneyTypes
      <4> QED BY <1>5, <4>2, <4>3
    <3>2. typed + 1 \in Nat
      BY <1>1
    <3>3. Journey(stdin[c], kept, Chain(entered[c], l), << >>, typed + 1)
      BY <1>0, <1>6, <1>7, <3>1, <3>2, JourneyEnters
    <3>4. ASSUME c \notin overrun'.input PROVE Chain(stdin[c], kept) = Chain(entered[c], l)
      <4>1. kept = b /\ Chain(stdin[c], buffer_stdin[c]) = entered[c]
        BY <1>7, <1>13, <2>1, <2>2, <3>4
      <4>2. Chain(stdin[c], Chain(buffer_stdin[c], l)) = Chain(Chain(stdin[c], buffer_stdin[c]), l)
        BY <1>0, ChainAssociative
      <4> QED BY <1>6, <4>1, <4>2
    <3> QED BY <1>7, <1>10, <1>11, <1>12, <2>1, <2>2, <3>3, <3>4
  <2>3. CASE t # c
    BY <1>1, <1>10, <1>11, <1>12, <1>13, <2>1, <2>3, JourneyWaits
  <2> QED BY <2>2, <2>3
<1> QED BY <1>1, <1>2, <1>10, <1>11, <1>12, <1>14 DEF InputInv

\* The last byte of the line is taken back before it is on its way.
LEMMA BackspaceInput == ASSUME InputInv, ControlInv, Backspace PROVE InputInv'
<1> DEFINE c == current_tty
<1>1. c \in Tty /\ buffer_line[c] \in Words /\ buffer_line[c] # << >> /\ typed \in Nat
  BY TerminalsAssumption DEF Backspace, ControlInv, InputInv
<1>2. /\ buffer_line' = [buffer_line EXCEPT ![c] = Front(@)]
      /\ UNCHANGED <<buffer_stdin, stdin, entered, overrun, typed>>
  BY DEF Backspace, input
<1> HIDE DEF c
<1>3. PICK f, e \in Words : f = Front(buffer_line[c]) /\ buffer_line[c] = Chain(f, e)
  BY <1>1, FrontWord
<1>4. /\ buffer_line' \in [Tty -> Words] /\ buffer_line'[c] = f
      /\ \A t \in Tty : t # c => buffer_line'[t] = buffer_line[t]
  BY <1>1, <1>2, <1>3 DEF InputInv
<1>5. ASSUME NEW t \in Tty
      PROVE Journey(stdin[t], buffer_stdin[t], entered[t], buffer_line'[t], typed)
  <2>1. /\ stdin[t] \in Words /\ buffer_stdin[t] \in Words /\ entered[t] \in Words /\ buffer_line[t] \in Words
        /\ Journey(stdin[t], buffer_stdin[t], entered[t], buffer_line[t], typed)
    BY DEF InputInv
  <2>2. CASE t = c
    <3>1. Journey(stdin[t], buffer_stdin[t], entered[t], Chain(f, e), typed)
      BY <1>3, <2>1, <2>2
    <3>2. Journey(stdin[t], buffer_stdin[t], entered[t], f, typed)
      BY <1>1, <2>1, <3>1, JourneyErases
    <3> QED BY <1>4, <2>2, <3>2
  <2>3. CASE t # c
    BY <1>4, <2>1, <2>3
  <2> QED BY <2>2, <2>3
<1> QED BY <1>2, <1>4, <1>5 DEF InputInv

\* The head of the buffer goes to the pipe, if that has room.
LEMMA FeedInput == ASSUME InputInv, ControlInv, Feed PROVE InputInv'
<1> DEFINE c == current_tty
<1>1. c \in Tty /\ buffer_stdin[c] \in Words /\ stdin[c] \in Words /\ entered[c] \in Words /\ typed \in Nat
  BY TerminalsAssumption DEF ControlInv, InputInv
<1>2. UNCHANGED <<buffer_line, entered, typed, overrun>>
  BY DEF Feed, input
<1>3. CASE UNCHANGED <<buffer_stdin, stdin>>
  BY <1>2, <1>3 DEF InputInv
<1>4. ASSUME ~ UNCHANGED <<buffer_stdin, stdin>>
      PROVE InputInv'
  <2>1. /\ buffer_stdin[c] # << >> /\ Len(stdin[c]) # FIFO_SIZE
        /\ stdin' = [stdin EXCEPT ![c] = Append(@, Head(buffer_stdin[c]))]
        /\ buffer_stdin' = [buffer_stdin EXCEPT ![c] = Tail(@)]
    BY <1>4 DEF Feed
  <2> HIDE DEF c
  <2>2. PICK e, r \in Words : /\ e = <<Head(buffer_stdin[c])>> /\ r = Tail(buffer_stdin[c])
                              /\ buffer_stdin[c] = Chain(e, r) /\ Len(e) = 1
                              /\ Head(buffer_stdin[c]) \in Nat
    <3>1. PICK s \in Seq(Nat) : s = buffer_stdin[c]
      BY <1>1 DEF Words
    <3>2. s # << >>
      BY <2>1, <3>1
    <3>3. Head(s) \in Nat /\ Tail(s) \in Seq(Nat) /\ s = <<Head(s)>> \o Tail(s)
      BY <3>2
    <3>4. <<Head(s)>> \in Seq(Nat) /\ Len(<<Head(s)>>) = 1
      BY <3>3
    <3> QED BY <3>1, <3>3, <3>4, Zenon DEF Words, Chain
  <2>3. Append(stdin[c], Head(buffer_stdin[c])) = Chain(stdin[c], e)
    BY <1>1, <2>2, AppendIsConcat DEF Words, Chain
  <2>4. /\ stdin' \in [Tty -> Words] /\ stdin'[c] = Chain(stdin[c], e)
        /\ \A t \in Tty : t # c => stdin'[t] = stdin[t]
    BY <1>1, <2>1, <2>2, <2>3, ChainWords DEF InputInv
  <2>5. /\ buffer_stdin' \in [Tty -> Words] /\ buffer_stdin'[c] = r
        /\ \A t \in Tty : t # c => buffer_stdin'[t] = buffer_stdin[t]
    BY <1>1, <2>1, <2>2 DEF InputInv
  <2>6. ASSUME NEW t \in Tty
        PROVE  /\ Len(stdin'[t]) <= FIFO_SIZE /\ Len(buffer_stdin'[t]) <= BufferSize
               /\ Journey(stdin'[t], buffer_stdin'[t], entered[t], buffer_line[t], typed)
               /\ t \notin overrun.input => Chain(stdin'[t], buffer_stdin'[t]) = entered[t]
    <3>1. /\ stdin[t] \in Words /\ buffer_stdin[t] \in Words /\ entered[t] \in Words /\ buffer_line[t] \in Words
          /\ Journey(stdin[t], buffer_stdin[t], entered[t], buffer_line[t], typed)
          /\ Len(stdin[t]) <= FIFO_SIZE /\ Len(buffer_stdin[t]) <= BufferSize
          /\ t \notin overrun.input => Chain(stdin[t], buffer_stdin[t]) = entered[t]
      BY DEF InputInv
    <3>2. CASE t = c
      <4>1. Journey(Chain(stdin[c], e), r, entered[c], buffer_line[c], typed)
        BY <1>1, <2>2, <3>1, <3>2, JourneyFeeds
      <4>2. Chain(Chain(stdin[c], e), r) = Chain(stdin[c], buffer_stdin[c])
        BY <1>1, <2>2, ChainAssociative
      <4>3. /\ Len(stdin[c]) \in Nat /\ Len(Chain(stdin[c], e)) = Len(stdin[c]) + Len(e)
            /\ Len(r) \in Nat /\ Len(buffer_stdin[c]) = Len(e) + Len(r)
        BY <1>1, <2>2, ChainLen
      <4>4. Len(Chain(stdin[c], e)) <= FIFO_SIZE /\ Len(r) <= BufferSize
        <5>1. FIFO_SIZE \in Nat /\ BufferSize \in Nat /\ Len(e) = 1
          BY <2>2, TerminalsAssumption
        <5>2. Len(stdin[c]) <= FIFO_SIZE /\ Len(stdin[c]) # FIFO_SIZE /\ Len(buffer_stdin[c]) <= BufferSize
          BY <2>1, <3>1, <3>2
        <5> QED BY ONLY <4>3, <5>1, <5>2
      <4> QED BY <2>4, <2>5, <3>1, <3>2, <4>1, <4>2, <4>4
    <3>3. CASE t # c
      BY <2>4, <2>5, <3>1, <3>3
    <3> QED BY <3>2, <3>3
  <2> QED BY <1>2, <2>4, <2>5, <2>6 DEF InputInv
<1> QED BY <1>3, <1>4

\* The shell reads some of its pipe.
LEMMA ShellReadsInput == ASSUME InputInv, NEW c \in Shells, ShellReads(c) PROVE InputInv'
<1>1. c \in Tty /\ buffer_stdin[c] \in Words /\ stdin[c] \in Words /\ entered[c] \in Words
      /\ buffer_line[c] \in Words /\ typed \in Nat
  BY TerminalsAssumption DEF InputInv, Shells
<1>2. /\ stdin[c] # << >> /\ entered' = [entered EXCEPT ![c] = Since(stdin[c], @)]
      /\ stdin' = [stdin EXCEPT ![c] = << >>]
      /\ UNCHANGED <<buffer_line, buffer_stdin, typed, overrun>>
  BY DEF ShellReads, buffers
<1>3. /\ Since(stdin[c], entered[c]) \in Words
      /\ Journey(<< >>, buffer_stdin[c], Since(stdin[c], entered[c]), buffer_line[c], typed)
      /\ Chain(stdin[c], buffer_stdin[c]) = entered[c]
           => Chain(<< >>, buffer_stdin[c]) = Since(stdin[c], entered[c])
  BY <1>1, <1>2, JourneyReads DEF InputInv
<1>4. /\ entered' \in [Tty -> Words] /\ entered'[c] = Since(stdin[c], entered[c])
      /\ \A t \in Tty : t # c => entered'[t] = entered[t]
  BY <1>1, <1>2, <1>3 DEF InputInv
<1>5. << >> \in Words /\ Len(<< >>) = 0 /\ 0 <= FIFO_SIZE
  BY <1>1, ChainEmpty, TerminalsAssumption
<1>6. /\ stdin' \in [Tty -> Words] /\ stdin'[c] = << >>
      /\ \A t \in Tty : t # c => stdin'[t] = stdin[t]
  BY <1>1, <1>2, <1>5 DEF InputInv
<1>7. ASSUME NEW t \in Tty
      PROVE  /\ Len(stdin'[t]) <= FIFO_SIZE /\ Len(buffer_stdin[t]) <= BufferSize
             /\ Journey(stdin'[t], buffer_stdin[t], entered'[t], buffer_line[t], typed)
             /\ t \notin overrun.input => Chain(stdin'[t], buffer_stdin[t]) = entered'[t]
  <2>1. /\ Journey(stdin[t], buffer_stdin[t], entered[t], buffer_line[t], typed)
        /\ Len(stdin[t]) <= FIFO_SIZE /\ Len(buffer_stdin[t]) <= BufferSize
        /\ t \notin overrun.input => Chain(stdin[t], buffer_stdin[t]) = entered[t]
    BY DEF InputInv
  <2>2. CASE t = c
    BY <1>3, <1>4, <1>5, <1>6, <2>1, <2>2
  <2>3. CASE t # c
    BY <1>4, <1>6, <2>1, <2>3
  <2> QED BY <2>2, <2>3
<1> QED BY <1>2, <1>4, <1>6, <1>7 DEF InputInv

\* The other steps leave the input alone.
LEMMA SameInput ==
  ASSUME InputInv, UNCHANGED <<typed, buffer_line, buffer_stdin, stdin, entered>>,
         overrun'.input = overrun.input
  PROVE  InputInv'
BY DEF InputInv

-----------------------------------------------------------------------------
(* The output                                                              *)

\* The first state.
LEMMA OutputInit == Init => OutputInv
<1> SUFFICES ASSUME Init PROVE OutputInv
  OBVIOUS
<1>1. /\ written = 0 /\ buffer_stdout = [t \in Tty |-> << >>]
      /\ stdout = [t \in Tty |-> << >>] /\ wrote = [t \in Tty |-> << >>]
  BY DEF Init
<1>2. << >> \in Words /\ Chain(<< >>, << >>) = << >> /\ Len(<< >>) = 0
  BY EmptyWord, ChainEmpty
<1>3. Return(<< >>, << >>, << >>, MaxTyped + 0)
  BY NothingWaits, TerminalsAssumption
<1>4. 0 \in 0 .. MaxWritten /\ 0 <= FIFO_SIZE /\ 0 <= BufferSize
  BY TerminalsAssumption
<1> QED BY <1>1, <1>2, <1>3, <1>4 DEF OutputInv

\* A chunk of the pipe comes into the buffer, which drops the oldest it holds.
LEMMA ReadOutput == ASSUME OutputInv, ControlInv, OverrunInv, Read PROVE OutputInv'
<1> DEFINE c == next
           size == Min({ChunkSize, Len(stdout[c])})
           chunk == SubSeq(stdout[c], 1, size)
<1>1. c \in Tty /\ buffer_stdout[c] \in Words /\ stdout[c] \in Words /\ wrote[c] \in Words
      /\ MaxTyped + written \in Nat
  BY TerminalsAssumption, SMTT(30) DEF Read, ControlInv, OutputInv
<1>2. /\ stdout' = [stdout EXCEPT ![c] = SubSeq(@, size + 1, Len(@))]
      /\ buffer_stdout' = [buffer_stdout EXCEPT ![c] = Buffered(@, chunk)]
      /\ overrun' = IF Overruns(buffer_stdout[c], chunk)
                    THEN [overrun EXCEPT !.output = @ \cup {c}] ELSE overrun
      /\ UNCHANGED <<written, wrote>>
  BY DEF Read, output
<1>3. size \in 0 .. Len(stdout[c])
  <2>1. Len(stdout[c]) \in Nat /\ ChunkSize \in Nat
    BY <1>1, ChainLen, TerminalsAssumption
  <2>2. {ChunkSize, Len(stdout[c])} \subseteq Nat /\ {ChunkSize, Len(stdout[c])} # {}
    BY <2>1
  <2>3. size \in {ChunkSize, Len(stdout[c])} /\ \A y \in {ChunkSize, Len(stdout[c])} : size <= y
    BY <2>2, MinProperties
  <2>4. size \in Nat /\ size <= Len(stdout[c])
    BY <2>1, <2>3
  <2> HIDE DEF size
  <2> QED BY <2>1, <2>4
<1> HIDE DEF size
<1>4. PICK a, r \in Words : /\ a = SubSeq(stdout[c], 1, size) /\ r = SubSeq(stdout[c], size + 1, Len(stdout[c]))
                            /\ Len(a) = size /\ Len(r) = Len(stdout[c]) - size /\ stdout[c] = Chain(a, r)
  BY <1>1, <1>3, SplitAt
<1>5. chunk = a
  BY <1>4
<1>6. PICK b \in Words : b = Chain(buffer_stdout[c], a)
  BY <1>1, ChainWords
<1>7. PICK kept \in Words : /\ kept = Latest(b, BufferSize) /\ Suffix(kept, b) /\ Len(kept) <= BufferSize
                            /\ Len(b) <= BufferSize => kept = b
  <2>1. BufferSize \in Nat \ {0} /\ Len(b) \in Nat
    BY TerminalsAssumption, ChainLen
  <2> QED BY <2>1, LatestProperties
<1>8. Buffered(buffer_stdout[c], chunk) = kept
  BY <1>5, <1>6, <1>7 DEF Buffered, Chain
<1>9. Overruns(buffer_stdout[c], chunk) <=> Len(b) > BufferSize
  <2>1. Len(b) = Len(buffer_stdout[c]) + Len(a)
    BY <1>1, <1>6, ChainLen
  <2> QED BY <1>5, <2>1 DEF Overruns
<1> HIDE DEF c, chunk
<1>10. /\ stdout' \in [Tty -> Words] /\ stdout'[c] = r
       /\ \A t \in Tty : t # c => stdout'[t] = stdout[t]
  BY <1>1, <1>2, <1>4 DEF OutputInv
<1>11. /\ buffer_stdout' \in [Tty -> Words] /\ buffer_stdout'[c] = kept
       /\ \A t \in Tty : t # c => buffer_stdout'[t] = buffer_stdout[t]
  BY <1>1, <1>2, <1>8 DEF OutputInv
<1>12. /\ c \notin overrun'.output => c \notin overrun.output /\ Len(b) <= BufferSize
       /\ \A t \in Tty : t \notin overrun'.output => t \notin overrun.output
  <2>1. CASE Overruns(buffer_stdout[c], chunk)
    <3>1. overrun'.output = overrun.output \cup {c}
      BY <1>2, <2>1 DEF OverrunInv
    <3> QED BY <3>1
  <2>2. CASE ~ Overruns(buffer_stdout[c], chunk)
    <3>1. overrun' = overrun
      BY <1>2, <2>2
    <3>2. Len(b) \in Nat /\ BufferSize \in Nat
      BY ChainLen, TerminalsAssumption
    <3> QED BY <1>9, <2>2, <3>1, <3>2
  <2> QED BY <2>1, <2>2
<1>13. ASSUME NEW t \in Tty
       PROVE  /\ Len(stdout'[t]) <= FIFO_SIZE /\ Len(buffer_stdout'[t]) <= BufferSize
              /\ Return(buffer_stdout'[t], stdout'[t], wrote[t], MaxTyped + written)
              /\ t \notin overrun'.output => Chain(buffer_stdout'[t], stdout'[t]) = wrote[t]
  <2>1. /\ stdout[t] \in Words /\ buffer_stdout[t] \in Words /\ wrote[t] \in Words
        /\ Return(buffer_stdout[t], stdout[t], wrote[t], MaxTyped + written)
        /\ Len(stdout[t]) <= FIFO_SIZE /\ Len(buffer_stdout[t]) <= BufferSize
        /\ t \notin overrun.output => Chain(buffer_stdout[t], stdout[t]) = wrote[t]
    BY DEF OutputInv
  <2>2. CASE t = c
    <3>1. PICK n \in Nat : n = MaxTyped + written
      BY <1>1
    <3>2. Return(buffer_stdout[c], Chain(a, r), wrote[c], n)
      BY <1>4, <2>1, <2>2, <3>1
    <3>3. Return(kept, r, wrote[c], n)
      BY <1>1, <1>6, <1>7, <3>2, ReturnReads
    <3>4. ASSUME c \notin overrun'.output PROVE Chain(kept, r) = wrote[c]
      <4>1. kept = b /\ Chain(buffer_stdout[c], stdout[c]) = wrote[c]
        BY <1>7, <1>12, <2>1, <2>2, <3>4
      <4>2. Chain(buffer_stdout[c], Chain(a, r)) = Chain(Chain(buffer_stdout[c], a), r)
        BY <1>1, ChainAssociative
      <4> QED BY <1>4, <1>6, <4>1, <4>2
    <3>5. Len(r) <= FIFO_SIZE
      <4>1. Len(r) \in Nat /\ Len(a) \in Nat /\ Len(stdout[c]) = Len(a) + Len(r)
        BY <1>4, ChainLen
      <4>2. Len(stdout[c]) <= FIFO_SIZE /\ FIFO_SIZE \in Nat
        BY <2>1, <2>2, TerminalsAssumption
      <4> QED BY ONLY <4>1, <4>2
    <3> QED BY <1>7, <1>10, <1>11, <2>2, <3>1, <3>3, <3>4, <3>5
  <2>3. CASE t # c
    BY <1>10, <1>11, <1>12, <2>1, <2>3
  <2> QED BY <2>2, <2>3
<1> QED BY <1>2, <1>10, <1>11, <1>13 DEF OutputInv

\* The current terminal shows its buffer.
LEMMA ShowOutput == ASSUME OutputInv, ControlInv, Show PROVE OutputInv'
<1> DEFINE c == current_tty
<1>1. c \in Tty /\ buffer_stdout[c] \in Words /\ stdout[c] \in Words /\ wrote[c] \in Words
      /\ MaxTyped + written \in Nat
  BY TerminalsAssumption DEF ControlInv, OutputInv
<1>2. /\ buffer_stdout' = [buffer_stdout EXCEPT ![c] = << >>]
      /\ wrote' = [wrote EXCEPT ![c] = Since(buffer_stdout[c], @)]
      /\ UNCHANGED <<written, stdout, overrun>>
  BY DEF Show
<1> HIDE DEF c
<1>3. PICK n \in Nat : n = MaxTyped + written
  BY <1>1
<1>4. /\ Since(buffer_stdout[c], wrote[c]) \in Words
      /\ Return(<< >>, stdout[c], Since(buffer_stdout[c], wrote[c]), n)
      /\ Chain(buffer_stdout[c], stdout[c]) = wrote[c]
           => Chain(<< >>, stdout[c]) = Since(buffer_stdout[c], wrote[c])
  <2>1. Return(buffer_stdout[c], stdout[c], wrote[c], n)
    BY <1>1, <1>3 DEF OutputInv
  <2> QED BY <1>1, <2>1, ReturnShows
<1>5. /\ wrote' \in [Tty -> Words] /\ wrote'[c] = Since(buffer_stdout[c], wrote[c])
      /\ \A t \in Tty : t # c => wrote'[t] = wrote[t]
  BY <1>1, <1>2, <1>4 DEF OutputInv
<1>6. << >> \in Words /\ Len(<< >>) = 0 /\ 0 <= BufferSize
  BY EmptyWord, TerminalsAssumption
<1>7. /\ buffer_stdout' \in [Tty -> Words] /\ buffer_stdout'[c] = << >>
      /\ \A t \in Tty : t # c => buffer_stdout'[t] = buffer_stdout[t]
  BY <1>1, <1>2, <1>6 DEF OutputInv
<1>8. ASSUME NEW t \in Tty
      PROVE  /\ Len(stdout[t]) <= FIFO_SIZE /\ Len(buffer_stdout'[t]) <= BufferSize
             /\ Return(buffer_stdout'[t], stdout[t], wrote'[t], n)
             /\ t \notin overrun.output => Chain(buffer_stdout'[t], stdout[t]) = wrote'[t]
  <2>1. /\ Return(buffer_stdout[t], stdout[t], wrote[t], n)
        /\ Len(stdout[t]) <= FIFO_SIZE /\ Len(buffer_stdout[t]) <= BufferSize
        /\ t \notin overrun.output => Chain(buffer_stdout[t], stdout[t]) = wrote[t]
    BY <1>3 DEF OutputInv
  <2>2. CASE t = c
    BY <1>4, <1>5, <1>6, <1>7, <2>1, <2>2
  <2>3. CASE t # c
    BY <1>5, <1>7, <2>1, <2>3
  <2> QED BY <2>2, <2>3
<1> QED BY <1>2, <1>3, <1>5, <1>7, <1>8 DEF OutputInv

\* A program, or the kernel, writes a byte.
LEMMA WritesOutput == ASSUME OutputInv, NEW c \in Tty, Writes(c) PROVE OutputInv'
<1>1. buffer_stdout[c] \in Words /\ stdout[c] \in Words /\ wrote[c] \in Words
      /\ MaxTyped + written \in Nat /\ written \in Nat
  BY TerminalsAssumption DEF OutputInv
<1>2. /\ stdout' = [stdout EXCEPT ![c] = Append(@, MaxTyped + written + 1)]
      /\ wrote' = [wrote EXCEPT ![c] = Append(@, MaxTyped + written + 1)]
      /\ written < MaxWritten /\ Len(stdout[c]) < FIFO_SIZE
      /\ written' = written + 1 /\ UNCHANGED <<buffer_stdout, overrun>>
  BY DEF Writes, buffers
<1>3. PICK n \in Nat : n = MaxTyped + written
  BY <1>1
<1>4. n + 1 \in Nat /\ MaxTyped + written + 1 = n + 1 /\ MaxTyped + written' = n + 1
      /\ written' \in 0 .. MaxWritten
  <2>1. MaxTyped \in Nat /\ MaxWritten \in Nat
    BY TerminalsAssumption
  <2> QED BY <1>1, <1>2, <1>3, <2>1
<1>5. PICK e \in Words : e = <<n + 1>> /\ Len(e) = 1
  <2>1. <<n + 1>> \in Words
    BY <1>1, <1>4, AppendWord
  <2> QED BY <2>1
<1>6. PICK s \in Words : s = Append(stdout[c], n + 1) /\ s = Chain(stdout[c], e)
  BY <1>1, <1>4, <1>5, AppendWord
<1>7. PICK w \in Words : w = Append(wrote[c], n + 1) /\ w = Chain(wrote[c], e)
  BY <1>1, <1>4, <1>5, AppendWord
<1>8. /\ stdout' \in [Tty -> Words] /\ stdout'[c] = s
      /\ \A t \in Tty : t # c => stdout'[t] = stdout[t]
  <2>1. stdout' = [stdout EXCEPT ![c] = s] /\ stdout \in [Tty -> Words]
    BY <1>2, <1>4, <1>6 DEF OutputInv
  <2> QED BY <2>1
<1>9. /\ wrote' \in [Tty -> Words] /\ wrote'[c] = w
      /\ \A t \in Tty : t # c => wrote'[t] = wrote[t]
  <2>1. wrote' = [wrote EXCEPT ![c] = w] /\ wrote \in [Tty -> Words]
    BY <1>2, <1>4, <1>7 DEF OutputInv
  <2> QED BY <2>1
<1>10. ASSUME NEW t \in Tty
       PROVE  /\ Len(stdout'[t]) <= FIFO_SIZE /\ Len(buffer_stdout[t]) <= BufferSize
              /\ Return(buffer_stdout[t], stdout'[t], wrote'[t], n + 1)
              /\ t \notin overrun.output => Chain(buffer_stdout[t], stdout'[t]) = wrote'[t]
  <2>1. /\ Return(buffer_stdout[t], stdout[t], wrote[t], n)
        /\ stdout[t] \in Words /\ buffer_stdout[t] \in Words /\ wrote[t] \in Words
        /\ Len(stdout[t]) <= FIFO_SIZE /\ Len(buffer_stdout[t]) <= BufferSize
        /\ t \notin overrun.output => Chain(buffer_stdout[t], stdout[t]) = wrote[t]
    BY <1>3 DEF OutputInv
  <2>2. CASE t = c
    <3>1. Return(buffer_stdout[c], s, w, n + 1)
      <4>1. Return(buffer_stdout[c], stdout[c], wrote[c], n)
        BY <2>1, <2>2
      <4>2. Return(buffer_stdout[c], Chain(stdout[c], e), Chain(wrote[c], e), n + 1)
        BY <1>1, <1>5, <4>1, ReturnWrites
      <4> QED BY <1>6, <1>7, <4>2
    <3>2. Len(s) <= FIFO_SIZE
      <4>1. Len(s) = Len(stdout[c]) + 1 /\ Len(stdout[c]) \in Nat /\ FIFO_SIZE \in Nat
        BY <1>1, <1>5, <1>6, ChainLen, TerminalsAssumption
      <4> QED BY <1>2, <4>1
    <3>3. Chain(buffer_stdout[c], s) = Chain(Chain(buffer_stdout[c], stdout[c]), e)
      <4>1. Chain(Chain(buffer_stdout[c], stdout[c]), e) = Chain(buffer_stdout[c], Chain(stdout[c], e))
        BY <1>1, ChainAssociative
      <4> QED BY <1>6, <4>1
    <3> QED BY <1>7, <1>8, <1>9, <2>1, <2>2, <3>1, <3>2, <3>3
  <2>3. CASE t # c
    <3>1. Return(buffer_stdout[t], stdout[t], wrote[t], n + 1)
      BY <2>1, ReturnWaits
    <3> QED BY <1>8, <1>9, <2>1, <2>3, <3>1
  <2> QED BY <2>2, <2>3
<1> QED BY <1>2, <1>4, <1>8, <1>9, <1>10 DEF OutputInv

\* The other steps leave the output alone.
LEMMA SameOutput ==
  ASSUME OutputInv, UNCHANGED <<written, buffer_stdout, stdout, wrote>>,
         overrun'.output = overrun.output
  PROVE  OutputInv'
BY DEF OutputInv

-----------------------------------------------------------------------------
(* The screen                                                              *)

\* The first state.
LEMMA SeenInit == Init => SeenInv
<1> SUFFICES ASSUME Init PROVE SeenInv
  OBVIOUS
<1>1. /\ proxy = [t \in Tty |-> Queue!NewQueue(ProxySize)] /\ screen = << >> /\ pc = "key"
      /\ current_tty = 0 /\ buffer_line = [t \in Tty |-> << >>]
  BY DEF Init
<1>2. 0 \in Tty /\ ProxySize \in Nat \ {0}
  BY TerminalsAssumption DEF Tty
<1>3. PICK q : q = Queue!NewQueue(ProxySize)
  OBVIOUS
<1>4. q \in Proxies /\ q.size = 0
  <2>1. q = [data |-> [i \in 0 .. ProxySize - 1 |-> 0], head |-> 0, tail |-> 0, size |-> 0]
    BY <1>3 DEF Queue!NewQueue
  <2>2. 0 \in 0 .. ProxySize - 1 /\ 0 \in 0 .. ProxySize /\ 0 % ProxySize = 0 /\ 0 + 0 = 0
    BY <1>2
  <2>3. [i \in 0 .. ProxySize - 1 |-> 0] \in [0 .. ProxySize - 1 -> Nat]
    OBVIOUS
  <2>4. q.tail = (q.head + q.size) % ProxySize /\ q.size = 0
    BY <2>1, <2>2
  <2>5. q \in [data : [0 .. ProxySize - 1 -> Nat], head : 0 .. ProxySize - 1,
               tail : 0 .. ProxySize - 1, size : 0 .. ProxySize]
    BY <2>1, <2>2, <2>3
  <2> QED BY <2>4, <2>5 DEF Proxies, Rings
<1>5. Seen(q) = << >>
  <2>1. Seen(q) \in Words /\ Len(Seen(q)) = 0
    BY <1>4, SeenWords
  <2> QED BY <2>1, EmptyWord, SameWords
<1>6. << >> \in Words /\ Fits(<< >>, << >>) /\ Range(<< >>) = {}
  BY EmptyWord, SuffixSelf DEF Fits, Range
<1> QED BY <1>1, <1>2, <1>3, <1>4, <1>5, <1>6 DEF SeenInv

\* What is remembered of it are bytes.
LEMMA LatestBytes ==
  \A s, e \in Words, n \in Nat \ {0} :
     Range(s) \subseteq Byte /\ Range(e) \subseteq Byte => Range(Latest(Chain(s, e), n)) \subseteq Byte
<1> TAKE s, e \in Words, n \in Nat \ {0}
<1> HAVE Range(s) \subseteq Byte /\ Range(e) \subseteq Byte
<1>1. PICK v \in Words : v = Chain(s, e) /\ Range(v) \subseteq Byte
  BY ChainWords, ChainRange
<1>2. PICK w \in Words : w = Latest(v, n) /\ Sparse(w, v)
  BY LatestProperties, SuffixSparse
<1> QED BY <1>1, <1>2 DEF Sparse

\* A byte that is typed is remembered and shown.
LEMMA Echo ==
  ASSUME SeenInv, ControlInv, pc = "key", NEW n \in Byte
  PROVE  LET c == current_tty
             q == Remember(proxy[c], n)
             s == Latest(Append(screen, n), ProxySize)
         IN  /\ q \in Proxies /\ Range(Seen(q)) \subseteq Byte
             /\ s \in Words /\ s = Seen(q)
             /\ Seen(q) = Latest(Chain(Seen(proxy[c]), <<n>>), ProxySize)
             /\ <<n>> \in Words /\ Seen(proxy[c]) \in Words
<1> DEFINE c == current_tty
           q == Remember(proxy[c], n)
<1>1. /\ c \in Tty /\ proxy[c] \in Proxies /\ screen = Seen(proxy[c]) /\ n \in Nat
      /\ ProxySize \in Nat \ {0} /\ Range(Seen(proxy[c])) \subseteq Byte
  BY TerminalsAssumption DEF SeenInv, ControlInv, Byte
<1>2. Seen(proxy[c]) \in Words
  BY <1>1, SeenWords
<1>3. PICK e \in Words : e = <<n>> /\ Range(e) \subseteq Byte
  <2>1. <<n>> \in Words /\ Range(<<n>>) = {n}
    BY <1>1, <1>2, AppendWord DEF Range
  <2> QED BY <2>1
<1>4. Append(screen, n) = Chain(Seen(proxy[c]), e)
  BY <1>1, <1>2, <1>3, AppendWord
<1>5. q \in Proxies /\ Seen(q) = Latest(Chain(Seen(proxy[c]), e), ProxySize)
  BY <1>1, <1>3, RememberSeen
<1>6. Range(Seen(q)) \subseteq Byte /\ Seen(q) \in Words
  BY <1>1, <1>2, <1>3, <1>5, LatestBytes, SeenWords
<1> QED BY <1>2, <1>3, <1>4, <1>5, <1>6

\* A key of the line is echoed.
LEMMA TypeSeen == ASSUME SeenInv, InputInv, ControlInv, Type PROVE SeenInv'
<1> DEFINE c == current_tty
<1>1. c \in Tty /\ pc = "key" /\ typed + 1 \in Byte /\ buffer_line[c] \in Words
      /\ ProxySize \in Nat \ {0}
  BY TerminalsAssumption DEF Type, ControlInv, InputInv, Byte
<1>2. /\ buffer_line' = [buffer_line EXCEPT ![c] = Append(@, typed + 1)]
      /\ proxy' = [proxy EXCEPT ![c] = Remember(@, typed + 1)]
      /\ mixed' = IF buffer_line[c] = << >> THEN mixed \ {c} ELSE mixed
      /\ screen' = Latest(Append(screen, typed + 1), ProxySize)
      /\ current_tty' = c /\ pc' # "command"
  BY DEF Type, Proceed
<1>3. PICK q \in Proxies : q = Remember(proxy[c], typed + 1) /\ Range(Seen(q)) \subseteq Byte
        /\ screen' \in Words /\ screen' = Seen(q)
        /\ Seen(q) = Latest(Chain(Seen(proxy[c]), <<typed + 1>>), ProxySize)
        /\ <<typed + 1>> \in Words /\ Seen(proxy[c]) \in Words
  BY <1>1, <1>2, Echo
<1> HIDE DEF c
<1>4. PICK e \in Words : e = <<typed + 1>>
  BY <1>3
<1>5. /\ proxy' \in [Tty -> Proxies] /\ proxy'[c] = q
      /\ \A t \in Tty : t # c => proxy'[t] = proxy[t]
  <2>1. proxy' = [proxy EXCEPT ![c] = q] /\ proxy \in [Tty -> Proxies]
    BY <1>2, <1>3 DEF SeenInv
  <2> QED BY <1>1, <2>1
<1>6. /\ buffer_line'[c] = Chain(buffer_line[c], e)
      /\ \A t \in Tty : t # c => buffer_line'[t] = buffer_line[t]
  <2>1. typed + 1 \in Nat
    BY <1>1, TerminalsAssumption DEF Byte
  <2>2. PICK v \in Words : v = Append(buffer_line[c], typed + 1) /\ v = Chain(buffer_line[c], e)
    BY <1>1, <1>4, <2>1, AppendWord
  <2>3. buffer_line' = [buffer_line EXCEPT ![c] = v] /\ buffer_line \in [Tty -> Words]
    BY <1>2, <2>2 DEF InputInv
  <2> QED BY <1>1, <2>2, <2>3
<1>7. ASSUME NEW t \in Tty, t \notin mixed' PROVE Fits(buffer_line'[t], Seen(proxy'[t]))
  <2>1. CASE t # c
    <3>1. t \notin mixed
      BY <1>2, <1>7, <2>1
    <3> QED BY <1>5, <1>6, <2>1, <3>1 DEF SeenInv
  <2>2. CASE t = c /\ buffer_line[c] = << >>
    <3>1. Chain(buffer_line[c], e) = e
      BY <2>2, ChainEmpty
    <3>2. Fits(e, Latest(Chain(Seen(proxy[c]), e), ProxySize))
      BY <1>1, <1>3, FitsFirst
    <3> QED BY <1>3, <1>4, <1>5, <1>6, <2>2, <3>1, <3>2
  <2>3. CASE t = c /\ buffer_line[c] # << >>
    <3>1. c \notin mixed
      BY <1>2, <1>7, <2>3
    <3>2. Fits(buffer_line[c], Seen(proxy[c]))
      BY <1>1, <3>1 DEF SeenInv
    <3>3. Fits(Chain(buffer_line[c], e), Latest(Chain(Seen(proxy[c]), e), ProxySize))
      BY <1>1, <1>3, <3>2, FitsTypes
    <3> QED BY <1>3, <1>4, <1>5, <1>6, <2>3, <3>3
  <2> QED BY <2>1, <2>2, <2>3
<1>8. ASSUME NEW t \in Tty PROVE Range(Seen(proxy'[t])) \subseteq Byte
  BY <1>3, <1>5 DEF SeenInv
<1> QED BY <1>2, <1>3, <1>5, <1>7, <1>8 DEF SeenInv, c

\* So is the key that ends it, and the line is empty.
LEMMA EnterSeen == ASSUME SeenInv, InputInv, ControlInv, Enter PROVE SeenInv'
<1> DEFINE c == current_tty
<1>1. c \in Tty /\ pc = "key" /\ typed + 1 \in Byte /\ ProxySize \in Nat \ {0}
  BY TerminalsAssumption, SMTT(30) DEF Enter, ControlInv, InputInv, Byte
<1>2. /\ buffer_line' = [buffer_line EXCEPT ![c] = << >>]
      /\ proxy' = [proxy EXCEPT ![c] = Remember(@, typed + 1)]
      /\ screen' = Latest(Append(screen, typed + 1), ProxySize)
      /\ current_tty' = c /\ mixed' = mixed /\ pc' # "command"
  BY DEF Enter, Proceed
<1>3. PICK q \in Proxies : q = Remember(proxy[c], typed + 1) /\ Range(Seen(q)) \subseteq Byte
        /\ screen' \in Words /\ screen' = Seen(q)
  BY <1>1, <1>2, Echo
<1> HIDE DEF c
<1>5. /\ proxy' \in [Tty -> Proxies] /\ proxy'[c] = q
      /\ \A t \in Tty : t # c => proxy'[t] = proxy[t]
  <2>1. proxy' = [proxy EXCEPT ![c] = q] /\ proxy \in [Tty -> Proxies]
    BY <1>2, <1>3 DEF SeenInv
  <2> QED BY <1>1, <2>1
<1>6. buffer_line'[c] = << >> /\ \A t \in Tty : t # c => buffer_line'[t] = buffer_line[t]
  BY <1>1, <1>2 DEF InputInv
<1>7. ASSUME NEW t \in Tty, t \notin mixed' PROVE Fits(buffer_line'[t], Seen(proxy'[t]))
  <2>1. CASE t # c
    BY <1>2, <1>5, <1>6, <1>7, <2>1 DEF SeenInv
  <2>2. CASE t = c
    BY <1>5, <1>6, <2>2, SeenWords, SuffixSelf DEF Fits
  <2> QED BY <2>1, <2>2
<1>8. ASSUME NEW t \in Tty PROVE Range(Seen(proxy'[t])) \subseteq Byte
  BY <1>3, <1>5 DEF SeenInv
<1> QED BY <1>2, <1>3, <1>5, <1>7, <1>8 DEF SeenInv, c

\* A backspace takes the last byte off the line, the screen and what is remembered.
LEMMA BackspaceSeen == ASSUME SeenInv, InputInv, ControlInv, Backspace PROVE SeenInv'
<1> DEFINE c == current_tty
<1>1. c \in Tty /\ buffer_line[c] \in Words /\ buffer_line[c] # << >> /\ proxy[c] \in Proxies
  BY DEF Backspace, ControlInv, InputInv, SeenInv
<1>2. /\ buffer_line' = [buffer_line EXCEPT ![c] = Front(@)]
      /\ proxy' = [proxy EXCEPT ![c] = Queue!PopBack(@)]
      /\ screen' = Queue!Items(proxy'[c])
      /\ current_tty' = c /\ mixed' = mixed /\ pc' # "command"
  BY DEF Backspace, Proceed
<1> HIDE DEF c
<1>3. PICK s \in Words : s = Seen(proxy[c]) /\ Range(s) \subseteq Byte
  BY <1>1, SeenWords DEF SeenInv
<1>4. PICK q \in Proxies : /\ q = Queue!PopBack(proxy[c]) /\ Seen(q) \in Words
                           /\ Seen(q) = IF s = << >> THEN s ELSE Front(s)
  BY <1>1, <1>3, BackSeen, SeenWords
<1>5. /\ proxy' \in [Tty -> Proxies] /\ proxy'[c] = q
      /\ \A t \in Tty : t # c => proxy'[t] = proxy[t]
  <2>1. proxy' = [proxy EXCEPT ![c] = q] /\ proxy \in [Tty -> Proxies]
    BY <1>2, <1>4 DEF SeenInv
  <2> QED BY <1>1, <2>1
<1>6. buffer_line'[c] = Front(buffer_line[c]) /\ \A t \in Tty : t # c => buffer_line'[t] = buffer_line[t]
  BY <1>1, <1>2 DEF InputInv
<1>7. screen' = Seen(q)
  BY <1>2, <1>5 DEF Seen
<1>8. Range(Seen(q)) \subseteq Byte
  <2>1. CASE s = << >>
    BY <1>3, <1>4, <2>1
  <2>2. CASE s # << >>
    <3>1. Front(s) \in Words /\ <<Last(s)>> \in Words /\ s = Chain(Front(s), <<Last(s)>>)
      BY <2>2, FrontWord
    <3>2. Range(Front(s)) \subseteq Range(s)
      BY <3>1, ChainRange
    <3> QED BY <1>3, <1>4, <2>2, <3>2
  <2> QED BY <2>1, <2>2
<1>9. ASSUME NEW t \in Tty, t \notin mixed' PROVE Fits(buffer_line'[t], Seen(proxy'[t]))
  <2>1. CASE t # c
    BY <1>2, <1>5, <1>6, <1>9, <2>1 DEF SeenInv
  <2>2. CASE t = c
    <3>1. Fits(buffer_line[c], s)
      BY <1>2, <1>3, <1>9, <2>2 DEF SeenInv
    <3>2. Fits(Front(buffer_line[c]), IF s = << >> THEN s ELSE Front(s))
      BY <1>1, <3>1, FitsErases
    <3> QED BY <1>4, <1>5, <1>6, <2>2, <3>2
  <2> QED BY <2>1, <2>2
<1>10. ASSUME NEW t \in Tty PROVE Range(Seen(proxy'[t])) \subseteq Byte
  BY <1>5, <1>8 DEF SeenInv
<1> QED BY <1>2, <1>4, <1>5, <1>7, <1>9, <1>10 DEF SeenInv, c

\* The output of the current terminal comes on the screen, in the midst of its line.
LEMMA ShowSeen == ASSUME SeenInv, OutputInv, ControlInv, Show PROVE SeenInv'
<1> DEFINE c == current_tty
<1>1. /\ c \in Tty /\ proxy[c] \in Proxies /\ pc = "read" /\ ProxySize \in Nat \ {0}
      /\ screen = Seen(proxy[c])
  BY TerminalsAssumption DEF Show, ControlInv, SeenInv
<1>2. PICK items \in Words : items = buffer_stdout[c]
  BY <1>1 DEF OutputInv
<1>3. /\ proxy' = [proxy EXCEPT ![c] = FoldLeft(Remember, @, items)]
      /\ screen' = Latest(screen \o items, ProxySize)
      /\ mixed' = IF items # << >> THEN mixed \cup {c} ELSE mixed
      /\ current_tty' = c /\ pc' = "key" /\ buffer_line' = buffer_line
  BY <1>2 DEF Show
<1>4. Range(items) \subseteq Byte
  <2>1. /\ stdout[c] \in Words /\ wrote[c] \in Words /\ MaxTyped \in Nat /\ written \in 0 .. MaxWritten
        /\ MaxWritten \in Nat
        /\ Return(items, stdout[c], wrote[c], MaxTyped + written)
    BY <1>1, <1>2, TerminalsAssumption DEF OutputInv
  <2>2. PICK p \in Words : p = Chain(items, stdout[c])
    BY <2>1, ChainWords
  <2>3. Range(items) \subseteq Range(p) /\ Range(p) \subseteq Range(wrote[c])
    BY <2>1, <2>2, ChainRange, SuffixSparse DEF Return, Sparse
  <2>4. Range(wrote[c]) \subseteq 1 .. MaxTyped + written
    BY <2>1 DEF Return
  <2>5. 1 .. MaxTyped + written \subseteq Byte
    BY <2>1 DEF Byte
  <2> QED BY <2>3, <2>4, <2>5
<1> HIDE DEF c
<1>5. PICK q \in Proxies : /\ q = FoldLeft(Remember, proxy[c], items)
                           /\ items = << >> => q = proxy[c]
                           /\ Seen(q) = Latest(Chain(Seen(proxy[c]), items), ProxySize)
  BY <1>1, ShownSeen DEF Shown
<1>6. /\ proxy' \in [Tty -> Proxies] /\ proxy'[c] = q
      /\ \A t \in Tty : t # c => proxy'[t] = proxy[t]
  <2>1. proxy' = [proxy EXCEPT ![c] = q] /\ proxy \in [Tty -> Proxies]
    BY <1>3, <1>5 DEF SeenInv
  <2> QED BY <1>1, <2>1
<1>7. screen' = Seen(q) /\ Seen(q) \in Words
  BY <1>1, <1>3, <1>5, SeenWords DEF Chain
<1>8. Range(Seen(q)) \subseteq Byte
  <2>1. Seen(proxy[c]) \in Words /\ Range(Seen(proxy[c])) \subseteq Byte
    BY <1>1, SeenWords DEF SeenInv
  <2> QED BY <1>1, <1>4, <1>5, <2>1, LatestBytes
<1>9. ASSUME NEW t \in Tty, t \notin mixed' PROVE Fits(buffer_line'[t], Seen(proxy'[t]))
  <2>1. t \notin mixed
    BY <1>3, <1>9
  <2>2. CASE t # c
    BY <1>3, <1>6, <2>1, <2>2 DEF SeenInv
  <2>3. CASE t = c
    <3>1. items = << >>
      BY <1>3, <1>9, <2>3
    <3> QED BY <1>3, <1>5, <1>6, <2>1, <2>3, <3>1 DEF SeenInv
  <2> QED BY <2>2, <2>3
<1>10. ASSUME NEW t \in Tty PROVE Range(Seen(proxy'[t])) \subseteq Byte
  BY <1>6, <1>8 DEF SeenInv
<1> QED BY <1>3, <1>6, <1>7, <1>9, <1>10 DEF SeenInv, c

\* The screen is cleared.
LEMMA EscapeSeen == ASSUME SeenInv, Escape PROVE SeenInv'
BY EmptyWord DEF SeenInv, Escape, buffers, Fits

\* What the chosen terminal remembers is shown.
LEMMA ChooseSeen == ASSUME SeenInv, NEW c \in Tty, Choose(c) PROVE SeenInv'
<1>1. proxy[c] \in Proxies /\ Seen(proxy[c]) \in Words
  BY SeenWords DEF SeenInv
<1>2. screen' = Seen(proxy[c]) /\ current_tty' = c /\ pc' = "key"
  BY DEF Choose, Seen
<1>3. UNCHANGED <<proxy, buffer_line, mixed>>
  BY DEF Choose, buffers
<1> QED BY <1>1, <1>2, <1>3 DEF SeenInv

\* The other steps leave the screen alone.
LEMMA SameSeen ==
  ASSUME SeenInv, UNCHANGED <<proxy, screen, buffer_line, mixed, current_tty>>,
         pc = "command" <=> pc' = "command"
  PROVE  SeenInv'
BY DEF SeenInv

-----------------------------------------------------------------------------
(* The steps and the theorems                                              *)

\* Init establishes the parts about control.
LEMMA ControlInit == Init => ControlInv /\ OverrunInv
<1> SUFFICES ASSUME Init PROVE ControlInv /\ OverrunInv
  OBVIOUS
<1>1. pc = "key" /\ next = 0 /\ current_tty = 0 /\ ttys = {0, Log} /\ overrun = [input |-> {}, output |-> {}]
  BY DEF Init
<1>2. 0 \in Tty /\ Log \in Tty
  BY TerminalsAssumption DEF Tty, Log
<1>3. ControlInv
  BY <1>1, <1>2 DEF ControlInv
<1>4. OverrunInv
  BY <1>1 DEF OverrunInv
<1> QED BY <1>3, <1>4

\* A terminal comes next, or none.
LEMMA AfterNext == ASSUME ControlInv, NEW t \in Tty PROVE After(t) \in ttys \cup {N_TTYS + 1}
<1> DEFINE S == {u \in ttys : u > t} \cup {N_TTYS + 1}
<1>1. S \subseteq Nat /\ S # {}
  <2>1. Tty \subseteq Nat /\ N_TTYS + 1 \in Nat
    BY TerminalsAssumption DEF Tty
  <2>2. ttys \subseteq Nat
    BY <2>1 DEF ControlInv
  <2> QED BY <2>1, <2>2
<1>2. Min(S) \in S
  BY <1>1, MinProperties
<1> QED BY <1>2 DEF After

\* Every step keeps where the program is, and which buffers have dropped a byte.
LEMMA ControlStep == ASSUME ControlInv, OverrunInv, Next PROVE ControlInv' /\ OverrunInv'
<1>1. ASSUME UNCHANGED <<current_tty, ttys>>, pc' \in {"key", "command", "feed", "read"},
             next' = next \/ next' = 0 \/ next' \in ttys \cup {N_TTYS + 1}
      PROVE  ControlInv'
  BY <1>1 DEF ControlInv
<1>2. ASSUME NEW c \in Tty,
             overrun' = overrun \/ overrun' = [overrun EXCEPT !.input = @ \cup {c}]
               \/ overrun' = [overrun EXCEPT !.output = @ \cup {c}]
      PROVE  OverrunInv'
  BY <1>2 DEF OverrunInv
<1>3. current_tty \in Tty /\ (next \in ttys => next \in Tty)
  BY DEF ControlInv
<1>4. ASSUME UNCHANGED overrun PROVE OverrunInv'
  BY <1>4 DEF OverrunInv
<1>5. CASE NoKey
  BY <1>1, <1>4, <1>5 DEF NoKey, Proceed
<1>6. CASE Feed
  BY <1>1, <1>4, <1>6 DEF Feed, ControlInv
<1>7. CASE Read
  <2>1. next \in Tty /\ next' \in ttys \cup {N_TTYS + 1}
    BY <1>3, <1>7, AfterNext DEF Read
  <2>2. ControlInv'
    BY <1>1, <1>7, <2>1 DEF Read, ControlInv
  <2>3. OverrunInv'
    BY <1>2, <1>7, <2>1 DEF Read
  <2> QED BY <2>2, <2>3
<1>8. CASE Show
  BY <1>1, <1>4, <1>8 DEF Show
<1>9. CASE Type
  BY <1>1, <1>4, <1>9 DEF Type, Proceed
<1>10. CASE Enter
  <2>1. ControlInv'
    BY <1>1, <1>10 DEF Enter, Proceed
  <2>2. OverrunInv'
    BY <1>2, <1>3, <1>10 DEF Enter
  <2> QED BY <2>1, <2>2
<1>11. CASE Backspace
  BY <1>1, <1>4, <1>11 DEF Backspace, Proceed
<1>12. CASE Escape
  BY <1>1, <1>4, <1>12 DEF Escape
<1>13. ASSUME NEW t \in Tty, Choose(t) PROVE ControlInv' /\ OverrunInv'
  BY <1>4, <1>13 DEF Choose, ControlInv
<1>14. ASSUME NEW t \in Shells, ShellReads(t) PROVE ControlInv' /\ OverrunInv'
  BY <1>4, <1>14 DEF ShellReads, program, ControlInv
<1>15. ASSUME NEW t \in Tty, Writes(t) PROVE ControlInv' /\ OverrunInv'
  BY <1>4, <1>15 DEF Writes, program, ControlInv
<1> QED BY <1>5, <1>6, <1>7, <1>8, <1>9, <1>10, <1>11, <1>12, <1>13, <1>14, <1>15
        DEF Next, Round, User

\* Every step keeps the part about the input,
LEMMA InputStep == ASSUME ControlInv, OverrunInv, InputInv, Next PROVE InputInv'
<1>1. CASE NoKey
  BY <1>1, SameInput DEF NoKey, buffers, input
<1>2. CASE Feed
  BY <1>2, FeedInput
<1>3. CASE Read
  <2>1. overrun'.input = overrun.input
    BY <1>3 DEF Read, OverrunInv
  <2> QED BY <1>3, <2>1, SameInput DEF Read, input
<1>4. CASE Show
  BY <1>4, SameInput DEF Show, input
<1>5. CASE Type
  BY <1>5, TypeInput
<1>6. CASE Enter
  BY <1>6, EnterInput
<1>7. CASE Backspace
  BY <1>7, BackspaceInput
<1>8. CASE Escape
  BY <1>8, SameInput DEF Escape, buffers, input
<1>9. ASSUME NEW t \in Tty, Choose(t) PROVE InputInv'
  BY <1>9, SameInput DEF Choose, buffers, input
<1>10. ASSUME NEW t \in Shells, ShellReads(t) PROVE InputInv'
  BY <1>10, ShellReadsInput
<1>11. ASSUME NEW t \in Tty, Writes(t) PROVE InputInv'
  BY <1>11, SameInput DEF Writes, buffers, input
<1> QED BY <1>1, <1>2, <1>3, <1>4, <1>5, <1>6, <1>7, <1>8, <1>9, <1>10, <1>11 DEF Next, Round, User

\* the part about the output,
LEMMA OutputStep == ASSUME ControlInv, OverrunInv, OutputInv, Next PROVE OutputInv'
<1>1. CASE NoKey
  BY <1>1, SameOutput DEF NoKey, buffers, output
<1>2. CASE Feed
  BY <1>2, SameOutput DEF Feed, output
<1>3. CASE Read
  BY <1>3, ReadOutput
<1>4. CASE Show
  BY <1>4, ShowOutput
<1>5. CASE Type
  BY <1>5, SameOutput DEF Type, output
<1>6. CASE Enter
  <2>1. overrun'.output = overrun.output
    BY <1>6 DEF Enter, OverrunInv
  <2> QED BY <1>6, <2>1, SameOutput DEF Enter, output
<1>7. CASE Backspace
  BY <1>7, SameOutput DEF Backspace, output
<1>8. CASE Escape
  BY <1>8, SameOutput DEF Escape, buffers, output
<1>9. ASSUME NEW t \in Tty, Choose(t) PROVE OutputInv'
  BY <1>9, SameOutput DEF Choose, buffers, output
<1>10. ASSUME NEW t \in Shells, ShellReads(t) PROVE OutputInv'
  BY <1>10, SameOutput DEF ShellReads, buffers, output
<1>11. ASSUME NEW t \in Tty, Writes(t) PROVE OutputInv'
  BY <1>11, WritesOutput
<1> QED BY <1>1, <1>2, <1>3, <1>4, <1>5, <1>6, <1>7, <1>8, <1>9, <1>10, <1>11 DEF Next, Round, User

\* and the part about the screen.
LEMMA SeenStep ==
  ASSUME ControlInv, InputInv, OutputInv, SeenInv, Next PROVE SeenInv'
<1>1. CASE NoKey
  BY <1>1, SameSeen DEF NoKey, Proceed, buffers
<1>2. CASE Feed
  BY <1>2, SameSeen DEF Feed
<1>3. CASE Read
  BY <1>3, SameSeen DEF Read
<1>4. CASE Show
  BY <1>4, ShowSeen
<1>5. CASE Type
  BY <1>5, TypeSeen
<1>6. CASE Enter
  BY <1>6, EnterSeen
<1>7. CASE Backspace
  BY <1>7, BackspaceSeen
<1>8. CASE Escape
  BY <1>8, EscapeSeen
<1>9. ASSUME NEW t \in Tty, Choose(t) PROVE SeenInv'
  BY <1>9, ChooseSeen
<1>10. ASSUME NEW t \in Shells, ShellReads(t) PROVE SeenInv'
  BY <1>10, SameSeen DEF ShellReads, buffers, program
<1>11. ASSUME NEW t \in Tty, Writes(t) PROVE SeenInv'
  BY <1>11, SameSeen DEF Writes, buffers, program
<1> QED BY <1>1, <1>2, <1>3, <1>4, <1>5, <1>6, <1>7, <1>8, <1>9, <1>10, <1>11 DEF Next, Round, User

\* The inductive invariant holds in all that is reached.
THEOREM Invariance == Spec => []IInv
<1>1. Init => IInv
  BY ControlInit, InputInit, OutputInit, SeenInit DEF IInv
<1>2. ASSUME IInv, [Next]_vars PROVE IInv'
  <2>1. CASE Next
    BY <1>2, <2>1, ControlStep, InputStep, OutputStep, SeenStep DEF IInv
  <2>2. CASE UNCHANGED vars
    <3>1. UNCHANGED <<pc, next, current_tty, ttys, overrun, mixed, screen>>
      BY <2>2 DEF vars, program
    <3>2. UNCHANGED <<buffer_line, buffer_stdin, buffer_stdout, proxy, stdin, stdout>>
      BY <2>2 DEF vars, buffers
    <3>3. UNCHANGED <<entered, typed, wrote, written>>
      BY <2>2 DEF vars, input, output
    <3>4. ControlInv' /\ OverrunInv'
      BY <1>2, <3>1 DEF IInv, ControlInv, OverrunInv
    <3>5. InputInv' /\ OutputInv' /\ SeenInv'
      BY <1>2, <3>1, <3>2, <3>3, SameInput, SameOutput, SameSeen DEF IInv
    <3> QED BY <3>4, <3>5 DEF IInv
  <2> QED BY <1>2, <2>1, <2>2
<1> QED BY <1>1, <1>2, PTL DEF Spec

\* The inductive invariant contains the type invariant.
LEMMA TypeCorrect == IInv => TypeOK
<1> SUFFICES ASSUME IInv PROVE TypeOK
  OBVIOUS
<1>1. /\ pc \in {"key", "command", "feed", "read"}
      /\ next \in 0 .. N_TTYS + 1 /\ next \in ttys \cup {N_TTYS + 1}
      /\ current_tty \in ttys /\ ttys \subseteq Tty
  BY TerminalsAssumption DEF IInv, ControlInv, Tty
<1>2. ASSUME NEW t \in Tty
      PROVE  /\ buffer_line[t] \in Seq(1 .. MaxTyped)
             /\ Len(buffer_stdin[t]) <= BufferSize /\ Len(buffer_stdout[t]) <= BufferSize
             /\ Len(stdin[t]) <= FIFO_SIZE /\ Len(stdout[t]) <= FIFO_SIZE
  <2>1. /\ entered[t] \in Words /\ buffer_line[t] \in Words /\ typed \in 0 .. MaxTyped
        /\ Range(Chain(entered[t], buffer_line[t])) \subseteq 1 .. typed
    BY DEF IInv, InputInv, Journey
  <2>2. Range(buffer_line[t]) \subseteq 1 .. typed
    BY <2>1, ChainRange
  <2>3. Range(buffer_line[t]) \subseteq 1 .. MaxTyped
    BY <2>1, <2>2, TerminalsAssumption
  <2>4. buffer_line[t] \in Seq(1 .. MaxTyped)
    BY <2>1, <2>3, WordsIn
  <2> QED BY <2>4 DEF IInv, InputInv, OutputInv
<1>3. ASSUME NEW t \in Tty
      PROVE  /\ proxy[t].size \in 0 .. ProxySize
             /\ proxy[t].tail = (proxy[t].head + proxy[t].size) % ProxySize
  BY DEF IInv, SeenInv, Proxies, Rings
<1>4. screen \in Seq(Byte)
  <2>1. screen \in Words /\ Range(screen) \subseteq Byte
    <3>1. CASE pc = "command"
      BY <3>1, EmptyWord DEF IInv, SeenInv, Range
    <3>2. CASE pc # "command"
      BY <1>1, <3>2 DEF IInv, SeenInv
    <3> QED BY <3>1, <3>2
  <2> QED BY <2>1, WordsIn
<1> QED BY <1>1, <1>2, <1>3, <1>4 DEF TypeOK

\* What was entered at a terminal reaches its shell in the order it was typed, none of
\* it twice, and none is missing unless the buffer was full (the stdin writes and
\* buffer_stdin of main): for any number of terminals and any size of buffers and pipes.
THEOREM LinesArriveHolds == Spec => []LinesArrive
<1>1. IInv => LinesArrive
  <2> SUFFICES ASSUME IInv PROVE LinesArrive
    OBVIOUS
  <2>1. ASSUME NEW t \in Tty
        PROVE  LET path == stdin[t] \o buffer_stdin[t]
               IN  /\ IsSuffix(buffer_stdin[t], entered[t])
                   /\ Ordered(path) /\ ToSet(path) \subseteq ToSet(entered[t])
                   /\ t \notin overrun.input => path = entered[t]
    <3>1. /\ stdin[t] \in Words /\ buffer_stdin[t] \in Words /\ entered[t] \in Words /\ buffer_line[t] \in Words
          /\ Journey(stdin[t], buffer_stdin[t], entered[t], buffer_line[t], typed)
          /\ t \notin overrun.input => Chain(stdin[t], buffer_stdin[t]) = entered[t]
      BY DEF IInv, InputInv
    <3>2. PICK path \in Words : path = Chain(stdin[t], buffer_stdin[t]) /\ path = stdin[t] \o buffer_stdin[t]
      BY <3>1, ChainWords DEF Chain
    <3>3. Suffix(buffer_stdin[t], entered[t]) /\ Sparse(path, entered[t]) /\ Sorted(entered[t])
      BY <3>1, <3>2, ChainSorted DEF Journey
    <3>4. IsSuffix(buffer_stdin[t], entered[t])
      BY <3>1, <3>3, IsSuffixWords
    <3>5. Ordered(path) /\ ToSet(path) \subseteq ToSet(entered[t])
      BY <3>3 DEF Sparse, Sorted, Ordered, ToSet, Range
    <3> QED BY <3>1, <3>2, <3>4, <3>5
  <2> QED BY <2>1, TypeCorrect DEF LinesArrive
<1> QED BY <1>1, Invariance, PTL

\* What the programs of a terminal write is shown there in the order they wrote it, and
\* none is missing unless buffer_stdout was full while another terminal was shown.
THEOREM OutputKeptHolds == Spec => []OutputKept
<1>1. IInv => OutputKept
  <2> SUFFICES ASSUME IInv, NEW t \in Tty
               PROVE  LET path == buffer_stdout[t] \o stdout[t]
                      IN  /\ IsSuffix(path, wrote[t])
                          /\ t \notin overrun.output => path = wrote[t]
    BY DEF OutputKept
  <2>1. /\ stdout[t] \in Words /\ buffer_stdout[t] \in Words /\ wrote[t] \in Words
        /\ Return(buffer_stdout[t], stdout[t], wrote[t], MaxTyped + written)
        /\ t \notin overrun.output => Chain(buffer_stdout[t], stdout[t]) = wrote[t]
    BY DEF IInv, OutputInv
  <2>2. PICK path \in Words : path = Chain(buffer_stdout[t], stdout[t]) /\ path = buffer_stdout[t] \o stdout[t]
    BY <2>1, ChainWords DEF Chain
  <2>3. IsSuffix(path, wrote[t])
    BY <2>1, <2>2, IsSuffixWords DEF Return
  <2> QED BY <2>1, <2>2, <2>3
<1> QED BY <1>1, Invariance, PTL

\* The screen shows what the output proxy of the current terminal remembers, also after
\* the user has switched terminals, and is empty while a terminal is being chosen.
THEOREM ScreenIsCurrentHolds == Spec => []ScreenIsCurrent
<1>1. IInv => ScreenIsCurrent
  BY DEF IInv, SeenInv, ScreenIsCurrent, Seen
<1> QED BY <1>1, Invariance, PTL

\* The line a terminal will send ends with what the user sees at the end of its screen,
\* also after a backspace and after a switch, unless output came while it was typed.
THEOREM LineAsSeenHolds == Spec => []LineAsSeen
<1>1. IInv => LineAsSeen
  <2> SUFFICES ASSUME IInv, NEW t \in Tty \ mixed
               PROVE  IsSuffix(buffer_line[t], Seen(proxy[t])) \/ IsSuffix(Seen(proxy[t]), buffer_line[t])
    BY DEF LineAsSeen, Seen
  <2>1. Fits(buffer_line[t], Seen(proxy[t])) /\ buffer_line[t] \in Words /\ Seen(proxy[t]) \in Words
    BY SeenWords DEF IInv, SeenInv, InputInv
  <2> QED BY <2>1, IsSuffixWords DEF Fits
<1> QED BY <1>1, Invariance, PTL

=============================================================================
