----------------------------- MODULE ListLemmas -----------------------------
(***************************************************************************)
(* Facts that the proofs share: least elements and induction over an       *)
(* interval; the folds of the community modules; sequences that are put    *)
(* together, taken apart and reversed; sequences of numbers as words;      *)
(* sequences into which an element is put or from which one is taken; and  *)
(* what the operations of cycle_queue do to the items of a queue of any    *)
(* capacity.                                                               *)
(***************************************************************************)
EXTENDS Integers, SequencesExt, SequenceTheorems, FiniteSetTheorems,
        WellFoundedInduction, TLAPS

(***************************************************************************)
(* Every nonempty set of naturals has a least element, the Min of          *)
(* FiniteSetsExt.                                                          *)
(***************************************************************************)
LEMMA MinProperties ==
  ASSUME NEW S, S \subseteq Nat, S # {}
  PROVE  Min(S) \in S /\ \A y \in S : Min(S) <= y
<1>1. PICK x \in S : \A y \in S : <<y, x>> \notin OpToRel(<, Nat)
  BY NatLessThanWellFounded, WFMin, Zenon
<1>2. \A y \in S : ~ (y < x)
  BY <1>1 DEF OpToRel
<1>3. \A y \in S : x <= y
  BY <1>2
<1> QED
  BY <1>3 DEF Min

\* Induction over an interval of numbers, from its least-element property.
LEMMA IntervalInduction ==
  ASSUME NEW N \in Nat, NEW S, 0 \in S,
         \A n \in 0 .. N - 1 : n \in S => n + 1 \in S
  PROVE  0 .. N \subseteq S
<1> SUFFICES ASSUME NEW x \in 0 .. N, x \notin S PROVE FALSE
  OBVIOUS
<1> DEFINE Out == {n \in 0 .. N : n \notin S}
<1>1. Out \subseteq Nat /\ Out # {}
  OBVIOUS
<1> HIDE DEF Out
<1>2. Min(Out) \in Out /\ \A y \in Out : Min(Out) <= y
  BY <1>1, MinProperties
<1>3. PICK m \in Out : \A y \in Out : m <= y
  BY <1>2
<1>4. m \in 0 .. N /\ m \notin S
  BY <1>3 DEF Out
<1>5. m # 0
  BY <1>4
<1>6. m - 1 \in 0 .. N - 1 /\ (m - 1) + 1 = m
  BY <1>4, <1>5
<1>7. m - 1 \notin Out
  BY <1>3, <1>6
<1>8. m - 1 \in S
  BY <1>7, <1>6 DEF Out
<1> QED
  BY <1>8, <1>6, <1>4

\* Every nonempty set of numbers up to n has a greatest element, the Max of
\* FiniteSetsExt.
LEMMA MaxUpTo ==
  ASSUME NEW n \in Nat, NEW s \in SUBSET (1 .. n), s # {}
  PROVE  Max(s) \in s /\ \A y \in s : Max(s) >= y
<1> DEFINE Above == {k \in 0 .. n : \A y \in s : k >= y}
<1>1. Above \subseteq Nat /\ n \in Above
  OBVIOUS
<1> HIDE DEF Above
<1>2. Min(Above) \in Above /\ \A y \in Above : Min(Above) <= y
  BY <1>1, MinProperties
<1>3. PICK m \in Above : \A y \in Above : m <= y
  BY <1>2
<1>4. m \in 0 .. n /\ \A y \in s : m >= y
  BY <1>3 DEF Above
<1>5. m \in s
  <2> SUFFICES ASSUME m \notin s PROVE FALSE
    OBVIOUS
  <2>1. PICK z \in s : TRUE
    OBVIOUS
  <2>2. m - 1 \in 0 .. n
    BY <2>1, <1>4
  <2>3. \A y \in s : m - 1 >= y
    BY <1>4
  <2>4. m - 1 \in Above
    BY <2>2, <2>3 DEF Above
  <2> QED
    BY <2>4, <1>3, <1>4
<1> QED
  BY <1>4, <1>5 DEF Max

\* A fold over 1 .. N as FoldLeft has it: the last element is taken off first.
IsFold(iter, N, T, base, step) ==
  /\ iter \in [SUBSET (1 .. N) -> T]
  /\ \A s \in SUBSET (1 .. N) :
       iter[s] = IF s = {} THEN base ELSE step[<<iter[s \ {Max(s)}], Max(s)>>]

\* The function by which the community modules define a fold over 1 .. N
\* exists, and has its values in T if the step does.
LEMMA FoldExists ==
  ASSUME NEW N \in Nat, NEW T, NEW base \in T, NEW step \in [T \X (1 .. N) -> T]
  PROVE  \E iter : IsFold(iter, N, T, base, step)
<1> DEFINE Good(n) == \E iter \in [SUBSET (1 .. n) -> T] :
             \A s \in SUBSET (1 .. n) :
               iter[s] = IF s = {} THEN base ELSE step[<<iter[s \ {Max(s)}], Max(s)>>]
           S == {n \in 0 .. N : Good(n)}
<1>1. 0 \in S
  <2>1. 1 .. 0 = {}
    OBVIOUS
  <2> DEFINE g == [s \in SUBSET (1 .. 0) |-> base]
  <2>2. g \in [SUBSET (1 .. 0) -> T]
    OBVIOUS
  <2>3. \A s \in SUBSET (1 .. 0) : g[s] = IF s = {} THEN base ELSE step[<<g[s \ {Max(s)}], Max(s)>>]
    BY <2>1
  <2>4. Good(0)
    BY <2>2, <2>3
  <2> HIDE DEF Good
  <2> QED
    BY <2>4
<1>2. ASSUME NEW n \in 0 .. N - 1, n \in S PROVE n + 1 \in S
  <2>1. PICK g \in [SUBSET (1 .. n) -> T] : \A s \in SUBSET (1 .. n) :
               g[s] = IF s = {} THEN base ELSE step[<<g[s \ {Max(s)}], Max(s)>>]
    BY <1>2
  <2> DEFINE h == [s \in SUBSET (1 .. n + 1) |->
                     IF n + 1 \in s THEN step[<<g[s \ {n + 1}], n + 1>>] ELSE g[s]]
  <2>a. n + 1 \in 1 .. N
    OBVIOUS
  <2>2. ASSUME NEW s \in SUBSET (1 .. n + 1) PROVE s \ {n + 1} \in SUBSET (1 .. n)
    OBVIOUS
  <2>3. h \in [SUBSET (1 .. n + 1) -> T]
    <3>1. ASSUME NEW s \in SUBSET (1 .. n + 1), n + 1 \in s
          PROVE step[<<g[s \ {n + 1}], n + 1>>] \in T
      BY <2>2, <3>1, <2>a
    <3>2. ASSUME NEW s \in SUBSET (1 .. n + 1), n + 1 \notin s PROVE g[s] \in T
      <4>1. s \in SUBSET (1 .. n)
        BY <2>2, <3>2
      <4> QED BY <4>1
    <3> QED BY <3>1, <3>2
  <2>4. ASSUME NEW s \in SUBSET (1 .. n + 1)
        PROVE h[s] = IF s = {} THEN base ELSE step[<<h[s \ {Max(s)}], Max(s)>>]
    <3>1. CASE n + 1 \in s
      <4>1. Max(s) \in s /\ \A y \in s : Max(s) >= y
        BY <3>1, MaxUpTo, n + 1 \in Nat
      <4>2. Max(s) = n + 1
        <5>1. PICK m : m = Max(s)
          OBVIOUS
        <5>2. m \in 1 .. n + 1 /\ m >= n + 1
          BY <4>1, <5>1, <3>1
        <5> QED BY <5>1, <5>2
      <4>3. h[s \ {n + 1}] = g[s \ {n + 1}]
        BY <2>2
      <4> QED
        BY <3>1, <4>2, <4>3
    <3>2. CASE n + 1 \notin s
      <4>1. s \in SUBSET (1 .. n)
        BY <2>2, <3>2
      <4>2. h[s] = g[s]
        BY <3>2
      <4>3. h[s \ {Max(s)}] = g[s \ {Max(s)}]
        BY <3>2
      <4> QED
        BY <4>1, <4>2, <4>3, <2>1
    <3> QED BY <3>1, <3>2
  <2> HIDE DEF h
  <2>5. Good(n + 1)
    BY <2>3, <2>4
  <2> HIDE DEF Good
  <2> QED
    BY <2>5
<1> HIDE DEF S
<1>3. 0 .. N \subseteq S
  BY <1>1, <1>2, IntervalInduction
<1>4. N \in S
  BY <1>3
<1> QED
  BY <1>4 DEF S, IsFold


\* Such a fold takes the elements of an interval from the first to the last.
LEMMA MaxOfInterval ==
  ASSUME NEW k \in Nat \ {0}
  PROVE  Max(1 .. k) = k /\ (1 .. k) \ {k} = 1 .. k - 1
<1>1. (1 .. k) \in SUBSET (1 .. k) /\ (1 .. k) # {}
  OBVIOUS
<1>2. Max(1 .. k) \in 1 .. k /\ \A y \in 1 .. k : Max(1 .. k) >= y
  BY <1>1, MaxUpTo
<1>3. PICK m \in 1 .. k : m = Max(1 .. k) /\ \A y \in 1 .. k : m >= y
  BY <1>2
<1>4. k \in 1 .. k
  OBVIOUS
<1>5. m >= k
  BY <1>3, <1>4
<1> QED BY <1>3, <1>5


\* A loop over 1 .. N, from the fold that models it.
IsRun(run, iter, N, T, base, step) ==
  /\ run \in [0 .. N -> T]
  /\ run[0] = base
  /\ run[N] = iter[1 .. N]
  /\ \A k \in 1 .. N : run[k] = step[<<run[k - 1], k>>]

\* What such a run needs to know of the fold.
Unfolds(iter, N, T, base, step) ==
  /\ iter[{}] = base
  /\ \A k \in 1 .. N : iter[1 .. k - 1] \in T
                         => iter[1 .. k] = step[<<iter[1 .. k - 1], k>>]

\* What a fold over 1 .. N computes is the last value of such a run.
LEMMA FoldRun ==
  ASSUME NEW N \in Nat, NEW T, NEW base \in T, NEW step \in [T \X (1 .. N) -> T],
         NEW iter, Unfolds(iter, N, T, base, step)
  PROVE  \E run : IsRun(run, iter, N, T, base, step)
<1>u. /\ iter[{}] = base
      /\ \A k \in 1 .. N : iter[1 .. k - 1] \in T
                             => iter[1 .. k] = step[<<iter[1 .. k - 1], k>>]
  BY DEF Unfolds
<1> DEFINE run == [k \in 0 .. N |-> iter[1 .. k]]
           Good == {k \in 0 .. N : iter[1 .. k] \in T}
<1>0. 1 .. 0 = {}
  OBVIOUS
<1>1. 0 \in Good
  BY <1>0, <1>u
<1>2. ASSUME NEW k \in 0 .. N - 1, k \in Good PROVE k + 1 \in Good
  <2>1. k + 1 \in 1 .. N /\ (k + 1) - 1 = k /\ k + 1 \in 0 .. N
    OBVIOUS
  <2>2. iter[1 .. k] \in T
    BY <1>2
  <2>3. iter[1 .. k + 1] = step[<<iter[1 .. k], k + 1>>]
    BY <2>1, <2>2, <1>u
  <2> QED BY <2>1, <2>2, <2>3
<1>3. 0 .. N \subseteq Good
  <2> HIDE DEF Good
  <2> QED BY <1>1, <1>2, IntervalInduction
<1>4. run \in [0 .. N -> T]
  BY <1>3
<1>5. ASSUME NEW k \in 1 .. N PROVE run[k] = step[<<run[k - 1], k>>]
  <2>1. k - 1 \in 0 .. N /\ k \in 0 .. N
    OBVIOUS
  <2>2. iter[1 .. k - 1] \in T
    BY <2>1, <1>3
  <2> QED BY <2>1, <2>2, <1>u
<1>6. run[0] = base /\ run[N] = iter[1 .. N]
  BY <1>0, <1>u
<1> QED BY <1>4, <1>5, <1>6 DEF IsRun

\* A recursive function on 0 .. N, each value from the one before.
IsSeries(run, N, T, base, step) ==
  /\ run \in [0 .. N -> T]
  /\ run[0] = base
  /\ \A k \in 1 .. N : run[k] = step[<<run[k - 1], k>>]

\* There is such a function.
LEMMA SeriesExists ==
  ASSUME NEW N \in Nat, NEW T, NEW base \in T, NEW step \in [T \X (1 .. N) -> T]
  PROVE  \E run : IsSeries(run, N, T, base, step)
<1>1. PICK g : IsFold(g, N, T, base, step)
  BY FoldExists
<1>2. g[{}] = base
  BY <1>1 DEF IsFold
<1>3. ASSUME NEW k \in 1 .. N PROVE g[1 .. k] = step[<<g[1 .. k - 1], k>>]
  <2>1. k \in Nat \ {0} /\ 1 .. k \in SUBSET (1 .. N) /\ 1 .. k # {}
    OBVIOUS
  <2>2. Max(1 .. k) = k /\ (1 .. k) \ {k} = 1 .. k - 1
    BY <2>1, MaxOfInterval
  <2> QED BY <1>1, <2>1, <2>2 DEF IsFold
<1>4. Unfolds(g, N, T, base, step)
  BY <1>2, <1>3 DEF Unfolds
<1>5. PICK run : IsRun(run, g, N, T, base, step)
  BY <1>4, FoldRun
<1> QED BY <1>5 DEF IsRun, IsSeries

-----------------------------------------------------------------------------
(* Concatenation and reversal                                              *)

\* The elements of a concatenation.
LEMMA ConcatRange ==
  ASSUME NEW S, NEW s \in Seq(S), NEW t \in Seq(S)
  PROVE  Range(s \o t) = Range(s) \cup Range(t)
<1>1. /\ s \o t \in Seq(S) /\ Len(s \o t) = Len(s) + Len(t)
      /\ \A i \in 1 .. Len(s) + Len(t) :
           (s \o t)[i] = IF i <= Len(s) THEN s[i] ELSE t[i - Len(s)]
  BY ConcatProperties
<1> DEFINE u == s \o t
<1>2. /\ DOMAIN u = 1 .. Len(s) + Len(t) /\ DOMAIN s = 1 .. Len(s) /\ DOMAIN t = 1 .. Len(t)
      /\ Len(s) \in Nat /\ Len(t) \in Nat
  BY <1>1
<1>3. \A i \in DOMAIN u : u[i] = IF i <= Len(s) THEN s[i] ELSE t[i - Len(s)]
  BY <1>1, <1>2
<1> HIDE DEF u
<1>4. \A x \in Range(u) : x \in Range(s) \cup Range(t)
  <2> SUFFICES ASSUME NEW i \in DOMAIN u PROVE u[i] \in Range(s) \cup Range(t)
    BY DEF Range
  <2>1. CASE i <= Len(s)
    BY <2>1, <1>2, <1>3 DEF Range
  <2>2. CASE i > Len(s)
    <3>1. i - Len(s) \in DOMAIN t /\ u[i] = t[i - Len(s)]
      BY <2>2, <1>2, <1>3
    <3> QED BY <3>1 DEF Range
  <2> QED BY <1>2, <2>1, <2>2
<1>5. \A x \in Range(s) : x \in Range(u)
  <2> SUFFICES ASSUME NEW i \in DOMAIN s PROVE s[i] \in Range(u)
    BY DEF Range
  <2> QED BY <1>2, <1>3 DEF Range
<1>6. \A x \in Range(t) : x \in Range(u)
  <2> SUFFICES ASSUME NEW i \in DOMAIN t PROVE t[i] \in Range(u)
    BY DEF Range
  <2>1. i + Len(s) \in DOMAIN u /\ u[i + Len(s)] = t[i]
    BY <1>2, <1>3
  <2> QED BY <2>1 DEF Range
<1> QED BY <1>4, <1>5, <1>6 DEF u

\* A concatenation has no element twice if neither part has, and they share none.
LEMMA ConcatInjective ==
  ASSUME NEW S, NEW s \in Seq(S), NEW t \in Seq(S)
  PROVE  IsInjective(s \o t)
           <=> IsInjective(s) /\ IsInjective(t) /\ Range(s) \cap Range(t) = {}
<1>1. /\ s \o t \in Seq(S) /\ Len(s \o t) = Len(s) + Len(t)
      /\ \A i \in 1 .. Len(s) + Len(t) :
           (s \o t)[i] = IF i <= Len(s) THEN s[i] ELSE t[i - Len(s)]
  BY ConcatProperties
<1> DEFINE u == s \o t
<1>2. /\ DOMAIN u = 1 .. Len(s) + Len(t) /\ DOMAIN s = 1 .. Len(s) /\ DOMAIN t = 1 .. Len(t)
      /\ Len(s) \in Nat /\ Len(t) \in Nat
  BY <1>1
<1>3. \A i \in DOMAIN u : u[i] = IF i <= Len(s) THEN s[i] ELSE t[i - Len(s)]
  BY <1>1, <1>2
<1> HIDE DEF u
<1>4. \A i \in DOMAIN s : i \in DOMAIN u /\ u[i] = s[i]
  BY <1>2, <1>3
<1>5. \A i \in DOMAIN t : i + Len(s) \in DOMAIN u /\ u[i + Len(s)] = t[i]
  BY <1>2, <1>3
<1>6. ASSUME IsInjective(u)
      PROVE  IsInjective(s) /\ IsInjective(t) /\ Range(s) \cap Range(t) = {}
  <2>0. \A i, j \in DOMAIN u : u[i] = u[j] => i = j
    BY <1>6 DEF IsInjective
  <2>1. IsInjective(s)
    BY <2>0, <1>4 DEF IsInjective
  <2>2. IsInjective(t)
    <3> SUFFICES ASSUME NEW i \in DOMAIN t, NEW j \in DOMAIN t, t[i] = t[j] PROVE i = j
      BY DEF IsInjective
    <3>1. i + Len(s) = j + Len(s)
      BY <2>0, <1>5
    <3> QED BY <3>1, <1>2
  <2>3. Range(s) \cap Range(t) = {}
    <3> SUFFICES ASSUME NEW i \in DOMAIN s, NEW j \in DOMAIN t, s[i] = t[j] PROVE FALSE
      BY DEF Range
    <3>1. i = j + Len(s)
      BY <2>0, <1>4, <1>5
    <3> QED BY <3>1, <1>2
  <2> QED BY <2>1, <2>2, <2>3
<1>7. ASSUME IsInjective(s), IsInjective(t), Range(s) \cap Range(t) = {}
      PROVE  IsInjective(u)
  <2> SUFFICES ASSUME NEW i \in DOMAIN u, NEW j \in DOMAIN u, u[i] = u[j] PROVE i = j
    BY DEF IsInjective
  <2>1. \A a \in DOMAIN s, b \in DOMAIN t : s[a] # t[b]
    BY <1>7 DEF Range
  <2>2. \A a, b \in DOMAIN s : s[a] = s[b] => a = b
    BY <1>7 DEF IsInjective
  <2>3. \A a, b \in DOMAIN t : t[a] = t[b] => a = b
    BY <1>7 DEF IsInjective
  <2>4. \A a \in DOMAIN u : IF a <= Len(s) THEN a \in DOMAIN s /\ u[a] = s[a]
                            ELSE a - Len(s) \in DOMAIN t /\ u[a] = t[a - Len(s)]
    BY <1>2, <1>3
  <2> QED BY <2>1, <2>2, <2>3, <2>4, <1>2
<1> QED BY <1>6, <1>7 DEF u

\* A sequence is what comes before a position and what comes after it.
LEMMA Split ==
  ASSUME NEW S, NEW s \in Seq(S), NEW n \in 0 .. Len(s)
  PROVE  /\ SubSeq(s, 1, n) \in Seq(S) /\ Len(SubSeq(s, 1, n)) = n
         /\ SubSeq(s, n + 1, Len(s)) \in Seq(S)
         /\ Len(SubSeq(s, n + 1, Len(s))) = Len(s) - n
         /\ s = SubSeq(s, 1, n) \o SubSeq(s, n + 1, Len(s))
<1>1. Len(s) \in Nat /\ \A i \in 1 .. Len(s) : s[i] \in S
  BY LenProperties, ElementOfSeq
<1>2. SubSeq(s, 1, n) \in Seq(S) /\ Len(SubSeq(s, 1, n)) = IF 1 <= n THEN n - 1 + 1 ELSE 0
  BY <1>1, SubSeqProperties
<1>3. /\ SubSeq(s, n + 1, Len(s)) \in Seq(S)
      /\ Len(SubSeq(s, n + 1, Len(s))) =
           IF n + 1 <= Len(s) THEN Len(s) - (n + 1) + 1 ELSE 0
  BY <1>1, SubSeqProperties
<1>4. SubSeq(s, 1, n) \o SubSeq(s, n + 1, Len(s)) = SubSeq(s, 1, Len(s))
  <2>1. 1 \in 1 .. Len(s) + 1 /\ n \in 1 - 1 .. Len(s) /\ Len(s) \in n .. Len(s)
    BY <1>1
  <2> QED BY <2>1, ConcatAdjacentSubSeq, Zenon
<1>5. SubSeq(s, 1, Len(s)) = s
  BY SubSeqFull
<1>6. Len(SubSeq(s, 1, n)) = n
  BY <1>1, <1>2
<1>7. Len(SubSeq(s, n + 1, Len(s))) = Len(s) - n
  BY <1>1, <1>3
<1> QED BY <1>2, <1>3, <1>4, <1>5, <1>6, <1>7, Zenon

\* The reverse of a sequence has the same elements.
LEMMA ReverseProperties ==
  ASSUME NEW S, NEW s \in Seq(S)
  PROVE  /\ Reverse(s) \in Seq(S)
         /\ Len(Reverse(s)) = Len(s)
         /\ Range(Reverse(s)) = Range(s)
         /\ IsInjective(s) => IsInjective(Reverse(s))
<1>1. Len(s) \in Nat /\ DOMAIN s = 1 .. Len(s) /\ \A i \in 1 .. Len(s) : s[i] \in S
  BY LenProperties, ElementOfSeq
<1>2. Reverse(s) \in [1 .. Len(s) -> S]
  BY <1>1 DEF Reverse
<1>3. \A i \in 1 .. Len(s) : Reverse(s)[i] = s[Len(s) - i + 1]
  BY <1>1 DEF Reverse
<1> DEFINE r == Reverse(s)
<1>4. r \in Seq(S) /\ Len(r) = Len(s) /\ DOMAIN r = 1 .. Len(s)
  BY <1>1, <1>2
<1> HIDE DEF r
<1>5. \A i \in 1 .. Len(s) : r[i] = s[Len(s) - i + 1] /\ Len(s) - i + 1 \in 1 .. Len(s)
  BY <1>1, <1>3 DEF r
<1>6. Range(r) \subseteq Range(s)
  BY <1>1, <1>4, <1>5 DEF Range
<1>7. Range(s) \subseteq Range(r)
  <2> SUFFICES ASSUME NEW i \in 1 .. Len(s) PROVE s[i] \in Range(r)
    BY <1>1 DEF Range
  <2>1. Len(s) - i + 1 \in DOMAIN r /\ r[Len(s) - i + 1] = s[i]
    BY <1>1, <1>4, <1>5
  <2> QED BY <2>1 DEF Range
<1>8. ASSUME IsInjective(s) PROVE IsInjective(r)
  <2> SUFFICES ASSUME NEW i \in 1 .. Len(s), NEW j \in 1 .. Len(s), r[i] = r[j] PROVE i = j
    BY <1>4 DEF IsInjective
  <2>1. Len(s) - i + 1 = Len(s) - j + 1
    BY <1>8, <1>1, <1>5 DEF IsInjective
  <2> QED BY <2>1, <1>1
<1> QED BY <1>4, <1>6, <1>7, <1>8 DEF r

\* The reverse of a sequence starts with its last element.
LEMMA ReverseFirst ==
  ASSUME NEW S, NEW s \in Seq(S), NEW k \in 0 .. Len(s) - 1
  PROVE  Reverse(SubSeq(s, 1, k + 1)) = <<s[k + 1]>> \o Reverse(SubSeq(s, 1, k))
<1> DEFINE a == SubSeq(s, 1, k)
           b == SubSeq(s, 1, k + 1)
<1>1. Len(s) \in Nat /\ k \in 0 .. Len(s) /\ k + 1 \in 0 .. Len(s) /\ \A i \in 1 .. Len(s) : s[i] \in S
  BY LenProperties, ElementOfSeq
<1>2. a \in Seq(S) /\ Len(a) = k /\ \A i \in 1 .. k : a[i] = s[i]
  BY <1>1
<1>3. b \in Seq(S) /\ Len(b) = k + 1 /\ \A i \in 1 .. k + 1 : b[i] = s[i]
  BY <1>1
<1> HIDE DEF a, b
<1>4. Reverse(a) \in Seq(S) /\ Len(Reverse(a)) = k /\ \A i \in 1 .. k : Reverse(a)[i] = s[k - i + 1]
  <2>1. Reverse(a) \in Seq(S) /\ Len(Reverse(a)) = Len(a)
    BY <1>2, ReverseProperties
  <2>2. \A i \in 1 .. k : Reverse(a)[i] = a[k - i + 1] /\ k - i + 1 \in 1 .. k
    BY <1>1, <1>2 DEF Reverse
  <2> QED BY <1>2, <2>1, <2>2
<1>5. Reverse(b) \in Seq(S) /\ Len(Reverse(b)) = k + 1 /\ \A i \in 1 .. k + 1 : Reverse(b)[i] = s[(k + 1) - i + 1]
  <2>1. Reverse(b) \in Seq(S) /\ Len(Reverse(b)) = Len(b)
    BY <1>3, ReverseProperties
  <2>2. \A i \in 1 .. k + 1 : Reverse(b)[i] = b[(k + 1) - i + 1] /\ (k + 1) - i + 1 \in 1 .. k + 1
    BY <1>1, <1>3 DEF Reverse
  <2> QED BY <1>3, <2>1, <2>2
<1>6. PICK e \in S : e = s[k + 1]
  BY <1>1
<1>7. <<e>> \in Seq(S) /\ Len(<<e>>) = 1 /\ <<e>>[1] = e
  OBVIOUS
<1>8. PICK r \in Seq(S) : r = Reverse(a)
  BY <1>4
<1>9. /\ <<e>> \o r \in Seq(S) /\ Len(<<e>> \o r) = 1 + k
      /\ \A i \in 1 .. 1 + k : (<<e>> \o r)[i] = IF i <= 1 THEN <<e>>[i] ELSE r[i - 1]
  BY <1>4, <1>7, <1>8, ConcatProperties
<1>10. PICK t \in Seq(S) : t = <<e>> \o r
  BY <1>9
<1>11. Len(t) = k + 1 /\ \A i \in 1 .. k + 1 : t[i] = IF i <= 1 THEN e ELSE r[i - 1]
  BY <1>1, <1>7, <1>9, <1>10
<1>12. ASSUME NEW i \in 1 .. k + 1 PROVE Reverse(b)[i] = t[i]
  <2>1. CASE i = 1
    BY <2>1, <1>1, <1>5, <1>6, <1>11
  <2>2. CASE i # 1
    <3>1. i - 1 \in 1 .. k /\ ~ (i <= 1) /\ k - (i - 1) + 1 = (k + 1) - i + 1
      BY <2>2, <1>1
    <3>2. r[i - 1] = s[k - (i - 1) + 1]
      BY <1>4, <1>8, <3>1
    <3> QED BY <1>5, <1>11, <3>1, <3>2
  <2> QED BY <2>1, <2>2
<1>13. Reverse(b) = t
  BY <1>5, <1>11, <1>12, SeqEqual
<1> QED BY <1>6, <1>8, <1>10, <1>13, Zenon DEF a, b

\* Concatenation of sequences of numbers is associative.
LEMMA ConcatNat == \A a, b, c \in Seq(Nat) : (a \o b) \o c = a \o (b \o c)
BY ConcatAssociative, SMTT(30)

-----------------------------------------------------------------------------
(* Words                                                                   *)

\* Words are sequences of numbers; those that record an order are sorted.
Sorted(s) == \A i, j \in DOMAIN s : i < j => s[i] < s[j]

\* The parts of a sorted sequence are sorted, and in order.
LEMMA ConcatSorted ==
  ASSUME NEW s \in Seq(Nat), NEW t \in Seq(Nat)
  PROVE  Sorted(s \o t) <=> /\ Sorted(s) /\ Sorted(t)
                            /\ \A x \in Range(s), y \in Range(t) : x < y
<1>1. /\ s \o t \in Seq(Nat) /\ Len(s \o t) = Len(s) + Len(t)
      /\ \A i \in 1 .. Len(s) + Len(t) :
           (s \o t)[i] = IF i <= Len(s) THEN s[i] ELSE t[i - Len(s)]
  BY ConcatProperties
<1> DEFINE u == s \o t
<1>2. /\ DOMAIN u = 1 .. Len(s) + Len(t) /\ DOMAIN s = 1 .. Len(s) /\ DOMAIN t = 1 .. Len(t)
      /\ Len(s) \in Nat /\ Len(t) \in Nat
  BY <1>1
<1>3. \A i \in DOMAIN u : u[i] = IF i <= Len(s) THEN s[i] ELSE t[i - Len(s)]
  BY <1>1, <1>2
<1> HIDE DEF u
<1>4. \A i \in DOMAIN s : i \in DOMAIN u /\ u[i] = s[i]
  BY <1>2, <1>3
<1>5. ASSUME NEW i \in DOMAIN t PROVE i + Len(s) \in DOMAIN u /\ u[i + Len(s)] = t[i]
  <2>1. /\ i + Len(s) \in DOMAIN u /\ ~ (i + Len(s) <= Len(s))
        /\ (i + Len(s)) - Len(s) = i
    BY <1>2
  <2> QED BY <1>3, <2>1
<1>6. ASSUME Sorted(u)
      PROVE  Sorted(s) /\ Sorted(t) /\ \A x \in Range(s), y \in Range(t) : x < y
  <2>0. \A i, j \in DOMAIN u : i < j => u[i] < u[j]
    BY <1>6 DEF Sorted
  <2>1. Sorted(s)
    BY <2>0, <1>4 DEF Sorted
  <2>2. Sorted(t)
    <3> SUFFICES ASSUME NEW i \in DOMAIN t, NEW j \in DOMAIN t, i < j PROVE t[i] < t[j]
      BY DEF Sorted
    <3>1. i + Len(s) < j + Len(s)
      BY <1>2
    <3> QED BY <3>1, <2>0, <1>5
  <2>3. ASSUME NEW i \in DOMAIN s, NEW j \in DOMAIN t PROVE s[i] < t[j]
    <3>1. i < j + Len(s)
      BY <1>2
    <3> QED BY <3>1, <2>0, <1>4, <1>5
  <2> QED BY <2>1, <2>2, <2>3 DEF Range
<1>7. ASSUME Sorted(s), Sorted(t), \A x \in Range(s), y \in Range(t) : x < y
      PROVE  Sorted(u)
  <2> SUFFICES ASSUME NEW i \in DOMAIN u, NEW j \in DOMAIN u, i < j PROVE u[i] < u[j]
    BY DEF Sorted
  <2>1. \A a \in DOMAIN s, b \in DOMAIN t : s[a] < t[b]
    BY <1>7 DEF Range
  <2>2. \A a, b \in DOMAIN s : a < b => s[a] < s[b]
    BY <1>7 DEF Sorted
  <2>3. \A a, b \in DOMAIN t : a < b => t[a] < t[b]
    BY <1>7 DEF Sorted
  <2>4. \A a \in DOMAIN u : IF a <= Len(s) THEN a \in DOMAIN s /\ u[a] = s[a]
                            ELSE a - Len(s) \in DOMAIN t /\ u[a] = t[a - Len(s)]
    BY <1>2, <1>3
  <2> QED BY <2>1, <2>2, <2>3, <2>4, <1>2
<1> QED BY <1>6, <1>7 DEF u


Words == Seq(Nat)

Chain(s, t) == s \o t

\* Chain, and not a concatenation the provers see through, in the algebra of words.
LEMMA ChainWords == \A s, t \in Words : Chain(s, t) \in Words
BY ConcatProperties DEF Words, Chain

\* Words may be chained in any grouping.
LEMMA ChainAssociative == \A s, t, u \in Words : Chain(Chain(s, t), u) = Chain(s, Chain(t, u))
BY ConcatNat DEF Words, Chain

\* The empty word changes nothing.
LEMMA ChainEmpty == \A s \in Words : << >> \in Words /\ Chain(s, << >>) = s /\ Chain(<< >>, s) = s
BY ConcatEmptySeq DEF Words, Chain

\* ConcatRange for words.
LEMMA ChainRange == \A s, t \in Words : Range(Chain(s, t)) = Range(s) \cup Range(t)
BY ConcatRange DEF Words, Chain

\* ConcatInjective for words.
LEMMA ChainInjective ==
  \A s, t \in Words :
     IsInjective(Chain(s, t)) <=> IsInjective(s) /\ IsInjective(t) /\ Range(s) \cap Range(t) = {}
BY ConcatInjective DEF Words, Chain

\* ConcatSorted for words.
LEMMA ChainSorted ==
  \A s, t \in Words :
     Sorted(Chain(s, t)) <=> /\ Sorted(s) /\ Sorted(t)
                           /\ \A x \in Range(s), y \in Range(t) : x < y
BY ConcatSorted DEF Words, Chain

\* The first of two sequences has elements of the second, and each only once.
Thin(r, t) == Range(r) \subseteq Range(t) /\ (IsInjective(t) => IsInjective(r))

\* The first of two sequences has elements of the second, in order.
Sparse(r, t) == Range(r) \subseteq Range(t) /\ (Sorted(t) => Sorted(r))

\* To thin a part is to thin the whole.
LEMMA ChainThin ==
  \A r, t, d \in Words : Thin(r, t) => Thin(Chain(r, d), Chain(t, d)) /\ Thin(Chain(d, r), Chain(d, t))
<1> TAKE r, t, d \in Words
<1> HAVE Thin(r, t)
<1>1. Range(r) \subseteq Range(t) /\ (IsInjective(t) => IsInjective(r))
  BY DEF Thin
<1>2. Thin(Chain(r, d), Chain(t, d))
  <2>1. Range(Chain(r, d)) = Range(r) \cup Range(d) /\ Range(Chain(t, d)) = Range(t) \cup Range(d)
    BY ChainRange
  <2>2. /\ IsInjective(Chain(r, d)) <=> IsInjective(r) /\ IsInjective(d) /\ Range(r) \cap Range(d) = {}
        /\ IsInjective(Chain(t, d)) <=> IsInjective(t) /\ IsInjective(d) /\ Range(t) \cap Range(d) = {}
    BY ChainInjective
  <2> QED BY <1>1, <2>1, <2>2 DEF Thin
<1>3. Thin(Chain(d, r), Chain(d, t))
  <2>1. Range(Chain(d, r)) = Range(d) \cup Range(r) /\ Range(Chain(d, t)) = Range(d) \cup Range(t)
    BY ChainRange
  <2>2. /\ IsInjective(Chain(d, r)) <=> IsInjective(d) /\ IsInjective(r) /\ Range(d) \cap Range(r) = {}
        /\ IsInjective(Chain(d, t)) <=> IsInjective(d) /\ IsInjective(t) /\ Range(d) \cap Range(t) = {}
    BY ChainInjective
  <2> QED BY <1>1, <2>1, <2>2 DEF Thin
<1> QED BY <1>2, <1>3

\* The same with the order kept.
LEMMA ChainSparse ==
  \A r, t, d \in Words :
     Sparse(r, t) => Sparse(Chain(r, d), Chain(t, d)) /\ Sparse(Chain(d, r), Chain(d, t))
<1> TAKE r, t, d \in Words
<1> HAVE Sparse(r, t)
<1>1. Range(r) \subseteq Range(t) /\ (Sorted(t) => Sorted(r))
  BY DEF Sparse
<1>2. Sparse(Chain(r, d), Chain(t, d))
  <2>1. Range(Chain(r, d)) = Range(r) \cup Range(d) /\ Range(Chain(t, d)) = Range(t) \cup Range(d)
    BY ChainRange
  <2>2. /\ Sorted(Chain(r, d))
             <=> Sorted(r) /\ Sorted(d) /\ \A x \in Range(r), y \in Range(d) : x < y
        /\ Sorted(Chain(t, d))
             <=> Sorted(t) /\ Sorted(d) /\ \A x \in Range(t), y \in Range(d) : x < y
    BY ChainSorted
  <2> QED BY <1>1, <2>1, <2>2 DEF Sparse
<1>3. Sparse(Chain(d, r), Chain(d, t))
  <2>1. Range(Chain(d, r)) = Range(d) \cup Range(r) /\ Range(Chain(d, t)) = Range(d) \cup Range(t)
    BY ChainRange
  <2>2. /\ Sorted(Chain(d, r))
             <=> Sorted(d) /\ Sorted(r) /\ \A x \in Range(d), y \in Range(r) : x < y
        /\ Sorted(Chain(d, t))
             <=> Sorted(d) /\ Sorted(t) /\ \A x \in Range(d), y \in Range(t) : x < y
    BY ChainSorted
  <2> QED BY <1>1, <2>1, <2>2 DEF Sparse
<1> QED BY <1>2, <1>3

\* A part is thinner than the whole.
LEMMA ChainPrefix == \A s, t \in Words : Thin(s, Chain(s, t)) /\ Sparse(t, Chain(s, t))
<1> TAKE s, t \in Words
<1>1. Range(Chain(s, t)) = Range(s) \cup Range(t)
  BY ChainRange
<1>2. (IsInjective(Chain(s, t)) => IsInjective(s)) /\ (Sorted(Chain(s, t)) => Sorted(t))
  BY ChainInjective, ChainSorted
<1> QED BY <1>1, <1>2 DEF Thin, Sparse

\* A sorted word has no number twice.
LEMMA SortedInjective == \A s \in Words : Sorted(s) => IsInjective(s)
<1> TAKE s \in Words
<1>1. \A i \in DOMAIN s : i \in Nat /\ s[i] \in Nat
  BY DEF Words
<1> QED BY <1>1 DEF Sorted, IsInjective

\* A sequence over the numbers it holds.
LEMMA WordsIn ==
  ASSUME NEW s \in Words, NEW T, Range(s) \subseteq T
  PROVE  s \in Seq(T)
<1>1. s \in Seq(Nat) /\ Len(s) \in Nat /\ DOMAIN s = 1 .. Len(s)
  BY DEF Words
<1>2. \A i \in 1 .. Len(s) : s[i] \in T
  BY <1>1 DEF Range
<1> QED BY <1>1, <1>2

-----------------------------------------------------------------------------
(* Ends of words                                                           *)

\* The length of a chain.
LEMMA ChainLen == \A s, t \in Words : Len(s) \in Nat /\ Len(Chain(s, t)) = Len(s) + Len(t)
BY ConcatProperties DEF Words, Chain

\* The elements of a chain.
LEMMA ChainAt ==
  ASSUME NEW s \in Words, NEW t \in Words, NEW i \in 1 .. Len(s) + Len(t)
  PROVE  Chain(s, t)[i] = IF i <= Len(s) THEN s[i] ELSE t[i - Len(s)]
BY ConcatProperties DEF Words, Chain

\* Words of the same length with the same elements.
LEMMA SameWords ==
  ASSUME NEW s \in Words, NEW t \in Words, Len(s) = Len(t), \A i \in 1 .. Len(s) : s[i] = t[i]
  PROVE  s = t
BY SeqEqual DEF Words

\* A word is what comes before a position and what comes after it.
LEMMA SplitAt ==
  ASSUME NEW s \in Words, NEW n \in 0 .. Len(s)
  PROVE  \E a, b \in Words : /\ a = SubSeq(s, 1, n) /\ b = SubSeq(s, n + 1, Len(s))
                             /\ Len(a) = n /\ Len(b) = Len(s) - n /\ s = Chain(a, b)
<1>1. s \in Seq(Nat)
  BY DEF Words
<1>2. /\ SubSeq(s, 1, n) \in Seq(Nat) /\ Len(SubSeq(s, 1, n)) = n
      /\ SubSeq(s, n + 1, Len(s)) \in Seq(Nat)
      /\ Len(SubSeq(s, n + 1, Len(s))) = Len(s) - n
      /\ s = SubSeq(s, 1, n) \o SubSeq(s, n + 1, Len(s))
  BY <1>1, Split
<1> QED BY <1>2, Zenon DEF Words, Chain

\* Equal chains whose first parts are equally long.
LEMMA ChainCancels ==
  \A s, u, t, v \in Words : Chain(s, u) = Chain(t, v) /\ Len(s) = Len(t) => s = t /\ u = v
<1> TAKE s, u, t, v \in Words
<1> HAVE Chain(s, u) = Chain(t, v) /\ Len(s) = Len(t)
<1>1. /\ Len(s) \in Nat /\ Len(u) \in Nat /\ Len(v) \in Nat
      /\ Len(Chain(s, u)) = Len(s) + Len(u) /\ Len(Chain(t, v)) = Len(t) + Len(v)
  BY ChainLen
<1>2. Len(u) = Len(v)
  BY <1>1
<1>3. \A i \in 1 .. Len(s) + Len(u) : Chain(s, u)[i] = IF i <= Len(s) THEN s[i] ELSE u[i - Len(s)]
  BY ChainAt
<1>4. \A i \in 1 .. Len(s) + Len(u) : Chain(s, u)[i] = IF i <= Len(s) THEN t[i] ELSE v[i - Len(s)]
  BY <1>2, ChainAt
<1>5. s = t
  <2>1. ASSUME NEW i \in 1 .. Len(s) PROVE s[i] = t[i]
    <3>1. i \in 1 .. Len(s) + Len(u) /\ i <= Len(s)
      BY <1>1
    <3> QED BY <1>3, <1>4, <3>1
  <2> QED BY <2>1, SameWords
<1>6. u = v
  <2>1. ASSUME NEW i \in 1 .. Len(u) PROVE u[i] = v[i]
    <3>1. /\ i + Len(s) \in 1 .. Len(s) + Len(u) /\ ~ (i + Len(s) <= Len(s))
          /\ (i + Len(s)) - Len(s) = i
      BY <1>1
    <3>2. PICK j \in 1 .. Len(s) + Len(u) : j = i + Len(s)
      BY <3>1
    <3>3. Chain(s, u)[j] = u[j - Len(s)] /\ Chain(s, u)[j] = v[j - Len(s)]
      BY <1>3, <1>4, <3>1, <3>2
    <3> QED BY <3>1, <3>2, <3>3
  <2> QED BY <1>2, <2>1, SameWords
<1> QED BY <1>5, <1>6

\* The second of two words ends with the first.
Suffix(s, t) == \E w \in Words : t = Chain(w, s)

\* The first part of one chain goes on where that of an equal one ends.
GoesOn(x, b, y, z) == \E w \in Words : x = Chain(y, w) /\ z = Chain(w, b)

\* Where two chains are equal, the longer of their first parts goes on.
LEMMA LeviHalf ==
  ASSUME NEW x \in Words, NEW b \in Words, NEW y \in Words, NEW z \in Words,
         Chain(x, b) = Chain(y, z), Len(y) <= Len(x)
  PROVE  GoesOn(x, b, y, z)
<1>1. Len(y) \in 0 .. Len(x)
  BY ChainLen
<1>2. PICK a, w \in Words : Len(a) = Len(y) /\ x = Chain(a, w)
  <2>1. \E a, w \in Words : /\ a = SubSeq(x, 1, Len(y)) /\ w = SubSeq(x, Len(y) + 1, Len(x))
                            /\ Len(a) = Len(y) /\ Len(w) = Len(x) - Len(y) /\ x = Chain(a, w)
    BY <1>1, SplitAt
  <2> QED BY <2>1
<1>3. Chain(w, b) \in Words /\ Chain(a, Chain(w, b)) = Chain(y, z)
  BY <1>2, ChainWords, ChainAssociative
<1>4. a = y /\ Chain(w, b) = z
  BY <1>2, <1>3, ChainCancels
<1> QED BY <1>2, <1>4 DEF GoesOn

\* Levi's lemma: where two chains are equal, one first part goes on.
LEMMA Levi ==
  \A x, b, y, z \in Words :
     Chain(x, b) = Chain(y, z) => GoesOn(x, b, y, z) \/ GoesOn(y, z, x, b)
<1> TAKE x, b, y, z \in Words
<1> HAVE Chain(x, b) = Chain(y, z)
<1>1. Len(x) \in Nat /\ Len(y) \in Nat
  BY ChainLen
<1>2. CASE Len(y) <= Len(x)
  BY <1>2, LeviHalf
<1>3. CASE Len(x) <= Len(y)
  BY <1>3, LeviHalf
<1> QED BY <1>1, <1>2, <1>3

\* Of two ends of a word one is an end of the other.
LEMMA SuffixesCompare ==
  \A s, t, u \in Words : Suffix(s, u) /\ Suffix(t, u) => Suffix(s, t) \/ Suffix(t, s)
<1> TAKE s, t, u \in Words
<1> HAVE Suffix(s, u) /\ Suffix(t, u)
<1>1. PICK x \in Words : u = Chain(x, s)
  BY DEF Suffix
<1>2. PICK y \in Words : u = Chain(y, t)
  BY DEF Suffix
<1>3. GoesOn(x, s, y, t) \/ GoesOn(y, t, x, s)
  <2>1. Chain(x, s) = Chain(y, t)
    BY <1>1, <1>2
  <2> QED BY <2>1, Levi
<1> QED BY <1>3 DEF Suffix, GoesOn

\* Two ends of a word are equal if they are equally long.
LEMMA SuffixesEqual ==
  \A s, t, u \in Words : Suffix(s, u) /\ Suffix(t, u) /\ Len(s) = Len(t) => s = t
<1> TAKE s, t, u \in Words
<1> HAVE Suffix(s, u) /\ Suffix(t, u) /\ Len(s) = Len(t)
<1>1. PICK x \in Words : u = Chain(x, s)
  BY DEF Suffix
<1>2. PICK y \in Words : u = Chain(y, t)
  BY DEF Suffix
<1>3. Len(x) \in Nat /\ Len(y) \in Nat /\ Len(s) \in Nat /\ Len(x) + Len(s) = Len(y) + Len(t)
  <2>1. Len(x) \in Nat /\ Len(s) \in Nat /\ Len(u) = Len(x) + Len(s)
    BY <1>1, ChainLen
  <2>2. Len(y) \in Nat /\ Len(u) = Len(y) + Len(t)
    BY <1>2, ChainLen
  <2> QED BY <2>1, <2>2
<1>4. Len(x) = Len(y)
  BY <1>3
<1> QED BY <1>1, <1>2, <1>4, ChainCancels

\* A word is an end of itself, and the empty word one of any.
LEMMA SuffixSelf == \A s \in Words : Suffix(s, s) /\ Suffix(<< >>, s)
BY ChainEmpty DEF Suffix

\* The second part of a chain is an end of it.
LEMMA SuffixChain == \A s, t \in Words : Suffix(t, Chain(s, t))
BY DEF Suffix

\* An end of an end is an end.
LEMMA SuffixTransitive ==
  \A s, t, u \in Words : Suffix(s, t) /\ Suffix(t, u) => Suffix(s, u)
<1> TAKE s, t, u \in Words
<1> HAVE Suffix(s, t) /\ Suffix(t, u)
<1>1. PICK x \in Words : t = Chain(x, s)
  BY DEF Suffix
<1>2. PICK y \in Words : u = Chain(y, t)
  BY DEF Suffix
<1>3. Chain(y, x) \in Words /\ u = Chain(Chain(y, x), s)
  BY <1>1, <1>2, ChainWords, ChainAssociative
<1> QED BY <1>3 DEF Suffix

\* Words that grow by the same end keep what is at their ends.
LEMMA SuffixGrows ==
  \A s, t, u \in Words : Suffix(s, t) => Suffix(Chain(s, u), Chain(t, u))
<1> TAKE s, t, u \in Words
<1> HAVE Suffix(s, t)
<1>1. PICK x \in Words : t = Chain(x, s)
  BY DEF Suffix
<1>2. Chain(t, u) = Chain(x, Chain(s, u))
  BY <1>1, ChainAssociative
<1> QED BY <1>2 DEF Suffix

\* An end has elements of the whole, in order.
LEMMA SuffixSparse == \A s, t \in Words : Suffix(s, t) => Sparse(s, t)
BY ChainPrefix DEF Suffix

\* The community modules see the end of a sequence as the start of its reverse.
LEMMA IsSuffixWords == \A s, t \in Words : IsSuffix(s, t) <=> Suffix(s, t)
<1> TAKE s, t \in Words
<1>1. s \in Seq(Nat) /\ t \in Seq(Nat) /\ Len(s) \in Nat /\ Len(t) \in Nat
  BY DEF Words
<1>2. Reverse(s) \in Seq(Nat) /\ Len(Reverse(s)) = Len(s) /\ Reverse(t) \in Seq(Nat) /\ Len(Reverse(t)) = Len(t)
  BY <1>1, ReverseProperties
<1>3. /\ \A i \in 1 .. Len(s) : Reverse(s)[i] = s[Len(s) - i + 1]
      /\ \A i \in 1 .. Len(t) : Reverse(t)[i] = t[Len(t) - i + 1]
  BY <1>1 DEF Reverse
<1>4. PICK r \in Seq(Nat) : r = Reverse(s)
  BY <1>2
<1>5. PICK q \in Seq(Nat) : q = Reverse(t)
  BY <1>2
<1>6. IsSuffix(s, t) <=> Len(s) <= Len(t) /\ \A i \in 1 .. Len(s) : r[i] = q[i]
  <2>1. IsSuffix(s, t) <=> Len(s) <= Len(t) /\ SubSeq(r, 1, Len(s)) = SubSeq(q, 1, Len(s))
    BY <1>2, <1>4, <1>5 DEF IsSuffix, IsPrefix
  <2>2. ASSUME Len(s) <= Len(t)
        PROVE  SubSeq(r, 1, Len(s)) = SubSeq(q, 1, Len(s)) <=> \A i \in 1 .. Len(s) : r[i] = q[i]
    <3>1. PICK n \in Nat : n = Len(s)
      BY <1>1
    <3>2. Len(r) = n /\ Len(q) \in Nat /\ n <= Len(q)
      BY <1>1, <1>2, <1>4, <1>5, <2>2, <3>1
    <3>3. /\ SubSeq(r, 1, n) \in Seq(Nat) /\ Len(SubSeq(r, 1, n)) = n
          /\ \A i \in 1 .. n : SubSeq(r, 1, n)[i] = r[i]
      BY <3>2
    <3>4. /\ SubSeq(q, 1, n) \in Seq(Nat) /\ Len(SubSeq(q, 1, n)) = n
          /\ \A i \in 1 .. n : SubSeq(q, 1, n)[i] = q[i]
      BY <3>2
    <3>5. PICK u \in Seq(Nat) : u = SubSeq(r, 1, n)
      BY <3>3
    <3>6. PICK v \in Seq(Nat) : v = SubSeq(q, 1, n)
      BY <3>4
    <3>7. u = v <=> \A i \in 1 .. n : u[i] = v[i]
      BY <3>3, <3>4, <3>5, <3>6, SeqEqual
    <3> QED BY <3>1, <3>3, <3>4, <3>5, <3>6, <3>7
  <2> QED BY <2>1, <2>2
<1>7. ASSUME Suffix(s, t)
      PROVE  Len(s) <= Len(t) /\ \A i \in 1 .. Len(s) : r[i] = q[i]
  <2>1. PICK w \in Words : t = Chain(w, s)
    BY <1>7 DEF Suffix
  <2>2. Len(w) \in Nat /\ Len(t) = Len(w) + Len(s)
    BY <2>1, ChainLen
  <2>3. ASSUME NEW i \in 1 .. Len(s) PROVE r[i] = q[i]
    <3>1. /\ Len(t) - i + 1 \in 1 .. Len(w) + Len(s) /\ ~ (Len(t) - i + 1 <= Len(w))
          /\ (Len(t) - i + 1) - Len(w) = Len(s) - i + 1 /\ i \in 1 .. Len(t)
      BY <1>1, <2>2
    <3>2. PICK j \in 1 .. Len(w) + Len(s) : j = Len(t) - i + 1
      BY <3>1
    <3>3. t[j] = s[j - Len(w)]
      BY <2>1, <3>1, <3>2, ChainAt
    <3> QED BY <1>3, <1>4, <1>5, <3>1, <3>2, <3>3
  <2> QED BY <1>1, <2>2, <2>3
<1>8. ASSUME Len(s) <= Len(t), \A i \in 1 .. Len(s) : r[i] = q[i]
      PROVE  Suffix(s, t)
  <2>1. Len(t) - Len(s) \in 0 .. Len(t)
    BY <1>1, <1>8
  <2>2. PICK k \in 0 .. Len(t) : k = Len(t) - Len(s)
    BY <2>1
  <2>3. PICK a, b \in Words : Len(a) = k /\ Len(b) = Len(t) - k /\ t = Chain(a, b)
    <3>1. \E a, b \in Words : /\ a = SubSeq(t, 1, k) /\ b = SubSeq(t, k + 1, Len(t))
                              /\ Len(a) = k /\ Len(b) = Len(t) - k /\ t = Chain(a, b)
      BY SplitAt
    <3> QED BY <3>1
  <2>4. Len(b) = Len(s)
    BY <1>1, <2>2, <2>3
  <2>5. ASSUME NEW i \in 1 .. Len(s) PROVE s[i] = b[i]
    <3>1. /\ Len(s) - i + 1 \in 1 .. Len(s) /\ Len(s) - i + 1 \in 1 .. Len(t)
          /\ Len(s) - (Len(s) - i + 1) + 1 = i
          /\ Len(t) - (Len(s) - i + 1) + 1 = k + i
          /\ k + i \in 1 .. Len(a) + Len(b) /\ ~ (k + i <= Len(a)) /\ (k + i) - Len(a) = i
      BY <1>1, <1>8, <2>2, <2>3, <2>4
    <3>2. PICK j \in 1 .. Len(s) : j = Len(s) - i + 1
      BY <3>1
    <3>3. r[j] = s[i] /\ q[j] = t[k + i]
      BY <1>3, <1>4, <1>5, <3>1, <3>2
    <3>4. t[k + i] = b[(k + i) - Len(a)]
      BY <2>3, <3>1, ChainAt
    <3> QED BY <1>8, <3>1, <3>2, <3>3, <3>4
  <2>6. s = b
    BY <2>4, <2>5, SameWords
  <2> QED BY <2>3, <2>6 DEF Suffix
<1> QED BY <1>6, <1>7, <1>8

-----------------------------------------------------------------------------
(* Insertion and removal                                                   *)

(***************************************************************************)
(* A sequence in which the elements after position i and before position k *)
(* give way to one new element.                                            *)
(***************************************************************************)
LEMMA SpliceElements ==
  ASSUME NEW S, NEW front \in Seq(S), NEW back \in Seq(S), NEW e \in S
  PROVE  /\ (front \o <<e>>) \o back \in Seq(S)
         /\ Len((front \o <<e>>) \o back) = Len(front) + 1 + Len(back)
         /\ \A j \in 1 .. Len(front) + 1 + Len(back) :
              ((front \o <<e>>) \o back)[j] =
                IF j <= Len(front) THEN front[j]
                ELSE IF j = Len(front) + 1 THEN e
                ELSE back[j - (Len(front) + 1)]
<1>1. <<e>> \in Seq(S) /\ Len(<<e>>) = 1 /\ <<e>>[1] = e
  OBVIOUS
<1> DEFINE both == front \o <<e>>
<1>2. /\ both \in Seq(S) /\ Len(both) = Len(front) + 1
      /\ \A j \in 1 .. Len(front) + 1 : both[j] =
           IF j <= Len(front) THEN front[j] ELSE <<e>>[j - Len(front)]
  BY <1>1, ConcatProperties
<1> HIDE DEF both
<1>3. /\ both \o back \in Seq(S)
      /\ Len(both \o back) = Len(both) + Len(back)
      /\ \A j \in 1 .. Len(both) + Len(back) : (both \o back)[j] =
           IF j <= Len(both) THEN both[j] ELSE back[j - Len(both)]
  BY <1>2, ConcatProperties
<1>4. Len(front) \in Nat /\ Len(back) \in Nat
  OBVIOUS
<1>5. Len(both \o back) = Len(front) + 1 + Len(back)
  BY <1>2, <1>3, <1>4
<1>6. ASSUME NEW j \in 1 .. Len(front) + 1 + Len(back)
      PROVE  (both \o back)[j] = IF j <= Len(front) THEN front[j]
                                 ELSE IF j = Len(front) + 1 THEN e
                                 ELSE back[j - (Len(front) + 1)]
  <2>1. (both \o back)[j] = IF j <= Len(both) THEN both[j] ELSE back[j - Len(both)]
    BY <1>2, <1>3, <1>4
  <2>2. CASE j <= Len(front)
    BY <1>2, <1>4, <2>1, <2>2
  <2>3. CASE j = Len(front) + 1
    BY <1>1, <1>2, <1>4, <2>1, <2>3
  <2>4. CASE j > Len(front) + 1
    BY <1>2, <1>4, <2>1, <2>4
  <2>5. j <= Len(front) \/ j = Len(front) + 1 \/ j > Len(front) + 1
    BY <1>4
  <2> QED BY <2>2, <2>3, <2>4, <2>5
<1> QED
  BY <1>3, <1>5, <1>6 DEF both

\* RemoveAt takes one element out and keeps the order of the others.
LEMMA RemoveAtElements ==
  ASSUME NEW S, NEW seq \in Seq(S), NEW i \in 1 .. Len(seq)
  PROVE  /\ RemoveAt(seq, i) \in Seq(S)
         /\ Len(RemoveAt(seq, i)) = Len(seq) - 1
         /\ \A j \in 1 .. Len(seq) - 1 :
              RemoveAt(seq, i)[j] = IF j < i THEN seq[j] ELSE seq[j + 1]
<1> DEFINE front == SubSeq(seq, 1, i - 1)
           back == SubSeq(seq, i + 1, Len(seq))
<1>1. Len(seq) \in Nat /\ \A j \in 1 .. Len(seq) : seq[j] \in S
  OBVIOUS
<1>2. /\ front \in Seq(S) /\ Len(front) = i - 1
      /\ \A j \in 1 .. i - 1 : front[j] = seq[j]
  BY <1>1, SubSeqProperties
<1>3. /\ back \in Seq(S) /\ Len(back) = Len(seq) - i
      /\ \A j \in 1 .. Len(seq) - i : back[j] = seq[i + j]
  <2>1. \A j \in i + 1 .. Len(seq) : seq[j] \in S
    BY <1>1
  <2>2. /\ back \in Seq(S)
        /\ Len(back) = IF i + 1 <= Len(seq) THEN Len(seq) - (i + 1) + 1 ELSE 0
        /\ \A j \in 1 .. Len(seq) - (i + 1) + 1 : back[j] = seq[(i + 1) + j - 1]
    BY <1>1, <2>1, SubSeqProperties
  <2>3. \A j \in 1 .. Len(seq) - i : (i + 1) + j - 1 = i + j
    OBVIOUS
  <2>4. Len(seq) - (i + 1) + 1 = Len(seq) - i
    BY <1>1
  <2> HIDE DEF back
  <2>5. Len(back) = Len(seq) - i
    BY <1>1, <2>2
  <2>6. \A j \in 1 .. Len(seq) - i : back[j] = seq[i + j]
    BY <2>2, <2>3, <2>4
  <2> QED BY <2>2, <2>5, <2>6
<1>4. RemoveAt(seq, i) = front \o back
  BY DEF RemoveAt
<1> HIDE DEF front, back
<1>5. /\ front \o back \in Seq(S)
      /\ Len(front \o back) = Len(front) + Len(back)
      /\ \A j \in 1 .. Len(front) + Len(back) : (front \o back)[j] =
           IF j <= Len(front) THEN front[j] ELSE back[j - Len(front)]
  BY <1>2, <1>3, ConcatProperties
<1>6. ASSUME NEW j \in 1 .. Len(seq) - 1
      PROVE  (front \o back)[j] = IF j < i THEN seq[j] ELSE seq[j + 1]
  <2>1. CASE j < i
    BY <1>1, <1>2, <1>3, <1>5, <2>1
  <2>2. CASE j >= i
    <3>1. (front \o back)[j] = back[j - (i - 1)]
      BY <1>1, <1>2, <1>3, <1>5, <2>2
    <3>2. j - (i - 1) \in 1 .. Len(seq) - i /\ i + (j - (i - 1)) = j + 1
      BY <1>1, <2>2
    <3> QED BY <1>3, <2>2, <3>1, <3>2
  <2>3. j < i \/ j >= i
    BY <1>1
  <2> QED BY <2>1, <2>2, <2>3
<1> QED
  BY <1>1, <1>2, <1>3, <1>4, <1>5, <1>6

(***************************************************************************)
(* InsertAt adds one element and keeps the others.                         *)
(***************************************************************************)
LEMMA InsertAtElements ==
  ASSUME NEW S, NEW seq \in Seq(S), NEW i \in 1 .. Len(seq) + 1, NEW e \in S
  PROVE  /\ InsertAt(seq, i, e) \in Seq(S)
         /\ Len(InsertAt(seq, i, e)) = Len(seq) + 1
         /\ \A j \in 1 .. Len(seq) + 1 :
              InsertAt(seq, i, e)[j] =
                IF j < i THEN seq[j] ELSE IF j = i THEN e ELSE seq[j - 1]
<1> DEFINE front == SubSeq(seq, 1, i - 1)
           back == SubSeq(seq, i, Len(seq))
<1>1. /\ front \in Seq(S) /\ Len(front) = i - 1
      /\ \A j \in 1 .. i - 1 : front[j] = seq[j]
  BY SubSeqProperties
<1>2. /\ back \in Seq(S) /\ Len(back) = Len(seq) - i + 1
      /\ \A j \in 1 .. Len(seq) - i + 1 : back[j] = seq[i + j - 1]
  BY SubSeqProperties
<1>3. <<e>> \in Seq(S) /\ Len(<<e>>) = 1 /\ <<e>>[1] = e
  OBVIOUS
<1> HIDE DEF front, back
<1>4. /\ front \o <<e>> \in Seq(S) /\ Len(front \o <<e>>) = i
      /\ \A j \in 1 .. i : (front \o <<e>>)[j] = IF j <= i - 1 THEN front[j] ELSE <<e>>[j - i + 1]
  BY <1>1, <1>3, ConcatProperties
<1> DEFINE both == front \o <<e>>
<1>6. InsertAt(seq, i, e) = both \o back
  BY DEF InsertAt, front, back
<1>7. /\ both \in Seq(S) /\ Len(both) = i
      /\ \A j \in 1 .. i : both[j] = IF j <= i - 1 THEN front[j] ELSE <<e>>[j - i + 1]
  BY <1>4
<1> HIDE DEF both
<1>8. /\ both \o back \in Seq(S)
      /\ Len(both \o back) = Len(both) + Len(back)
      /\ \A j \in 1 .. Len(both) + Len(back) : (both \o back)[j] =
           IF j <= Len(both) THEN both[j] ELSE back[j - Len(both)]
  BY <1>2, <1>7, ConcatProperties
<1>5. /\ both \o back \in Seq(S)
      /\ Len(both \o back) = Len(seq) + 1
      /\ \A j \in 1 .. Len(seq) + 1 : (both \o back)[j] =
           IF j <= i THEN both[j] ELSE back[j - i]
  BY <1>2, <1>7, <1>8
<1> QED
  BY <1>1, <1>2, <1>3, <1>5, <1>6, <1>7, SMTT(30)

\* What the sequence holds afterwards, and that it holds it once.
LEMMA InsertAtRange ==
  ASSUME NEW S, NEW seq \in Seq(S), NEW i \in 1 .. Len(seq) + 1, NEW e \in S
  PROVE  /\ Range(InsertAt(seq, i, e)) = Range(seq) \cup {e}
         /\ IsInjective(seq) /\ e \notin Range(seq)
              => IsInjective(InsertAt(seq, i, e))
<1> DEFINE t == InsertAt(seq, i, e)
<1>1. /\ t \in Seq(S) /\ Len(t) = Len(seq) + 1
      /\ \A j \in 1 .. Len(seq) + 1 :
           t[j] = IF j < i THEN seq[j] ELSE IF j = i THEN e ELSE seq[j - 1]
  BY InsertAtElements
<1> HIDE DEF t
<1>2. DOMAIN t = 1 .. Len(seq) + 1 /\ DOMAIN seq = 1 .. Len(seq) /\ Len(seq) \in Nat
  BY <1>1
<1>3. \A x \in Range(t) : x \in Range(seq) \cup {e}
  BY <1>1, <1>2 DEF Range
<1>4. \A x \in Range(seq) \cup {e} : x \in Range(t)
  <2> SUFFICES ASSUME NEW x \in Range(seq) \cup {e} PROVE \E j \in DOMAIN t : t[j] = x
    BY DEF Range
  <2>1. CASE x = e
    BY <1>1, <1>2, <2>1
  <2>2. CASE x \in Range(seq)
    <3>1. PICK j \in DOMAIN seq : seq[j] = x
      BY <2>2 DEF Range
    <3>2. CASE j < i
      BY <1>1, <1>2, <3>1, <3>2
    <3>3. CASE j >= i
      <4>1. j + 1 \in DOMAIN t /\ t[j + 1] = seq[j]
        BY <1>1, <1>2, <3>3
      <4> QED BY <3>1, <4>1
    <3> QED BY <1>2, <3>2, <3>3
  <2> QED BY <2>1, <2>2
<1>5. ASSUME IsInjective(seq), e \notin Range(seq)
      PROVE  IsInjective(t)
  <2> SUFFICES ASSUME NEW a \in DOMAIN t, NEW b \in DOMAIN t, t[a] = t[b], a # b
               PROVE  FALSE
    BY DEF IsInjective
  <2>1. \A j \in DOMAIN seq : seq[j] # e
    BY <1>5 DEF Range
  <2>2. \A j, k \in DOMAIN seq : seq[j] = seq[k] => j = k
    BY <1>5 DEF IsInjective
  <2> DEFINE old(j) == IF j < i THEN j ELSE j - 1
  <2>3. \A j \in DOMAIN t : j # i => old(j) \in DOMAIN seq /\ t[j] = seq[old(j)]
    BY <1>1, <1>2
  <2>4. i \in DOMAIN t /\ t[i] = e
    BY <1>1, <1>2
  <2>5. a # i /\ b # i
    BY <2>1, <2>3, <2>4
  <2>6. old(a) = old(b)
    BY <2>2, <2>3, <2>5
  <2> QED BY <1>2, <2>5, <2>6
<1> QED
  BY <1>3, <1>4, <1>5 DEF t

-----------------------------------------------------------------------------
(* Positions in a ring                                                     *)

\* The remainder of a number below twice the divisor.
LEMMA ModOnce ==
  ASSUME NEW n \in Nat \ {0}, NEW a \in 0 .. 2 * n - 1
  PROVE  a % n = IF a < n THEN a ELSE a - n
<1>1. CASE a < n
  BY <1>1
<1>2. CASE a >= n
  BY <1>2
<1> QED BY <1>1, <1>2

\* Positions in a ring of n places, counted from h.
LEMMA ModSum ==
  ASSUME NEW n \in Nat \ {0}, NEW h \in 0 .. n - 1, NEW i \in 0 .. n
  PROVE  /\ (h + i) % n = IF h + i < n THEN h + i ELSE h + i - n
         /\ (h + i) % n \in 0 .. n - 1
<1>1. PICK a \in 0 .. 2 * n - 1 : a = h + i
  OBVIOUS
<1>2. a % n = IF a < n THEN a ELSE a - n
  BY ModOnce
<1> QED BY <1>1, <1>2

\* A position counted in two steps.
LEMMA ModNext ==
  ASSUME NEW n \in Nat \ {0}, NEW h \in 0 .. n - 1, NEW k \in 0 .. n, NEW i \in 0 .. n, k + i <= n
  PROVE  (((h + k) % n) + i) % n = (h + (k + i)) % n
<1>1. PICK j \in 0 .. n - 1 : j = (h + k) % n
  BY ModSum
<1>2. j = IF h + k < n THEN h + k ELSE h + k - n
  BY <1>1, ModSum
<1>3. (j + i) % n = IF j + i < n THEN j + i ELSE j + i - n
  BY ModSum
<1>4. PICK l \in 0 .. n : l = k + i
  OBVIOUS
<1>5. (h + l) % n = IF h + l < n THEN h + l ELSE h + l - n
  BY ModSum
<1> QED BY <1>1, <1>2, <1>3, <1>4, <1>5

\* Different distances lead to different positions.
LEMMA ModApart ==
  ASSUME NEW n \in Nat \ {0}, NEW h \in 0 .. n - 1, NEW i \in 0 .. n - 1, NEW j \in 0 .. n - 1, i # j
  PROVE  (h + i) % n # (h + j) % n
<1>0. i \in 0 .. n /\ j \in 0 .. n
  OBVIOUS
<1>1. (h + i) % n = IF h + i < n THEN h + i ELSE h + i - n
  BY <1>0, ModSum
<1>2. (h + j) % n = IF h + j < n THEN h + j ELSE h + j - n
  BY <1>0, ModSum
<1> QED BY <1>0, <1>1, <1>2

\* One place back from h.
LEMMA ModBack ==
  ASSUME NEW n \in Nat \ {0}, NEW h \in 0 .. n - 1
  PROVE  /\ (h - 1 + n) % n \in 0 .. n - 1
         /\ (h - 1 + n) % n = (h + (n - 1)) % n
         /\ \A i \in 0 .. n - 1 : (((h - 1 + n) % n) + (i + 1)) % n = (h + i) % n
<1>1. PICK k \in 0 .. n : k = n - 1
  OBVIOUS
<1>2. h - 1 + n = h + k
  BY <1>1
<1>3. PICK b \in 0 .. n - 1 : b = (h + k) % n /\ b = IF h + k < n THEN h + k ELSE h + k - n
  BY ModSum
<1>4. ASSUME NEW i \in 0 .. n - 1 PROVE (b + (i + 1)) % n = (h + i) % n
  <2>1. PICK j \in 0 .. n : j = i + 1
    OBVIOUS
  <2>2. (b + j) % n = IF b + j < n THEN b + j ELSE b + j - n
    BY ModSum
  <2>3. i \in 0 .. n
    OBVIOUS
  <2>4. (h + i) % n = IF h + i < n THEN h + i ELSE h + i - n
    BY <2>3, ModSum
  <2> QED BY <1>1, <1>3, <2>1, <2>2, <2>4
<1> QED BY <1>1, <1>2, <1>3, <1>4

-----------------------------------------------------------------------------
(* The queue                                                               *)

Ring == INSTANCE CycleQueue

\* The queues of capacity n over S.
Rings(n, S) ==
  {q \in [data : [0 .. n - 1 -> S], head : 0 .. n - 1, tail : 0 .. n - 1, size : 0 .. n] :
     q.tail = (q.head + q.size) % n}

\* The items of a ring, the first at its head.
LEMMA RingItems ==
  ASSUME NEW n \in Nat \ {0}, NEW S, NEW q \in Rings(n, S)
  PROVE  /\ Ring!Capacity(q) = n
         /\ Ring!Items(q) \in Seq(S)
         /\ Len(Ring!Items(q)) = q.size
         /\ \A i \in 0 .. q.size - 1 : Ring!Items(q)[i + 1] = q.data[(q.head + i) % n]
<1>1. /\ q.data \in [0 .. n - 1 -> S] /\ q.head \in 0 .. n - 1
      /\ q.tail \in 0 .. n - 1 /\ q.size \in 0 .. n
  BY DEF Rings
<1>2. Ring!Capacity(q) = n
  <2>1. DOMAIN q.data = 0 .. n - 1
    BY <1>1
  <2>2. PICK m \in Int : m = n - 1
    OBVIOUS
  <2>3. Cardinality(0 .. m) = IF 0 > m THEN 0 ELSE m - 0 + 1
    BY FS_Interval
  <2>4. Cardinality(0 .. m) = n
    BY <2>2, <2>3
  <2>5. DOMAIN q.data = 0 .. m
    BY <2>1, <2>2
  <2> QED BY <2>4, <2>5 DEF Ring!Capacity, Ring!Cardinality, Cardinality, IsFiniteSet, Ring!IsFiniteSet
<1>3. \A i \in 1 .. q.size : (q.head + i - 1) % n \in 0 .. n - 1
  <2> SUFFICES ASSUME NEW i \in 1 .. q.size PROVE (q.head + i - 1) % n \in 0 .. n - 1
    OBVIOUS
  <2>1. PICK j \in 0 .. n : j = i - 1
    BY <1>1
  <2>2. q.head + i - 1 = q.head + j
    BY <1>1, <2>1
  <2> QED BY <1>1, <2>2, ModSum
<1>4. Ring!Items(q) = [i \in 1 .. q.size |-> q.data[(q.head + i - 1) % n]]
  BY <1>2 DEF Ring!Items
<1>5. Ring!Items(q) \in [1 .. q.size -> S]
  BY <1>1, <1>3, <1>4
<1>6. Ring!Items(q) \in Seq(S) /\ Len(Ring!Items(q)) = q.size
  BY <1>1, <1>5
<1>7. ASSUME NEW i \in 0 .. q.size - 1
      PROVE  Ring!Items(q)[i + 1] = q.data[(q.head + i) % n]
  <2>1. i + 1 \in 1 .. q.size /\ q.head + (i + 1) - 1 = q.head + i
    BY <1>1
  <2> QED BY <1>4, <2>1
<1> QED BY <1>2, <1>6, <1>7

\* Two sequences with the same elements, counted from 0.
LEMMA SameItems ==
  ASSUME NEW S, NEW s \in Seq(S), NEW t \in Seq(S), NEW l \in Nat, Len(s) = l, Len(t) = l,
         \A i \in 0 .. l - 1 : s[i + 1] = t[i + 1]
  PROVE  s = t
<1>1. ASSUME NEW i \in 1 .. Len(s) PROVE s[i] = t[i]
  <2>1. i - 1 \in 0 .. l - 1 /\ (i - 1) + 1 = i
    OBVIOUS
  <2> QED BY <2>1
<1> QED BY <1>1, SeqEqual

\* A full queue drops the item, any other has it at its end.
LEMMA RingPush ==
  ASSUME NEW n \in Nat \ {0}, NEW S, NEW q \in Rings(n, S), NEW x \in S
  PROVE  /\ Ring!Push(q, x) \in Rings(n, S)
         /\ q.size = n => Ring!Push(q, x) = q
         /\ q.size < n => /\ Ring!Push(q, x).size = q.size + 1
                          /\ Ring!Items(Ring!Push(q, x)) = Append(Ring!Items(q), x)
<1>1. /\ q.data \in [0 .. n - 1 -> S] /\ q.head \in 0 .. n - 1
      /\ q.tail \in 0 .. n - 1 /\ q.size \in 0 .. n /\ q.tail = (q.head + q.size) % n
      /\ q \in [data : [0 .. n - 1 -> S], head : 0 .. n - 1, tail : 0 .. n - 1, size : 0 .. n]
  BY DEF Rings
<1>2. Ring!Capacity(q) = n
  BY RingItems
<1>3. CASE q.size = n
  BY <1>2, <1>3, <1>1 DEF Ring!Push, Ring!Full
<1>4. CASE q.size < n
  <2> DEFINE p == Ring!Push(q, x)
  <2>1. p = [q EXCEPT !.data[q.tail] = x, !.tail = (q.tail + 1) % n, !.size = q.size + 1]
    BY <1>2, <1>4 DEF Ring!Push, Ring!Full
  <2>2. (q.tail + 1) % n \in 0 .. n - 1
    <3>1. 1 \in 0 .. n
      OBVIOUS
    <3> QED BY <1>1, <3>1, ModSum
  <2>3. /\ p.data = [q.data EXCEPT ![q.tail] = x] /\ p.head = q.head
        /\ p.tail = (q.tail + 1) % n /\ p.size = q.size + 1
    BY <1>1, <2>1
  <2>4. p \in [data : [0 .. n - 1 -> S], head : 0 .. n - 1, tail : 0 .. n - 1, size : 0 .. n]
    <3>1. [q.data EXCEPT ![q.tail] = x] \in [0 .. n - 1 -> S]
      BY <1>1
    <3>2. q.size + 1 \in 0 .. n
      BY <1>1, <1>4
    <3> QED BY <1>1, <2>1, <2>2, <3>1, <3>2
  <2> HIDE DEF p
  <2>5. p.tail = (p.head + p.size) % n
    <3>1. (((q.head + q.size) % n) + 1) % n = (q.head + (q.size + 1)) % n
      BY <1>1, <1>4, ModNext
    <3> QED BY <1>1, <2>3, <3>1
  <2>6. p \in Rings(n, S)
    BY <2>4, <2>5 DEF Rings
  <2>7. /\ Ring!Items(p) \in Seq(S) /\ Len(Ring!Items(p)) = q.size + 1
        /\ \A i \in 0 .. q.size : Ring!Items(p)[i + 1] = p.data[(q.head + i) % n]
    <3>1. /\ Ring!Items(p) \in Seq(S) /\ Len(Ring!Items(p)) = p.size
          /\ \A i \in 0 .. p.size - 1 : Ring!Items(p)[i + 1] = p.data[(p.head + i) % n]
      BY <2>6, RingItems
    <3>2. 0 .. p.size - 1 = 0 .. q.size
      BY <1>1, <2>3
    <3> QED BY <2>3, <3>1, <3>2
  <2>8. /\ Ring!Items(q) \in Seq(S) /\ Len(Ring!Items(q)) = q.size
        /\ \A i \in 0 .. q.size - 1 : Ring!Items(q)[i + 1] = q.data[(q.head + i) % n]
    BY RingItems
  <2>9. /\ Append(Ring!Items(q), x) \in Seq(S)
        /\ Len(Append(Ring!Items(q), x)) = q.size + 1
        /\ \A i \in 1 .. q.size : Append(Ring!Items(q), x)[i] = Ring!Items(q)[i]
        /\ Append(Ring!Items(q), x)[q.size + 1] = x
    BY <2>8, AppendProperties
  <2>10. ASSUME NEW i \in 0 .. q.size - 1
         PROVE  Ring!Items(p)[i + 1] = Append(Ring!Items(q), x)[i + 1]
    <3>1. i \in 0 .. n - 1 /\ q.size \in 0 .. n - 1 /\ i # q.size /\ i + 1 \in 1 .. q.size /\ i \in 0 .. q.size /\ i \in 0 .. n
      BY <1>1, <1>4
    <3>2. (q.head + i) % n # q.tail
      BY <1>1, <3>1, ModApart
    <3>3. (q.head + i) % n \in 0 .. n - 1
      BY <1>1, <3>1, ModSum
    <3>4. p.data[(q.head + i) % n] = q.data[(q.head + i) % n]
      BY <2>3, <3>2, <3>3, <1>1
    <3> QED BY <2>7, <2>8, <2>9, <3>1, <3>4
  <2>11. Ring!Items(p)[q.size + 1] = x
    <3>1. p.data[q.tail] = x
      BY <1>1, <2>3
    <3>2. q.size \in 0 .. q.size
      BY <1>1
    <3> QED BY <1>1, <2>7, <3>1, <3>2
  <2>12. ASSUME NEW i \in 0 .. q.size
         PROVE  Ring!Items(p)[i + 1] = Append(Ring!Items(q), x)[i + 1]
    <3>1. i = q.size \/ i \in 0 .. q.size - 1
      BY <1>1
    <3>2. CASE i = q.size
      BY <3>2, <2>9, <2>11
    <3>3. CASE i \in 0 .. q.size - 1
      BY <3>3, <2>10
    <3> QED BY <3>1, <3>2, <3>3
  <2>13. Ring!Items(p) = Append(Ring!Items(q), x)
    <3>1. PICK l \in Nat : l = q.size + 1
      BY <1>1
    <3>2. \A i \in 0 .. l - 1 : Ring!Items(p)[i + 1] = Append(Ring!Items(q), x)[i + 1]
      <4>1. 0 .. l - 1 = 0 .. q.size
        BY <1>1, <3>1
      <4> QED BY <4>1, <2>12
    <3> QED BY <2>7, <2>9, <3>1, <3>2, SameItems
  <2> QED BY <1>4, <2>3, <2>6, <2>13 DEF p
<1> QED BY <1>1, <1>3, <1>4

\* A full queue drops the item, any other has it at its front.
LEMMA RingPushFront ==
  ASSUME NEW n \in Nat \ {0}, NEW S, NEW q \in Rings(n, S), NEW x \in S
  PROVE  /\ Ring!PushFront(q, x) \in Rings(n, S)
         /\ q.size = n => Ring!PushFront(q, x) = q
         /\ q.size < n => /\ Ring!PushFront(q, x).size = q.size + 1
                          /\ Ring!Items(Ring!PushFront(q, x)) = <<x>> \o Ring!Items(q)
<1>1. /\ q.data \in [0 .. n - 1 -> S] /\ q.head \in 0 .. n - 1
      /\ q.tail \in 0 .. n - 1 /\ q.size \in 0 .. n /\ q.tail = (q.head + q.size) % n
      /\ q \in [data : [0 .. n - 1 -> S], head : 0 .. n - 1, tail : 0 .. n - 1, size : 0 .. n]
  BY DEF Rings
<1>2. Ring!Capacity(q) = n
  BY RingItems
<1>3. CASE q.size = n
  BY <1>2, <1>3, <1>1 DEF Ring!PushFront, Ring!Full
<1>4. CASE q.size < n
  <2> DEFINE p == Ring!PushFront(q, x)
             h == (q.head - 1 + n) % n
  <2>1. p = [q EXCEPT !.data[h] = x, !.head = h, !.size = q.size + 1]
    BY <1>2, <1>4 DEF Ring!PushFront, Ring!Full
  <2>2. h \in 0 .. n - 1 /\ \A i \in 0 .. n - 1 : (h + (i + 1)) % n = (q.head + i) % n
    BY <1>1, ModBack
  <2> HIDE DEF h
  <2>3. /\ p.data = [q.data EXCEPT ![h] = x] /\ p.head = h
        /\ p.tail = q.tail /\ p.size = q.size + 1
    BY <1>1, <2>1
  <2>4. p \in [data : [0 .. n - 1 -> S], head : 0 .. n - 1, tail : 0 .. n - 1, size : 0 .. n]
    <3>1. [q.data EXCEPT ![h] = x] \in [0 .. n - 1 -> S]
      BY <1>1
    <3>2. q.size + 1 \in 0 .. n
      BY <1>1, <1>4
    <3> QED BY <1>1, <2>1, <2>2, <3>1, <3>2
  <2> HIDE DEF p
  <2>5. p.tail = (p.head + p.size) % n
    <3>1. q.size \in 0 .. n - 1
      BY <1>1, <1>4
    <3> QED BY <1>1, <2>2, <2>3, <3>1
  <2>6. p \in Rings(n, S)
    BY <2>4, <2>5 DEF Rings
  <2>7. /\ Ring!Items(p) \in Seq(S) /\ Len(Ring!Items(p)) = q.size + 1
        /\ \A i \in 0 .. q.size : Ring!Items(p)[i + 1] = p.data[(h + i) % n]
    <3>1. /\ Ring!Items(p) \in Seq(S) /\ Len(Ring!Items(p)) = p.size
          /\ \A i \in 0 .. p.size - 1 : Ring!Items(p)[i + 1] = p.data[(p.head + i) % n]
      BY <2>6, RingItems
    <3>2. 0 .. p.size - 1 = 0 .. q.size
      BY <1>1, <2>3
    <3> QED BY <2>3, <3>1, <3>2
  <2>8. /\ Ring!Items(q) \in Seq(S) /\ Len(Ring!Items(q)) = q.size
        /\ \A i \in 0 .. q.size - 1 : Ring!Items(q)[i + 1] = q.data[(q.head + i) % n]
    BY RingItems
  <2>9. <<x>> \in Seq(S) /\ Len(<<x>>) = 1 /\ <<x>>[1] = x
    OBVIOUS
  <2>10. /\ <<x>> \o Ring!Items(q) \in Seq(S)
         /\ Len(<<x>> \o Ring!Items(q)) = 1 + q.size
         /\ \A i \in 1 .. 1 + q.size : (<<x>> \o Ring!Items(q))[i] =
              IF i <= 1 THEN <<x>>[i] ELSE Ring!Items(q)[i - 1]
    BY <2>8, <2>9, ConcatProperties
  <2>11. ASSUME NEW i \in 1 .. q.size
         PROVE  Ring!Items(p)[i + 1] = (<<x>> \o Ring!Items(q))[i + 1]
    <3>1. PICK j \in 0 .. q.size - 1 : j + 1 = i /\ j \in 0 .. n - 1
      <4>1. i - 1 \in 0 .. q.size - 1 /\ i - 1 \in 0 .. n - 1 /\ (i - 1) + 1 = i
        BY <1>1
      <4> QED BY <4>1
    <3>2. (<<x>> \o Ring!Items(q))[i + 1] = Ring!Items(q)[i]
      <4>1. i + 1 \in 1 .. 1 + q.size /\ ~ (i + 1 <= 1) /\ (i + 1) - 1 = i
        BY <1>1
      <4> QED BY <2>10, <4>1
    <3>3. Ring!Items(q)[i] = q.data[(q.head + j) % n]
      BY <2>8, <3>1
    <3>4. (h + i) % n = (q.head + j) % n
      BY <2>2, <3>1
    <3>5. i \in 0 .. n - 1 /\ i # 0 /\ 0 \in 0 .. n - 1 /\ i \in 0 .. n /\ 0 \in 0 .. n /\ i \in 0 .. q.size
      BY <1>1, <1>4
    <3>6. (h + 0) % n = h
      <4>1. PICK z \in 0 .. n : z = 0
        OBVIOUS
      <4>2. (h + z) % n = IF h + z < n THEN h + z ELSE h + z - n
        BY <2>2, ModSum
      <4> QED BY <4>1, <4>2, <2>2
    <3>7. (h + i) % n # (h + 0) % n
      BY <2>2, <3>5, ModApart
    <3>8. (h + i) % n \in 0 .. n - 1
      BY <2>2, <3>5, ModSum
    <3>9. p.data[(h + i) % n] = q.data[(h + i) % n]
      BY <2>3, <3>6, <3>7, <3>8, <1>1
    <3> QED BY <2>7, <3>2, <3>3, <3>4, <3>5, <3>9
  <2>12. Ring!Items(p)[0 + 1] = (<<x>> \o Ring!Items(q))[0 + 1]
    <3>1. 0 \in 0 .. n /\ 0 \in 0 .. q.size /\ 1 \in 1 .. 1 + q.size /\ h + 0 < n /\ h + 0 = h /\ 1 = 0 + 1
      BY <1>1, <2>2
    <3>2. (h + 0) % n = h
      BY <2>2, <3>1, ModSum
    <3>3. p.data[h] = x
      BY <1>1, <2>2, <2>3
    <3> QED BY <2>7, <2>9, <2>10, <3>1, <3>2, <3>3
  <2>13. Ring!Items(p) = <<x>> \o Ring!Items(q)
    <3>1. PICK l \in Nat : l = q.size + 1
      BY <1>1
    <3>2. ASSUME NEW i \in 0 .. l - 1
          PROVE  Ring!Items(p)[i + 1] = (<<x>> \o Ring!Items(q))[i + 1]
      <4>1. i = 0 \/ i \in 1 .. q.size
        BY <1>1, <3>1
      <4>2. CASE i = 0
        BY <4>2, <2>12
      <4>3. CASE i \in 1 .. q.size
        BY <4>3, <2>11
      <4> QED BY <4>1, <4>2, <4>3
    <3>3. 1 + q.size = l
      BY <1>1, <3>1
    <3>4. Ring!Items(p) \in Seq(S) /\ Len(Ring!Items(p)) = l
      BY <2>7, <3>1
    <3>5. <<x>> \o Ring!Items(q) \in Seq(S) /\ Len(<<x>> \o Ring!Items(q)) = l
      BY <2>10, <3>3
    <3>6. PICK t \in Seq(S) : t = <<x>> \o Ring!Items(q)
      BY <3>5
    <3>7. Len(t) = l /\ \A i \in 0 .. l - 1 : Ring!Items(p)[i + 1] = t[i + 1]
      BY <3>2, <3>5, <3>6
    <3>8. Ring!Items(p) = t
      BY <3>4, <3>7, SameItems
    <3> QED BY <3>6, <3>8, Zenon
  <2> QED BY <1>4, <2>3, <2>6, <2>13 DEF p
<1> QED BY <1>1, <1>3, <1>4

\* What k pops leave.
LEMMA RingPop ==
  ASSUME NEW n \in Nat \ {0}, NEW S, NEW q \in Rings(n, S), NEW k \in 0 .. q.size
  PROVE  /\ Ring!Pop(q, k) \in Rings(n, S)
         /\ Ring!Pop(q, k).size = q.size - k
         /\ Ring!Items(Ring!Pop(q, k)) = SubSeq(Ring!Items(q), k + 1, q.size)
<1>1. /\ q.data \in [0 .. n - 1 -> S] /\ q.head \in 0 .. n - 1
      /\ q.tail \in 0 .. n - 1 /\ q.size \in 0 .. n /\ q.tail = (q.head + q.size) % n
      /\ q \in [data : [0 .. n - 1 -> S], head : 0 .. n - 1, tail : 0 .. n - 1, size : 0 .. n]
  BY DEF Rings
<1>2. Ring!Capacity(q) = n
  BY RingItems
<1> DEFINE p == Ring!Pop(q, k)
           h == (q.head + k) % n
<1>3. p = [q EXCEPT !.head = h, !.size = q.size - k]
  BY <1>2 DEF Ring!Pop
<1>4. k \in 0 .. n /\ q.size - k \in 0 .. n /\ q.size - k \in Nat
  BY <1>1
<1>5. h \in 0 .. n - 1
  BY <1>1, <1>4, ModSum
<1>6. \A i \in 0 .. q.size - k : (h + i) % n = (q.head + (k + i)) % n
  <2> SUFFICES ASSUME NEW i \in 0 .. q.size - k PROVE (h + i) % n = (q.head + (k + i)) % n
    OBVIOUS
  <2>1. i \in 0 .. n /\ k + i <= n
    BY <1>1, <1>4
  <2> QED BY <1>1, <1>4, <2>1, ModNext
<1> HIDE DEF h
<1>7. p.data = q.data /\ p.head = h /\ p.tail = q.tail /\ p.size = q.size - k
  BY <1>1, <1>3
<1>8. p \in [data : [0 .. n - 1 -> S], head : 0 .. n - 1, tail : 0 .. n - 1, size : 0 .. n]
  BY <1>1, <1>3, <1>4, <1>5
<1> HIDE DEF p
<1>9. p.tail = (p.head + p.size) % n
  <2>1. q.size - k \in 0 .. q.size - k /\ k + (q.size - k) = q.size
    BY <1>1, <1>4
  <2> QED BY <1>1, <1>6, <1>7, <2>1
<1>10. p \in Rings(n, S)
  BY <1>8, <1>9 DEF Rings
<1>11. /\ Ring!Items(p) \in Seq(S) /\ Len(Ring!Items(p)) = p.size
       /\ \A i \in 0 .. p.size - 1 : Ring!Items(p)[i + 1] = p.data[(p.head + i) % n]
  BY <1>10, RingItems
<1>12. /\ Ring!Items(q) \in Seq(S) /\ Len(Ring!Items(q)) = q.size
       /\ \A i \in 0 .. q.size - 1 : Ring!Items(q)[i + 1] = q.data[(q.head + i) % n]
  BY RingItems
<1> DEFINE rest == SubSeq(Ring!Items(q), k + 1, q.size)
<1>13. /\ rest \in Seq(S)
       /\ Len(rest) = IF k + 1 <= q.size THEN q.size - (k + 1) + 1 ELSE 0
       /\ \A i \in 1 .. q.size - (k + 1) + 1 : rest[i] = Ring!Items(q)[(k + 1) + i - 1]
  <2>1. \A i \in k + 1 .. q.size : Ring!Items(q)[i] \in S
    BY <1>1, <1>12, ElementOfSeq
  <2>2. k + 1 \in Int /\ q.size \in Int
    BY <1>1
  <2> QED BY <2>1, <2>2, SubSeqProperties
<1> HIDE DEF rest
<1>14. Len(rest) = q.size - k
  BY <1>1, <1>13
<1>15. ASSUME NEW i \in 0 .. (q.size - k) - 1 PROVE Ring!Items(p)[i + 1] = rest[i + 1]
  <2>1. /\ i + 1 \in 1 .. q.size - (k + 1) + 1 /\ (k + 1) + (i + 1) - 1 = (k + i) + 1
        /\ k + i \in 0 .. q.size - 1 /\ i \in 0 .. q.size - k
    BY <1>1, SMTT(30)
  <2>2. rest[i + 1] = Ring!Items(q)[(k + i) + 1]
    BY <2>1, <1>13
  <2>3. rest[i + 1] = q.data[(q.head + (k + i)) % n]
    BY <2>1, <2>2, <1>12
  <2>4. (h + i) % n = (q.head + (k + i)) % n
    BY <1>6, <2>1
  <2> QED BY <1>7, <1>11, <2>3, <2>4
<1>16. Ring!Items(p) = rest
  <2>1. PICK l \in Nat : l = q.size - k
    BY <1>4
  <2>2. \A i \in 0 .. l - 1 : Ring!Items(p)[i + 1] = rest[i + 1]
    BY <1>15, <2>1
  <2>3. Ring!Items(p) \in Seq(S) /\ Len(Ring!Items(p)) = l
    BY <1>7, <1>11, <2>1
  <2>4. rest \in Seq(S) /\ Len(rest) = l
    BY <1>13, <1>14, <2>1
  <2> QED BY <2>2, <2>3, <2>4, SameItems
<1> QED BY <1>7, <1>10, <1>16 DEF p, rest

\* An empty queue stays as it is, any other loses its last item.
LEMMA RingPopBack ==
  ASSUME NEW n \in Nat \ {0}, NEW S, NEW q \in Rings(n, S)
  PROVE  /\ Ring!PopBack(q) \in Rings(n, S)
         /\ q.size = 0 => Ring!PopBack(q) = q
         /\ q.size > 0 => /\ Ring!PopBack(q).size = q.size - 1
                          /\ Ring!Items(Ring!PopBack(q)) = SubSeq(Ring!Items(q), 1, q.size - 1)
<1>1. /\ q.data \in [0 .. n - 1 -> S] /\ q.head \in 0 .. n - 1
      /\ q.tail \in 0 .. n - 1 /\ q.size \in 0 .. n /\ q.tail = (q.head + q.size) % n
      /\ q \in [data : [0 .. n - 1 -> S], head : 0 .. n - 1, tail : 0 .. n - 1, size : 0 .. n]
  BY DEF Rings
<1>2. Ring!Capacity(q) = n
  BY RingItems
<1>3. CASE q.size = 0
  BY <1>3 DEF Ring!PopBack
<1>4. CASE q.size > 0
  <2> DEFINE p == Ring!PopBack(q)
             b == (q.tail - 1 + n) % n
  <2>1. p = [q EXCEPT !.tail = b, !.size = q.size - 1]
    BY <1>2, <1>4 DEF Ring!PopBack
  <2>2. q.size - 1 \in 0 .. n /\ q.size - 1 \in Nat
    BY <1>1, <1>4
  <2>3. b \in 0 .. n - 1 /\ b = (q.head + (q.size - 1)) % n
    <3>1. PICK t \in 0 .. n - 1 : t = q.tail
      BY <1>1
    <3>2. PICK k \in 0 .. n : k = q.size - 1
      BY <2>2
    <3>3. PICK h \in 0 .. n - 1 : h = q.head
      BY <1>1
    <3>4. k + 1 \in 0 .. n /\ q.size = k + 1
      BY <1>1, <3>2
    <3>5. t = IF h + (k + 1) < n THEN h + (k + 1) ELSE h + (k + 1) - n
      BY <1>1, <3>1, <3>3, <3>4, ModSum
    <3>6. (h + k) % n = IF h + k < n THEN h + k ELSE h + k - n
      BY ModSum
    <3>7. PICK a \in 0 .. 2 * n - 1 : a = t - 1 + n
      OBVIOUS
    <3>8. a % n = IF a < n THEN a ELSE a - n
      BY ModOnce
    <3>9. a % n \in 0 .. n - 1 /\ a % n = (h + k) % n
      BY <3>4, <3>5, <3>6, <3>7, <3>8
    <3>10. b = a % n
      BY <3>1, <3>7
    <3> QED BY <3>2, <3>3, <3>9, <3>10
  <2> HIDE DEF b
  <2>4. p.data = q.data /\ p.head = q.head /\ p.tail = b /\ p.size = q.size - 1
    BY <1>1, <2>1
  <2>5. p \in [data : [0 .. n - 1 -> S], head : 0 .. n - 1, tail : 0 .. n - 1, size : 0 .. n]
    BY <1>1, <2>1, <2>2, <2>3
  <2> HIDE DEF p
  <2>6. p \in Rings(n, S)
    BY <2>3, <2>4, <2>5 DEF Rings
  <2>7. /\ Ring!Items(p) \in Seq(S) /\ Len(Ring!Items(p)) = p.size
        /\ \A i \in 0 .. p.size - 1 : Ring!Items(p)[i + 1] = p.data[(p.head + i) % n]
    BY <2>6, RingItems
  <2>8. /\ Ring!Items(q) \in Seq(S) /\ Len(Ring!Items(q)) = q.size
        /\ \A i \in 0 .. q.size - 1 : Ring!Items(q)[i + 1] = q.data[(q.head + i) % n]
    BY RingItems
  <2> DEFINE rest == SubSeq(Ring!Items(q), 1, q.size - 1)
  <2>9. PICK l \in Nat : l = q.size - 1
    BY <2>2
  <2>10. /\ rest \in Seq(S) /\ Len(rest) = l
         /\ \A i \in 1 .. l : rest[i] = Ring!Items(q)[i]
    <3>1. PICK s \in Seq(S) : s = Ring!Items(q)
      BY <2>8
    <3>2. l \in 0 .. Len(s)
      BY <1>1, <2>8, <2>9, <3>1
    <3>3. /\ SubSeq(s, 1, l) \in Seq(S) /\ Len(SubSeq(s, 1, l)) = l
          /\ \A i \in 1 .. l : SubSeq(s, 1, l)[i] = s[i]
      BY <3>2
    <3> QED BY <2>9, <3>1, <3>3
  <2> HIDE DEF rest
  <2>11. ASSUME NEW i \in 0 .. l - 1 PROVE Ring!Items(p)[i + 1] = rest[i + 1]
    <3>1. i + 1 \in 1 .. l /\ i \in 0 .. q.size - 1 /\ i \in 0 .. p.size - 1
      BY <1>1, <2>4, <2>9
    <3> QED BY <2>4, <2>7, <2>8, <2>10, <3>1
  <2>12. Ring!Items(p) = rest
    BY <2>4, <2>7, <2>9, <2>10, <2>11, SameItems
  <2> QED BY <1>4, <2>4, <2>6, <2>12 DEF p, rest
<1> QED BY <1>1, <1>3, <1>4
=============================================================================
