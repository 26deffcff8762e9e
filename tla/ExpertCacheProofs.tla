-------------------------- MODULE ExpertCacheProofs --------------------------
(* The arena allocator and the expert cache for any sizes, experts, callers *)
(* and streams.                                                             *)
EXTENDS ExpertCache, Inductions

-----------------------------------------------------------------------------
(* The inductive invariant.                                                *)

\* A run has bytes; runs are apart when they are in order and do not touch.
Run == Nat \X (Nat \ {0})
End(run) == run[1] + run[2]
Ordered(runs) == \A i, j \in DOMAIN runs : i < j => End(runs[i]) <= runs[j][1]
Apart(runs)   == \A i, j \in DOMAIN runs : i < j => End(runs[i]) < runs[j][1]

RegionOK(r, size, base) ==
    /\ r.free \in Seq(Run) /\ Apart(r.free)
    /\ \A o \in DOMAIN r.allocated : o \in Nat /\ r.allocated[o] \in Nat \ {0}
    /\ Partition(r, size, base)

Holding == {"load", "copy", "sync", "undo", "clear", "close"}
Owning  == {"copy", "sync", "undo"}
Events  == [stream : Streams, left : Nat]
Entry   == [offset : Nat, users : Nat, events : SUBSET Events]
Call    == [at : Holding \cup {"idle", "body"}, key : Keys \cup {Nobody}, stream : Streams \cup {Nobody},
            offset : Nat, left : Nat]

CallsFit ==
    /\ call \in [Callers -> Call]
    /\ \A c \in Callers :
          /\ call[c].at = "idle" => call[c] = Idle
          /\ call[c].at \in {"load", "body"} \cup Owning => call[c].key \in Keys /\ call[c].stream \in Streams
          /\ call[c].at \in Holding <=> lock = c
          /\ call[c].at \in {"load"} \cup Owning => call[c].key \notin DOMAIN entry
          /\ call[c].at \in {"clear", "close"} => \A k \in DOMAIN entry : entry[k].users = 0

EntriesFit ==
    /\ entries \in Seq(Keys) /\ IsInjective(entries) /\ ToSet(entries) = DOMAIN entry
    /\ entry \in [DOMAIN entry -> Entry]

\* The range of a key is allocated at an offset, and is as long as its record.
Owns(k, offset) ==
    offset \in DOMAIN regions[LayerOf[k]].allocated /\ regions[LayerOf[k]].allocated[offset] = SizeOf[k]
Owned(l, offset) ==
    \/ \E k \in DOMAIN entry : LayerOf[k] = l /\ entry[k].offset = offset
    \/ \E c \in Callers : call[c].at \in Owning /\ LayerOf[call[c].key] = l /\ call[c].offset = offset

RegionsFit ==
    /\ DOMAIN regions = Layers
    /\ \A l \in Layers : /\ RegionOK(regions[l], Quota[l], BaseOf(l))
                         /\ \A o \in DOMAIN regions[l].allocated : Owned(l, o)
    /\ \A k \in DOMAIN entry : Owns(k, entry[k].offset)
    /\ \A j, k \in DOMAIN entry : j # k /\ LayerOf[j] = LayerOf[k] => entry[j].offset # entry[k].offset
    /\ \A c \in Callers : call[c].at \in Owning =>
          /\ Owns(call[c].key, call[c].offset)
          /\ \A k \in DOMAIN entry : LayerOf[k] = LayerOf[call[c].key] => entry[k].offset # call[c].offset

BytesFit ==
    /\ DOMAIN arena = Arena
    /\ \A k \in DOMAIN entry : \A b \in RangeOf(k) : arena[b] = k
    /\ \A c \in Callers : call[c].at = "sync" =>
          \A b \in Bytes(call[c].offset, SizeOf[call[c].key]) : arena[b] = call[c].key

\* A kernel's expert is leased on its stream, or has an event behind the kernel there.
Guarded(k, s, i) ==
    \/ \E c \in Callers : call[c].at = "body" /\ call[c].key = k /\ call[c].stream = s
    \/ \E e \in entry[k].events : e.stream = s /\ e.left >= i

WorkFits ==
    /\ work \in [Streams -> Seq(Keys)]
    /\ \A s \in Streams : \A i \in DOMAIN work[s] : work[s][i] \in DOMAIN entry /\ Guarded(work[s][i], s, i)

ResidentExact == resident = SumOf([i \in DOMAIN entries |-> SizeOf[entries[i]]])

CacheInv == CallsFit /\ EntriesFit /\ RegionsFit /\ BytesFit /\ WorkFits /\ UsersExact /\ ResidentExact

-----------------------------------------------------------------------------
(* The two folds: of sums and of the merge.                                *)

\* h has the partial sums of s.
Sums(h, s) ==
    /\ h \in [0..Len(s) -> Nat] /\ h[0] = 0
    /\ \A i \in 1..Len(s) : i - 1 \in 0..Len(s) /\ h[i] = h[i - 1] + s[i]

LEMMA SumRun ==
    ASSUME NEW s \in Seq(Nat)
    PROVE  \E h : Sums(h, s) /\ SumOf(s) = h[Len(s)]
<1> DEFINE n == Len(s)
           V == Nat
           Op(acc, x) == acc + x
           G == [i \in 1..n |-> [v \in V |-> Op(v, s[i])]]
           base == 0
           iter == CHOOSE f : f = [t \in SUBSET (DOMAIN s) |->
                                     IF t = {} THEN base ELSE Op(f[t \ {Max(t)}], s[Max(t)])]
<1>1. n \in Nat /\ DOMAIN s = 1..n /\ base \in V /\ \A i \in 1..n : s[i] \in Nat
  BY LenProperties, ElementOfSeq
<1>2. \A v \in V, i \in 1..n : Op(v, s[i]) \in V
  BY <1>1
<1>3. SumOf(s) = iter[DOMAIN s]
  BY DEF SumOf, FoldLeft, MapThenFoldSet
<1> HIDE DEF n, Op, base, V
<1>4. G \in [1..n -> [V -> V]] /\ \A v \in V, i \in 1..n : G[i][v] = Op(v, s[i])
  BY <1>2
<1> HIDE DEF G
<1>5. PICK f : Unfolds(f, V, base, n, G)
  BY <1>1, <1>4, FoldSolution
<1>6. ASSUME NEW t \in SUBSET (1..n), t # {} PROVE f[t] = Op(f[t \ {Max(t)}], s[Max(t)])
  <2>1. Max(t) \in 1..n /\ f[t \ {Max(t)}] \in V
    BY <1>1, <1>5, <1>6, MaxIn DEF Unfolds
  <2>2. QED
    BY <1>4, <1>5, <1>6, <2>1 DEF Unfolds
<1>7. f = [t \in SUBSET (1..n) |-> IF t = {} THEN base ELSE Op(f[t \ {Max(t)}], s[Max(t)])]
  BY <1>5, <1>6 DEF Unfolds
<1>8. iter = [t \in SUBSET (1..n) |-> IF t = {} THEN base ELSE Op(iter[t \ {Max(t)}], s[Max(t)])]
  BY <1>1, <1>7
<1> HIDE DEF iter
<1>9. iter[{}] = base /\ \A i \in 1..n : iter[1..i] = Op(iter[1..(i - 1)], s[i])
  <2>1. iter[{}] = base
    BY <1>8
  <2>2. ASSUME NEW i \in 1..n PROVE iter[1..i] = Op(iter[1..(i - 1)], s[i])
    <3>1. 1..i \in SUBSET (1..n) /\ 1..i # {} /\ Max(1..i) = i /\ (1..i) \ {Max(1..i)} = 1..(i - 1)
      BY <1>1, UpTo
    <3>2. QED
      BY <1>8, <3>1
  <2>3. QED
    BY <2>1, <2>2
<1>10. PICK h : RunsThrough(h, V, base, n, G) /\ h[n] = iter[1..n]
  <2>1. Iterates(iter, V, base, n, G)
    BY <1>4, <1>9 DEF Iterates
  <2>2. QED
    BY <1>1, <1>4, <2>1, FoldRun
<1>11. \A i \in 1..n : i - 1 \in 0..n /\ h[i - 1] \in V /\ h[i] = Op(h[i - 1], s[i])
  BY <1>1, <1>4, <1>10, UpTo DEF RunsThrough
<1>12. h \in [0..n -> V] /\ h[0] = base /\ SumOf(s) = h[n]
  BY <1>1, <1>3, <1>10 DEF RunsThrough
<1>13. Sums(h, s)
  BY <1>11, <1>12 DEF n, Op, base, V, Sums
<1>14. QED
  BY <1>12, <1>13 DEF n

\* h has the lists that the merge of runs goes through.
Merges(h, runs) ==
    /\ h \in [0..Len(runs) -> Seq(Run)] /\ h[0] = <<>>
    /\ \A i \in 1..Len(runs) : i - 1 \in 0..Len(runs) /\ h[i] = Joined(h[i - 1], runs[i])

LEMMA JoinedRun ==
    ASSUME NEW merged \in Seq(Run), NEW run \in Run
    PROVE  Joined(merged, run) \in Seq(Run)
<1>1. CASE merged # <<>> /\ Last(merged)[1] + Last(merged)[2] = run[1]
  <2>1. Len(merged) \in Nat /\ Len(merged) > 0 /\ Last(merged) \in Run
    BY <1>1, LenProperties, ElementOfSeq, EmptySeq DEF Last
  <2>2. Front(merged) \in Seq(Run)
    <3>1. \A i \in 1..(Len(merged) - 1) : merged[i] \in Run
      BY <2>1, ElementOfSeq
    <3>2. QED
      BY <2>1, <3>1, SubSeqProperties DEF Front
  <2>3. <<Last(merged)[1], Last(merged)[2] + run[2]>> \in Run
    BY <2>1 DEF Run
  <2>4. QED
    BY <1>1, <2>2, <2>3, AppendProperties DEF Joined
<1>2. CASE ~(merged # <<>> /\ Last(merged)[1] + Last(merged)[2] = run[1])
  BY <1>2, AppendProperties DEF Joined
<1>3. QED
  BY <1>1, <1>2

LEMMA MergeRun ==
    ASSUME NEW s \in Seq(Run)
    PROVE  \E h : Merges(h, s) /\ Merge(s) = h[Len(s)]
<1> DEFINE n == Len(s)
           V == Seq(Run)
           Op(acc, x) == Joined(acc, x)
           G == [i \in 1..n |-> [v \in V |-> Op(v, s[i])]]
           base == <<>>
           iter == CHOOSE f : f = [t \in SUBSET (DOMAIN s) |->
                                     IF t = {} THEN base ELSE Op(f[t \ {Max(t)}], s[Max(t)])]
<1>1. n \in Nat /\ DOMAIN s = 1..n /\ base \in V /\ \A i \in 1..n : s[i] \in Run
  BY LenProperties, ElementOfSeq
<1>2. \A v \in V, i \in 1..n : Op(v, s[i]) \in V
  BY <1>1, JoinedRun
<1>3. Merge(s) = iter[DOMAIN s]
  BY DEF Merge, FoldLeft, MapThenFoldSet
<1> HIDE DEF n, Op, base, V
<1>4. G \in [1..n -> [V -> V]] /\ \A v \in V, i \in 1..n : G[i][v] = Op(v, s[i])
  BY <1>2
<1> HIDE DEF G
<1>5. PICK f : Unfolds(f, V, base, n, G)
  BY <1>1, <1>4, FoldSolution
<1>6. ASSUME NEW t \in SUBSET (1..n), t # {} PROVE f[t] = Op(f[t \ {Max(t)}], s[Max(t)])
  <2>1. Max(t) \in 1..n /\ f[t \ {Max(t)}] \in V
    BY <1>1, <1>5, <1>6, MaxIn DEF Unfolds
  <2>2. QED
    BY <1>4, <1>5, <1>6, <2>1 DEF Unfolds
<1>7. f = [t \in SUBSET (1..n) |-> IF t = {} THEN base ELSE Op(f[t \ {Max(t)}], s[Max(t)])]
  BY <1>5, <1>6 DEF Unfolds
<1>8. iter = [t \in SUBSET (1..n) |-> IF t = {} THEN base ELSE Op(iter[t \ {Max(t)}], s[Max(t)])]
  BY <1>1, <1>7
<1> HIDE DEF iter
<1>9. iter[{}] = base /\ \A i \in 1..n : iter[1..i] = Op(iter[1..(i - 1)], s[i])
  <2>1. iter[{}] = base
    BY <1>8
  <2>2. ASSUME NEW i \in 1..n PROVE iter[1..i] = Op(iter[1..(i - 1)], s[i])
    <3>1. 1..i \in SUBSET (1..n) /\ 1..i # {} /\ Max(1..i) = i /\ (1..i) \ {Max(1..i)} = 1..(i - 1)
      BY <1>1, UpTo
    <3>2. QED
      BY <1>8, <3>1
  <2>3. QED
    BY <2>1, <2>2
<1>10. PICK h : RunsThrough(h, V, base, n, G) /\ h[n] = iter[1..n]
  <2>1. Iterates(iter, V, base, n, G)
    BY <1>4, <1>9 DEF Iterates
  <2>2. QED
    BY <1>1, <1>4, <2>1, FoldRun
<1>11. \A i \in 1..n : i - 1 \in 0..n /\ h[i - 1] \in V /\ h[i] = Op(h[i - 1], s[i])
  BY <1>1, <1>4, <1>10, UpTo DEF RunsThrough
<1>12. h \in [0..n -> V] /\ h[0] = base /\ Merge(s) = h[n]
  BY <1>1, <1>3, <1>10 DEF RunsThrough
<1>13. Merges(h, s)
  BY <1>11, <1>12 DEF n, Op, base, V, Merges
<1>14. QED
  BY <1>12, <1>13 DEF n

-----------------------------------------------------------------------------
(* Sequences with an element less or one more, and their sums.             *)

LEMMA FunctionIsSeq ==
    ASSUME NEW S, NEW n \in Nat, NEW f \in [1..n -> S]
    PROVE  f \in Seq(S) /\ Len(f) = n
OBVIOUS

LEMMA SliceElement ==
    ASSUME NEW S, NEW s \in Seq(S), NEW m \in 1..(Len(s) + 1), NEW n \in 0..Len(s), m <= n + 1
    PROVE  /\ SubSeq(s, m, n) \in Seq(S) /\ Len(SubSeq(s, m, n)) = n + 1 - m
           /\ \A i \in 1..(n + 1 - m) : SubSeq(s, m, n)[i] = s[m + i - 1]
<1>1. Len(s) \in Nat /\ m \in Int /\ n \in Int
  BY LenProperties
<1>2. \A i \in m..n : s[i] \in S
  <2>1. \A i \in m..n : i \in 1..Len(s)
    BY <1>1
  <2>2. QED
    BY <2>1, ElementOfSeq
<1>3. /\ SubSeq(s, m, n) \in Seq(S) /\ Len(SubSeq(s, m, n)) = IF m <= n THEN n - m + 1 ELSE 0
      /\ \A i \in 1..(n - m + 1) : SubSeq(s, m, n)[i] = s[m + i - 1]
  BY <1>1, <1>2, SubSeqProperties
<1>4. n + 1 - m = n - m + 1 /\ (~(m <= n) => n - m + 1 = 0)
  BY <1>1
<1>5. QED
  BY <1>3, <1>4

LEMMA RemoveElement ==
    ASSUME NEW S, NEW s \in Seq(S), NEW p \in 1..Len(s)
    PROVE  /\ RemoveAt(s, p) \in Seq(S) /\ Len(RemoveAt(s, p)) = Len(s) - 1 /\ Len(s) \in Nat
           /\ \A i \in 1..(Len(s) - 1) : RemoveAt(s, p)[i] = IF i < p THEN s[i] ELSE s[i + 1]
<1>1. Len(s) \in Nat /\ p \in 1..(Len(s) + 1) /\ p - 1 \in 0..Len(s) /\ 1 <= p - 1 + 1
      /\ p + 1 \in 1..(Len(s) + 1) /\ Len(s) \in 0..Len(s) /\ p + 1 <= Len(s) + 1 /\ 1 \in 1..(Len(s) + 1)
  BY LenProperties
<1> DEFINE a == SubSeq(s, 1, p - 1)
           b == SubSeq(s, p + 1, Len(s))
<1>2. a \in Seq(S) /\ Len(a) = p - 1 /\ \A i \in 1..(p - 1) : a[i] = s[i]
  <2>1. a \in Seq(S) /\ Len(a) = p - 1 + 1 - 1 /\ \A i \in 1..(p - 1 + 1 - 1) : a[i] = s[1 + i - 1]
    BY <1>1, SliceElement
  <2>2. QED
    BY <1>1, <2>1
<1>3. b \in Seq(S) /\ Len(b) = Len(s) - p /\ \A i \in 1..(Len(s) - p) : b[i] = s[p + i]
  <2>1. /\ b \in Seq(S) /\ Len(b) = Len(s) + 1 - (p + 1)
        /\ \A i \in 1..(Len(s) + 1 - (p + 1)) : b[i] = s[(p + 1) + i - 1]
    BY <1>1, SliceElement
  <2>2. QED
    BY <1>1, <2>1
<1> HIDE DEF a, b
<1>4. /\ a \o b \in Seq(S) /\ Len(a \o b) = Len(a) + Len(b)
      /\ \A i \in 1..(Len(a) + Len(b)) : (a \o b)[i] = IF i <= Len(a) THEN a[i] ELSE b[i - Len(a)]
  BY <1>2, <1>3, ConcatProperties
<1>5. Len(a) + Len(b) = Len(s) - 1
  BY <1>1, <1>2, <1>3
<1>6. ASSUME NEW i \in 1..(Len(s) - 1) PROVE (a \o b)[i] = IF i < p THEN s[i] ELSE s[i + 1]
  <2>1. CASE i < p
    BY <1>1, <1>2, <1>4, <1>5, <2>1
  <2>2. CASE ~(i < p)
    <3>1. i - Len(a) \in 1..(Len(s) - p) /\ p + (i - Len(a)) = i + 1 /\ ~(i <= Len(a))
      BY <1>1, <1>2, <2>2
    <3>2. (a \o b)[i] = b[i - Len(a)]
      BY <1>4, <1>5, <3>1
    <3>3. QED
      BY <1>3, <2>2, <3>1, <3>2
  <2>3. QED
    BY <2>1, <2>2
<1>7. RemoveAt(s, p) = a \o b
  BY DEF RemoveAt, a, b
<1>8. QED
  BY <1>1, <1>4, <1>5, <1>6, <1>7

LEMMA InsertElement ==
    ASSUME NEW S, NEW s \in Seq(S), NEW p \in 1..(Len(s) + 1), NEW x \in S
    PROVE  /\ InsertAt(s, p, x) \in Seq(S) /\ Len(InsertAt(s, p, x)) = Len(s) + 1 /\ Len(s) \in Nat
           /\ \A i \in 1..(Len(s) + 1) :
                 InsertAt(s, p, x)[i] = IF i < p THEN s[i] ELSE IF i = p THEN x ELSE s[i - 1]
<1>1. Len(s) \in Nat /\ p - 1 \in 0..Len(s) /\ 1 <= p - 1 + 1 /\ Len(s) \in 0..Len(s) /\ p <= Len(s) + 1
      /\ 1 \in 1..(Len(s) + 1)
  BY LenProperties
<1> DEFINE a == SubSeq(s, 1, p - 1)
           b == SubSeq(s, p, Len(s))
           w == a \o <<x>>
<1>2. a \in Seq(S) /\ Len(a) = p - 1 /\ \A i \in 1..(p - 1) : a[i] = s[i]
  <2>1. a \in Seq(S) /\ Len(a) = p - 1 + 1 - 1 /\ \A i \in 1..(p - 1 + 1 - 1) : a[i] = s[1 + i - 1]
    BY <1>1, SliceElement
  <2>2. QED
    BY <1>1, <2>1
<1>3. b \in Seq(S) /\ Len(b) = Len(s) + 1 - p /\ \A i \in 1..(Len(s) + 1 - p) : b[i] = s[p + i - 1]
  BY <1>1, SliceElement
<1> HIDE DEF a, b
<1>4. w \in Seq(S) /\ Len(w) = p /\ w[p] = x /\ \A i \in 1..(p - 1) : w[i] = s[i]
  <2>1. w = Append(a, x)
    BY <1>2, AppendIsConcat
  <2>2. QED
    BY <1>1, <1>2, <2>1, AppendProperties
<1> HIDE DEF w
<1>5. /\ w \o b \in Seq(S) /\ Len(w \o b) = Len(w) + Len(b)
      /\ \A i \in 1..(Len(w) + Len(b)) : (w \o b)[i] = IF i <= Len(w) THEN w[i] ELSE b[i - Len(w)]
  BY <1>3, <1>4, ConcatProperties
<1>6. Len(w) + Len(b) = Len(s) + 1
  BY <1>1, <1>3, <1>4
<1>7. ASSUME NEW i \in 1..(Len(s) + 1)
      PROVE  (w \o b)[i] = IF i < p THEN s[i] ELSE IF i = p THEN x ELSE s[i - 1]
  <2>1. CASE i < p
    BY <1>1, <1>4, <1>5, <1>6, <2>1
  <2>2. CASE i = p
    BY <1>1, <1>4, <1>5, <1>6, <2>2
  <2>3. CASE i > p
    <3>1. i - Len(w) \in 1..(Len(s) + 1 - p) /\ p + (i - Len(w)) - 1 = i - 1 /\ ~(i <= Len(w))
      BY <1>1, <1>4, <2>3
    <3>2. (w \o b)[i] = b[i - Len(w)]
      BY <1>5, <1>6, <3>1
    <3>3. QED
      BY <1>1, <1>3, <2>3, <3>1, <3>2, SMTT(30)
  <2>4. i < p \/ i = p \/ i > p
    BY <1>1
  <2>5. QED
    BY <2>1, <2>2, <2>3, <2>4
<1>8. InsertAt(s, p, x) = w \o b
  BY DEF InsertAt, a, b, w
<1>9. QED
  BY <1>1, <1>5, <1>6, <1>7, <1>8

LEMMA SumsAgree ==
    ASSUME NEW s \in Seq(Nat), NEW t \in Seq(Nat), NEW h, NEW g, Sums(h, s), Sums(g, t),
           NEW n \in Nat, n <= Len(s), n <= Len(t), \A i \in 1..n : s[i] = t[i]
    PROVE  \A i \in 0..n : g[i] = h[i]
<1> DEFINE T == {i \in 0..n : g[i] = h[i]}
<1>1. 0 \in T
  BY DEF Sums
<1>2. ASSUME NEW i \in 1..n, i - 1 \in T PROVE i \in T
  <2>1. i \in 1..Len(s) /\ i \in 1..Len(t) /\ i \in 0..n
    BY LenProperties
  <2>2. QED
    BY <1>2, <2>1 DEF Sums
<1> HIDE DEF T
<1>3. \A i \in 0..n : i \in T
  BY <1>1, <1>2, StepsInduct
<1>4. QED
  BY <1>3 DEF T

LEMMA SumAppend ==
    ASSUME NEW s \in Seq(Nat), NEW x \in Nat
    PROVE  SumOf(Append(s, x)) = SumOf(s) + x /\ SumOf(s) \in Nat
<1> DEFINE t == Append(s, x)
           n == Len(s)
<1>1. t \in Seq(Nat) /\ n \in Nat /\ Len(t) = n + 1 /\ t[n + 1] = x /\ \A i \in 1..n : s[i] = t[i]
  BY AppendProperties, LenProperties
<1>2. PICK h : Sums(h, s) /\ SumOf(s) = h[n]
  BY SumRun
<1> HIDE DEF t
<1>3. PICK g : Sums(g, t) /\ SumOf(t) = g[Len(t)]
  BY <1>1, SumRun
<1> HIDE DEF n
<1>4. g[n] = h[n]
  <2>1. \A i \in 0..n : g[i] = h[i]
    <3>1. n <= Len(s) /\ n <= Len(t)
      BY <1>1 DEF n
    <3>2. QED
      BY <1>1, <1>2, <1>3, <3>1, SumsAgree
  <2>2. QED
    BY <1>1, <2>1
<1>5. g[n + 1] = g[n] + x
  BY <1>1, <1>3 DEF Sums
<1>6. h[n] \in Nat
  BY <1>1, <1>2 DEF Sums, n
<1>7. QED
  BY <1>1, <1>2, <1>3, <1>4, <1>5, <1>6 DEF t

LEMMA SumRemove ==
    ASSUME NEW s \in Seq(Nat), NEW p \in 1..Len(s), NEW t \in Seq(Nat), Len(t) = Len(s) - 1,
           \A i \in 1..Len(t) : t[i] = IF i < p THEN s[i] ELSE s[i + 1]
    PROVE  SumOf(s) = SumOf(t) + s[p] /\ SumOf(t) \in Nat /\ s[p] \in Nat
<1>1. PICK h : Sums(h, s) /\ SumOf(s) = h[Len(s)]
  BY SumRun
<1>2. PICK g : Sums(g, t) /\ SumOf(t) = g[Len(t)]
  BY SumRun
<1>3. Len(s) \in Nat /\ Len(t) \in Nat /\ \A i \in 1..Len(s) : s[i] \in Nat
  BY LenProperties, ElementOfSeq
<1> DEFINE n == Len(t)
           T == {i \in 0..n : IF i < p THEN g[i] = h[i] ELSE h[i + 1] = g[i] + s[p]}
<1>4. 0 \in T
  BY <1>1, <1>2, <1>3 DEF Sums
<1>5. ASSUME NEW i \in 1..n, i - 1 \in T PROVE i \in T
  <2>1. g[i] = g[i - 1] + t[i] /\ i - 1 \in 0..n /\ i \in 0..n /\ g[i - 1] \in Nat /\ g[i] \in Nat
    <3>1. g[i] = g[i - 1] + t[i] /\ i - 1 \in 0..n /\ i \in 0..n
      BY <1>2, <1>3, SMTT(30) DEF Sums
    <3>2. g \in [0..n -> Nat]
      BY <1>2 DEF Sums
    <3>3. QED
      BY <3>1, <3>2
  <2>2. i \in 1..Len(s) /\ i + 1 \in 1..Len(s) /\ s[i] \in Nat /\ s[i + 1] \in Nat /\ s[p] \in Nat
    BY <1>3
  <2>3. h[i] = h[i - 1] + s[i] /\ h[i - 1] \in Nat
    BY <1>1, <1>3, <2>2 DEF Sums
  <2>4. h[i + 1] = h[i] + s[i + 1] /\ h[i] \in Nat
    <3>1. h[i + 1] = h[(i + 1) - 1] + s[i + 1] /\ i \in 0..Len(s) /\ (i + 1) - 1 = i
      BY <1>1, <1>3, <2>2 DEF Sums
    <3>2. h[i] \in Nat
      BY <1>1, <3>1 DEF Sums
    <3>3. QED
      BY <3>1, <3>2
  <2>5. CASE i < p
    BY <1>5, <2>1, <2>3, <2>5
  <2>6. CASE i >= p
    <3>1. t[i] = s[i + 1]
      BY <1>3, <2>6
    <3>2. h[i] = g[i - 1] + s[p]
      <4>1. CASE i = p
        BY <1>5, <2>3, <4>1
      <4>2. CASE i > p
        BY <1>5, <4>2
      <4>3. QED
        BY <2>6, <4>1, <4>2
    <3>3. PICK x \in Nat, y \in Nat, z \in Nat : x = g[i - 1] /\ y = s[p] /\ z = s[i + 1]
      BY <2>1, <2>2
    <3>4. h[i + 1] = (x + y) + z /\ g[i] = x + z
      BY <2>1, <2>4, <3>1, <3>2, <3>3
    <3>5. h[i + 1] = g[i] + s[p]
      <4>1. (x + y) + z = (x + z) + y
        OBVIOUS
      <4>2. QED
        BY <3>3, <3>4, <4>1
    <3>6. QED
      BY <2>1, <2>6, <3>5
  <2>7. QED
    BY <1>3, <2>5, <2>6
<1> HIDE DEF T
<1>6. \A i \in 0..n : i \in T
  BY <1>3, <1>4, <1>5, StepsInduct
<1>7. IF n < p THEN g[n] = h[n] ELSE h[n + 1] = g[n] + s[p]
  BY <1>3, <1>6 DEF T
<1>8. g[n] \in Nat /\ h[n] \in Nat /\ h[n + 1] = h[n] + s[n + 1] /\ n + 1 = Len(s)
  <2>1. n + 1 = Len(s) /\ n + 1 \in 1..Len(s) /\ (n + 1) - 1 = n
    BY <1>3
  <2>2. h[n + 1] = h[n] + s[n + 1] /\ n \in 0..Len(s)
    BY <1>1, <2>1 DEF Sums
  <2>3. g \in [0..n -> Nat] /\ h \in [0..Len(s) -> Nat]
    BY <1>1, <1>2 DEF Sums
  <2>4. n \in 0..n
    BY <1>3
  <2>5. g[n] \in Nat /\ h[n] \in Nat
    BY <2>2, <2>3, <2>4
  <2>6. QED
    BY <2>1, <2>2, <2>5
<1>9. QED
  BY <1>1, <1>2, <1>3, <1>7, <1>8

\* The regions of the layers follow each other in the arena.
LEMMA LayerBases ==
    /\ \A l \in Layers : /\ BaseOf(l) \in Nat /\ Quota[l] \in Nat \ {0} /\ l \in Nat
                         /\ BaseOf(l) + Quota[l] <= SumOf(Quota)
    /\ \A l, m \in Layers : l < m => BaseOf(l) + Quota[l] <= BaseOf(m)
    /\ SumOf(Quota) \in Nat
<1> DEFINE n == Len(Quota)
<1>1. /\ Quota \in Seq(Nat) /\ n \in Nat /\ Layers = 1..n /\ \A l \in 1..n : Quota[l] \in Nat \ {0}
  <2>1. Quota \in Seq(Nat \ {0})
    BY QuotaAssumption
  <2>2. n \in Nat /\ Layers = 1..n /\ \A l \in 1..n : Quota[l] \in Nat \ {0}
    BY <2>1, LenProperties, ElementOfSeq DEF Layers
  <2>3. Quota \in [1..n -> Nat]
    BY <2>1, <2>2, LenProperties
  <2>4. QED
    BY <2>1, <2>2
<1>2. PICK h : Sums(h, Quota) /\ SumOf(Quota) = h[n]
  BY <1>1, SumRun
<1> HIDE DEF n
<1>3. h \in [0..n -> Nat] /\ \A i \in 1..n : i - 1 \in 0..n /\ h[i] = h[i - 1] + Quota[i]
  BY <1>2 DEF Sums, n
<1>4. ASSUME NEW l \in 1..n PROVE BaseOf(l) = h[l - 1]
  <2> DEFINE f == [i \in 1..(l - 1) |-> Quota[i]]
  <2>1. l - 1 \in Nat /\ l - 1 \in 0..n /\ \A i \in 1..(l - 1) : i \in 1..n /\ Quota[i] \in Nat
    BY <1>1
  <2>2. f \in [1..(l - 1) -> Nat]
    BY <2>1
  <2>3. f \in Seq(Nat) /\ Len(f) = l - 1
    BY <2>1, <2>2, FunctionIsSeq
  <2>4. \A i \in 1..(l - 1) : Quota[i] = f[i]
    OBVIOUS
  <2>5. BaseOf(l) = SumOf(f)
    BY DEF BaseOf
  <2> HIDE DEF f
  <2>6. PICK g : Sums(g, f) /\ SumOf(f) = g[Len(f)]
    BY <2>3, SumRun
  <2>7. \A i \in 0..(l - 1) : g[i] = h[i]
    <3>1. l - 1 <= Len(Quota) /\ l - 1 <= Len(f)
      BY <2>1, <2>3 DEF n
    <3>2. Sums(h, Quota) /\ Sums(g, f) /\ Quota \in Seq(Nat) /\ f \in Seq(Nat) /\ l - 1 \in Nat
      BY <1>1, <1>2, <2>1, <2>3, <2>6
    <3>3. PICK m : m = l - 1
      OBVIOUS
    <3>4. \A i \in 0..m : g[i] = h[i]
      <4>1. /\ m \in Nat /\ m <= Len(Quota) /\ m <= Len(f) /\ \A i \in 1..m : Quota[i] = f[i]
            /\ Sums(h, Quota) /\ Sums(g, f) /\ Quota \in Seq(Nat) /\ f \in Seq(Nat)
        BY <2>4, <3>1, <3>2, <3>3
      <4>2. QED
        BY <4>1, SumsAgree
    <3>5. QED
      BY <3>3, <3>4
  <2>8. QED
    BY <2>1, <2>3, <2>5, <2>6, <2>7
<1>5. ASSUME NEW i \in 0..n PROVE \A j \in 0..n : i <= j => h[i] <= h[j]
  <2> DEFINE T == {j \in 0..n : i <= j => h[i] <= h[j]}
  <2>1. 0 \in T
    BY <1>1, <1>3
  <2>2. ASSUME NEW j \in 1..n, j - 1 \in T PROVE j \in T
    <3>1. h[j] = h[j - 1] + Quota[j] /\ h[j - 1] \in Nat /\ Quota[j] \in Nat /\ j \in 0..n /\ h[i] \in Nat
      BY <1>1, <1>3
    <3>2. CASE i <= j - 1
      BY <2>2, <3>1, <3>2
    <3>3. CASE i = j
      BY <3>1, <3>3
    <3>4. CASE i > j
      BY <3>1, <3>4
    <3>5. QED
      BY <3>2, <3>3, <3>4
  <2> HIDE DEF T
  <2>3. \A j \in 0..n : j \in T
    BY <1>1, <2>1, <2>2, StepsInduct
  <2>4. QED
    BY <2>3 DEF T
<1>6. \A l \in 1..n : l - 1 \in 0..n /\ l \in 0..n /\ BaseOf(l) = h[l - 1] /\ h[l] = BaseOf(l) + Quota[l] /\ h[l - 1] \in Nat
  BY <1>3, <1>4
<1>7. \A l \in 1..n : BaseOf(l) + Quota[l] <= SumOf(Quota)
  <2>1. n \in 0..n /\ \A l \in 1..n : l <= n
    BY <1>1
  <2>2. \A l \in 1..n : h[l] <= h[n]
    BY <1>5, <1>6, <2>1
  <2>3. QED
    BY <1>2, <1>6, <2>2
<1>8. \A l, m \in 1..n : l < m => BaseOf(l) + Quota[l] <= BaseOf(m)
  <2> SUFFICES ASSUME NEW l \in 1..n, NEW m \in 1..n, l < m PROVE BaseOf(l) + Quota[l] <= BaseOf(m)
    OBVIOUS
  <2>1. l <= m - 1
    OBVIOUS
  <2>2. h[l] <= h[m - 1]
    BY <1>5, <1>6, <2>1
  <2>3. QED
    BY <1>6, <2>2
<1>9. SumOf(Quota) \in Nat
  <2>1. n \in 0..n
    BY <1>1
  <2>2. QED
    BY <1>2, <1>3, <2>1
<1>10. ASSUME NEW l \in Layers
       PROVE  BaseOf(l) \in Nat /\ Quota[l] \in Nat \ {0} /\ l \in Nat /\ BaseOf(l) + Quota[l] <= SumOf(Quota)
  <2>1. l \in 1..n /\ l \in Nat
    BY <1>1
  <2>2. QED
    BY <1>1, <1>6, <1>7, <2>1
<1>11. QED
  BY <1>1, <1>8, <1>9, <1>10

-----------------------------------------------------------------------------
(* The allocator.                                                          *)

\* The bytes of a list of runs.
Spans(runs) == UNION {Bytes(runs[i][1], runs[i][2]) : i \in DOMAIN runs}

LEMMA SpanFacts ==
    ASSUME NEW runs \in Seq(Run)
    PROVE  /\ Len(runs) \in Nat /\ DOMAIN runs = 1..Len(runs)
           /\ \A i \in 1..Len(runs) : /\ runs[i] = <<runs[i][1], runs[i][2]>> /\ runs[i] \in Run
                                      /\ runs[i][1] \in Nat /\ runs[i][2] \in Nat \ {0} /\ End(runs[i]) \in Nat
                                      /\ runs[i][1] < End(runs[i])
           /\ \A x : x \in Spans(runs) <=>
                        x \in Nat /\ \E i \in 1..Len(runs) : runs[i][1] <= x /\ x < End(runs[i])
<1>1. Len(runs) \in Nat /\ DOMAIN runs = 1..Len(runs) /\ \A i \in 1..Len(runs) : runs[i] \in Run
  BY LenProperties, ElementOfSeq
<1>2. \A i \in 1..Len(runs) : /\ runs[i] = <<runs[i][1], runs[i][2]>>
                              /\ runs[i][1] \in Nat /\ runs[i][2] \in Nat \ {0}
  BY <1>1 DEF Run
<1>3. \A i \in 1..Len(runs) : End(runs[i]) \in Nat /\ runs[i][1] < End(runs[i])
  BY <1>2 DEF End
<1>4. ASSUME NEW i \in 1..Len(runs)
      PROVE  \A x : x \in Bytes(runs[i][1], runs[i][2]) <=> x \in Nat /\ runs[i][1] <= x /\ x < End(runs[i])
  <2>1. runs[i][1] \in Nat /\ runs[i][2] \in Nat \ {0}
    BY <1>2
  <2>2. QED
    BY <2>1 DEF Bytes, End
<1>5. ASSUME NEW x
      PROVE  x \in Spans(runs) <=> x \in Nat /\ \E i \in 1..Len(runs) : runs[i][1] <= x /\ x < End(runs[i])
  <2>1. x \in Spans(runs) <=> \E i \in 1..Len(runs) : x \in Bytes(runs[i][1], runs[i][2])
    BY <1>1 DEF Spans
  <2>2. QED
    BY <1>4, <2>1
<1>6. QED
  BY <1>1, <1>2, <1>3, <1>5

LEMMA RunBytes ==
    ASSUME NEW a \in Nat, NEW b \in Nat
    PROVE  \A x : x \in Bytes(a, b) <=> x \in Nat /\ a <= x /\ x < a + b
BY DEF Bytes

\* One step of the merge.
LEMMA JoinedFits ==
    ASSUME NEW m \in Seq(Run), NEW run \in Run, Apart(m), m # <<>> => End(m[Len(m)]) <= run[1]
    PROVE  /\ Joined(m, run) \in Seq(Run) /\ Apart(Joined(m, run)) /\ Joined(m, run) # <<>>
           /\ End(Joined(m, run)[Len(Joined(m, run))]) = End(run)
           /\ \A x : x \in Spans(Joined(m, run)) <=> x \in Spans(m) \/ (x \in Nat /\ run[1] <= x /\ x < End(run))
<1> PICK n : n = Len(m)
  OBVIOUS
<1>1. run[1] \in Nat /\ run[2] \in Nat \ {0} /\ run = <<run[1], run[2]>> /\ End(run) = run[1] + run[2]
  BY DEF Run, End
<1>2. /\ n \in Nat /\ DOMAIN m = 1..n
      /\ \A i \in 1..n : /\ m[i] \in Run /\ m[i][1] \in Nat /\ m[i][2] \in Nat \ {0} /\ End(m[i]) \in Nat
                         /\ m[i][1] < End(m[i]) /\ End(m[i]) = m[i][1] + m[i][2]
  BY SpanFacts DEF End
<1>3. CASE m # <<>> /\ Last(m)[1] + Last(m)[2] = run[1]
  <2>1. n > 0 /\ n \in 1..n /\ n - 1 \in 0..n /\ 1 \in 1..(n + 1)
    BY <1>2, <1>3, EmptySeq
  <2>2. PICK big : big = <<m[n][1], m[n][2] + run[2]>>
    OBVIOUS
  <2>3. big \in Run /\ big[1] = m[n][1] /\ End(big) = End(run)
    BY <1>1, <1>2, <1>3, <2>1, <2>2, SMTT(30) DEF Run, End, Last
  <2>4. PICK front : front = SubSeq(m, 1, n - 1)
    OBVIOUS
  <2>5. front \in Seq(Run) /\ Len(front) = n - 1 /\ \A i \in 1..(n - 1) : front[i] = m[i]
    <3>1. /\ front \in Seq(Run) /\ Len(front) = n - 1 + 1 - 1
          /\ \A i \in 1..(n - 1 + 1 - 1) : front[i] = m[1 + i - 1]
      BY <1>2, <2>1, <2>4, SliceElement
    <3>2. QED
      BY <1>2, <2>1, <3>1
  <2>6. PICK w : w = Append(front, big)
    OBVIOUS
  <2>7. w \in Seq(Run) /\ Len(w) = n /\ w[n] = big /\ w # <<>> /\ \A i \in 1..(n - 1) : w[i] = m[i]
    <3>1. Len(front) + 1 = n
      BY <1>2, <2>1, <2>5
    <3>2. /\ w \in Seq(Run) /\ Len(w) = Len(front) + 1 /\ w[Len(front) + 1] = big /\ w # <<>>
          /\ \A i \in 1..Len(front) : w[i] = front[i]
      BY <2>3, <2>5, <2>6, AppendProperties
    <3>3. QED
      BY <2>5, <3>1, <3>2
  <2>8. Joined(m, run) = w
    BY <1>3, <2>2, <2>4, <2>6 DEF Joined, Last, Front
  <2>9. Apart(w)
    <3> SUFFICES ASSUME NEW i \in 1..n, NEW j \in 1..n, i < j PROVE End(w[i]) < w[j][1]
      BY <2>7, SpanFacts DEF Apart
    <3>1. i \in 1..(n - 1) /\ (j = n \/ j \in 1..(n - 1))
      BY <1>2
    <3>2. w[i] = m[i] /\ w[j][1] = m[j][1]
      BY <2>3, <2>7, <3>1
    <3>3. QED
      BY <1>2, <3>2 DEF Apart
  <2>10. ASSUME NEW x PROVE x \in Spans(w) <=> x \in Spans(m) \/ (x \in Nat /\ run[1] <= x /\ x < End(run))
    <3>1. x \in Spans(w) <=> x \in Nat /\ \E i \in 1..n : w[i][1] <= x /\ x < End(w[i])
      BY <2>7, SpanFacts
    <3>2. x \in Spans(m) <=> x \in Nat /\ \E i \in 1..n : m[i][1] <= x /\ x < End(m[i])
      BY SpanFacts
    <3>3. \A i \in 1..n : i = n \/ i \in 1..(n - 1)
      BY <1>2
    <3>4. /\ (\E i \in 1..n : w[i][1] <= x /\ x < End(w[i])) <=>
                (\E i \in 1..(n - 1) : m[i][1] <= x /\ x < End(m[i])) \/ (m[n][1] <= x /\ x < End(run))
          /\ (\E i \in 1..n : m[i][1] <= x /\ x < End(m[i])) <=>
                (\E i \in 1..(n - 1) : m[i][1] <= x /\ x < End(m[i])) \/ (m[n][1] <= x /\ x < End(m[n]))
      <4>1. \A i \in 1..(n - 1) : i \in 1..n
        BY <1>2
      <4>2. QED
        BY <2>1, <2>3, <2>7, <3>3, <4>1
    <3>5. x \in Nat => (m[n][1] <= x /\ x < End(run) <=>
                          (m[n][1] <= x /\ x < End(m[n])) \/ (run[1] <= x /\ x < End(run)))
      <4>1. End(m[n]) = run[1] /\ m[n][1] < run[1] /\ run[1] < End(run) /\ m[n][1] \in Nat
        BY <1>1, <1>2, <1>3, <2>1 DEF Last
      <4>2. QED
        BY <1>1, <4>1
    <3>6. QED
      BY <3>1, <3>2, <3>4, <3>5
  <2>11. QED
    BY <2>3, <2>7, <2>8, <2>9, <2>10
<1>4. CASE ~(m # <<>> /\ Last(m)[1] + Last(m)[2] = run[1])
  <2>1. PICK w : w = Append(m, run)
    OBVIOUS
  <2>2. w \in Seq(Run) /\ Len(w) = n + 1 /\ w[n + 1] = run /\ w # <<>> /\ \A i \in 1..n : w[i] = m[i]
    BY <2>1, AppendProperties
  <2>3. Joined(m, run) = w
    BY <1>4, <2>1 DEF Joined
  <2>4. n > 0 => End(m[n]) < run[1]
    <3>1. n > 0 => m # <<>> /\ n \in 1..n
      BY <1>2, EmptySeq
    <3>2. n > 0 => End(m[n]) <= run[1] /\ End(m[n]) # run[1]
      BY <1>2, <1>4, <3>1 DEF Last
    <3>3. QED
      BY <1>1, <1>2, <3>1, <3>2
  <2>5. Apart(w)
    <3> SUFFICES ASSUME NEW i \in 1..(n + 1), NEW j \in 1..(n + 1), i < j PROVE End(w[i]) < w[j][1]
      BY <2>2, SpanFacts DEF Apart
    <3>1. i \in 1..n /\ w[i] = m[i] /\ n \in 1..n
      BY <1>2, <2>2
    <3>2. CASE j \in 1..n
      BY <1>2, <2>2, <3>1, <3>2 DEF Apart
    <3>3. CASE j = n + 1
      <4>1. End(m[i]) <= End(m[n])
        <5>1. CASE i = n
          BY <1>2, <3>1, <5>1
        <5>2. CASE i < n
          <6>1. End(m[i]) < m[n][1]
            BY <1>2, <3>1, <5>2 DEF Apart
          <6>2. QED
            BY <1>2, <3>1, <6>1
        <5>3. QED
          BY <3>1, <5>1, <5>2
      <4>2. n > 0 /\ w[j] = run
        BY <1>2, <2>2, <3>1, <3>3
      <4>3. QED
        BY <1>1, <1>2, <2>4, <3>1, <4>1, <4>2
    <3>4. QED
      BY <1>2, <3>2, <3>3
  <2>6. ASSUME NEW x PROVE x \in Spans(w) <=> x \in Spans(m) \/ (x \in Nat /\ run[1] <= x /\ x < End(run))
    <3>1. x \in Spans(w) <=> x \in Nat /\ \E i \in 1..(n + 1) : w[i][1] <= x /\ x < End(w[i])
      BY <2>2, SpanFacts
    <3>2. x \in Spans(m) <=> x \in Nat /\ \E i \in 1..n : m[i][1] <= x /\ x < End(m[i])
      BY SpanFacts
    <3>3. \A i \in 1..(n + 1) : i = n + 1 \/ i \in 1..n
      BY <1>2
    <3>4. n + 1 \in 1..(n + 1) /\ \A i \in 1..n : i \in 1..(n + 1)
      BY <1>2
    <3>5. QED
      BY <2>2, <3>1, <3>2, <3>3, <3>4
  <2>7. QED
    BY <2>2, <2>3, <2>5, <2>6
<1>5. QED
  BY <1>3, <1>4

\* The merge of runs in order leaves runs apart with the same bytes.
LEMMA MergeFits ==
    ASSUME NEW runs \in Seq(Run), Ordered(runs)
    PROVE  /\ Merge(runs) \in Seq(Run) /\ Apart(Merge(runs))
           /\ \A x : x \in Spans(Merge(runs)) <=> x \in Spans(runs)
<1> PICK n : n = Len(runs)
  OBVIOUS
<1>1. /\ n \in Nat /\ DOMAIN runs = 1..n
      /\ \A i \in 1..n : /\ runs[i] \in Run /\ runs[i][1] \in Nat /\ End(runs[i]) \in Nat
                         /\ runs[i][1] < End(runs[i])
  BY SpanFacts
<1>2. PICK h : Merges(h, runs) /\ Merge(runs) = h[n]
  BY MergeRun
<1>3. /\ h \in [0..n -> Seq(Run)] /\ h[0] = <<>>
      /\ \A i \in 1..n : i - 1 \in 0..n /\ i \in 0..n /\ h[i] = Joined(h[i - 1], runs[i])
  BY <1>2 DEF Merges
<1> DEFINE Upto(i, x) == x \in Nat /\ \E j \in 1..i : runs[j][1] <= x /\ x < End(runs[j])
           Joins(i) == /\ Apart(h[i])
                       /\ i = 0 => h[i] = <<>>
                       /\ i > 0 => h[i] # <<>> /\ End(h[i][Len(h[i])]) = End(runs[i])
                       /\ \A x : x \in Spans(h[i]) <=> Upto(i, x)
           T == {i \in 0..n : Joins(i)}
<1>4. Joins(0)
  <2>1. Apart(<<>>) /\ Spans(<<>>) = {}
    BY DEF Apart, Spans
  <2>2. \A x : ~Upto(0, x)
    OBVIOUS
  <2>3. QED
    BY <1>3, <2>1, <2>2
<1>5. ASSUME NEW i \in 1..n, Joins(i - 1) PROVE Joins(i)
  <2>1. /\ h[i - 1] \in Seq(Run) /\ runs[i] \in Run /\ h[i] = Joined(h[i - 1], runs[i])
        /\ i - 1 \in Nat /\ i > 0 /\ i # 0
    <3>1. i - 1 \in 0..n /\ h[i] = Joined(h[i - 1], runs[i]) /\ runs[i] \in Run
      BY <1>1, <1>3
    <3>2. h[i - 1] \in Seq(Run)
      BY <1>3, <3>1
    <3>3. i - 1 \in Nat /\ i > 0 /\ i # 0
      BY <3>1
    <3>4. QED
      BY <3>1, <3>2, <3>3
  <2>2. h[i - 1] # <<>> => End(h[i - 1][Len(h[i - 1])]) <= runs[i][1]
    <3>1. h[i - 1] # <<>> => i - 1 > 0
      BY <1>5, <2>1
    <3>2. i - 1 > 0 => i - 1 \in 1..n /\ i - 1 < i
      BY <1>1
    <3>3. i - 1 > 0 => End(runs[i - 1]) <= runs[i][1]
      BY <1>1, <3>2 DEF Ordered
    <3>4. QED
      BY <1>5, <3>1, <3>3
  <2>3. /\ h[i] \in Seq(Run) /\ Apart(h[i]) /\ h[i] # <<>> /\ End(h[i][Len(h[i])]) = End(runs[i])
        /\ \A x : x \in Spans(h[i]) <=>
                    x \in Spans(h[i - 1]) \/ (x \in Nat /\ runs[i][1] <= x /\ x < End(runs[i]))
    <3>1. Apart(h[i - 1])
      BY <1>5
    <3> HIDE DEF Joins
    <3>2. QED
      BY <2>1, <2>2, <3>1, JoinedFits
  <2>4. ASSUME NEW x PROVE x \in Spans(h[i]) <=> Upto(i, x)
    <3>1. x \in Spans(h[i]) <=> x \in Spans(h[i - 1]) \/ (x \in Nat /\ runs[i][1] <= x /\ x < End(runs[i]))
      BY <2>3
    <3>2. x \in Spans(h[i - 1]) <=> Upto(i - 1, x)
      BY <1>5
    <3>3. \A j \in 1..i : j = i \/ j \in 1..(i - 1)
      OBVIOUS
    <3>4. i \in 1..i /\ \A j \in 1..(i - 1) : j \in 1..i
      OBVIOUS
    <3>5. QED
      BY <3>1, <3>2, <3>3, <3>4
  <2>5. QED
    BY <2>1, <2>3, <2>4
<1> HIDE DEF Joins
<1>6. 0 \in T /\ \A i \in 1..n : i - 1 \in T => i \in T
  <2>1. 0 \in 0..n /\ \A i \in 1..n : i \in 0..n
    BY <1>1
  <2>2. ASSUME NEW i \in 1..n, i - 1 \in T PROVE i \in T
    <3>1. Joins(i - 1)
      BY <2>2
    <3>2. Joins(i)
      BY <1>5, <3>1
    <3>3. QED
      BY <2>1, <3>2
  <2>3. 0 \in T
    BY <1>4, <2>1
  <2>4. QED
    BY <2>2, <2>3
<1> HIDE DEF T
<1>7. n \in T
  <2>1. \A i \in 0..n : i \in T
    BY <1>1, <1>6, StepsInduct
  <2>2. QED
    BY <1>1, <2>1
<1>8. Joins(n) /\ h[n] \in Seq(Run)
  BY <1>1, <1>3, <1>7 DEF T
<1>9. \A x : x \in Spans(runs) <=> Upto(n, x)
  BY SpanFacts
<1>10. QED
  BY <1>2, <1>8, <1>9 DEF Joins

\* A set of numbers up to n has a least.
LEMMA MinIn ==
    ASSUME NEW n \in Nat
    PROVE  \A t \in SUBSET (1..n) : t # {} => \E x \in t : \A y \in t : x <= y
<1> DEFINE Has(t) == \E x \in t : \A y \in t : x <= y
           All(m) == \A t \in SUBSET (1..m) : t # {} => Has(t)
           S == {m \in Nat : All(m)}
<1>1. \A t \in SUBSET (1..0) : t = {}
  <2>1. 1..0 = {}
    OBVIOUS
  <2>2. QED
    BY <2>1
<1>2. ASSUME NEW m \in Nat, \A t \in SUBSET (1..m) : t # {} => Has(t),
             NEW t \in SUBSET (1..(m + 1)), t # {}
      PROVE  Has(t)
  <2>1. t \ {m + 1} \in SUBSET (1..m)
    OBVIOUS
  <2>2. CASE t \ {m + 1} = {}
    <3>1. m + 1 \in t /\ (\A y \in t : y = m + 1) /\ m + 1 \in Nat
      <4>1. \A y \in t : y = m + 1
        BY <2>2
      <4>2. \E y : y \in t
        BY <1>2
      <4>3. QED
        BY <4>1, <4>2
    <3>2. \A y \in t : m + 1 <= y
      BY <3>1
    <3>3. QED
      BY <3>1, <3>2
  <2>3. CASE t \ {m + 1} # {}
    <3>1. PICK x \in t \ {m + 1} : \A y \in t \ {m + 1} : x <= y
      BY <1>2, <2>1, <2>3
    <3>2. x <= m + 1 /\ x \in t
      BY <2>1
    <3>3. \A y \in t : x <= y
      BY <3>1, <3>2
    <3>4. QED
      BY <3>2, <3>3
  <2>4. QED
    BY <2>2, <2>3
<1> HIDE DEF Has
<1>3. All(0) /\ \A m \in Nat : All(m) => All(m + 1)
  BY <1>1, <1>2
<1> HIDE DEF All
<1>4. 0 \in S /\ \A m \in Nat : m \in S => m + 1 \in S
  BY <1>3
<1> HIDE DEF S
<1>5. n \in S
  BY <1>4, NatInduct
<1>6. \A t \in SUBSET (1..n) : t # {} => Has(t)
  BY <1>5 DEF S, All
<1>7. QED
  BY <1>6 DEF Has

\* A run that shares no byte with runs that are apart has a place among them.
LEMMA SortedFits ==
    ASSUME NEW runs \in Seq(Run), Apart(runs), NEW run \in Run,
           \A x \in Spans(runs) : ~(run[1] <= x /\ x < End(run))
    PROVE  /\ Sorted(runs, run) \in Seq(Run) /\ Ordered(Sorted(runs, run))
           /\ \A x : x \in Spans(Sorted(runs, run)) <=>
                        x \in Spans(runs) \/ (x \in Nat /\ run[1] <= x /\ x < End(run))
<1> PICK n : n = Len(runs)
  OBVIOUS
<1>1. /\ n \in Nat /\ DOMAIN runs = 1..n
      /\ \A i \in 1..n : /\ runs[i] \in Run /\ runs[i][1] \in Nat /\ End(runs[i]) \in Nat
                         /\ runs[i][1] < End(runs[i])
      /\ \A x : x \in Spans(runs) <=> x \in Nat /\ \E i \in 1..n : runs[i][1] <= x /\ x < End(runs[i])
  BY SpanFacts
<1>2. run[1] \in Nat /\ End(run) \in Nat /\ run[1] < End(run)
  BY DEF Run, End
<1>3. \A i \in 1..n : IF runs[i][1] < run[1] THEN End(runs[i]) <= run[1] ELSE End(run) <= runs[i][1]
  <2> SUFFICES ASSUME NEW i \in 1..n
               PROVE  IF runs[i][1] < run[1] THEN End(runs[i]) <= run[1] ELSE End(run) <= runs[i][1]
    OBVIOUS
  <2>1. runs[i][1] \in Nat /\ End(runs[i]) \in Nat /\ runs[i][1] < End(runs[i])
    BY <1>1
  <2>2. runs[i][1] \in Spans(runs)
    BY <1>1, <2>1
  <2>3. CASE runs[i][1] < run[1]
    <3> SUFFICES ASSUME End(runs[i]) > run[1] PROVE FALSE
      BY <1>2, <2>1, <2>3
    <3>1. run[1] \in Spans(runs)
      BY <1>1, <1>2, <2>3
    <3>2. QED
      BY <1>2, <3>1
  <2>4. CASE ~(runs[i][1] < run[1])
    <3>1. ~(runs[i][1] < End(run))
      BY <1>2, <2>1, <2>2, <2>4
    <3>2. QED
      BY <1>2, <2>1, <2>4, <3>1
  <2>5. QED
    BY <2>3, <2>4
<1>4. \E p \in 0..n : \A i \in 1..n : i <= p <=> runs[i][1] < run[1]
  <2> DEFINE S == {i \in 1..n : runs[i][1] < run[1]}
  <2>1. CASE S = {}
    <3>1. 0 \in 0..n /\ \A i \in 1..n : ~(i <= 0) /\ ~(runs[i][1] < run[1])
      BY <1>1, <2>1
    <3>2. QED
      BY <3>1
  <2>2. CASE S # {}
    <3>1. PICK p \in S : \A i \in S : p >= i
      <4>1. S \in SUBSET (1..n)
        OBVIOUS
      <4>2. QED
        BY <1>1, <2>2, <4>1, MaxIn
    <3>2. p \in 1..n /\ p \in 0..n /\ runs[p][1] < run[1]
      OBVIOUS
    <3>3. ASSUME NEW i \in 1..n PROVE i <= p <=> runs[i][1] < run[1]
      <4>1. CASE i < p
        <5>1. End(runs[i]) < runs[p][1]
          BY <1>1, <3>2, <4>1 DEF Apart
        <5>2. runs[i][1] < run[1]
          <6>1. runs[i][1] \in Nat /\ End(runs[i]) \in Nat /\ runs[i][1] < End(runs[i]) /\ runs[p][1] \in Nat
            BY <1>1, <3>2
          <6>2. QED
            BY <1>2, <3>2, <5>1, <6>1
        <5>3. QED
          BY <4>1, <5>2
      <4>2. CASE i = p
        BY <3>2, <4>2
      <4>3. CASE i > p
        BY <3>1, <4>3
      <4>4. i < p \/ i = p \/ i > p
        BY <3>2
      <4>5. QED
        BY <4>1, <4>2, <4>3, <4>4
    <3>4. QED
      BY <3>2, <3>3
  <2>3. QED
    BY <2>1, <2>2
<1>5. PICK p : p = Before(runs, run)
  OBVIOUS
<1>6. p \in 0..n /\ \A i \in 1..n : i <= p <=> runs[i][1] < run[1]
  BY <1>1, <1>4, <1>5 DEF Before
<1>7. PICK w : w = Sorted(runs, run)
  OBVIOUS
<1>8. PICK q : q = p + 1
  OBVIOUS
<1>9. /\ w \in Seq(Run) /\ Len(w) = n + 1
      /\ \A i \in 1..(n + 1) : w[i] = IF i < q THEN runs[i] ELSE IF i = q THEN run ELSE runs[i - 1]
  <2>1. q \in 1..(Len(runs) + 1)
    BY <1>1, <1>6, <1>8
  <2>2. w = InsertAt(runs, q, run)
    BY <1>5, <1>7, <1>8 DEF Sorted
  <2>3. runs \in Seq(Run) /\ run \in Run /\ q \in 1..(Len(runs) + 1)
    BY <2>1
  <2>4. InsertAt(runs, q, run) \in Seq(Run)
    BY <2>3, InsertElement, SMTT(30)
  <2>5. Len(InsertAt(runs, q, run)) = Len(runs) + 1
    BY <2>3, InsertElement, SMTT(30)
  <2>6. ASSUME NEW i \in 1..(Len(runs) + 1)
        PROVE  InsertAt(runs, q, run)[i] = IF i < q THEN runs[i] ELSE IF i = q THEN run ELSE runs[i - 1]
    BY <2>3, InsertElement, SMTT(30)
  <2>7. QED
    BY <1>1, <2>2, <2>4, <2>5, <2>6
<1>10. q \in 1..(n + 1) /\ DOMAIN w = 1..(n + 1)
       /\ \A i \in 1..(n + 1) : \/ i < q /\ i \in 1..n /\ w[i] = runs[i] /\ i <= p
                                \/ i = q /\ w[i] = run
                                \/ i > q /\ i - 1 \in 1..n /\ w[i] = runs[i - 1] /\ ~(i - 1 <= p)
  <2>1. q \in 1..(n + 1) /\ DOMAIN w = 1..(n + 1)
    <3>1. w \in Seq(Run) /\ Len(w) = n + 1
      BY <1>9
    <3>2. DOMAIN w = 1..Len(w)
      BY <3>1, LenProperties
    <3>3. QED
      BY <1>1, <1>6, <1>8, <3>1, <3>2
  <2>2. ASSUME NEW i \in 1..(n + 1)
        PROVE  \/ i < q /\ i \in 1..n /\ w[i] = runs[i] /\ i <= p
               \/ i = q /\ w[i] = run
               \/ i > q /\ i - 1 \in 1..n /\ w[i] = runs[i - 1] /\ ~(i - 1 <= p)
    <3>1. i < q \/ i = q \/ i > q
      BY <2>1
    <3>2. i < q => i \in 1..n /\ i <= p
      BY <1>1, <1>6, <1>8
    <3>3. i > q => i - 1 \in 1..n /\ ~(i - 1 <= p)
      BY <1>1, <1>6, <1>8
    <3>4. QED
      BY <1>9, <2>1, <3>1, <3>2, <3>3
  <2>3. QED
    BY <2>1, <2>2
<1>11. Ordered(w)
  <2> SUFFICES ASSUME NEW i \in 1..(n + 1), NEW j \in 1..(n + 1), i < j PROVE End(w[i]) <= w[j][1]
    BY <1>10 DEF Ordered
  <2>1. \A a, b \in 1..n : a < b => End(runs[a]) <= runs[b][1]
    <3> SUFFICES ASSUME NEW a \in 1..n, NEW b \in 1..n, a < b PROVE End(runs[a]) <= runs[b][1]
      OBVIOUS
    <3>1. End(runs[a]) < runs[b][1]
      BY <1>1 DEF Apart
    <3>2. End(runs[a]) \in Nat /\ runs[b][1] \in Nat
      BY <1>1
    <3>3. QED
      BY <3>1, <3>2
  <2>2. CASE j < q
    BY <1>10, <2>1, <2>2
  <2>3. CASE j = q
    BY <1>3, <1>6, <1>10, <2>3
  <2>4. CASE j > q
    <3>1. CASE i < q
      <4>1. i \in 1..n /\ j - 1 \in 1..n /\ i < j - 1 /\ w[i] = runs[i] /\ w[j] = runs[j - 1]
        BY <1>10, <2>4, <3>1
      <4>2. QED
        BY <2>1, <4>1
    <3>2. CASE i = q
      BY <1>3, <1>6, <1>10, <2>4, <3>2
    <3>3. CASE i > q
      <4>1. i - 1 \in 1..n /\ j - 1 \in 1..n /\ i - 1 < j - 1 /\ w[i] = runs[i - 1] /\ w[j] = runs[j - 1]
        BY <1>10, <2>4, <3>3
      <4>2. QED
        BY <2>1, <4>1
    <3>4. QED
      BY <1>10, <3>1, <3>2, <3>3
  <2>5. QED
    BY <1>10, <2>2, <2>3, <2>4
<1>12. ASSUME NEW x
       PROVE  x \in Spans(w) <=> x \in Spans(runs) \/ (x \in Nat /\ run[1] <= x /\ x < End(run))
  <2>1. x \in Spans(w) <=> x \in Nat /\ \E i \in 1..(n + 1) : w[i][1] <= x /\ x < End(w[i])
    BY <1>9, SpanFacts
  <2>2. \A i \in 1..(n + 1) : w[i] = run \/ \E j \in 1..n : w[i] = runs[j]
    BY <1>10
  <2>3. \A j \in 1..n : \E i \in 1..(n + 1) : w[i] = runs[j]
    <3> SUFFICES ASSUME NEW j \in 1..n PROVE \E i \in 1..(n + 1) : w[i] = runs[j]
      OBVIOUS
    <3>1. CASE j < q
      <4>1. j \in 1..(n + 1)
        BY <1>1
      <4>2. QED
        BY <1>9, <3>1, <4>1
    <3>2. CASE ~(j < q)
      <4>1. j + 1 \in 1..(n + 1) /\ j + 1 > q /\ (j + 1) - 1 = j /\ ~(j + 1 < q) /\ j + 1 # q
        BY <1>1, <1>10, <3>2
      <4>2. QED
        BY <1>9, <4>1
    <3>3. QED
      BY <3>1, <3>2
  <2>4. q \in 1..(n + 1) /\ w[q] = run
    BY <1>10
  <2>5. x \in Spans(runs) <=> x \in Nat /\ \E i \in 1..n : runs[i][1] <= x /\ x < End(runs[i])
    BY <1>1
  <2>6. ASSUME NEW i \in 1..(n + 1), w[i][1] <= x, x < End(w[i])
        PROVE  (\E j \in 1..n : runs[j][1] <= x /\ x < End(runs[j])) \/ (run[1] <= x /\ x < End(run))
    BY <2>2, <2>6
  <2>7. ASSUME NEW j \in 1..n, runs[j][1] <= x, x < End(runs[j])
        PROVE  \E i \in 1..(n + 1) : w[i][1] <= x /\ x < End(w[i])
    BY <2>3, <2>7
  <2>8. ASSUME run[1] <= x, x < End(run)
        PROVE  \E i \in 1..(n + 1) : w[i][1] <= x /\ x < End(w[i])
    BY <2>4, <2>8
  <2>9. QED
    BY <2>1, <2>5, <2>6, <2>7, <2>8
<1>13. QED
  BY <1>7, <1>9, <1>11, <1>12

\* Taking the first bytes of a run, all of them or not.
Taken(runs, i, size) == IF runs[i][2] > size
                        THEN [runs EXCEPT ![i] = <<runs[i][1] + size, runs[i][2] - size>>]
                        ELSE RemoveAt(runs, i)

LEMMA TakeFits ==
    ASSUME NEW runs \in Seq(Run), Apart(runs), NEW i \in 1..Len(runs), NEW size \in Nat \ {0}, size <= runs[i][2],
           NEW t, t = Taken(runs, i, size)
    PROVE  /\ t \in Seq(Run) /\ Apart(t)
           /\ \A x : x \in Spans(t) <=> x \in Spans(runs) /\ ~(runs[i][1] <= x /\ x < runs[i][1] + size)
<1> PICK n : n = Len(runs)
  OBVIOUS
<1>1. /\ n \in Nat /\ DOMAIN runs = 1..n /\ i \in 1..n
      /\ \A j \in 1..n : /\ runs[j] \in Run /\ runs[j][1] \in Nat /\ runs[j][2] \in Nat \ {0} /\ End(runs[j]) \in Nat
                         /\ runs[j][1] < End(runs[j]) /\ End(runs[j]) = runs[j][1] + runs[j][2]
      /\ \A x : x \in Spans(runs) <=> x \in Nat /\ \E j \in 1..n : runs[j][1] <= x /\ x < End(runs[j])
  BY SpanFacts DEF End
<1>2. ASSUME NEW x \in Nat, NEW j \in 1..n, j # i, runs[j][1] <= x, x < End(runs[j])
      PROVE  ~(runs[i][1] <= x /\ x < runs[i][1] + size)
  <2>1. /\ runs[i][1] \in Nat /\ runs[i][2] \in Nat /\ End(runs[i]) = runs[i][1] + runs[i][2]
        /\ runs[j][1] \in Nat /\ End(runs[j]) \in Nat
    BY <1>1
  <2>2. CASE i < j
    <3>1. End(runs[i]) < runs[j][1]
      BY <1>1, <2>2 DEF Apart
    <3>2. QED
      BY <1>2, <2>1, <3>1
  <2>3. CASE j < i
    <3>1. End(runs[j]) < runs[i][1]
      BY <1>1, <2>3 DEF Apart
    <3>2. QED
      BY <1>2, <2>1, <3>1
  <2>4. QED
    BY <1>1, <1>2, <2>2, <2>3
<1>3. CASE runs[i][2] > size
  <2>1. PICK rest : rest = <<runs[i][1] + size, runs[i][2] - size>>
    OBVIOUS
  <2>2. rest \in Run /\ rest[1] = runs[i][1] + size /\ End(rest) = End(runs[i]) /\ rest[1] \in Nat
    <3>1. PICK a \in Nat, b \in Nat \ {0} : a = runs[i][1] /\ b = runs[i][2]
      BY <1>1
    <3>2. b - size \in Nat \ {0} /\ a + size \in Nat /\ (a + size) + (b - size) = a + b
      <4>1. size < b
        BY <1>3, <3>1
      <4>2. QED
        BY <4>1
    <3>3. rest = <<a + size, b - size>> /\ End(runs[i]) = a + b
      BY <1>1, <2>1, <3>1
    <3>4. rest \in Run /\ rest[1] = a + size /\ rest[2] = b - size
      BY <3>2, <3>3 DEF Run
    <3>5. QED
      BY <3>1, <3>2, <3>3, <3>4 DEF End
  <2>3. t \in Seq(Run) /\ Len(t) = n /\ DOMAIN t = 1..n /\ t[i] = rest /\ \A j \in 1..n : j # i => t[j] = runs[j]
    <3>1. t = [runs EXCEPT ![i] = rest]
      BY <1>3, <2>1 DEF Taken
    <3>2. t \in [1..n -> Run] /\ t[i] = rest /\ \A j \in 1..n : j # i => t[j] = runs[j]
      BY <1>1, <2>2, <3>1
    <3>3. t \in Seq(Run) /\ Len(t) = n
      <4>1. t \in [1..n -> Run] /\ n \in Nat
        BY <1>1, <3>2
      <4>2. QED
        BY <4>1, FunctionIsSeq
    <3>4. QED
      BY <3>2, <3>3
  <2>4. Apart(t)
    <3> SUFFICES ASSUME NEW a \in 1..n, NEW b \in 1..n, a < b PROVE End(t[a]) < t[b][1]
      BY <2>3 DEF Apart
    <3>1. End(runs[a]) < runs[b][1] /\ a # b
      <4>1. a \in DOMAIN runs /\ b \in DOMAIN runs /\ a # b
        BY <1>1
      <4>2. QED
        BY <4>1 DEF Apart
    <3>2. End(t[a]) = End(runs[a])
      BY <2>2, <2>3
    <3>3. t[b][1] >= runs[b][1]
      BY <1>1, <2>2, <2>3, SMTT(30)
    <3>4. End(runs[a]) \in Nat /\ runs[b][1] \in Nat /\ t[b][1] \in Nat
      BY <1>1, <2>2, <2>3
    <3>5. QED
      BY <3>1, <3>2, <3>3, <3>4
  <2>5. ASSUME NEW x
        PROVE  x \in Spans(t) <=> x \in Spans(runs) /\ ~(runs[i][1] <= x /\ x < runs[i][1] + size)
    <3>1. x \in Spans(t) <=> x \in Nat /\ \E j \in 1..n : t[j][1] <= x /\ x < End(t[j])
      BY <2>3, SpanFacts
    <3>2. ASSUME x \in Nat
          PROVE  t[i][1] <= x /\ x < End(t[i]) <=>
                    (runs[i][1] <= x /\ x < End(runs[i])) /\ ~(runs[i][1] <= x /\ x < runs[i][1] + size)
      <4>1. runs[i][1] \in Nat /\ End(runs[i]) \in Nat /\ t[i][1] = runs[i][1] + size /\ End(t[i]) = End(runs[i])
        BY <1>1, <2>2, <2>3
      <4>2. QED
        BY <3>2, <4>1
    <3>3. ASSUME NEW j \in 1..n, j # i, x \in Nat
          PROVE  t[j][1] <= x /\ x < End(t[j]) <=>
                    (runs[j][1] <= x /\ x < End(runs[j])) /\ ~(runs[i][1] <= x /\ x < runs[i][1] + size)
      BY <1>2, <2>3, <3>3
    <3>4. x \in Nat => \A j \in 1..n : t[j][1] <= x /\ x < End(t[j]) <=>
              (runs[j][1] <= x /\ x < End(runs[j])) /\ ~(runs[i][1] <= x /\ x < runs[i][1] + size)
      BY <3>2, <3>3
    <3>5. QED
      BY <1>1, <3>1, <3>4
  <2>6. QED
    BY <2>3, <2>4, <2>5
<1>4. CASE ~(runs[i][2] > size)
  <2>1. runs[i][1] + size = End(runs[i])
    BY <1>1, <1>4
  <2>2. t \in Seq(Run) /\ Len(t) = n - 1 /\ \A j \in 1..(n - 1) : t[j] = IF j < i THEN runs[j] ELSE runs[j + 1]
    <3>1. t = RemoveAt(runs, i)
      BY <1>4 DEF Taken
    <3>2. /\ RemoveAt(runs, i) \in Seq(Run) /\ Len(RemoveAt(runs, i)) = Len(runs) - 1
          /\ \A j \in 1..(Len(runs) - 1) : RemoveAt(runs, i)[j] = IF j < i THEN runs[j] ELSE runs[j + 1]
      BY RemoveElement
    <3>3. QED
      BY <3>1, <3>2
  <2>3. n - 1 \in Nat /\ DOMAIN t = 1..(n - 1)
    <3>1. DOMAIN t = 1..Len(t)
      BY <2>2, LenProperties
    <3>2. QED
      BY <1>1, <2>2, <3>1
  <2>4. Apart(t)
    <3> SUFFICES ASSUME NEW a \in 1..(n - 1), NEW b \in 1..(n - 1), a < b PROVE End(t[a]) < t[b][1]
      BY <2>3 DEF Apart
    <3>1. a \in 1..n /\ b \in 1..n /\ a + 1 \in 1..n /\ b + 1 \in 1..n /\ a < b + 1 /\ a + 1 < b + 1
      BY <1>1
    <3>2. End(runs[a]) < runs[b][1] /\ End(runs[a]) < runs[b + 1][1] /\ End(runs[a + 1]) < runs[b + 1][1]
      BY <1>1, <3>1 DEF Apart
    <3>3. CASE b < i
      <4>1. a < i
        BY <1>1, <3>3
      <4>2. QED
        BY <2>2, <3>2, <3>3, <4>1
    <3>4. CASE ~(b < i)
      BY <2>2, <3>2, <3>4
    <3>5. QED
      BY <3>3, <3>4
  <2>5. \A j \in 1..(n - 1) : \E a \in 1..n : a # i /\ t[j] = runs[a]
    <3> SUFFICES ASSUME NEW j \in 1..(n - 1) PROVE \E a \in 1..n : a # i /\ t[j] = runs[a]
      OBVIOUS
    <3>1. CASE j < i
      <4>1. j \in 1..n /\ j # i
        BY <1>1, <3>1
      <4>2. t[j] = runs[j]
        BY <2>2, <3>1
      <4>3. QED
        BY <4>1, <4>2
    <3>2. CASE ~(j < i)
      <4>1. j + 1 \in 1..n /\ j + 1 # i
        BY <1>1, <3>2
      <4>2. t[j] = runs[j + 1]
        BY <2>2, <3>2
      <4>3. QED
        BY <4>1, <4>2
    <3>3. QED
      BY <3>1, <3>2
  <2>6. \A a \in 1..n : a # i => \E j \in 1..(n - 1) : t[j] = runs[a]
    <3> SUFFICES ASSUME NEW a \in 1..n, a # i PROVE \E j \in 1..(n - 1) : t[j] = runs[a]
      OBVIOUS
    <3>1. CASE a < i
      <4>1. a \in 1..(n - 1)
        BY <1>1, <3>1
      <4>2. t[a] = runs[a]
        BY <2>2, <3>1, <4>1
      <4>3. QED
        BY <4>1, <4>2
    <3>2. CASE a > i
      <4>1. a - 1 \in 1..(n - 1) /\ ~(a - 1 < i) /\ (a - 1) + 1 = a
        BY <1>1, <3>2
      <4>2. t[a - 1] = runs[a]
        BY <2>2, <4>1
      <4>3. QED
        BY <4>1, <4>2
    <3>3. a < i \/ a > i
      BY <1>1
    <3>4. QED
      BY <3>1, <3>2, <3>3
  <2>7. ASSUME NEW x
        PROVE  x \in Spans(t) <=> x \in Spans(runs) /\ ~(runs[i][1] <= x /\ x < runs[i][1] + size)
    <3>1. x \in Spans(t) <=> x \in Nat /\ \E j \in 1..(n - 1) : t[j][1] <= x /\ x < End(t[j])
      BY <2>2, SpanFacts
    <3>2. x \in Spans(runs) <=> x \in Nat /\ \E j \in 1..n : runs[j][1] <= x /\ x < End(runs[j])
      BY <1>1
    <3>3. ASSUME NEW j \in 1..(n - 1), x \in Nat, t[j][1] <= x, x < End(t[j])
          PROVE  /\ \E a \in 1..n : runs[a][1] <= x /\ x < End(runs[a])
                 /\ ~(runs[i][1] <= x /\ x < runs[i][1] + size)
      <4>1. PICK a \in 1..n : a # i /\ t[j] = runs[a]
        BY <2>5
      <4>2. QED
        BY <1>2, <3>3, <4>1
    <3>4. ASSUME NEW a \in 1..n, runs[a][1] <= x, x < End(runs[a]), ~(runs[i][1] <= x /\ x < runs[i][1] + size)
          PROVE  \E j \in 1..(n - 1) : t[j][1] <= x /\ x < End(t[j])
      <4>1. a # i
        BY <2>1, <3>4
      <4>2. PICK j \in 1..(n - 1) : t[j] = runs[a]
        BY <2>6, <4>1
      <4>3. QED
        BY <3>4, <4>2
    <3>5. QED
      BY <3>1, <3>2, <3>3, <3>4
  <2>8. QED
    BY <2>2, <2>4, <2>7
<1>5. QED
  BY <1>3, <1>4

\* A region, byte by byte.
IsFree(r, x) == \E i \in 1..Len(r.free) : r.free[i][1] <= x /\ x < End(r.free[i])
Holds(r, o, x) == o <= x /\ x < o + r.allocated[o]
IsHeld(r, x) == \E o \in DOMAIN r.allocated : Holds(r, o, x)
ByteByByte(r, size, base) ==
    /\ \A x \in Nat : base <= x /\ x < base + size <=> IsFree(r, x) \/ IsHeld(r, x)
    /\ \A x \in Nat : ~(IsFree(r, x) /\ IsHeld(r, x))
    /\ \A o, p \in DOMAIN r.allocated : o # p => \A x \in Nat : ~(Holds(r, o, x) /\ Holds(r, p, x))

LEMMA PartitionBytes ==
    ASSUME NEW r, NEW size \in Nat, NEW base \in Nat, r.free \in Seq(Run),
           \A o \in DOMAIN r.allocated : o \in Nat /\ r.allocated[o] \in Nat \ {0}
    PROVE  Partition(r, size, base) <=> ByteByByte(r, size, base)
<1>1. \A x : x \in FreeBytes(r) <=> x \in Nat /\ IsFree(r, x)
  <2>1. FreeBytes(r) = Spans(r.free)
    BY DEF FreeBytes, Spans
  <2>2. QED
    BY <2>1, SpanFacts DEF IsFree
<1>2. \A o \in DOMAIN r.allocated : \A x : x \in Bytes(o, r.allocated[o]) <=> x \in Nat /\ Holds(r, o, x)
  <2> SUFFICES ASSUME NEW o \in DOMAIN r.allocated
               PROVE  \A x : x \in Bytes(o, r.allocated[o]) <=> x \in Nat /\ Holds(r, o, x)
    OBVIOUS
  <2>1. o \in Nat /\ r.allocated[o] \in Nat
    OBVIOUS
  <2>2. QED
    BY <2>1, RunBytes DEF Holds
<1>3. \A x : x \in OwnedBytes(r) <=> x \in Nat /\ IsHeld(r, x)
  <2>1. \A x : x \in OwnedBytes(r) <=> \E o \in DOMAIN r.allocated : x \in Bytes(o, r.allocated[o])
    BY DEF OwnedBytes
  <2>2. QED
    BY <1>2, <2>1 DEF IsHeld
<1>4. \A x : x \in Bytes(base, size) <=> x \in Nat /\ base <= x /\ x < base + size
  BY RunBytes
<1>5. FreeBytes(r) \cup OwnedBytes(r) = Bytes(base, size) <=>
        \A x \in Nat : base <= x /\ x < base + size <=> IsFree(r, x) \/ IsHeld(r, x)
  BY <1>1, <1>3, <1>4
<1>6. FreeBytes(r) \cap OwnedBytes(r) = {} <=> \A x \in Nat : ~(IsFree(r, x) /\ IsHeld(r, x))
  BY <1>1, <1>3
<1>7. ASSUME NEW o \in DOMAIN r.allocated, NEW p \in DOMAIN r.allocated
      PROVE  Bytes(o, r.allocated[o]) \cap Bytes(p, r.allocated[p]) = {} <=>
                \A x \in Nat : ~(Holds(r, o, x) /\ Holds(r, p, x))
  BY <1>2
<1>8. QED
  BY <1>5, <1>6, <1>7 DEF Partition, ByteByByte

\* A multiple of the alignment is not rounded.
LEMMA AlignedExact ==
    ASSUME NEW b \in Nat, b % Align = 0
    PROVE  Aligned(b) = b
<1>1. PICK q \in Nat : b = q * Align
  <2>1. Align \in Nat \ {0}
    BY AlignAssumption
  <2>2. b = Align * (b \div Align) + (b % Align) /\ b \div Align \in Nat
    BY <2>1, SMT
  <2>3. b = (b \div Align) * Align
    BY <2>1, <2>2, SMT
  <2>4. QED
    BY <2>2, <2>3
<1>2. ((q * Align) + (Align - 1)) \div Align = q
  <2>1. Align \in Nat \ {0}
    BY AlignAssumption
  <2>2. QED
    BY <2>1, SMT
<1>3. b + Align - 1 = (q * Align) + (Align - 1)
  BY <1>1, AlignAssumption, SMT
<1>4. QED
  BY <1>1, <1>2, <1>3 DEF Aligned

\* What changes of a region when an allocation takes bytes of the free runs.
LEMMA AllocateFits ==
    ASSUME NEW r, NEW size \in Nat, NEW base \in Nat, RegionOK(r, size, base),
           NEW b \in Nat \ {0}, Aligned(b) = b, CanAllocate(r, b)
    PROVE  /\ RegionOK(Allocate(r, b), size, base)
           /\ AllocatedAt(r, b) \in Nat /\ AllocatedAt(r, b) \notin DOMAIN r.allocated
           /\ DOMAIN Allocate(r, b).allocated = DOMAIN r.allocated \cup {AllocatedAt(r, b)}
           /\ Allocate(r, b).allocated[AllocatedAt(r, b)] = b
           /\ \A p \in DOMAIN r.allocated : Allocate(r, b).allocated[p] = r.allocated[p]
<1> PICK o : o = AllocatedAt(r, b)
  OBVIOUS
<1> PICK w : w = Allocate(r, b)
  OBVIOUS
<1>1. /\ r.free \in Seq(Run) /\ Apart(r.free) /\ \A p \in DOMAIN r.allocated : p \in Nat /\ r.allocated[p] \in Nat \ {0}
      /\ ByteByByte(r, size, base)
  BY PartitionBytes DEF RegionOK
<1>2. /\ Len(r.free) \in Nat /\ DOMAIN r.free = 1..Len(r.free)
      /\ \A j \in 1..Len(r.free) : r.free[j][1] \in Nat /\ r.free[j][2] \in Nat /\ End(r.free[j]) = r.free[j][1] + r.free[j][2]
  BY <1>1, SpanFacts DEF End
<1>3. PICK i : i = FirstFit(r, b)
  OBVIOUS
<1>4. i \in 1..Len(r.free) /\ b <= r.free[i][2]
  <2>1. Fits(r, b) \in SUBSET (1..Len(r.free)) /\ Fits(r, b) # {}
    BY <1>2 DEF CanAllocate, Fits
  <2>2. i \in Fits(r, b)
    BY <1>2, <1>3, <2>1, MinIn DEF FirstFit
  <2>3. i \in 1..Len(r.free) /\ r.free[i][2] >= b
    BY <1>2, <2>2 DEF Fits
  <2>4. QED
    BY <1>2, <2>3
<1>5. PICK t : t = Taken(r.free, i, b)
  OBVIOUS
<1>6. PICK al : al = [p \in DOMAIN r.allocated \cup {o} |-> IF p = o THEN b ELSE r.allocated[p]]
  OBVIOUS
<1>7. o = r.free[i][1] /\ w = [free |-> t, allocated |-> al] /\ w.free = t /\ w.allocated = al
  <2>1. o = r.free[i][1]
    BY <1>3 DEF AllocatedAt
  <2>2. w = [free |-> t, allocated |-> al]
    BY <1>3, <1>5, <1>6, <2>1 DEF Allocate, Taken
  <2>3. QED
    BY <2>1, <2>2
<1>8. /\ t \in Seq(Run) /\ Apart(t)
      /\ \A x : x \in Spans(t) <=> x \in Spans(r.free) /\ ~(o <= x /\ x < o + b)
  <2>1. /\ t \in Seq(Run) /\ Apart(t)
        /\ \A x : x \in Spans(t) <=> x \in Spans(r.free) /\ ~(r.free[i][1] <= x /\ x < r.free[i][1] + b)
    BY <1>1, <1>4, <1>5, TakeFits
  <2>2. QED
    BY <1>7, <2>1
<1>9. o \in Nat /\ \A x \in Nat : o <= x /\ x < o + b => IsFree(r, x)
  <2>1. o \in Nat /\ o + b <= End(r.free[i]) /\ End(r.free[i]) \in Nat
    BY <1>2, <1>4, <1>7, SMTT(30)
  <2>2. \A x \in Nat : o <= x /\ x < o + b => r.free[i][1] <= x /\ x < End(r.free[i])
    BY <1>7, <2>1
  <2>3. QED
    BY <1>4, <2>1, <2>2, <1>2 DEF IsFree
<1>10. o \notin DOMAIN r.allocated
  <2> SUFFICES ASSUME o \in DOMAIN r.allocated PROVE FALSE
    OBVIOUS
  <2>1. Holds(r, o, o) /\ IsFree(r, o)
    <3>1. r.allocated[o] \in Nat \ {0} /\ o \in Nat /\ o <= o /\ o < o + b
      BY <1>1, <1>9
    <3>2. o < o + r.allocated[o]
      BY <3>1
    <3>3. QED
      BY <1>9, <3>1, <3>2 DEF Holds
  <2>2. QED
    BY <1>1, <1>9, <2>1 DEF ByteByByte, IsHeld
<1>11. DOMAIN al = DOMAIN r.allocated \cup {o} /\ al[o] = b /\ \A p \in DOMAIN r.allocated : al[p] = r.allocated[p]
  BY <1>6, <1>10
<1>12. \A x \in Nat : IsFree(w, x) <=> IsFree(r, x) /\ ~(o <= x /\ x < o + b)
  <2>1. \A x \in Nat : (IsFree(w, x) <=> x \in Spans(t)) /\ (IsFree(r, x) <=> x \in Spans(r.free))
    <3>1. DOMAIN t = 1..Len(t)
      BY <1>8, SpanFacts
    <3>2. QED
      BY <1>1, <1>7, <1>8, <3>1, SpanFacts DEF IsFree
  <2>2. QED
    BY <1>8, <2>1
<1>13. /\ \A x : Holds(w, o, x) <=> o <= x /\ x < o + b
       /\ \A p \in DOMAIN r.allocated : \A x : Holds(w, p, x) <=> Holds(r, p, x)
  BY <1>7, <1>11 DEF Holds
<1>14. \A x : IsHeld(w, x) <=> IsHeld(r, x) \/ (o <= x /\ x < o + b)
  BY <1>7, <1>11, <1>13 DEF IsHeld
<1>15. ByteByByte(w, size, base)
  <2>1. ASSUME NEW x \in Nat
        PROVE  /\ base <= x /\ x < base + size <=> IsFree(w, x) \/ IsHeld(w, x)
               /\ ~(IsFree(w, x) /\ IsHeld(w, x))
    <3>1. /\ base <= x /\ x < base + size <=> IsFree(r, x) \/ IsHeld(r, x)
          /\ ~(IsFree(r, x) /\ IsHeld(r, x))
      BY <1>1 DEF ByteByByte
    <3>2. QED
      BY <1>9, <1>12, <1>14, <3>1
  <2>2. ASSUME NEW p \in DOMAIN r.allocated, NEW x \in Nat PROVE ~(Holds(w, o, x) /\ Holds(w, p, x))
    <3>1. Holds(w, o, x) => IsFree(r, x)
      BY <1>9, <1>13
    <3>2. Holds(w, p, x) => IsHeld(r, x)
      BY <1>13 DEF IsHeld
    <3>3. QED
      BY <1>1, <3>1, <3>2 DEF ByteByByte
  <2>3. ASSUME NEW p \in DOMAIN r.allocated, NEW q \in DOMAIN r.allocated, p # q, NEW x \in Nat
        PROVE  ~(Holds(w, p, x) /\ Holds(w, q, x))
    BY <1>1, <1>13, <2>3 DEF ByteByByte
  <2>4. \A p, q \in DOMAIN w.allocated : p # q => \A x \in Nat : ~(Holds(w, p, x) /\ Holds(w, q, x))
    BY <1>7, <1>11, <2>2, <2>3
  <2>5. QED
    BY <2>1, <2>4 DEF ByteByByte
<1>16. \A p \in DOMAIN w.allocated : p \in Nat /\ w.allocated[p] \in Nat \ {0}
  BY <1>1, <1>7, <1>9, <1>11
<1>17. RegionOK(w, size, base)
  <2>1. w.free \in Seq(Run) /\ Apart(w.free)
    BY <1>7, <1>8
  <2>2. Partition(w, size, base)
    BY <1>15, <1>16, <2>1, PartitionBytes
  <2>3. QED
    BY <1>16, <2>1, <2>2 DEF RegionOK
<1>18. QED
  BY <1>7, <1>9, <1>10, <1>11, <1>17

LEMMA ReleaseFits ==
    ASSUME NEW r, NEW size \in Nat, NEW base \in Nat, RegionOK(r, size, base),
           NEW o \in DOMAIN r.allocated
    PROVE  /\ RegionOK(Release(r, o), size, base) /\ DOMAIN Release(r, o).allocated = DOMAIN r.allocated \ {o}
           /\ \A p \in DOMAIN r.allocated \ {o} : Release(r, o).allocated[p] = r.allocated[p]
<1> PICK w : w = Release(r, o)
  OBVIOUS
<1>1. /\ r.free \in Seq(Run) /\ Apart(r.free) /\ \A p \in DOMAIN r.allocated : p \in Nat /\ r.allocated[p] \in Nat \ {0}
      /\ ByteByByte(r, size, base)
  BY PartitionBytes DEF RegionOK
<1>2. PICK run : run = <<o, r.allocated[o]>>
  OBVIOUS
<1>3. run \in Run /\ run[1] = o /\ End(run) = o + r.allocated[o] /\ o \in Nat
  BY <1>1, <1>2 DEF Run, End
<1>4. \A x \in Nat : IsFree(r, x) <=> x \in Spans(r.free)
  <2>1. DOMAIN r.free = 1..Len(r.free)
    BY <1>1, SpanFacts
  <2>2. QED
    BY <1>1, <2>1, SpanFacts DEF IsFree
<1>5. \A x \in Spans(r.free) : ~(run[1] <= x /\ x < End(run))
  <2> SUFFICES ASSUME NEW x \in Spans(r.free), run[1] <= x, x < End(run) PROVE FALSE
    OBVIOUS
  <2>1. x \in Nat
    BY <1>1, SpanFacts
  <2>2. IsFree(r, x) /\ IsHeld(r, x)
    BY <1>3, <1>4, <2>1 DEF IsHeld, Holds
  <2>3. QED
    BY <1>1, <2>1, <2>2 DEF ByteByByte
<1>6. PICK s : s = Sorted(r.free, run)
  OBVIOUS
<1>7. /\ s \in Seq(Run) /\ Ordered(s)
      /\ \A x : x \in Spans(s) <=> x \in Spans(r.free) \/ (x \in Nat /\ run[1] <= x /\ x < End(run))
  BY <1>1, <1>3, <1>5, <1>6, SortedFits
<1>8. PICK t : t = Merge(s)
  OBVIOUS
<1>9. t \in Seq(Run) /\ Apart(t) /\ \A x : x \in Spans(t) <=> x \in Spans(s)
  BY <1>7, <1>8, MergeFits
<1>10. PICK al : al = [p \in DOMAIN r.allocated \ {o} |-> r.allocated[p]]
  OBVIOUS
<1>11. w = [free |-> t, allocated |-> al] /\ w.free = t /\ w.allocated = al
       /\ DOMAIN al = DOMAIN r.allocated \ {o} /\ \A p \in DOMAIN al : al[p] = r.allocated[p]
  BY <1>2, <1>6, <1>8, <1>10 DEF Release
<1>12. \A x \in Nat : IsFree(w, x) <=> IsFree(r, x) \/ Holds(r, o, x)
  <2>1. DOMAIN t = 1..Len(t)
    BY <1>9, SpanFacts
  <2>2. \A x \in Nat : IsFree(w, x) <=> x \in Spans(t)
    BY <1>9, <1>11, <2>1, SpanFacts DEF IsFree
  <2>3. QED
    BY <1>3, <1>4, <1>7, <1>9, <2>2 DEF Holds
<1>13. \A p \in DOMAIN w.allocated : p \in DOMAIN r.allocated /\ p # o /\ \A x : Holds(w, p, x) <=> Holds(r, p, x)
  BY <1>11 DEF Holds
<1>14. \A x \in Nat : IsHeld(w, x) <=> IsHeld(r, x) /\ ~Holds(r, o, x)
  <2> SUFFICES ASSUME NEW x \in Nat PROVE IsHeld(w, x) <=> IsHeld(r, x) /\ ~Holds(r, o, x)
    OBVIOUS
  <2>1. ASSUME IsHeld(w, x) PROVE IsHeld(r, x) /\ ~Holds(r, o, x)
    <3>1. PICK p \in DOMAIN w.allocated : Holds(w, p, x)
      BY <2>1 DEF IsHeld
    <3>2. p \in DOMAIN r.allocated /\ p # o /\ Holds(r, p, x)
      BY <1>13, <3>1
    <3>3. QED
      BY <1>1, <3>2 DEF ByteByByte, IsHeld
  <2>2. ASSUME IsHeld(r, x), ~Holds(r, o, x) PROVE IsHeld(w, x)
    <3>1. PICK p \in DOMAIN r.allocated : Holds(r, p, x)
      BY <2>2 DEF IsHeld
    <3>2. p # o /\ p \in DOMAIN w.allocated
      BY <1>11, <2>2, <3>1
    <3>3. QED
      BY <1>13, <3>1, <3>2 DEF IsHeld
  <2>3. QED
    BY <2>1, <2>2
<1>15. ByteByByte(w, size, base)
  <2>1. ASSUME NEW x \in Nat
        PROVE  /\ base <= x /\ x < base + size <=> IsFree(w, x) \/ IsHeld(w, x)
               /\ ~(IsFree(w, x) /\ IsHeld(w, x))
    <3>1. /\ base <= x /\ x < base + size <=> IsFree(r, x) \/ IsHeld(r, x)
          /\ ~(IsFree(r, x) /\ IsHeld(r, x))
      BY <1>1 DEF ByteByByte
    <3>2. Holds(r, o, x) => IsHeld(r, x)
      BY DEF IsHeld
    <3>3. QED
      BY <1>12, <1>14, <3>1, <3>2
  <2>2. \A p, q \in DOMAIN w.allocated : p # q => \A x \in Nat : ~(Holds(w, p, x) /\ Holds(w, q, x))
    BY <1>1, <1>13 DEF ByteByByte
  <2>3. QED
    BY <2>1, <2>2 DEF ByteByByte
<1>16. \A p \in DOMAIN w.allocated : p \in Nat /\ w.allocated[p] \in Nat \ {0}
  BY <1>1, <1>11
<1>17. RegionOK(w, size, base)
  <2>1. w.free \in Seq(Run) /\ Apart(w.free)
    BY <1>9, <1>11
  <2>2. Partition(w, size, base)
    BY <1>15, <1>16, <2>1, PartitionBytes
  <2>3. QED
    BY <1>16, <2>1, <2>2 DEF RegionOK
<1>18. QED
  BY <1>11, <1>17

LEMMA NewRegionFits ==
    ASSUME NEW size \in Nat \ {0}, NEW base \in Nat, NEW r, r = NewRegion(size, base)
    PROVE  RegionOK(r, size, base) /\ DOMAIN r.allocated = {}
<1>1. PICK run : run = <<base, size>>
  OBVIOUS
<1>2. PICK none : none = [o \in {} |-> 0]
  OBVIOUS
<1>3. r = [free |-> <<run>>, allocated |-> none] /\ r.free = <<run>> /\ r.allocated = none /\ DOMAIN none = {}
  BY <1>1, <1>2 DEF NewRegion
<1>4. run \in Run /\ run[1] = base /\ End(run) = base + size
  BY <1>1 DEF Run, End
<1>5. <<run>> \in Seq(Run) /\ DOMAIN <<run>> = 1..1 /\ <<run>>[1] = run
  BY <1>4
<1>6. Apart(<<run>>)
  BY <1>5 DEF Apart
<1>7. \A x \in Nat : (IsFree(r, x) <=> base <= x /\ x < base + size) /\ ~IsHeld(r, x)
  BY <1>3, <1>4, <1>5 DEF IsFree, IsHeld
<1>8. ByteByByte(r, size, base)
  BY <1>3, <1>7 DEF ByteByByte
<1>9. r.free \in Seq(Run) /\ \A o \in DOMAIN r.allocated : o \in Nat /\ r.allocated[o] \in Nat \ {0}
  BY <1>3, <1>5
<1>10. Partition(r, size, base)
  BY <1>8, <1>9, PartitionBytes
<1>11. QED
  BY <1>3, <1>6, <1>9, <1>10 DEF RegionOK

\* A region without allocations is one run: it fits any record of its size.
LEMMA WholeFree ==
    ASSUME NEW r, NEW size \in Nat \ {0}, NEW base \in Nat, RegionOK(r, size, base), DOMAIN r.allocated = {},
           NEW b \in Nat, Aligned(b) = b, b <= size
    PROVE  CanAllocate(r, b)
<1> PICK n : n = Len(r.free)
  OBVIOUS
<1>1. r.free \in Seq(Run) /\ Apart(r.free) /\ ByteByByte(r, size, base)
  BY PartitionBytes DEF RegionOK
<1>2. /\ n \in Nat /\ DOMAIN r.free = 1..n
      /\ \A i \in 1..n : /\ r.free[i][1] \in Nat /\ r.free[i][2] \in Nat /\ End(r.free[i]) \in Nat
                         /\ r.free[i][1] < End(r.free[i]) /\ End(r.free[i]) = r.free[i][1] + r.free[i][2]
  BY <1>1, SpanFacts DEF End
<1>3. \A x \in Nat : base <= x /\ x < base + size <=> IsFree(r, x)
  BY <1>1 DEF ByteByByte, IsHeld
<1>4. PICK i \in 1..n : r.free[i][1] <= base /\ base < End(r.free[i])
  <2>1. IsFree(r, base)
    <3>1. base <= base /\ base < base + size
      OBVIOUS
    <3>2. QED
      BY <1>3, <3>1
  <2>2. QED
    BY <1>2, <2>1 DEF IsFree
<1>5. base + size <= End(r.free[i])
  <2> SUFFICES ASSUME End(r.free[i]) < base + size PROVE FALSE
    BY <1>2, SMTT(30)
  <2>1. IsFree(r, End(r.free[i])) /\ End(r.free[i]) \in Nat
    BY <1>2, <1>3, <1>4
  <2>2. PICK j \in 1..n : r.free[j][1] <= End(r.free[i]) /\ End(r.free[i]) < End(r.free[j])
    BY <1>2, <2>1 DEF IsFree
  <2>3. CASE i < j
    <3>1. End(r.free[i]) < r.free[j][1]
      BY <1>1, <1>2, <2>3 DEF Apart
    <3>2. QED
      BY <1>2, <2>2, <3>1
  <2>4. CASE j < i
    <3>1. End(r.free[j]) < r.free[i][1]
      BY <1>1, <1>2, <2>4 DEF Apart
    <3>2. QED
      BY <1>2, <2>2, <3>1
  <2>5. CASE i = j
    BY <1>2, <2>2, <2>5
  <2>6. QED
    BY <2>3, <2>4, <2>5
<1>6. r.free[i][2] >= b
  BY <1>2, <1>4, <1>5
<1>7. QED
  BY <1>2, <1>6 DEF CanAllocate, Fits

-----------------------------------------------------------------------------
(* What the parts of the invariant say of one key, call, entry or region.  *)

LEMMA KeyFacts ==
    \A k \in Keys : /\ LayerOf[k] \in Layers /\ SizeOf[k] \in Nat \ {0} /\ Aligned(SizeOf[k]) = SizeOf[k]
                    /\ SizeOf[k] <= Quota[LayerOf[k]]
<1> SUFFICES ASSUME NEW k \in Keys
             PROVE  /\ LayerOf[k] \in Layers /\ SizeOf[k] \in Nat \ {0} /\ Aligned(SizeOf[k]) = SizeOf[k]
                    /\ SizeOf[k] <= Quota[LayerOf[k]]
  OBVIOUS
<1>1. /\ LayerOf[k] \in Layers /\ SizeOf[k] \in Nat \ {0} /\ SizeOf[k] % Align = 0
      /\ SizeOf[k] <= Quota[LayerOf[k]]
  BY RecordAssumption
<1>2. Aligned(SizeOf[k]) = SizeOf[k]
  BY <1>1, AlignedExact
<1>3. QED
  BY <1>1, <1>2

LEMMA CallFacts ==
    ASSUME NEW v \in Call
    PROVE  /\ v.at \in Holding \cup {"idle", "body"} /\ v.key \in Keys \cup {Nobody}
           /\ v.stream \in Streams \cup {Nobody} /\ v.offset \in Nat /\ v.left \in Nat
           /\ \A at \in Holding \cup {"idle", "body"}, o \in Nat, left \in Nat :
                 [at |-> at, key |-> v.key, stream |-> v.stream, offset |-> o, left |-> left] \in Call
           /\ v = [at |-> v.at, key |-> v.key, stream |-> v.stream, offset |-> v.offset, left |-> v.left]
BY DEF Call

LEMMA EntryEdits ==
    ASSUME NEW o, NEW u, NEW e, NEW x
    PROVE  /\ [[offset |-> o, users |-> u, events |-> e] EXCEPT !.events = x] = [offset |-> o, users |-> u, events |-> x]
           /\ [[offset |-> o, users |-> u, events |-> e] EXCEPT !.users = x] = [offset |-> o, users |-> x, events |-> e]
OBVIOUS

LEMMA EntryFacts ==
    ASSUME NEW v \in Entry
    PROVE  /\ v.offset \in Nat /\ v.users \in Nat /\ v.events \in SUBSET Events
           /\ \A e \in v.events : e.stream \in Streams /\ e.left \in Nat
           /\ v = [offset |-> v.offset, users |-> v.users, events |-> v.events]
BY DEF Entry, Events

\* At most one caller works under the lock.
LEMMA OneHolder ==
    ASSUME CallsFit, NEW c \in Callers, call[c].at \in Holding
    PROVE  lock = c /\ \A d \in Callers : d # c => call[d].at \in {"idle", "body"}
<1>1. lock = c
  BY DEF CallsFit
<1>2. \A d \in Callers : call[d].at \in Holding \cup {"idle", "body"}
  BY CallFacts DEF CallsFit
<1>3. \A d \in Callers : d # c => call[d].at \notin Holding
  BY <1>1 DEF CallsFit
<1>4. QED
  BY <1>1, <1>2, <1>3

\* Without a holder nobody works under the lock.
LEMMA NoHolder ==
    ASSUME CallsFit, lock = Nobody
    PROVE  \A d \in Callers : call[d].at \in {"idle", "body"}
<1>1. \A d \in Callers : call[d].at \in Holding \cup {"idle", "body"} /\ d # Nobody
  BY CallFacts, CallersAssumption DEF CallsFit
<1>2. \A d \in Callers : call[d].at \notin Holding
  BY <1>1 DEF CallsFit
<1>3. QED
  BY <1>1, <1>2

LEMMA States ==
    /\ Holding \cap {"idle", "body"} = {} /\ Owning \subseteq Holding
    /\ {"load", "clear", "close"} \subseteq Holding \ Owning
BY DEF Holding, Owning

\* The sizes of the records of a list of keys.
Sizes(s) == [i \in DOMAIN s |-> SizeOf[s[i]]]

LEMMA SizesFit ==
    ASSUME NEW s \in Seq(Keys)
    PROVE  Sizes(s) \in Seq(Nat) /\ Len(Sizes(s)) = Len(s) /\ Len(s) \in Nat /\ \A i \in 1..Len(s) : Sizes(s)[i] = SizeOf[s[i]]
<1>1. Len(s) \in Nat /\ DOMAIN s = 1..Len(s) /\ \A i \in 1..Len(s) : s[i] \in Keys
  BY LenProperties, ElementOfSeq
<1>2. \A i \in 1..Len(s) : SizeOf[s[i]] \in Nat
  BY <1>1, KeyFacts
<1>3. Sizes(s) \in [1..Len(s) -> Nat] /\ \A i \in 1..Len(s) : Sizes(s)[i] = SizeOf[s[i]]
  BY <1>1, <1>2 DEF Sizes
<1>4. QED
  BY <1>1, <1>3, FunctionIsSeq

LEMMA AppendSize ==
    ASSUME NEW s \in Seq(Keys), NEW k \in Keys
    PROVE  SumOf(Sizes(Append(s, k))) = SumOf(Sizes(s)) + SizeOf[k] /\ SumOf(Sizes(s)) \in Nat
<1>1. PICK t : t = Append(s, k)
  OBVIOUS
<1>2. t \in Seq(Keys) /\ Len(t) = Len(s) + 1 /\ t[Len(s) + 1] = k /\ Len(s) \in Nat /\ \A i \in 1..Len(s) : t[i] = s[i]
  BY <1>1, AppendProperties, LenProperties
<1>3. PICK a : a = Sizes(s)
  OBVIOUS
<1>4. PICK b : b = Sizes(t)
  OBVIOUS
<1>5. SizeOf[k] \in Nat
  BY KeyFacts
<1>6. a \in Seq(Nat) /\ Len(a) = Len(s) /\ \A i \in 1..Len(s) : a[i] = SizeOf[s[i]]
  BY <1>3, SizesFit
<1>7. b \in Seq(Nat) /\ Len(b) = Len(s) + 1 /\ \A i \in 1..(Len(s) + 1) : b[i] = SizeOf[t[i]]
  BY <1>2, <1>4, SizesFit
<1>8. PICK g : g = Append(a, SizeOf[k])
  OBVIOUS
<1>9. g \in Seq(Nat) /\ Len(g) = Len(s) + 1 /\ g[Len(s) + 1] = SizeOf[k] /\ \A i \in 1..Len(s) : g[i] = a[i]
  BY <1>5, <1>6, <1>8, AppendProperties
<1>10. b = g
  <2>1. \A i \in 1..(Len(s) + 1) : b[i] = g[i]
    <3> SUFFICES ASSUME NEW i \in 1..(Len(s) + 1) PROVE b[i] = g[i]
      OBVIOUS
    <3>1. CASE i = Len(s) + 1
      BY <1>2, <1>7, <1>9, <3>1
    <3>2. CASE i \in 1..Len(s)
      <4>1. g[i] = SizeOf[s[i]]
        BY <1>6, <1>9, <3>2
      <4>2. t[i] = s[i] /\ b[i] = SizeOf[t[i]]
        BY <1>2, <1>7, <3>2
      <4>3. QED
        BY <4>1, <4>2
    <3>3. QED
      BY <1>2, <3>1, <3>2
  <2>2. Len(b) = Len(g)
    BY <1>7, <1>9
  <2>3. QED
    BY <1>7, <1>9, <2>1, <2>2, SeqEqual
<1>11. QED
  BY <1>1, <1>3, <1>4, <1>5, <1>6, <1>8, <1>10, SumAppend

\* A list of keys without one of them.
LEMMA WithoutFits ==
    ASSUME NEW s \in Seq(Keys), s = entries, IsInjective(s), NEW k \in ToSet(s),
           NEW t, t = Without(k)
    PROVE  /\ t \in Seq(Keys) /\ IsInjective(t) /\ ToSet(t) = ToSet(s) \ {k} /\ k \in Keys
           /\ SumOf(Sizes(s)) = SumOf(Sizes(t)) + SizeOf[k] /\ SumOf(Sizes(t)) \in Nat
<1>1. Len(s) \in Nat /\ DOMAIN s = 1..Len(s) /\ \A i \in 1..Len(s) : s[i] \in Keys
  BY LenProperties, ElementOfSeq
<1>2. PICK p : p = CHOOSE i \in DOMAIN s : s[i] = k
  OBVIOUS
<1>3. p \in 1..Len(s) /\ s[p] = k /\ k \in Keys
  BY <1>1, <1>2 DEF ToSet
<1>4. /\ t \in Seq(Keys) /\ Len(t) = Len(s) - 1
      /\ \A i \in 1..(Len(s) - 1) : t[i] = IF i < p THEN s[i] ELSE s[i + 1]
  <2>1. t = RemoveAt(s, p)
    BY <1>2 DEF Without
  <2>2. QED
    BY <1>3, <2>1, RemoveElement
<1>5. DOMAIN t = 1..(Len(s) - 1)
  BY <1>4, LenProperties
<1> DEFINE From(i) == IF i < p THEN i ELSE i + 1
<1>6. \A i \in 1..(Len(s) - 1) : From(i) \in 1..Len(s) /\ From(i) # p /\ t[i] = s[From(i)]
  <2> SUFFICES ASSUME NEW i \in 1..(Len(s) - 1)
               PROVE  From(i) \in 1..Len(s) /\ From(i) # p /\ t[i] = s[From(i)]
    OBVIOUS
  <2>1. CASE i < p
    <3>1. i \in 1..Len(s) /\ From(i) = i
      BY <1>1, <2>1
    <3>2. QED
      BY <1>4, <2>1, <3>1
  <2>2. CASE ~(i < p)
    <3>1. i + 1 \in 1..Len(s) /\ From(i) = i + 1 /\ i + 1 # p
      BY <1>1, <1>3, <2>2
    <3>2. QED
      BY <1>4, <2>2, <3>1
  <2>3. QED
    BY <2>1, <2>2
<1>7. \A i, j \in 1..(Len(s) - 1) : From(i) = From(j) => i = j
  BY <1>1, <1>3
<1>8. \A j \in 1..Len(s) : j # p => \E i \in 1..(Len(s) - 1) : t[i] = s[j]
  <2> SUFFICES ASSUME NEW j \in 1..Len(s), j # p PROVE \E i \in 1..(Len(s) - 1) : t[i] = s[j]
    OBVIOUS
  <2>1. CASE j < p
    <3>1. j \in 1..(Len(s) - 1)
      BY <1>1, <1>3, <2>1
    <3>2. QED
      BY <1>4, <2>1, <3>1
  <2>2. CASE j > p
    <3>1. j - 1 \in 1..(Len(s) - 1) /\ ~(j - 1 < p) /\ (j - 1) + 1 = j
      BY <1>1, <1>3, <2>2
    <3>2. t[j - 1] = s[j]
      BY <1>4, <3>1
    <3>3. QED
      BY <3>1, <3>2
  <2>3. j < p \/ j > p
    BY <1>3
  <2>4. QED
    BY <2>1, <2>2, <2>3
<1> HIDE DEF From
<1>9. IsInjective(t)
  BY <1>1, <1>5, <1>6, <1>7 DEF IsInjective
<1>10. ToSet(t) = ToSet(s) \ {k}
  <2>1. \A y \in ToSet(t) : y \in ToSet(s) \ {k}
    <3> SUFFICES ASSUME NEW i \in 1..(Len(s) - 1) PROVE t[i] \in ToSet(s) \ {k}
      BY <1>5 DEF ToSet
    <3>1. From(i) \in 1..Len(s) /\ From(i) # p /\ t[i] = s[From(i)]
      BY <1>6
    <3>2. s[From(i)] # k
      BY <1>1, <1>3, <3>1 DEF IsInjective
    <3>3. QED
      BY <1>1, <3>1, <3>2 DEF ToSet
  <2>2. \A y \in ToSet(s) \ {k} : y \in ToSet(t)
    <3> SUFFICES ASSUME NEW j \in 1..Len(s), s[j] # k PROVE s[j] \in ToSet(t)
      BY <1>1 DEF ToSet
    <3>1. PICK i \in 1..(Len(s) - 1) : t[i] = s[j]
      BY <1>3, <1>8
    <3>2. QED
      BY <1>5, <3>1 DEF ToSet
  <2>3. QED
    BY <2>1, <2>2
<1>11. PICK a : a = Sizes(s)
  OBVIOUS
<1>12. PICK b : b = Sizes(t)
  OBVIOUS
<1>13. a \in Seq(Nat) /\ Len(a) = Len(s) /\ \A i \in 1..Len(s) : a[i] = SizeOf[s[i]]
  BY <1>11, SizesFit
<1>14. b \in Seq(Nat) /\ Len(b) = Len(s) - 1 /\ \A i \in 1..(Len(s) - 1) : b[i] = SizeOf[t[i]]
  BY <1>4, <1>12, SizesFit
<1>15. \A i \in 1..(Len(s) - 1) : b[i] = IF i < p THEN a[i] ELSE a[i + 1]
  <2> SUFFICES ASSUME NEW i \in 1..(Len(s) - 1) PROVE b[i] = IF i < p THEN a[i] ELSE a[i + 1]
    OBVIOUS
  <2>1. i \in 1..Len(s) /\ i + 1 \in 1..Len(s)
    BY <1>1
  <2>2. b[i] = SizeOf[t[i]] /\ a[i] = SizeOf[s[i]] /\ a[i + 1] = SizeOf[s[i + 1]]
    BY <1>13, <1>14, <2>1
  <2>3. t[i] = IF i < p THEN s[i] ELSE s[i + 1]
    BY <1>4
  <2>4. CASE i < p
    BY <2>2, <2>3, <2>4
  <2>5. CASE ~(i < p)
    BY <2>2, <2>3, <2>5
  <2>6. QED
    BY <2>4, <2>5
<1>16. SumOf(a) = SumOf(b) + a[p] /\ SumOf(b) \in Nat
  <2>1. /\ a \in Seq(Nat) /\ p \in 1..Len(a) /\ b \in Seq(Nat) /\ Len(b) = Len(a) - 1
        /\ \A i \in 1..Len(b) : b[i] = IF i < p THEN a[i] ELSE a[i + 1]
    BY <1>3, <1>13, <1>14, <1>15
  <2>2. QED
    BY <2>1, SumRemove
<1>17. a[p] = SizeOf[k]
  BY <1>3, <1>13
<1>18. QED
  BY <1>3, <1>4, <1>9, <1>10, <1>11, <1>12, <1>16, <1>17

-----------------------------------------------------------------------------
(* What a step keeps of the invariant when it leaves parts of it alone.    *)

SameKeys == DOMAIN entry' = DOMAIN entry /\ \A k \in DOMAIN entry : entry'[k].offset = entry[k].offset
SameBodies ==
    \A c \in Callers : /\ call'[c].at = "body" <=> call[c].at = "body"
                       /\ call[c].at = "body" => call'[c].key = call[c].key /\ call'[c].stream = call[c].stream
SameOwners ==
    \A c \in Callers : /\ call'[c].at \in Owning <=> call[c].at \in Owning
                       /\ call[c].at \in Owning => call'[c].key = call[c].key /\ call'[c].offset = call[c].offset

LEMMA RegionsKept ==
    ASSUME RegionsFit, SameKeys, SameOwners, regions' = regions
    PROVE  RegionsFit'
<1>1. DOMAIN regions' = Layers /\ \A l \in Layers : RegionOK(regions'[l], Quota[l], BaseOf(l))
  BY DEF RegionsFit
<1>2. \A l \in Layers : \A o \in DOMAIN regions'[l].allocated : Owned(l, o)'
  <2> SUFFICES ASSUME NEW l \in Layers, NEW o \in DOMAIN regions'[l].allocated PROVE Owned(l, o)'
    OBVIOUS
  <2>1. Owned(l, o)
    BY DEF RegionsFit
  <2>2. CASE \E k \in DOMAIN entry : LayerOf[k] = l /\ entry[k].offset = o
    BY <2>2 DEF Owned, SameKeys
  <2>3. CASE \E c \in Callers : call[c].at \in Owning /\ LayerOf[call[c].key] = l /\ call[c].offset = o
    BY <2>3 DEF Owned, SameOwners
  <2>4. QED
    BY <2>1, <2>2, <2>3 DEF Owned
<1>3. \A k \in DOMAIN entry' : Owns(k, entry[k].offset)'
  BY DEF RegionsFit, SameKeys, Owns
<1>4. \A j, k \in DOMAIN entry' : j # k /\ LayerOf[j] = LayerOf[k] => entry'[j].offset # entry'[k].offset
  BY DEF RegionsFit, SameKeys
<1>5. \A c \in Callers : call'[c].at \in Owning =>
         /\ Owns(call[c].key, call[c].offset)'
         /\ \A k \in DOMAIN entry' : LayerOf[k] = LayerOf[call'[c].key] => entry'[k].offset # call'[c].offset
  BY DEF RegionsFit, SameKeys, SameOwners, Owns
<1>6. QED
  BY <1>1, <1>2, <1>3, <1>4, <1>5 DEF RegionsFit

LEMMA BytesKept ==
    ASSUME BytesFit, arena' = arena, DOMAIN entry' \subseteq DOMAIN entry,
           \A k \in DOMAIN entry' : entry'[k].offset = entry[k].offset,
           \A c \in Callers : call'[c].at = "sync" =>
              call[c].at = "sync" /\ call'[c].key = call[c].key /\ call'[c].offset = call[c].offset
    PROVE  BytesFit'
<1>1. \A k \in DOMAIN entry' : RangeOf(k)' = RangeOf(k) /\ k \in DOMAIN entry
  BY DEF RangeOf
<1>2. \A k \in DOMAIN entry' : \A b \in RangeOf(k)' : arena'[b] = k
  BY <1>1 DEF BytesFit
<1>3. \A c \in Callers : call'[c].at = "sync" =>
         \A b \in Bytes(call'[c].offset, SizeOf[call'[c].key]) : arena'[b] = call'[c].key
  BY DEF BytesFit
<1>4. QED
  BY <1>2, <1>3 DEF BytesFit

\* The guards of the enqueued kernels stay if no lease ends and no pending event goes.
LEMMA WorkKept ==
    ASSUME WorkFits, EntriesFit, work' = work, DOMAIN entry \subseteq DOMAIN entry',
           \A k \in DOMAIN entry : \A e \in entry[k].events : e.left > 0 => e \in entry'[k].events,
           \A c \in Callers : call[c].at = "body" =>
              call'[c].at = "body" /\ call'[c].key = call[c].key /\ call'[c].stream = call[c].stream
    PROVE  WorkFits'
<1> SUFFICES ASSUME NEW s \in Streams, NEW i \in DOMAIN work[s]
             PROVE  work[s][i] \in DOMAIN entry' /\ Guarded(work[s][i], s, i)'
  BY DEF WorkFits
<1>1. work[s][i] \in DOMAIN entry /\ Guarded(work[s][i], s, i) /\ i \in Nat /\ i >= 1
  BY LenProperties DEF WorkFits
<1>2. CASE \E c \in Callers : call[c].at = "body" /\ call[c].key = work[s][i] /\ call[c].stream = s
  BY <1>1, <1>2 DEF Guarded
<1>3. CASE \E e \in entry[work[s][i]].events : e.stream = s /\ e.left >= i
  <2>1. PICK e \in entry[work[s][i]].events : e.stream = s /\ e.left >= i
    BY <1>3
  <2>2. e.left \in Nat
    BY <1>1, EntryFacts DEF EntriesFit
  <2>3. e \in entry'[work[s][i]].events
    BY <1>1, <2>1, <2>2
  <2>4. QED
    BY <1>1, <2>1, <2>3 DEF Guarded
<1>4. QED
  BY <1>1, <1>2, <1>3 DEF Guarded

Leases(k) == {c \in Callers : call[c].at = "body" /\ call[c].key = k}

LEMMA UsersAre ==
    /\ UsersExact <=> \A k \in Keys : IF k \in DOMAIN entry THEN entry[k].users = Cardinality(Leases(k)) ELSE Leases(k) = {}
    /\ \A k : IsFiniteSet(Leases(k)) /\ Leases(k) \subseteq Callers
<1>1. UsersExact <=> \A k \in Keys : IF k \in DOMAIN entry THEN entry[k].users = Cardinality(Leases(k)) ELSE Leases(k) = {}
  BY DEF UsersExact, Leases
<1>2. ASSUME NEW k PROVE IsFiniteSet(Leases(k)) /\ Leases(k) \subseteq Callers
  <2>1. Leases(k) \in SUBSET Callers
    BY DEF Leases
  <2>2. QED
    BY <2>1, CallersAssumption, FS_Subset
<1>3. QED
  BY <1>1, <1>2

LEMMA UsersKept ==
    ASSUME UsersExact, DOMAIN entry' = DOMAIN entry, \A k \in DOMAIN entry : entry'[k].users = entry[k].users,
           SameBodies
    PROVE  UsersExact'
<1>1. \A k : Leases(k)' = Leases(k)
  BY DEF Leases, SameBodies
<1>2. \A k \in Keys : IF k \in DOMAIN entry' THEN entry'[k].users = Cardinality(Leases(k)') ELSE Leases(k)' = {}
  BY <1>1, UsersAre
<1>3. QED
  BY <1>2 DEF UsersExact, Leases

\* One call changes: what the new one has to fit, and the others under their lock.
LEMMA OneCall ==
    ASSUME CallsFit, NEW c \in Callers, NEW v \in Call, call' = [call EXCEPT ![c] = v],
           v.at = "idle" => v = Idle,
           v.at \in {"load", "body"} \cup Owning => v.key \in Keys /\ v.stream \in Streams,
           v.at \in {"load"} \cup Owning => v.key \notin DOMAIN entry',
           v.at \in {"clear", "close"} => \A k \in DOMAIN entry' : entry'[k].users = 0,
           \/ lock' = lock /\ (v.at \in Holding <=> call[c].at \in Holding)
           \/ lock = Nobody /\ lock' = c /\ v.at \in Holding
           \/ lock = c /\ lock' = Nobody /\ v.at \notin Holding,
           \/ DOMAIN entry' = DOMAIN entry /\ \A k \in DOMAIN entry : entry'[k].users = entry[k].users
           \/ \A d \in Callers : d # c => call[d].at \in {"idle", "body"}
    PROVE  CallsFit'
<1>1. call' \in [Callers -> Call] /\ call'[c] = v /\ \A d \in Callers : d # c => call'[d] = call[d]
  BY DEF CallsFit
<1>2. c # Nobody
  BY CallersAssumption
<1>3. call'[c].at \in Holding <=> lock' = c
  BY <1>1, <1>2 DEF CallsFit
<1>4. ASSUME NEW d \in Callers, d # c
      PROVE  /\ call'[d].at = "idle" => call'[d] = Idle
             /\ call'[d].at \in {"load", "body"} \cup Owning => call'[d].key \in Keys /\ call'[d].stream \in Streams
             /\ call'[d].at \in Holding <=> lock' = d
             /\ call'[d].at \in {"load"} \cup Owning => call'[d].key \notin DOMAIN entry'
             /\ call'[d].at \in {"clear", "close"} => \A k \in DOMAIN entry' : entry'[k].users = 0
  <2>1. call'[d] = call[d]
    BY <1>1, <1>4
  <2>2. /\ call[d].at = "idle" => call[d] = Idle
        /\ call[d].at \in {"load", "body"} \cup Owning => call[d].key \in Keys /\ call[d].stream \in Streams
        /\ call[d].at \in Holding <=> lock = d
        /\ call[d].at \in {"load"} \cup Owning => call[d].key \notin DOMAIN entry
        /\ call[d].at \in {"clear", "close"} => \A k \in DOMAIN entry : entry[k].users = 0
    BY DEF CallsFit
  <2>3. d # Nobody
    BY CallersAssumption
  <2>4. call[d].at \in Holding <=> lock' = d
    BY <1>2, <1>4, <2>2, <2>3
  <2>5. call[d].at \in {"load"} \cup Owning => call[d].key \notin DOMAIN entry'
    BY <1>4, <2>2, States
  <2>6. call[d].at \in {"clear", "close"} => \A k \in DOMAIN entry' : entry'[k].users = 0
    BY <1>4, <2>2
  <2>7. QED
    BY <2>1, <2>2, <2>4, <2>5, <2>6
<1>5. /\ call'[c].at = "idle" => call'[c] = Idle
      /\ call'[c].at \in {"load", "body"} \cup Owning => call'[c].key \in Keys /\ call'[c].stream \in Streams
      /\ call'[c].at \in {"load"} \cup Owning => call'[c].key \notin DOMAIN entry'
      /\ call'[c].at \in {"clear", "close"} => \A k \in DOMAIN entry' : entry'[k].users = 0
  BY <1>1
<1>6. \A d \in Callers :
          /\ call'[d].at = "idle" => call'[d] = Idle
          /\ call'[d].at \in {"load", "body"} \cup Owning => call'[d].key \in Keys /\ call'[d].stream \in Streams
          /\ call'[d].at \in Holding <=> lock' = d
          /\ call'[d].at \in {"load"} \cup Owning => call'[d].key \notin DOMAIN entry'
          /\ call'[d].at \in {"clear", "close"} => \A k \in DOMAIN entry' : entry'[k].users = 0
  BY <1>3, <1>4, <1>5
<1>7. QED
  BY <1>1, <1>6, Idle' = Idle DEF CallsFit

-----------------------------------------------------------------------------
(* The invariant holds at the start and is kept by every step.             *)

LEMMA CacheInit == Init => CacheInv
<1> SUFFICES ASSUME Init PROVE CacheInv
  OBVIOUS
<1>1. DOMAIN entry = {} /\ entries = <<>>
  BY DEF Init
<1>2. CallsFit
  <2>1. Idle \in Call /\ Idle.at = "idle"
    BY DEF Idle, Call
  <2>2. \A c \in Callers : call[c] = Idle /\ c # lock
    BY CallersAssumption DEF Init
  <2>3. call \in [Callers -> Call]
    BY <2>1 DEF Init
  <2>4. "idle" \notin Holding \cup Owning \cup {"load", "body", "clear", "close"}
    BY DEF Holding, Owning
  <2>5. QED
    BY <2>1, <2>2, <2>3, <2>4 DEF CallsFit
<1>3. EntriesFit
  <2>1. entry \in [{} -> Entry]
    BY DEF Init
  <2>2. QED
    BY <1>1, <2>1, EmptyElements DEF EntriesFit
<1>4. \A c \in Callers : call[c].at \notin Owning \cup {"sync", "body"}
  BY DEF Init, Idle, Owning
<1>5. RegionsFit
  <2>1. DOMAIN regions = Layers
    BY DEF Init
  <2>2. \A l \in Layers : RegionOK(regions[l], Quota[l], BaseOf(l)) /\ DOMAIN regions[l].allocated = {}
    <3> SUFFICES ASSUME NEW l \in Layers
                 PROVE  RegionOK(regions[l], Quota[l], BaseOf(l)) /\ DOMAIN regions[l].allocated = {}
      OBVIOUS
    <3>1. Quota[l] \in Nat \ {0} /\ BaseOf(l) \in Nat
      BY LayerBases
    <3>2. regions[l] = NewRegion(Quota[l], BaseOf(l))
      BY DEF Init
    <3>3. QED
      BY <3>1, <3>2, NewRegionFits
  <2>3. QED
    BY <1>1, <1>4, <2>1, <2>2 DEF RegionsFit
<1>6. BytesFit
  BY <1>1, <1>4 DEF Init, BytesFit
<1>7. WorkFits
  BY DEF Init, WorkFits
<1>8. UsersExact
  BY <1>1, <1>4 DEF UsersExact
<1>9. ResidentExact
  <2>1. PICK t : t = Sizes(<<>>)
    OBVIOUS
  <2>2. t \in Seq(Nat) /\ Len(t) = 0
    <3>1. <<>> \in Seq(Keys) /\ Len(<<>>) = 0
      OBVIOUS
    <3>2. QED
      BY <2>1, <3>1, SizesFit
  <2>3. PICK h : Sums(h, t) /\ SumOf(t) = h[Len(t)]
    BY <2>2, SumRun
  <2>4. SumOf(t) = 0
    BY <2>2, <2>3 DEF Sums
  <2>5. QED
    BY <1>1, <2>1, <2>4 DEF Init, ResidentExact, Sizes
<1>10. QED
  BY <1>2, <1>3, <1>5, <1>6, <1>7, <1>8, <1>9 DEF CacheInv

LEMMA LeaseHitKeeps ==
    ASSUME CacheInv, NEW c \in Callers, NEW k \in Keys, NEW s \in Streams, LeaseHit(c, k, s)
    PROVE  CacheInv'
<1>1. CallsFit /\ EntriesFit /\ RegionsFit /\ BytesFit /\ WorkFits /\ UsersExact /\ ResidentExact
  BY DEF CacheInv
<1>2. k \in DOMAIN entry /\ k \in ToSet(entries)
  BY <1>1 DEF LeaseHit, Resident, EntriesFit, ToSet
<1>3. /\ lock = Nobody /\ lock' = lock /\ regions' = regions /\ resident' = resident
      /\ arena' = arena /\ work' = work /\ call[c].at = "idle" /\ entries' = Append(Without(k), k)
  BY DEF LeaseHit, Idle
<1>4. PICK v : v = [at |-> "body", key |-> k, stream |-> s, offset |-> 0, left |-> 0]
  OBVIOUS
<1>5. v \in Call /\ v.at = "body" /\ v.key = k /\ v.stream = s
  BY <1>4 DEF Call
<1>6. call' = [call EXCEPT ![c] = v]
  BY <1>4 DEF LeaseHit
<1>7. call'[c] = v /\ \A d \in Callers : d # c => call'[d] = call[d]
  BY <1>1, <1>6 DEF CallsFit
<1>8. entry[k] \in Entry /\ entry[k].users \in Nat /\ \A e \in entry[k].events : e.left \in Nat
  BY <1>1, <1>2, EntryFacts DEF EntriesFit
<1>9. PICK ev : ev = {e \in entry[k].events : ~Done(e)}
  OBVIOUS
<1>10. PICK x : x = [offset |-> entry[k].offset, users |-> entry[k].users + 1, events |-> ev]
  OBVIOUS
<1>11. x \in Entry /\ x.offset = entry[k].offset /\ x.users = entry[k].users + 1 /\ x.events = ev
  BY <1>8, <1>9, <1>10 DEF Entry
<1>12. DOMAIN entry' = DOMAIN entry /\ entry'[k] = x /\ \A j \in DOMAIN entry : j # k => entry'[j] = entry[j]
  <2>1. entry' = [entry EXCEPT ![k].events = ev, ![k].users = @ + 1]
    BY <1>9 DEF LeaseHit
  <2>2. [[entry[k] EXCEPT !.events = ev] EXCEPT !.users = entry[k].users + 1] = x
    <3>1. PICK o, u, e : o = entry[k].offset /\ u = entry[k].users /\ e = entry[k].events
      OBVIOUS
    <3>2. entry[k] = [offset |-> o, users |-> u, events |-> e] /\ x = [offset |-> o, users |-> u + 1, events |-> ev]
      BY <1>8, <1>10, <3>1, EntryFacts
    <3>3. [entry[k] EXCEPT !.events = ev] = [offset |-> o, users |-> u, events |-> ev]
      BY <3>2, EntryEdits
    <3>4. [[offset |-> o, users |-> u, events |-> ev] EXCEPT !.users = u + 1] = x
      BY <3>2, EntryEdits
    <3>5. QED
      BY <3>1, <3>3, <3>4
  <2>3. QED
    BY <1>2, <1>8, <2>1, <2>2 DEF Entry
<1>13. \A d \in Callers : call[d].at \in {"idle", "body"}
  BY <1>1, <1>3, NoHolder
<1>14. CallsFit'
  <2>1. v.at \notin Holding /\ call[c].at \notin Holding /\ v.at \notin {"load", "clear", "close", "idle"} \cup Owning
    BY <1>3, <1>5, States
  <2>2. QED
    BY <1>1, <1>3, <1>5, <1>6, <1>13, <2>1, OneCall
<1>15. EntriesFit'
  <2>1. PICK t : t = Without(k)
    OBVIOUS
  <2>2. t \in Seq(Keys) /\ IsInjective(t) /\ ToSet(t) = ToSet(entries) \ {k}
    BY <1>1, <1>2, <2>1, WithoutFits DEF EntriesFit
  <2>3. entries' \in Seq(Keys) /\ IsInjective(entries') /\ ToSet(entries') = ToSet(entries)
    <3>1. entries' = Append(t, k) /\ k \notin ToSet(t)
      BY <1>3, <2>1, <2>2
    <3>2. /\ Append(t, k) \in Seq(Keys) /\ ToSet(Append(t, k)) = ToSet(t) \cup {k}
          /\ IsInjective(Append(t, k))
      BY <2>2, <3>1, AppendElement
    <3>3. QED
      BY <1>2, <2>2, <3>1, <3>2
  <2>4. entry' \in [DOMAIN entry' -> Entry]
    <3>1. entry' = [j \in DOMAIN entry' |-> entry'[j]]
      BY <1>9 DEF LeaseHit
    <3>2. \A j \in DOMAIN entry' : entry'[j] \in Entry
      BY <1>1, <1>11, <1>12 DEF EntriesFit
    <3>3. QED
      BY <3>1, <3>2
  <2>5. QED
    BY <1>1, <1>12, <2>3, <2>4 DEF EntriesFit
<1>16. SameKeys /\ \A d \in Callers : call'[d].at \notin Owning /\ call[d].at \notin Owning
  BY <1>5, <1>7, <1>11, <1>12, <1>13, States DEF SameKeys
<1>17. RegionsFit'
  BY <1>1, <1>3, <1>16, RegionsKept DEF SameOwners
<1>18. BytesFit'
  <2>1. \A d \in Callers : call'[d].at # "sync"
    BY <1>16 DEF Owning
  <2>2. QED
    BY <1>1, <1>3, <1>16, <2>1, BytesKept DEF SameKeys
<1>19. WorkFits'
  <2>1. \A j \in DOMAIN entry : \A e \in entry[j].events : e.left > 0 => e \in entry'[j].events
    BY <1>8, <1>9, <1>11, <1>12 DEF Done
  <2>2. \A d \in Callers : call[d].at = "body" =>
           call'[d].at = "body" /\ call'[d].key = call[d].key /\ call'[d].stream = call[d].stream
    BY <1>3, <1>7
  <2>3. QED
    BY <1>1, <1>3, <1>12, <2>1, <2>2, WorkKept
<1>20. UsersExact'
  <2>1. /\ Leases(k)' = Leases(k) \cup {c} /\ c \notin Leases(k)
        /\ \A j : j # k => Leases(j)' = Leases(j)
    BY <1>3, <1>5, <1>7 DEF Leases
  <2>2. Cardinality(Leases(k)') = entry[k].users + 1
    <3>1. PICK T : T = Leases(k)
      OBVIOUS
    <3>2. IsFiniteSet(T) /\ c \notin T /\ Cardinality(T) = entry[k].users
      BY <1>1, <1>2, <2>1, <3>1, UsersAre
    <3>3. Cardinality(T \cup {c}) = entry[k].users + 1
      BY <3>2, FS_AddElement
    <3>4. QED
      BY <2>1, <3>1, <3>3
  <2>3. \A j \in Keys : IF j \in DOMAIN entry' THEN entry'[j].users = Cardinality(Leases(j)') ELSE Leases(j)' = {}
    <3> SUFFICES ASSUME NEW j \in Keys
                 PROVE  IF j \in DOMAIN entry' THEN entry'[j].users = Cardinality(Leases(j)') ELSE Leases(j)' = {}
      OBVIOUS
    <3>1. CASE j = k
      BY <1>2, <1>11, <1>12, <2>2, <3>1
    <3>2. CASE j # k
      BY <1>1, <1>12, <2>1, <3>2, UsersAre
    <3>3. QED
      BY <3>1, <3>2
  <2>4. QED
    BY <2>3 DEF UsersExact, Leases
<1>21. ResidentExact'
  <2>1. PICK t : t = Without(k)
    OBVIOUS
  <2>2. t \in Seq(Keys) /\ SumOf(Sizes(entries)) = SumOf(Sizes(t)) + SizeOf[k]
    BY <1>1, <1>2, <2>1, WithoutFits DEF EntriesFit
  <2>3. SumOf(Sizes(Append(t, k))) = SumOf(Sizes(t)) + SizeOf[k]
    BY <2>2, AppendSize
  <2>4. resident' = SumOf(Sizes(entries'))
    BY <1>1, <1>3, <2>1, <2>2, <2>3 DEF ResidentExact, Sizes
  <2>5. QED
    BY <2>4 DEF ResidentExact, Sizes
<1>22. QED
  BY <1>14, <1>15, <1>17, <1>18, <1>19, <1>20, <1>21 DEF CacheInv

\* Steps that leave the resident experts, their leases and the GPU alone.
LEMMA ExpertsAlone ==
    ASSUME CacheInv, SameBodies, UNCHANGED <<entries, entry, resident, work>>
    PROVE  EntriesFit' /\ WorkFits' /\ UsersExact' /\ ResidentExact' /\ SameKeys
<1>1. EntriesFit /\ WorkFits /\ UsersExact /\ ResidentExact
  BY DEF CacheInv
<1>2. EntriesFit' /\ ResidentExact' /\ SameKeys
  BY <1>1 DEF EntriesFit, ResidentExact, SameKeys
<1>3. WorkFits'
  BY <1>1, WorkKept DEF SameBodies
<1>4. UsersExact'
  BY <1>1, UsersKept
<1>5. QED
  BY <1>1, <1>2, <1>3, <1>4

\* One call changes, from and to a state that is no lease.
LEMMA BodiesAlone ==
    ASSUME CallsFit, NEW c \in Callers, NEW v \in Call, call' = [call EXCEPT ![c] = v],
           call[c].at # "body", v.at # "body"
    PROVE  SameBodies /\ call'[c] = v /\ \A d \in Callers : d # c => call'[d] = call[d]
<1>1. call'[c] = v /\ \A d \in Callers : d # c => call'[d] = call[d]
  BY DEF CallsFit
<1>2. QED
  BY <1>1 DEF SameBodies

LEMMA CallEdits ==
    ASSUME NEW a, NEW k, NEW s, NEW o, NEW l, NEW x
    PROVE  /\ [[at |-> a, key |-> k, stream |-> s, offset |-> o, left |-> l] EXCEPT !.at = x]
                = [at |-> x, key |-> k, stream |-> s, offset |-> o, left |-> l]
           /\ [[at |-> a, key |-> k, stream |-> s, offset |-> o, left |-> l] EXCEPT !.offset = x]
                = [at |-> a, key |-> k, stream |-> s, offset |-> x, left |-> l]
           /\ [[at |-> a, key |-> k, stream |-> s, offset |-> o, left |-> l] EXCEPT !.left = x]
                = [at |-> a, key |-> k, stream |-> s, offset |-> o, left |-> x]
OBVIOUS

\* A call that goes on to another state, with another offset or more kernels to wait for.
GoesOn(c, at, offset, left) ==
    [at |-> at, key |-> call[c].key, stream |-> call[c].stream, offset |-> offset, left |-> left]

LEMMA CallGoesOn ==
    ASSUME CallsFit, NEW c \in Callers, NEW at \in Holding \cup {"idle", "body"}
    PROVE  /\ GoesOn(c, at, call[c].offset, call[c].left) \in Call
           /\ [call EXCEPT ![c].at = at] = [call EXCEPT ![c] = GoesOn(c, at, call[c].offset, call[c].left)]
<1>1. PICK a, k, s, o, l : a = call[c].at /\ k = call[c].key /\ s = call[c].stream /\ o = call[c].offset /\ l = call[c].left
  OBVIOUS
<1>2. call \in [Callers -> Call] /\ call[c] \in Call
  BY DEF CallsFit
<1>3. call[c] = [at |-> a, key |-> k, stream |-> s, offset |-> o, left |-> l]
  BY <1>1, <1>2, CallFacts
<1>4. k \in Keys \cup {Nobody} /\ s \in Streams \cup {Nobody} /\ o \in Nat /\ l \in Nat
  BY <1>1, <1>2, CallFacts
<1>5. PICK v : v = [at |-> at, key |-> k, stream |-> s, offset |-> o, left |-> l]
  OBVIOUS
<1>6. v \in Call
  BY <1>4, <1>5 DEF Call
<1>7. [call[c] EXCEPT !.at = at] = [at |-> at, key |-> k, stream |-> s, offset |-> o, left |-> l]
  BY <1>3, CallEdits
<1>8. [call EXCEPT ![c].at = at] = [call EXCEPT ![c] = v]
  BY <1>2, <1>5, <1>7
<1>9. v = GoesOn(c, at, call[c].offset, call[c].left)
  BY <1>1, <1>5 DEF GoesOn
<1>10. QED
  BY <1>6, <1>8, <1>9

LEMMA CallWrites ==
    ASSUME CallsFit, NEW c \in Callers, NEW at \in Holding, NEW n \in Nat
    PROVE  /\ GoesOn(c, at, n, call[c].left) \in Call
           /\ [call EXCEPT ![c].at = at, ![c].offset = n] = [call EXCEPT ![c] = GoesOn(c, at, n, call[c].left)]
<1>1. PICK a, k, s, o, l : a = call[c].at /\ k = call[c].key /\ s = call[c].stream /\ o = call[c].offset /\ l = call[c].left
  OBVIOUS
<1>2. call \in [Callers -> Call] /\ call[c] \in Call
  BY DEF CallsFit
<1>3. call[c] = [at |-> a, key |-> k, stream |-> s, offset |-> o, left |-> l]
  BY <1>1, <1>2, CallFacts
<1>4. k \in Keys \cup {Nobody} /\ s \in Streams \cup {Nobody} /\ o \in Nat /\ l \in Nat
  BY <1>1, <1>2, CallFacts
<1>5. PICK v : v = [at |-> at, key |-> k, stream |-> s, offset |-> n, left |-> l]
  OBVIOUS
<1>6. v \in Call
  BY <1>4, <1>5 DEF Call
<1>7. [call[c] EXCEPT !.at = at] = [at |-> at, key |-> k, stream |-> s, offset |-> o, left |-> l]
  BY <1>3, CallEdits
<1>8. [[at |-> at, key |-> k, stream |-> s, offset |-> o, left |-> l] EXCEPT !.offset = n] = v
  BY <1>5, CallEdits
<1>9. [call EXCEPT ![c].at = at, ![c].offset = n] = [call EXCEPT ![c] = v]
  BY <1>2, <1>7, <1>8
<1>10. v = GoesOn(c, at, n, call[c].left)
  BY <1>1, <1>5 DEF GoesOn
<1>11. QED
  BY <1>6, <1>9, <1>10

LEMMA CallWaits ==
    ASSUME CallsFit, WorkFits, NEW c \in Callers, call[c].stream \in Streams, NEW at \in Holding, Synchronize(c, at)
    PROVE  /\ GoesOn(c, at, call[c].offset, Len(work[call[c].stream])) \in Call
           /\ call' = [call EXCEPT ![c] = GoesOn(c, at, call[c].offset, Len(work[call[c].stream]))]
<1>1. PICK a, k, s, o, l : a = call[c].at /\ k = call[c].key /\ s = call[c].stream /\ o = call[c].offset /\ l = call[c].left
  OBVIOUS
<1>2. call \in [Callers -> Call] /\ call[c] \in Call
  BY DEF CallsFit
<1>3. call[c] = [at |-> a, key |-> k, stream |-> s, offset |-> o, left |-> l]
  BY <1>1, <1>2, CallFacts
<1>4. k \in Keys \cup {Nobody} /\ s \in Streams \cup {Nobody} /\ o \in Nat /\ l \in Nat
  BY <1>1, <1>2, CallFacts
<1>5. PICK n \in Nat : n = Len(work[call[c].stream])
  BY LenProperties DEF WorkFits
<1>6. PICK v : v = [at |-> at, key |-> k, stream |-> s, offset |-> o, left |-> n]
  OBVIOUS
<1>7. v \in Call
  BY <1>4, <1>6 DEF Call
<1>8. [call[c] EXCEPT !.at = at] = [at |-> at, key |-> k, stream |-> s, offset |-> o, left |-> l]
  BY <1>3, CallEdits
<1>9. [[at |-> at, key |-> k, stream |-> s, offset |-> o, left |-> l] EXCEPT !.left = n] = v
  BY <1>6, CallEdits
<1>10. call' = [call EXCEPT ![c].at = at, ![c].left = n]
  BY <1>5 DEF Synchronize
<1>11. call' = [call EXCEPT ![c] = v]
  BY <1>2, <1>8, <1>9, <1>10
<1>12. v = GoesOn(c, at, call[c].offset, n)
  BY <1>1, <1>6 DEF GoesOn
<1>13. QED
  BY <1>5, <1>7, <1>11, <1>12

LEMMA LeaseMissKeeps ==
    ASSUME CacheInv, NEW c \in Callers, NEW k \in Keys, NEW s \in Streams, LeaseMiss(c, k, s)
    PROVE  CacheInv'
<1>1. CallsFit /\ EntriesFit /\ RegionsFit /\ BytesFit
  BY DEF CacheInv
<1>2. /\ lock = Nobody /\ lock' = c /\ call[c].at = "idle"
      /\ UNCHANGED <<regions, entries, entry, resident, arena, work>>
  BY DEF LeaseMiss, Idle
<1>3. k \notin DOMAIN entry
  <2>1. k \notin ToSet(entries)
    BY DEF LeaseMiss, Resident, ToSet
  <2>2. QED
    BY <1>1, <2>1 DEF EntriesFit
<1>4. PICK v : v = [at |-> "load", key |-> k, stream |-> s, offset |-> 0, left |-> 0]
  OBVIOUS
<1>5. v \in Call /\ v.at = "load" /\ v.key = k /\ v.stream = s
  BY <1>4, States DEF Call
<1>6. call' = [call EXCEPT ![c] = v]
  BY <1>4 DEF LeaseMiss
<1>7. SameBodies /\ call'[c] = v /\ \A d \in Callers : d # c => call'[d] = call[d]
  BY <1>1, <1>2, <1>5, <1>6, BodiesAlone
<1>8. EntriesFit' /\ WorkFits' /\ UsersExact' /\ ResidentExact' /\ SameKeys
  BY <1>2, <1>7, ExpertsAlone
<1>9. v.at \in Holding /\ v.at \notin {"clear", "close", "idle"} \cup Owning
  BY <1>5, States
<1>10. CallsFit'
  BY <1>1, <1>2, <1>3, <1>5, <1>6, <1>9, OneCall
<1>11. SameOwners
  BY <1>2, <1>7, <1>9, States DEF SameOwners
<1>12. RegionsFit'
  BY <1>1, <1>2, <1>8, <1>11, RegionsKept
<1>13. BytesFit'
  BY <1>1, <1>2, <1>5, <1>7, <1>8, BytesKept DEF SameKeys
<1>14. QED
  BY <1>8, <1>10, <1>12, <1>13 DEF CacheInv

\* The calls that end in a refusal, and the copy and the failure of a load.
LEMMA LoadBusyKeeps ==
    ASSUME CacheInv, NEW c \in Callers, LoadBusy(c)
    PROVE  CacheInv'
<1>1. CallsFit /\ EntriesFit /\ RegionsFit /\ BytesFit
  BY DEF CacheInv
<1>2. /\ lock' = Nobody /\ call[c].at = "load" /\ call' = [call EXCEPT ![c] = Idle]
      /\ UNCHANGED <<regions, entries, entry, resident, arena, work>>
  BY DEF LoadBusy
<1>3. lock = c /\ \A d \in Callers : d # c => call[d].at \in {"idle", "body"}
  BY <1>1, <1>2, States, OneHolder
<1>4. Idle \in Call /\ Idle.at = "idle"
  BY DEF Idle, Call
<1>5. SameBodies /\ call'[c] = Idle /\ \A d \in Callers : d # c => call'[d] = call[d]
  BY <1>1, <1>2, <1>4, BodiesAlone
<1>6. EntriesFit' /\ WorkFits' /\ UsersExact' /\ ResidentExact' /\ SameKeys
  BY <1>2, <1>5, ExpertsAlone
<1>7. Idle.at \notin Holding \cup {"load", "body", "clear", "close"} \cup Owning
  BY <1>4, States
<1>8. CallsFit'
  BY <1>1, <1>2, <1>3, <1>4, <1>7, OneCall
<1>9. SameOwners
  BY <1>2, <1>5, <1>7, States DEF SameOwners
<1>10. RegionsFit'
  BY <1>1, <1>2, <1>6, <1>9, RegionsKept
<1>11. BytesFit'
  BY <1>1, <1>2, <1>4, <1>5, <1>6, BytesKept DEF SameKeys
<1>12. QED
  BY <1>6, <1>8, <1>10, <1>11 DEF CacheInv

\* The range of a key lies in its region, and ranges do not overlap.
LEMMA RangeInArena ==
    ASSUME RegionsFit, NEW k \in Keys, NEW o, Owns(k, o)
    PROVE  /\ o \in Nat /\ o \in Arena
           /\ \A b \in Bytes(o, SizeOf[k]) : /\ b \in Nat /\ b \in Arena
                                             /\ BaseOf(LayerOf[k]) <= b /\ b < BaseOf(LayerOf[k]) + Quota[LayerOf[k]]
<1>1. LayerOf[k] \in Layers /\ SizeOf[k] \in Nat \ {0}
  BY KeyFacts
<1>2. PICK r : r = regions[LayerOf[k]]
  OBVIOUS
<1>3. PICK size \in Nat, base \in Nat : size = Quota[LayerOf[k]] /\ base = BaseOf(LayerOf[k])
                                        /\ base + size <= SumOf(Quota) /\ SumOf(Quota) \in Nat
  BY <1>1, LayerBases
<1>4. RegionOK(r, size, base) /\ o \in DOMAIN r.allocated /\ r.allocated[o] = SizeOf[k]
  BY <1>1, <1>2, <1>3 DEF RegionsFit, Owns
<1>5. o \in Nat /\ ByteByByte(r, size, base)
  BY <1>4, PartitionBytes DEF RegionOK
<1>6. ASSUME NEW b \in Bytes(o, SizeOf[k])
      PROVE  b \in Nat /\ b \in Arena /\ base <= b /\ b < base + size
  <2>1. b \in Nat /\ o <= b /\ b < o + SizeOf[k]
    BY <1>1, <1>5, RunBytes
  <2>2. IsHeld(r, b)
    BY <1>4, <2>1 DEF IsHeld, Holds
  <2>3. base <= b /\ b < base + size
    BY <1>5, <2>1, <2>2 DEF ByteByByte
  <2>4. b < SumOf(Quota)
    BY <1>3, <2>1, <2>3
  <2>5. QED
    BY <1>3, <2>1, <2>3, <2>4 DEF Arena
<1>7. o \in Bytes(o, SizeOf[k])
  BY <1>1, <1>5, RunBytes
<1>8. QED
  BY <1>3, <1>5, <1>6, <1>7

LEMMA RangesDisjoint ==
    ASSUME RegionsFit, NEW j \in Keys, NEW k \in Keys, NEW o, NEW p, Owns(j, o), Owns(k, p),
           LayerOf[j] = LayerOf[k] => o # p
    PROVE  Bytes(o, SizeOf[j]) \cap Bytes(p, SizeOf[k]) = {}
<1>1. LayerOf[j] \in Layers /\ LayerOf[k] \in Layers
  BY KeyFacts
<1>2. CASE LayerOf[j] = LayerOf[k]
  <2>1. PICK r : r = regions[LayerOf[k]]
    OBVIOUS
  <2>2. /\ o \in DOMAIN r.allocated /\ p \in DOMAIN r.allocated /\ o # p
        /\ r.allocated[o] = SizeOf[j] /\ r.allocated[p] = SizeOf[k]
    BY <1>2, <2>1 DEF Owns
  <2>3. \A x, y \in DOMAIN r.allocated : x # y => Bytes(x, r.allocated[x]) \cap Bytes(y, r.allocated[y]) = {}
    BY <1>1, <2>1 DEF RegionsFit, RegionOK, Partition
  <2>4. QED
    BY <2>2, <2>3
<1>3. CASE LayerOf[j] # LayerOf[k]
  <2> SUFFICES ASSUME NEW b \in Bytes(o, SizeOf[j]), b \in Bytes(p, SizeOf[k]) PROVE FALSE
    OBVIOUS
  <2>1. PICK l \in Nat, m \in Nat : l = LayerOf[j] /\ m = LayerOf[k] /\ l \in Layers /\ m \in Layers /\ l # m
    BY <1>1, <1>3, LayerBases
  <2>2. /\ BaseOf(l) \in Nat /\ Quota[l] \in Nat /\ BaseOf(m) \in Nat /\ Quota[m] \in Nat
        /\ l < m => BaseOf(l) + Quota[l] <= BaseOf(m)
        /\ m < l => BaseOf(m) + Quota[m] <= BaseOf(l)
    BY <2>1, LayerBases
  <2>3. b \in Nat /\ BaseOf(l) <= b /\ b < BaseOf(l) + Quota[l] /\ BaseOf(m) <= b /\ b < BaseOf(m) + Quota[m]
    BY <2>1, RangeInArena
  <2>4. l < m \/ m < l
    BY <2>1
  <2>5. QED
    BY <2>2, <2>3, <2>4
<1>4. QED
  BY <1>2, <1>3

LEMMA LoadAllocateKeeps ==
    ASSUME CacheInv, NEW c \in Callers, LoadAllocate(c)
    PROVE  CacheInv'
<1>1. CallsFit /\ EntriesFit /\ RegionsFit /\ BytesFit
  BY DEF CacheInv
<1>2. PICK k, l, r, o, w : /\ k = call[c].key /\ l = LayerOf[k] /\ r = regions[l]
                           /\ o = AllocatedAt(r, SizeOf[k]) /\ w = Allocate(r, SizeOf[k])
  OBVIOUS
<1>3. /\ lock' = lock /\ call[c].at = "load" /\ CanAllocate(r, SizeOf[k]) /\ regions' = [regions EXCEPT ![l] = w]
      /\ call' = [call EXCEPT ![c].at = "copy", ![c].offset = o]
      /\ UNCHANGED <<entries, entry, resident, arena, work>>
  BY <1>2 DEF LoadAllocate, RegionOf
<1>4. lock = c /\ \A d \in Callers : d # c => call[d].at \in {"idle", "body"}
  BY <1>1, <1>3, States, OneHolder
<1>5. k \in Keys /\ call[c].stream \in Streams /\ k \notin DOMAIN entry
  BY <1>1, <1>2, <1>3 DEF CallsFit
<1>6. l \in Layers /\ SizeOf[k] \in Nat \ {0} /\ Aligned(SizeOf[k]) = SizeOf[k]
  BY <1>2, <1>5, KeyFacts
<1>7. /\ RegionOK(w, Quota[l], BaseOf(l)) /\ o \in Nat /\ o \notin DOMAIN r.allocated
      /\ DOMAIN w.allocated = DOMAIN r.allocated \cup {o} /\ w.allocated[o] = SizeOf[k]
      /\ \A p \in DOMAIN r.allocated : w.allocated[p] = r.allocated[p]
  <2>1. RegionOK(r, Quota[l], BaseOf(l)) /\ Quota[l] \in Nat /\ BaseOf(l) \in Nat
    BY <1>1, <1>2, <1>6, LayerBases DEF RegionsFit
  <2>2. PICK b : b = SizeOf[k]
    OBVIOUS
  <2>3. PICK size, base : size = Quota[l] /\ base = BaseOf(l)
    OBVIOUS
  <2>4. b \in Nat \ {0} /\ Aligned(b) = b /\ CanAllocate(r, b) /\ o = AllocatedAt(r, b) /\ w = Allocate(r, b)
    BY <1>2, <1>3, <1>6, <2>2
  <2>5. RegionOK(r, size, base) /\ size \in Nat /\ base \in Nat
    BY <2>1, <2>3
  <2>6. /\ RegionOK(Allocate(r, b), size, base)
        /\ AllocatedAt(r, b) \in Nat /\ AllocatedAt(r, b) \notin DOMAIN r.allocated
        /\ DOMAIN Allocate(r, b).allocated = DOMAIN r.allocated \cup {AllocatedAt(r, b)}
        /\ Allocate(r, b).allocated[AllocatedAt(r, b)] = b
        /\ \A p \in DOMAIN r.allocated : Allocate(r, b).allocated[p] = r.allocated[p]
    BY <2>4, <2>5, AllocateFits
  <2>7. QED
    BY <2>2, <2>3, <2>4, <2>6
<1>8. PICK v : v = GoesOn(c, "copy", o, call[c].left)
  OBVIOUS
<1>9. v \in Call /\ call' = [call EXCEPT ![c] = v]
  <2>1. "copy" \in Holding
    BY DEF Holding
  <2>2. o \in Nat
    BY <1>7
  <2>3. /\ GoesOn(c, "copy", o, call[c].left) \in Call
        /\ [call EXCEPT ![c].at = "copy", ![c].offset = o] = [call EXCEPT ![c] = GoesOn(c, "copy", o, call[c].left)]
    BY <1>1, <2>1, <2>2, CallWrites
  <2>4. QED
    BY <1>3, <1>8, <2>3
<1>10. v.at = "copy" /\ v.key = k /\ v.stream = call[c].stream /\ v.offset = o
  BY <1>2, <1>8 DEF GoesOn
<1>11. SameBodies /\ call'[c] = v /\ \A d \in Callers : d # c => call'[d] = call[d]
  BY <1>1, <1>3, <1>9, <1>10, BodiesAlone
<1>12. EntriesFit' /\ WorkFits' /\ UsersExact' /\ ResidentExact' /\ SameKeys
  BY <1>3, <1>11, ExpertsAlone
<1>13. v.at \in Holding /\ v.at \in Owning /\ v.at \notin {"clear", "close", "idle"} /\ call[c].at \in Holding
  BY <1>3, <1>10 DEF Holding, Owning
<1>14. CallsFit'
  BY <1>1, <1>3, <1>5, <1>9, <1>10, <1>13, OneCall
<1>15. BytesFit'
  BY <1>1, <1>3, <1>10, <1>11, <1>12, BytesKept DEF SameKeys
<1>16. /\ DOMAIN regions' = Layers /\ regions'[l] = w /\ \A m \in Layers : m # l => regions'[m] = regions[m]
  BY <1>1, <1>3, <1>6 DEF RegionsFit
<1>17. \A d \in Callers : call[d].at \notin Owning /\ (d # c => call'[d].at \notin Owning)
  BY <1>3, <1>4, <1>11, States
<1>18. \A j \in Keys : \A p : Owns(j, p) => Owns(j, p)'
  <2> SUFFICES ASSUME NEW j \in Keys, NEW p, Owns(j, p) PROVE Owns(j, p)'
    OBVIOUS
  <2>1. LayerOf[j] \in Layers
    BY KeyFacts
  <2>2. CASE LayerOf[j] = l
    <3>1. p \in DOMAIN r.allocated /\ r.allocated[p] = SizeOf[j]
      BY <1>2, <2>2 DEF Owns
    <3>2. p \in DOMAIN w.allocated /\ w.allocated[p] = SizeOf[j]
      BY <1>7, <3>1
    <3>3. QED
      BY <1>16, <2>2, <3>2 DEF Owns
  <2>3. CASE LayerOf[j] # l
    BY <1>16, <2>1, <2>3 DEF Owns
  <2>4. QED
    BY <2>2, <2>3
<1>19. \A j \in DOMAIN entry : j \in Keys /\ (LayerOf[j] = l => entry[j].offset \in DOMAIN r.allocated)
  <2>1. \A j \in DOMAIN entry : j \in Keys
    BY <1>1, ElementOfSeq DEF EntriesFit, ToSet
  <2>2. QED
    BY <1>1, <1>2, <2>1 DEF RegionsFit, Owns
<1>20. RegionsFit'
  <2>1. \A m \in Layers : RegionOK(regions'[m], Quota[m], BaseOf(m))
    BY <1>1, <1>7, <1>16 DEF RegionsFit
  <2>2. \A m \in Layers : \A p \in DOMAIN regions'[m].allocated : Owned(m, p)'
    <3> SUFFICES ASSUME NEW m \in Layers, NEW p \in DOMAIN regions'[m].allocated PROVE Owned(m, p)'
      OBVIOUS
    <3>1. CASE m = l /\ p = o
      <4>1. call'[c].at \in Owning /\ LayerOf[call'[c].key] = m /\ call'[c].offset = p
        BY <1>2, <1>10, <1>11, <1>13, <3>1
      <4>2. QED
        BY <4>1 DEF Owned
    <3>2. CASE ~(m = l /\ p = o)
      <4>1. p \in DOMAIN regions[m].allocated
        BY <1>2, <1>7, <1>16, <3>2, ZenonT(40)
      <4>2. PICK j \in DOMAIN entry : LayerOf[j] = m /\ entry[j].offset = p
        BY <1>1, <1>17, <4>1 DEF RegionsFit, Owned
      <4>3. QED
        BY <1>12, <4>2 DEF Owned, SameKeys
    <3>3. QED
      BY <3>1, <3>2
  <2>3. \A j \in DOMAIN entry' : Owns(j, entry[j].offset)'
    BY <1>1, <1>3, <1>18, <1>19 DEF RegionsFit
  <2>4. \A i, j \in DOMAIN entry' : i # j /\ LayerOf[i] = LayerOf[j] => entry'[i].offset # entry'[j].offset
    BY <1>1, <1>3 DEF RegionsFit
  <2>5. \A d \in Callers : call'[d].at \in Owning =>
           /\ Owns(call[d].key, call[d].offset)'
           /\ \A j \in DOMAIN entry' : LayerOf[j] = LayerOf[call'[d].key] => entry'[j].offset # call'[d].offset
    <3> SUFFICES ASSUME NEW d \in Callers, call'[d].at \in Owning
                 PROVE  /\ Owns(call[d].key, call[d].offset)'
                        /\ \A j \in DOMAIN entry' : LayerOf[j] = LayerOf[call'[d].key] => entry'[j].offset # call'[d].offset
      OBVIOUS
    <3>1. d = c /\ call'[d].key = k /\ call'[d].offset = o
      BY <1>10, <1>11, <1>17
    <3>2. Owns(call[d].key, call[d].offset)'
      BY <1>2, <1>7, <1>16, <3>1 DEF Owns
    <3>3. ASSUME NEW j \in DOMAIN entry', LayerOf[j] = LayerOf[call'[d].key] PROVE entry'[j].offset # call'[d].offset
      <4>1. j \in DOMAIN entry /\ LayerOf[j] = l /\ entry'[j].offset = entry[j].offset
        BY <1>2, <1>3, <3>1, <3>3
      <4>2. entry[j].offset \in DOMAIN r.allocated
        BY <1>19, <4>1
      <4>3. QED
        BY <1>7, <3>1, <4>1, <4>2
    <3>4. QED
      BY <3>2, <3>3
  <2>6. QED
    BY <1>16, <2>1, <2>2, <2>3, <2>4, <2>5 DEF RegionsFit
<1>21. QED
  BY <1>12, <1>14, <1>15, <1>20 DEF CacheInv

LEMMA LoadCopyKeeps ==
    ASSUME CacheInv, NEW c \in Callers, LoadCopy(c)
    PROVE  CacheInv'
<1>1. CallsFit /\ EntriesFit /\ RegionsFit /\ BytesFit /\ WorkFits
  BY DEF CacheInv
<1>2. PICK k, o, n, taken : /\ k = call[c].key /\ o = call[c].offset /\ n = Len(work[call[c].stream])
                            /\ taken = Bytes(o, SizeOf[k])
  OBVIOUS
<1>3. /\ lock' = lock /\ call[c].at = "copy" /\ call' = [call EXCEPT ![c].at = "sync", ![c].left = n]
      /\ arena' = [b \in Arena |-> IF b \in taken THEN k ELSE arena[b]]
      /\ UNCHANGED <<regions, entries, entry, resident, work>>
  BY <1>2 DEF LoadCopy, Synchronize
<1>4. call[c].at \in Owning /\ call[c].at \in Holding
  BY <1>3 DEF Owning, Holding
<1>5. lock = c /\ \A d \in Callers : d # c => call[d].at \in {"idle", "body"}
  BY <1>1, <1>4, OneHolder
<1>6. k \in Keys /\ call[c].stream \in Streams /\ k \notin DOMAIN entry
  BY <1>1, <1>2, <1>4 DEF CallsFit
<1>7. n \in Nat
  BY <1>1, <1>2, <1>6, LenProperties DEF WorkFits
<1>8. PICK v : v = GoesOn(c, "sync", o, n)
  OBVIOUS
<1>9. v \in Call /\ call' = [call EXCEPT ![c] = v]
  <2>1. "sync" \in Holding /\ Synchronize(c, "sync")
    BY DEF Holding, LoadCopy
  <2>2. /\ GoesOn(c, "sync", call[c].offset, Len(work[call[c].stream])) \in Call
        /\ call' = [call EXCEPT ![c] = GoesOn(c, "sync", call[c].offset, Len(work[call[c].stream]))]
    BY <1>1, <1>6, <2>1, CallWaits
  <2>3. QED
    BY <1>2, <1>8, <2>2
<1>10. v.at = "sync" /\ v.key = k /\ v.stream = call[c].stream /\ v.offset = o
  BY <1>2, <1>8 DEF GoesOn
<1>11. SameBodies /\ call'[c] = v /\ \A d \in Callers : d # c => call'[d] = call[d]
  BY <1>1, <1>3, <1>9, <1>10, BodiesAlone
<1>12. EntriesFit' /\ WorkFits' /\ UsersExact' /\ ResidentExact' /\ SameKeys
  BY <1>3, <1>11, ExpertsAlone
<1>13. v.at \in Holding /\ v.at \in Owning /\ v.at \notin {"clear", "close", "idle"}
  BY <1>10 DEF Holding, Owning
<1>14. CallsFit'
  BY <1>1, <1>3, <1>4, <1>6, <1>9, <1>10, <1>13, OneCall
<1>15. SameOwners
  BY <1>2, <1>4, <1>10, <1>11, <1>13 DEF SameOwners
<1>16. RegionsFit'
  BY <1>1, <1>3, <1>12, <1>15, RegionsKept
<1>17. BytesFit'
  <2>1. Owns(k, o)
    BY <1>1, <1>2, <1>4 DEF RegionsFit
  <2>2. \A j \in DOMAIN entry' : \A b \in RangeOf(j)' : arena'[b] = j
    <3> SUFFICES ASSUME NEW j \in DOMAIN entry', NEW b \in RangeOf(j)' PROVE arena'[b] = j
      OBVIOUS
    <3>1. j \in DOMAIN entry /\ j \in Keys /\ b \in RangeOf(j)
      <4>1. j \in DOMAIN entry /\ j \in Keys
        BY <1>1, <1>3, ElementOfSeq DEF EntriesFit, ToSet
      <4>2. QED
        BY <1>3, <4>1 DEF RangeOf
    <3>2. Owns(j, entry[j].offset) /\ (LayerOf[j] = LayerOf[k] => entry[j].offset # o)
      BY <1>1, <1>2, <1>4, <3>1 DEF RegionsFit
    <3>3. Bytes(entry[j].offset, SizeOf[j]) \cap Bytes(o, SizeOf[k]) = {}
      BY <1>1, <1>6, <2>1, <3>1, <3>2, RangesDisjoint
    <3>4. b \notin taken
      BY <1>2, <3>1, <3>3 DEF RangeOf
    <3>5. b \in Arena
      BY <1>1, <3>1, <3>2, RangeInArena DEF RangeOf
    <3>6. QED
      BY <1>1, <1>3, <3>1, <3>4, <3>5 DEF BytesFit
  <2>3. \A d \in Callers : call'[d].at = "sync" =>
           \A b \in Bytes(call'[d].offset, SizeOf[call'[d].key]) : arena'[b] = call'[d].key
    <3> SUFFICES ASSUME NEW d \in Callers, call'[d].at = "sync",
                        NEW b \in Bytes(call'[d].offset, SizeOf[call'[d].key])
                 PROVE  arena'[b] = call'[d].key
      OBVIOUS
    <3>1. call'[d].key = k /\ call'[d].offset = o
      BY <1>5, <1>10, <1>11
    <3>2. b \in taken /\ b \in Arena
      BY <1>1, <1>2, <1>6, <2>1, <3>1, RangeInArena
    <3>3. QED
      BY <1>3, <3>1, <3>2
  <2>4. DOMAIN arena' = Arena
    BY <1>3
  <2>5. QED
    BY <2>2, <2>3, <2>4 DEF BytesFit
<1>18. QED
  BY <1>12, <1>14, <1>16, <1>17 DEF CacheInv

LEMMA LoadFailKeeps ==
    ASSUME CacheInv, NEW c \in Callers, LoadFail(c)
    PROVE  CacheInv'
<1>1. CallsFit /\ EntriesFit /\ RegionsFit /\ BytesFit /\ WorkFits
  BY DEF CacheInv
<1>2. PICK n : n = Len(work[call[c].stream])
  OBVIOUS
<1>3. /\ lock' = lock /\ call[c].at \in {"copy", "sync"} /\ call' = [call EXCEPT ![c].at = "undo", ![c].left = n]
      /\ UNCHANGED <<regions, entries, entry, resident, arena, work>>
  BY <1>2 DEF LoadFail, Synchronize
<1>4. call[c].at \in Owning /\ call[c].at \in Holding /\ call[c].at # "body"
  BY <1>3 DEF Owning, Holding
<1>5. call[c].key \in Keys /\ call[c].stream \in Streams /\ call[c].key \notin DOMAIN entry
  BY <1>1, <1>4 DEF CallsFit
<1>6. n \in Nat
  BY <1>1, <1>2, <1>5, LenProperties DEF WorkFits
<1>7. PICK v : v = GoesOn(c, "undo", call[c].offset, n)
  OBVIOUS
<1>8. v \in Call /\ call' = [call EXCEPT ![c] = v]
  <2>1. "undo" \in Holding /\ Synchronize(c, "undo")
    BY DEF Holding, LoadFail
  <2>2. /\ GoesOn(c, "undo", call[c].offset, Len(work[call[c].stream])) \in Call
        /\ call' = [call EXCEPT ![c] = GoesOn(c, "undo", call[c].offset, Len(work[call[c].stream]))]
    BY <1>1, <1>5, <2>1, CallWaits
  <2>3. QED
    BY <1>2, <1>7, <2>2
<1>9. v.at = "undo" /\ v.key = call[c].key /\ v.stream = call[c].stream /\ v.offset = call[c].offset
  BY <1>7 DEF GoesOn
<1>10. SameBodies /\ call'[c] = v /\ \A d \in Callers : d # c => call'[d] = call[d]
  BY <1>1, <1>4, <1>8, <1>9, BodiesAlone
<1>11. EntriesFit' /\ WorkFits' /\ UsersExact' /\ ResidentExact' /\ SameKeys
  BY <1>3, <1>10, ExpertsAlone
<1>12. v.at \in Holding /\ v.at \in Owning /\ v.at \notin {"clear", "close", "idle"}
  BY <1>9 DEF Holding, Owning
<1>13. CallsFit'
  BY <1>1, <1>3, <1>4, <1>5, <1>8, <1>9, <1>12, OneCall
<1>14. SameOwners
  BY <1>4, <1>9, <1>10, <1>12 DEF SameOwners
<1>15. RegionsFit'
  BY <1>1, <1>3, <1>11, <1>14, RegionsKept
<1>16. BytesFit'
  BY <1>1, <1>3, <1>9, <1>10, <1>11, BytesKept DEF SameKeys
<1>17. QED
  BY <1>11, <1>13, <1>15, <1>16 DEF CacheInv

LEMMA LoadUndoKeeps ==
    ASSUME CacheInv, NEW c \in Callers, LoadUndo(c)
    PROVE  CacheInv'
<1>1. CallsFit /\ EntriesFit /\ RegionsFit /\ BytesFit
  BY DEF CacheInv
<1>2. PICK k, l, r, o, w : /\ k = call[c].key /\ l = LayerOf[k] /\ r = regions[l] /\ o = call[c].offset
                           /\ w = Release(r, o)
  OBVIOUS
<1>3. /\ lock' = Nobody /\ call[c].at = "undo" /\ regions' = [regions EXCEPT ![l] = w]
      /\ call' = [call EXCEPT ![c] = Idle]
      /\ UNCHANGED <<entries, entry, resident, arena, work>>
  BY <1>2 DEF LoadUndo
<1>4. call[c].at \in Owning /\ call[c].at \in Holding
  BY <1>3 DEF Owning, Holding
<1>5. lock = c /\ \A d \in Callers : d # c => call[d].at \in {"idle", "body"}
  BY <1>1, <1>4, OneHolder
<1>6. k \in Keys /\ l \in Layers
  BY <1>1, <1>2, <1>4, KeyFacts DEF CallsFit
<1>7. Owns(k, o) /\ o \in DOMAIN r.allocated
  BY <1>1, <1>2, <1>4 DEF RegionsFit, Owns
<1>8. /\ RegionOK(w, Quota[l], BaseOf(l)) /\ DOMAIN w.allocated = DOMAIN r.allocated \ {o}
      /\ \A p \in DOMAIN r.allocated \ {o} : w.allocated[p] = r.allocated[p]
  <2>1. RegionOK(r, Quota[l], BaseOf(l)) /\ Quota[l] \in Nat /\ BaseOf(l) \in Nat
    BY <1>1, <1>2, <1>6, LayerBases DEF RegionsFit
  <2>2. PICK size, base : size = Quota[l] /\ base = BaseOf(l)
    OBVIOUS
  <2>3. RegionOK(r, size, base) /\ size \in Nat /\ base \in Nat
    BY <2>1, <2>2
  <2>4. /\ RegionOK(Release(r, o), size, base) /\ DOMAIN Release(r, o).allocated = DOMAIN r.allocated \ {o}
        /\ \A p \in DOMAIN r.allocated \ {o} : Release(r, o).allocated[p] = r.allocated[p]
    BY <1>7, <2>3, ReleaseFits
  <2>5. QED
    BY <1>2, <2>2, <2>4
<1>9. Idle \in Call /\ Idle.at = "idle"
  BY DEF Idle, Call
<1>10. SameBodies /\ call'[c] = Idle /\ \A d \in Callers : d # c => call'[d] = call[d]
  BY <1>1, <1>3, <1>9, BodiesAlone
<1>11. EntriesFit' /\ WorkFits' /\ UsersExact' /\ ResidentExact' /\ SameKeys
  BY <1>3, <1>10, ExpertsAlone
<1>12. Idle.at \notin Holding \cup {"load", "body", "clear", "close"} \cup Owning
  BY <1>9, States
<1>13. CallsFit'
  BY <1>1, <1>3, <1>5, <1>9, <1>12, OneCall
<1>14. BytesFit'
  BY <1>1, <1>3, <1>9, <1>10, <1>11, BytesKept DEF SameKeys
<1>15. /\ DOMAIN regions' = Layers /\ regions'[l] = w /\ \A m \in Layers : m # l => regions'[m] = regions[m]
  BY <1>1, <1>3, <1>6 DEF RegionsFit
<1>16. \A d \in Callers : (d # c => call[d].at \notin Owning) /\ call'[d].at \notin Owning
  BY <1>5, <1>10, <1>12, States
<1>17. \A j \in DOMAIN entry : j \in Keys /\ Owns(j, entry[j].offset) /\ (LayerOf[j] = l => entry[j].offset # o)
  <2>1. \A j \in DOMAIN entry : j \in Keys
    BY <1>1, ElementOfSeq DEF EntriesFit, ToSet
  <2>2. QED
    BY <1>1, <1>2, <1>4, <2>1 DEF RegionsFit
<1>18. \A j \in DOMAIN entry : Owns(j, entry[j].offset)'
  <2> SUFFICES ASSUME NEW j \in DOMAIN entry PROVE Owns(j, entry[j].offset)'
    OBVIOUS
  <2>1. LayerOf[j] \in Layers
    BY <1>17, KeyFacts
  <2>2. CASE LayerOf[j] = l
    <3>1. entry[j].offset \in DOMAIN r.allocated \ {o} /\ r.allocated[entry[j].offset] = SizeOf[j]
      BY <1>2, <1>17, <2>2 DEF Owns
    <3>2. entry[j].offset \in DOMAIN w.allocated /\ w.allocated[entry[j].offset] = SizeOf[j]
      BY <1>8, <3>1
    <3>3. QED
      BY <1>3, <1>15, <2>2, <3>2 DEF Owns
  <2>3. CASE LayerOf[j] # l
    BY <1>3, <1>15, <1>17, <2>1, <2>3 DEF Owns
  <2>4. QED
    BY <2>2, <2>3
<1>19. RegionsFit'
  <2>1. \A m \in Layers : RegionOK(regions'[m], Quota[m], BaseOf(m))
    BY <1>1, <1>8, <1>15 DEF RegionsFit
  <2>2. \A m \in Layers : \A p \in DOMAIN regions'[m].allocated : Owned(m, p)'
    <3> SUFFICES ASSUME NEW m \in Layers, NEW p \in DOMAIN regions'[m].allocated PROVE Owned(m, p)'
      OBVIOUS
    <3>1. p \in DOMAIN regions[m].allocated /\ ~(m = l /\ p = o)
      BY <1>2, <1>8, <1>15
    <3>2. PICK j \in DOMAIN entry : LayerOf[j] = m /\ entry[j].offset = p
      <4>1. Owned(m, p)
        BY <1>1, <3>1 DEF RegionsFit
      <4>2. ASSUME NEW d \in Callers, call[d].at \in Owning, LayerOf[call[d].key] = m, call[d].offset = p PROVE FALSE
        BY <1>2, <1>16, <3>1, <4>2
      <4>3. QED
        BY <4>1, <4>2 DEF Owned
    <3>3. QED
      BY <1>11, <3>2 DEF Owned, SameKeys
  <2>3. \A j \in DOMAIN entry' : Owns(j, entry[j].offset)'
    BY <1>3, <1>18
  <2>4. \A i, j \in DOMAIN entry' : i # j /\ LayerOf[i] = LayerOf[j] => entry'[i].offset # entry'[j].offset
    BY <1>1, <1>3 DEF RegionsFit
  <2>5. QED
    BY <1>15, <1>16, <2>1, <2>2, <2>3, <2>4 DEF RegionsFit
<1>20. QED
  BY <1>11, <1>13, <1>14, <1>19 DEF CacheInv

LEMMA ClearBeginKeeps ==
    ASSUME CacheInv, NEW c \in Callers, NEW last \in {"clear", "close"}, ClearBegin(c, last)
    PROVE  CacheInv'
<1>1. CallsFit /\ RegionsFit /\ BytesFit
  BY DEF CacheInv
<1>2. /\ lock = Nobody /\ lock' = c /\ call[c].at = "idle" /\ \A k \in DOMAIN entry : entry[k].users = 0
      /\ call' = [call EXCEPT ![c].at = last] /\ UNCHANGED <<regions, entries, entry, resident, arena, work>>
  BY DEF ClearBegin, Set, Idle
<1>3. PICK v : v = GoesOn(c, last, call[c].offset, call[c].left)
  OBVIOUS
<1>4. v \in Call /\ call' = [call EXCEPT ![c] = v]
  <2>1. last \in Holding
    BY DEF Holding
  <2>2. QED
    BY <1>1, <1>2, <1>3, <2>1, CallGoesOn
<1>5. v.at = last
  BY <1>3 DEF GoesOn
<1>6. v.at \in Holding /\ v.at \notin {"load", "body", "idle", "sync"} \cup Owning
  BY <1>5 DEF Holding, Owning
<1>7. SameBodies /\ call'[c] = v /\ \A d \in Callers : d # c => call'[d] = call[d]
  BY <1>1, <1>2, <1>4, <1>6, BodiesAlone, ZenonT(40)
<1>8. EntriesFit' /\ WorkFits' /\ UsersExact' /\ ResidentExact' /\ SameKeys
  BY <1>2, <1>7, ExpertsAlone
<1>9. CallsFit'
  BY <1>1, <1>2, <1>4, <1>6, OneCall, ZenonT(40)
<1>10. SameOwners
  BY <1>2, <1>6, <1>7, States DEF SameOwners
<1>11. RegionsFit'
  BY <1>1, <1>2, <1>8, <1>10, RegionsKept
<1>12. BytesFit'
  BY <1>1, <1>2, <1>6, <1>7, <1>8, BytesKept DEF SameKeys
<1>13. QED
  BY <1>8, <1>9, <1>11, <1>12 DEF CacheInv

LEMMA ClearEndKeeps ==
    ASSUME CacheInv, NEW c \in Callers, ClearEnd(c)
    PROVE  CacheInv'
<1>1. CallsFit /\ EntriesFit /\ RegionsFit /\ BytesFit
  BY DEF CacheInv
<1>2. /\ lock' = Nobody /\ call[c].at \in {"clear", "close"} /\ entries = <<>> /\ call' = [call EXCEPT ![c] = Idle]
      /\ UNCHANGED <<regions, entries, entry, resident, work>> /\ DOMAIN arena' = Arena
  BY <1>1 DEF ClearEnd, BytesFit
<1>3. call[c].at \in Holding /\ call[c].at \notin {"body"} \cup Owning
  BY <1>2 DEF Holding, Owning
<1>4. lock = c /\ \A d \in Callers : d # c => call[d].at \in {"idle", "body"}
  BY <1>1, <1>3, OneHolder
<1>5. Idle \in Call /\ Idle.at = "idle"
  BY DEF Idle, Call
<1>6. SameBodies /\ call'[c] = Idle /\ \A d \in Callers : d # c => call'[d] = call[d]
  BY <1>1, <1>2, <1>3, <1>5, BodiesAlone
<1>7. EntriesFit' /\ WorkFits' /\ UsersExact' /\ ResidentExact' /\ SameKeys
  BY <1>2, <1>6, ExpertsAlone
<1>8. Idle.at \notin Holding \cup {"load", "body", "clear", "close"} \cup Owning
  BY <1>5, States
<1>9. CallsFit'
  BY <1>1, <1>2, <1>4, <1>5, <1>8, OneCall
<1>10. SameOwners
  BY <1>3, <1>6, <1>8 DEF SameOwners
<1>11. RegionsFit'
  BY <1>1, <1>2, <1>7, <1>10, RegionsKept
<1>12. BytesFit'
  <2>1. DOMAIN entry' = {}
    BY <1>1, <1>2, EmptyElements DEF EntriesFit
  <2>2. \A d \in Callers : call'[d].at # "sync"
    BY <1>4, <1>5, <1>6
  <2>3. QED
    BY <1>2, <2>1, <2>2 DEF BytesFit
<1>13. QED
  BY <1>7, <1>9, <1>11, <1>12 DEF CacheInv

\* The keys of the resident experts.
LEMMA ResidentKeys ==
    ASSUME EntriesFit
    PROVE  \A k \in DOMAIN entry : /\ k \in Keys /\ k \in ToSet(entries) /\ entry[k] \in Entry
                                   /\ entry[k].offset \in Nat /\ entry[k].users \in Nat
                                   /\ entry[k].events \in SUBSET Events
<1> SUFFICES ASSUME NEW k \in DOMAIN entry
             PROVE  /\ k \in Keys /\ k \in ToSet(entries) /\ entry[k] \in Entry
                    /\ entry[k].offset \in Nat /\ entry[k].users \in Nat /\ entry[k].events \in SUBSET Events
  OBVIOUS
<1>1. k \in ToSet(entries) /\ k \in Keys
  BY ElementOfSeq DEF EntriesFit, ToSet
<1>2. entry[k] \in Entry
  BY DEF EntriesFit
<1>3. QED
  BY <1>1, <1>2, EntryFacts

\* Evicting an expert without users whose events are done: no kernel reads it any more.
LEMMA EvictKeeps ==
    ASSUME CacheInv, NEW k \in DOMAIN entry, entry[k].users = 0, Evict(k), UNCHANGED <<lock, arena, work, call>>
    PROVE  CacheInv'
<1>1. CallsFit /\ EntriesFit /\ RegionsFit /\ BytesFit /\ WorkFits /\ UsersExact /\ ResidentExact
  BY DEF CacheInv
<1>2. \A j \in DOMAIN entry : j \in Keys /\ j \in ToSet(entries)
  BY <1>1, ResidentKeys
<1>3. PICK l, r, o, w : l = LayerOf[k] /\ r = regions[l] /\ o = entry[k].offset /\ w = Release(r, o)
  OBVIOUS
<1>4. /\ regions' = [regions EXCEPT ![l] = w] /\ resident' = resident - SizeOf[k] /\ entries' = Without(k)
      /\ entry' = [j \in DOMAIN entry \ {k} |-> entry[j]] /\ \A e \in entry[k].events : Done(e)
      /\ lock' = lock /\ arena' = arena /\ work' = work /\ call' = call
  BY <1>3 DEF Evict
<1>5. DOMAIN entry' = DOMAIN entry \ {k} /\ \A j \in DOMAIN entry' : j \in DOMAIN entry /\ j # k /\ entry'[j] = entry[j]
  BY <1>4
<1>6. CallsFit'
  BY <1>1, <1>4, <1>5, Idle' = Idle DEF CallsFit
<1>7. EntriesFit'
  <2>1. entries' \in Seq(Keys) /\ IsInjective(entries') /\ ToSet(entries') = ToSet(entries) \ {k}
    BY <1>1, <1>2, <1>4, WithoutFits DEF EntriesFit
  <2>2. entry' \in [DOMAIN entry' -> Entry]
    BY <1>1, <1>4, <1>5 DEF EntriesFit
  <2>3. QED
    BY <1>1, <1>5, <2>1, <2>2 DEF EntriesFit
<1>8. ResidentExact'
  <2>1. PICK t : t = Without(k)
    OBVIOUS
  <2>2. SumOf(Sizes(entries)) = SumOf(Sizes(t)) + SizeOf[k] /\ SumOf(Sizes(t)) \in Nat /\ SizeOf[k] \in Nat
    BY <1>1, <1>2, <2>1, WithoutFits, KeyFacts DEF EntriesFit
  <2>3. resident = SumOf(Sizes(entries))
    BY <1>1 DEF ResidentExact, Sizes
  <2>4. resident' = SumOf(Sizes(entries'))
    BY <1>4, <2>1, <2>2, <2>3
  <2>5. QED
    BY <2>4 DEF ResidentExact, Sizes
<1>9. BytesFit'
  BY <1>1, <1>4, <1>5, BytesKept
<1>10. Leases(k) = {}
  <2>1. IsFiniteSet(Leases(k)) /\ Cardinality(Leases(k)) = 0
    BY <1>1, <1>2, UsersAre
  <2>2. QED
    BY <2>1, FS_EmptySet
<1>11. UsersExact'
  <2>1. \A j : Leases(j)' = Leases(j)
    BY <1>4 DEF Leases
  <2>2. \A j \in Keys : IF j \in DOMAIN entry' THEN entry'[j].users = Cardinality(Leases(j)') ELSE Leases(j)' = {}
    BY <1>1, <1>5, <1>10, <2>1, UsersAre
  <2>3. QED
    BY <2>2 DEF UsersExact, Leases
<1>12. WorkFits'
  <2> SUFFICES ASSUME NEW s \in Streams, NEW i \in DOMAIN work[s]
               PROVE  work[s][i] \in DOMAIN entry' /\ Guarded(work[s][i], s, i)'
    BY <1>1, <1>4 DEF WorkFits
  <2>1. work[s][i] \in DOMAIN entry /\ Guarded(work[s][i], s, i) /\ i \in Nat /\ i >= 1
    BY <1>1, LenProperties DEF WorkFits
  <2>2. work[s][i] # k
    <3> SUFFICES ASSUME work[s][i] = k PROVE FALSE
      OBVIOUS
    <3>1. \A c \in Callers : ~(call[c].at = "body" /\ call[c].key = k)
      BY <1>10 DEF Leases
    <3>2. \A e \in entry[k].events : ~(e.left >= i)
      BY <1>4, <2>1 DEF Done
    <3>3. QED
      BY <2>1, <3>1, <3>2 DEF Guarded
  <2>3. QED
    BY <1>4, <1>5, <2>1, <2>2 DEF Guarded
<1>13. l \in Layers /\ Owns(k, o) /\ o \in DOMAIN r.allocated
  BY <1>1, <1>2, <1>3, KeyFacts DEF RegionsFit, Owns
<1>14. /\ RegionOK(w, Quota[l], BaseOf(l)) /\ DOMAIN w.allocated = DOMAIN r.allocated \ {o}
       /\ \A p \in DOMAIN r.allocated \ {o} : w.allocated[p] = r.allocated[p]
  <2>1. PICK size, base : size = Quota[l] /\ base = BaseOf(l)
    OBVIOUS
  <2>2. RegionOK(r, size, base) /\ size \in Nat /\ base \in Nat
    BY <1>1, <1>3, <1>13, <2>1, LayerBases DEF RegionsFit
  <2>3. /\ RegionOK(Release(r, o), size, base) /\ DOMAIN Release(r, o).allocated = DOMAIN r.allocated \ {o}
        /\ \A p \in DOMAIN r.allocated \ {o} : Release(r, o).allocated[p] = r.allocated[p]
    BY <1>13, <2>2, ReleaseFits
  <2>4. QED
    BY <1>3, <2>1, <2>3
<1>15. /\ DOMAIN regions' = Layers /\ regions'[l] = w /\ \A m \in Layers : m # l => regions'[m] = regions[m]
  BY <1>1, <1>4, <1>13 DEF RegionsFit
<1>16. \A j \in Keys : \A p : Owns(j, p) /\ (LayerOf[j] = l => p # o) => Owns(j, p)'
  <2> SUFFICES ASSUME NEW j \in Keys, NEW p, Owns(j, p), LayerOf[j] = l => p # o PROVE Owns(j, p)'
    OBVIOUS
  <2>1. LayerOf[j] \in Layers
    BY KeyFacts
  <2>2. CASE LayerOf[j] = l
    <3>1. p \in DOMAIN r.allocated \ {o} /\ r.allocated[p] = SizeOf[j]
      BY <1>3, <2>2 DEF Owns
    <3>2. p \in DOMAIN w.allocated /\ w.allocated[p] = SizeOf[j]
      BY <1>14, <3>1
    <3>3. QED
      BY <1>15, <2>2, <3>2 DEF Owns
  <2>3. CASE LayerOf[j] # l
    BY <1>15, <2>1, <2>3 DEF Owns
  <2>4. QED
    BY <2>2, <2>3
<1>17. RegionsFit'
  <2>1. \A m \in Layers : RegionOK(regions'[m], Quota[m], BaseOf(m))
    BY <1>1, <1>14, <1>15 DEF RegionsFit
  <2>2. \A m \in Layers : \A p \in DOMAIN regions'[m].allocated : Owned(m, p)'
    <3> SUFFICES ASSUME NEW m \in Layers, NEW p \in DOMAIN regions'[m].allocated PROVE Owned(m, p)'
      OBVIOUS
    <3>1. p \in DOMAIN regions[m].allocated /\ ~(m = l /\ p = o)
      BY <1>3, <1>14, <1>15
    <3>2. Owned(m, p)
      BY <1>1, <3>1 DEF RegionsFit
    <3>3. CASE \E j \in DOMAIN entry : LayerOf[j] = m /\ entry[j].offset = p
      <4>1. PICK j \in DOMAIN entry : LayerOf[j] = m /\ entry[j].offset = p
        BY <3>3
      <4>2. j # k
        BY <1>3, <3>1, <4>1
      <4>3. QED
        BY <1>5, <4>1, <4>2 DEF Owned
    <3>4. CASE \E d \in Callers : call[d].at \in Owning /\ LayerOf[call[d].key] = m /\ call[d].offset = p
      BY <1>4, <3>4 DEF Owned
    <3>5. QED
      BY <3>2, <3>3, <3>4 DEF Owned
  <2>3. \A j \in DOMAIN entry' : Owns(j, entry[j].offset)'
    <3> SUFFICES ASSUME NEW j \in DOMAIN entry' PROVE Owns(j, entry[j].offset)'
      OBVIOUS
    <3>1. j \in Keys /\ Owns(j, entry[j].offset) /\ (LayerOf[j] = l => entry[j].offset # o) /\ entry'[j] = entry[j]
      BY <1>1, <1>2, <1>3, <1>5 DEF RegionsFit
    <3>2. QED
      BY <1>16, <3>1
  <2>4. \A i, j \in DOMAIN entry' : i # j /\ LayerOf[i] = LayerOf[j] => entry'[i].offset # entry'[j].offset
    BY <1>1, <1>5 DEF RegionsFit
  <2>5. \A d \in Callers : call'[d].at \in Owning =>
           /\ Owns(call[d].key, call[d].offset)'
           /\ \A j \in DOMAIN entry' : LayerOf[j] = LayerOf[call'[d].key] => entry'[j].offset # call'[d].offset
    <3> SUFFICES ASSUME NEW d \in Callers, call[d].at \in Owning
                 PROVE  /\ Owns(call[d].key, call[d].offset)'
                        /\ \A j \in DOMAIN entry' : LayerOf[j] = LayerOf[call'[d].key] => entry'[j].offset # call'[d].offset
      BY <1>4
    <3>1. call[d].key \in Keys
      BY <1>1 DEF CallsFit
    <3>2. /\ Owns(call[d].key, call[d].offset)
          /\ \A j \in DOMAIN entry : LayerOf[j] = LayerOf[call[d].key] => entry[j].offset # call[d].offset
      BY <1>1 DEF RegionsFit
    <3>3. LayerOf[call[d].key] = l => call[d].offset # o
      BY <1>3, <3>2
    <3>4. Owns(call[d].key, call[d].offset)'
      BY <1>4, <1>16, <3>1, <3>2, <3>3
    <3>5. QED
      BY <1>4, <1>5, <3>2, <3>4
  <2>6. QED
    BY <1>15, <2>1, <2>2, <2>3, <2>4, <2>5 DEF RegionsFit
<1>18. QED
  BY <1>6, <1>7, <1>8, <1>9, <1>11, <1>12, <1>17 DEF CacheInv

LEMMA LoadEvictKeeps ==
    ASSUME CacheInv, NEW c \in Callers, LoadEvict(c)
    PROVE  CacheInv'
<1>1. EntriesFit
  BY DEF CacheInv
<1>2. PICK k, T : k = Candidate(call[c].key) /\ T = Candidates(call[c].key)
  OBVIOUS
<1>3. Evict(k) /\ T # {} /\ UNCHANGED <<lock, arena, work, call>>
  BY <1>2 DEF LoadEvict
<1>4. Len(entries) \in Nat /\ DOMAIN entries = 1..Len(entries)
  BY <1>1, LenProperties DEF EntriesFit
<1>5. T \in SUBSET (1..Len(entries)) /\ \A i \in T : entry[entries[i]].users = 0
  BY <1>2, <1>4 DEF Candidates
<1>6. PICK i : i = CHOOSE x \in T : \A j \in T : x <= j
  OBVIOUS
<1>7. i \in T
  BY <1>3, <1>4, <1>5, <1>6, MinIn
<1>8. k = entries[i]
  BY <1>2, <1>6 DEF Candidate
<1>9. k \in DOMAIN entry /\ entry[k].users = 0
  BY <1>1, <1>4, <1>5, <1>7, <1>8 DEF EntriesFit, ToSet
<1>10. QED
  BY <1>3, <1>9, EvictKeeps

LEMMA ClearEvictKeeps ==
    ASSUME CacheInv, NEW c \in Callers, ClearEvict(c)
    PROVE  CacheInv'
<1>1. CallsFit /\ EntriesFit
  BY DEF CacheInv
<1>2. PICK k : k = Head(entries)
  OBVIOUS
<1>3. Evict(k) /\ entries # <<>> /\ call[c].at \in {"clear", "close"} /\ UNCHANGED <<lock, arena, work, call>>
  BY <1>2 DEF ClearEvict
<1>4. k \in DOMAIN entry
  <2>1. entries \in Seq(Keys) /\ ToSet(entries) = DOMAIN entry
    BY <1>1 DEF EntriesFit
  <2>2. Len(entries) \in Nat /\ DOMAIN entries = 1..Len(entries) /\ Len(entries) > 0 /\ k = entries[1]
    BY <1>2, <1>3, <2>1, LenProperties, EmptySeq, HeadTailProperties
  <2>3. QED
    BY <2>1, <2>2 DEF ToSet
<1>5. entry[k].users = 0
  BY <1>1, <1>3, <1>4 DEF CallsFit
<1>6. QED
  BY <1>3, <1>4, <1>5, EvictKeeps

\* A load that ends well: its expert is resident and leased to the caller.
LEMMA LoadDoneKeeps ==
    ASSUME CacheInv, NEW c \in Callers, LoadDone(c)
    PROVE  CacheInv'
<1>1. CallsFit /\ EntriesFit /\ RegionsFit /\ BytesFit /\ WorkFits /\ UsersExact /\ ResidentExact
  BY DEF CacheInv
<1>2. PICK k, o, x : k = call[c].key /\ o = call[c].offset /\ x = [offset |-> o, users |-> 1, events |-> {}]
  OBVIOUS
<1>3. /\ lock' = Nobody /\ call[c].at = "sync" /\ call' = [call EXCEPT ![c].at = "body"]
      /\ entries' = Append(entries, k) /\ resident' = resident + SizeOf[k]
      /\ entry' = [j \in DOMAIN entry \cup {k} |-> IF j = k THEN x ELSE entry[j]]
      /\ regions' = regions /\ arena' = arena /\ work' = work
  BY <1>2 DEF LoadDone, Set
<1>4. call[c].at \in Owning /\ call[c].at \in Holding /\ call[c].at # "body"
  BY <1>3 DEF Owning, Holding
<1>5. lock = c /\ \A d \in Callers : d # c => call[d].at \in {"idle", "body"}
  BY <1>1, <1>4, OneHolder
<1>6. k \in Keys /\ call[c].stream \in Streams /\ k \notin DOMAIN entry /\ o \in Nat
  <2>1. call[c] \in Call
    BY <1>1 DEF CallsFit
  <2>2. QED
    BY <1>1, <1>2, <1>4, <2>1, CallFacts DEF CallsFit
<1>7. PICK v : v = GoesOn(c, "body", call[c].offset, call[c].left)
  OBVIOUS
<1>8. v \in Call /\ call' = [call EXCEPT ![c] = v]
  BY <1>1, <1>3, <1>7, CallGoesOn
<1>9. v.at = "body" /\ v.key = k /\ v.stream = call[c].stream
  BY <1>2, <1>7 DEF GoesOn
<1>10. call'[c] = v /\ \A d \in Callers : d # c => call'[d] = call[d]
  BY <1>1, <1>8 DEF CallsFit
<1>11. v.at \notin Holding \cup {"idle", "load", "clear", "close"} \cup Owning
  BY <1>9 DEF Holding, Owning
<1>12. x \in Entry /\ x.offset = o /\ x.users = 1 /\ x.events = {}
  BY <1>2, <1>6 DEF Entry
<1>13. /\ DOMAIN entry' = DOMAIN entry \cup {k} /\ entry'[k] = x
       /\ \A j \in DOMAIN entry : j # k /\ entry'[j] = entry[j]
  BY <1>3, <1>6
<1>14. CallsFit'
  BY <1>1, <1>3, <1>5, <1>6, <1>8, <1>9, <1>11, OneCall
<1>15. EntriesFit'
  <2>1. entries \in Seq(Keys) /\ IsInjective(entries) /\ k \notin ToSet(entries)
    BY <1>1, <1>6 DEF EntriesFit
  <2>2. /\ Append(entries, k) \in Seq(Keys) /\ ToSet(Append(entries, k)) = ToSet(entries) \cup {k}
        /\ IsInjective(Append(entries, k))
    BY <1>6, <2>1, AppendElement
  <2>3. \A j \in DOMAIN entry' : entry'[j] \in Entry
    BY <1>1, <1>12, <1>13 DEF EntriesFit
  <2>4. entry' \in [DOMAIN entry' -> Entry]
    BY <1>3, <2>3
  <2>5. QED
    BY <1>1, <1>3, <1>13, <2>2, <2>4 DEF EntriesFit
<1>16. ResidentExact'
  <2>1. entries \in Seq(Keys)
    BY <1>1 DEF EntriesFit
  <2>2. SumOf(Sizes(Append(entries, k))) = SumOf(Sizes(entries)) + SizeOf[k]
    BY <1>6, <2>1, AppendSize
  <2>3. resident' = SumOf(Sizes(entries'))
    BY <1>1, <1>3, <2>2 DEF ResidentExact, Sizes
  <2>4. QED
    BY <2>3 DEF ResidentExact, Sizes
<1>17. UsersExact'
  <2>1. Leases(k) = {}
    BY <1>1, <1>6, UsersAre
  <2>2. Leases(k)' = {c} /\ \A j : j # k => Leases(j)' = Leases(j)
    BY <1>4, <1>9, <1>10, <2>1 DEF Leases
  <2>3. Cardinality(Leases(k)') = 1
    BY <2>2, FS_Singleton
  <2>4. \A j \in Keys : IF j \in DOMAIN entry' THEN entry'[j].users = Cardinality(Leases(j)') ELSE Leases(j)' = {}
    <3> SUFFICES ASSUME NEW j \in Keys
                 PROVE  IF j \in DOMAIN entry' THEN entry'[j].users = Cardinality(Leases(j)') ELSE Leases(j)' = {}
      OBVIOUS
    <3>1. CASE j = k
      BY <1>12, <1>13, <2>3, <3>1
    <3>2. CASE j # k
      BY <1>1, <1>13, <2>2, <3>2, UsersAre
    <3>3. QED
      BY <3>1, <3>2
  <2>5. QED
    BY <2>4 DEF UsersExact, Leases
<1>18. WorkFits'
  <2>1. \A j \in DOMAIN entry : \A e \in entry[j].events : e.left > 0 => e \in entry'[j].events
    BY <1>13
  <2>2. \A d \in Callers : call[d].at = "body" =>
           call'[d].at = "body" /\ call'[d].key = call[d].key /\ call'[d].stream = call[d].stream
    BY <1>4, <1>10
  <2>3. DOMAIN entry \subseteq DOMAIN entry'
    BY <1>13
  <2>4. QED
    BY <1>1, <1>3, <2>1, <2>2, <2>3, WorkKept
<1>19. BytesFit'
  <2>1. \A j \in DOMAIN entry' : \A b \in RangeOf(j)' : arena'[b] = j
    <3> SUFFICES ASSUME NEW j \in DOMAIN entry', NEW b \in RangeOf(j)' PROVE arena'[b] = j
      OBVIOUS
    <3>1. b \in Bytes(entry'[j].offset, SizeOf[j])
      BY DEF RangeOf
    <3>2. CASE j = k
      <4>1. b \in Bytes(o, SizeOf[k])
        BY <1>12, <1>13, <3>1, <3>2
      <4>2. QED
        BY <1>1, <1>2, <1>3, <3>2, <4>1 DEF BytesFit
    <3>3. CASE j # k
      <4>1. j \in DOMAIN entry /\ b \in RangeOf(j)
        BY <1>13, <3>1, <3>3 DEF RangeOf
      <4>2. QED
        BY <1>1, <1>3, <4>1 DEF BytesFit
    <3>4. QED
      BY <3>2, <3>3
  <2>2. \A d \in Callers : call'[d].at # "sync"
    BY <1>5, <1>9, <1>10
  <2>3. QED
    BY <1>1, <1>3, <2>1, <2>2 DEF BytesFit
<1>20. Owns(k, o) /\ \A j \in DOMAIN entry : LayerOf[j] = LayerOf[k] => entry[j].offset # o
  BY <1>1, <1>2, <1>4 DEF RegionsFit
<1>21. RegionsFit'
  <2>1. \A l \in Layers : RegionOK(regions'[l], Quota[l], BaseOf(l))
    BY <1>1, <1>3 DEF RegionsFit
  <2>2. \A l \in Layers : \A p \in DOMAIN regions'[l].allocated : Owned(l, p)'
    <3> SUFFICES ASSUME NEW l \in Layers, NEW p \in DOMAIN regions'[l].allocated PROVE Owned(l, p)'
      OBVIOUS
    <3>1. Owned(l, p)
      BY <1>1, <1>3 DEF RegionsFit
    <3>2. CASE \E j \in DOMAIN entry : LayerOf[j] = l /\ entry[j].offset = p
      BY <1>13, <3>2 DEF Owned
    <3>3. CASE \E d \in Callers : call[d].at \in Owning /\ LayerOf[call[d].key] = l /\ call[d].offset = p
      <4>1. LayerOf[k] = l /\ o = p
        BY <1>2, <1>5, <3>3, States
      <4>2. k \in DOMAIN entry' /\ entry'[k].offset = p
        BY <1>12, <1>13, <4>1
      <4>3. QED
        BY <4>1, <4>2 DEF Owned
    <3>4. QED
      BY <3>1, <3>2, <3>3 DEF Owned
  <2>3. \A j \in DOMAIN entry' : Owns(j, entry[j].offset)'
    <3> SUFFICES ASSUME NEW j \in DOMAIN entry' PROVE Owns(j, entry[j].offset)'
      OBVIOUS
    <3>1. CASE j = k
      BY <1>3, <1>12, <1>13, <1>20, <3>1 DEF Owns
    <3>2. CASE j # k
      <4>1. j \in DOMAIN entry /\ entry'[j] = entry[j]
        BY <1>13, <3>2
      <4>2. QED
        BY <1>1, <1>3, <4>1 DEF RegionsFit, Owns
    <3>3. QED
      BY <3>1, <3>2
  <2>4. \A i, j \in DOMAIN entry' : i # j /\ LayerOf[i] = LayerOf[j] => entry'[i].offset # entry'[j].offset
    BY <1>1, <1>12, <1>13, <1>20 DEF RegionsFit
  <2>5. \A d \in Callers : call'[d].at \notin Owning
    BY <1>5, <1>10, <1>11, States
  <2>6. QED
    BY <1>1, <1>3, <2>1, <2>2, <2>3, <2>4, <2>5 DEF RegionsFit
<1>22. QED
  BY <1>14, <1>15, <1>16, <1>17, <1>18, <1>19, <1>21 DEF CacheInv

\* Lease bodies: a kernel enqueued under a lease is guarded by it, ...
LEMMA EnqueueKeeps ==
    ASSUME CacheInv, NEW c \in Callers, Enqueue(c)
    PROVE  CacheInv'
<1>1. CallsFit /\ EntriesFit /\ RegionsFit /\ BytesFit /\ WorkFits /\ UsersExact /\ ResidentExact
  BY DEF CacheInv
<1>2. PICK k, s, q : k = call[c].key /\ s = call[c].stream /\ q = work[s]
  OBVIOUS
<1>3. /\ call[c].at = "body" /\ work' = [work EXCEPT ![s] = Append(q, k)]
      /\ UNCHANGED <<lock, closed, regions, entries, entry, resident, arena, call>>
  BY <1>2 DEF Enqueue
<1>4. k \in Keys /\ s \in Streams
  BY <1>1, <1>2, <1>3 DEF CallsFit
<1>5. k \in DOMAIN entry
  <2>1. c \in Leases(k)
    BY <1>2, <1>3 DEF Leases
  <2>2. QED
    BY <1>1, <1>4, <2>1, UsersAre
<1>6. q \in Seq(Keys) /\ Len(q) \in Nat /\ DOMAIN q = 1..Len(q)
  BY <1>1, <1>2, <1>4, LenProperties DEF WorkFits
<1>7. PICK a : a = Append(q, k)
  OBVIOUS
<1>8. a \in Seq(Keys) /\ DOMAIN a = 1..(Len(q) + 1) /\ a[Len(q) + 1] = k /\ \A i \in 1..Len(q) : a[i] = q[i]
  BY <1>4, <1>6, <1>7, AppendProperties, LenProperties
<1>9. work' \in [Streams -> Seq(Keys)] /\ work'[s] = a /\ \A t \in Streams : t # s => work'[t] = work[t]
  BY <1>1, <1>3, <1>4, <1>7, <1>8 DEF WorkFits
<1>10. WorkFits'
  <2> SUFFICES ASSUME NEW t \in Streams, NEW i \in DOMAIN work'[t]
               PROVE  work'[t][i] \in DOMAIN entry /\ Guarded(work'[t][i], t, i)
    <3>1. \A j, t, i : Guarded(j, t, i)' = Guarded(j, t, i)
      BY <1>3 DEF Guarded
    <3>2. QED
      BY <1>3, <1>9, <3>1 DEF WorkFits
  <2>1. CASE i \in DOMAIN work[t] /\ work'[t][i] = work[t][i]
    BY <1>1, <2>1 DEF WorkFits
  <2>2. CASE t = s /\ i = Len(q) + 1
    <3>1. work'[t][i] = k
      BY <1>8, <1>9, <2>2
    <3>2. Guarded(k, t, i)
      BY <1>2, <1>3, <2>2 DEF Guarded
    <3>3. QED
      BY <1>5, <3>1, <3>2
  <2>3. CASE t = s /\ i # Len(q) + 1
    <3>1. i \in 1..Len(q)
      BY <1>6, <1>8, <1>9, <2>3
    <3>2. QED
      BY <1>2, <1>6, <1>8, <1>9, <2>1, <2>3, <3>1
  <2>4. CASE t # s
    BY <1>9, <2>1, <2>4
  <2>5. QED
    BY <2>2, <2>3, <2>4
<1>11. CallsFit' /\ EntriesFit' /\ ResidentExact' /\ UsersExact'
  BY <1>1, <1>3, Idle' = Idle DEF CallsFit, EntriesFit, ResidentExact, UsersExact
<1>12. SameKeys /\ SameOwners /\ \A j \in DOMAIN entry' : entry'[j].offset = entry[j].offset
  BY <1>3 DEF SameKeys, SameOwners
<1>13. RegionsFit'
  BY <1>1, <1>3, <1>12, RegionsKept
<1>14. BytesFit'
  BY <1>1, <1>3, <1>12, BytesKept
<1>15. QED
  BY <1>10, <1>11, <1>13, <1>14 DEF CacheInv

\* ... and by the event the lease leaves behind all of them when it ends.
LEMMA LeaseEndKeeps ==
    ASSUME CacheInv, NEW c \in Callers, LeaseEnd(c)
    PROVE  CacheInv'
<1>1. CallsFit /\ EntriesFit /\ RegionsFit /\ BytesFit /\ WorkFits /\ UsersExact /\ ResidentExact
  BY DEF CacheInv
<1>2. PICK k, s : k = call[c].key /\ s = call[c].stream
  OBVIOUS
<1>3. PICK ev, n : ev = EventOn(s) /\ n = Len(work[s])
  OBVIOUS
<1>4. /\ lock = Nobody /\ lock' = lock /\ call[c].at = "body" /\ call' = [call EXCEPT ![c] = Idle]
      /\ entry' = [entry EXCEPT ![k].events = @ \cup {ev}, ![k].users = @ - 1]
      /\ UNCHANGED <<regions, entries, resident, arena, work>>
  BY <1>2, <1>3 DEF LeaseEnd
<1>5. k \in Keys /\ s \in Streams
  BY <1>1, <1>2, <1>4 DEF CallsFit
<1>6. c \in Leases(k) /\ k \in DOMAIN entry
  <2>1. c \in Leases(k)
    BY <1>2, <1>4 DEF Leases
  <2>2. QED
    BY <1>1, <1>5, <2>1, UsersAre
<1>7. n \in Nat /\ ev = [stream |-> s, left |-> n] /\ ev \in Events /\ DOMAIN work[s] = 1..n
  <2>1. n \in Nat /\ DOMAIN work[s] = 1..n
    BY <1>1, <1>3, <1>5, LenProperties DEF WorkFits
  <2>2. ev = [stream |-> s, left |-> n]
    BY <1>3 DEF EventOn
  <2>3. QED
    BY <1>5, <2>1, <2>2 DEF Events
<1>8. ev.stream = s /\ ev.left = n
  BY <1>7
<1>9. PICK T : T = Leases(k)
  OBVIOUS
<1>10. /\ IsFiniteSet(T) /\ c \in T /\ entry[k].users = Cardinality(T) /\ entry[k].users \in Nat
       /\ Cardinality(T \ {c}) = entry[k].users - 1 /\ entry[k].users - 1 \in Nat
  <2>1. IsFiniteSet(T) /\ c \in T /\ entry[k].users = Cardinality(T)
    BY <1>1, <1>5, <1>6, <1>9, UsersAre
  <2>2. IsFiniteSet(T \ {c}) /\ Cardinality(T \ {c}) = Cardinality(T) - 1
    BY <2>1, FS_RemoveElement
  <2>3. Cardinality(T \ {c}) \in Nat /\ Cardinality(T) \in Nat
    BY <2>1, <2>2, FS_CardinalityType
  <2>4. QED
    BY <2>1, <2>2, <2>3
<1>11. entry[k] \in Entry /\ entry[k].events \in SUBSET Events /\ entry[k].offset \in Nat
  BY <1>1, <1>6, ResidentKeys
<1>12. PICK x : x = [offset |-> entry[k].offset, users |-> entry[k].users - 1, events |-> entry[k].events \cup {ev}]
  OBVIOUS
<1>13. /\ x \in Entry /\ x.offset = entry[k].offset /\ x.users = entry[k].users - 1
       /\ x.events = entry[k].events \cup {ev}
  BY <1>7, <1>10, <1>11, <1>12 DEF Entry
<1>14. DOMAIN entry' = DOMAIN entry /\ entry'[k] = x /\ \A j \in DOMAIN entry : j # k => entry'[j] = entry[j]
  <2>1. PICK y, z : y = entry[k].events \cup {ev} /\ z = entry[k].users - 1
    OBVIOUS
  <2>2. PICK o, u, e : o = entry[k].offset /\ u = entry[k].users /\ e = entry[k].events
    OBVIOUS
  <2>3. entry[k] = [offset |-> o, users |-> u, events |-> e] /\ x = [offset |-> o, users |-> z, events |-> y]
    BY <1>11, <1>12, <2>1, <2>2, EntryFacts
  <2>4. [entry[k] EXCEPT !.events = y] = [offset |-> o, users |-> u, events |-> y]
    BY <2>3, EntryEdits
  <2>5. [[offset |-> o, users |-> u, events |-> y] EXCEPT !.users = z] = x
    BY <2>3, EntryEdits
  <2>6. [[entry[k] EXCEPT !.events = y] EXCEPT !.users = z] = x
    BY <2>4, <2>5
  <2>7. entry' = [entry EXCEPT ![k].events = y, ![k].users = @ - 1]
    BY <1>4, <2>1
  <2>8. QED
    BY <1>6, <1>11, <2>1, <2>6, <2>7 DEF Entry
<1>15. entry' \in [DOMAIN entry' -> Entry]
  <2>1. entry' = [j \in DOMAIN entry' |-> entry'[j]]
    BY <1>4
  <2>2. \A j \in DOMAIN entry' : entry'[j] \in Entry
    BY <1>1, <1>13, <1>14 DEF EntriesFit
  <2>3. QED
    BY <2>1, <2>2
<1>16. \A d \in Callers : call[d].at \in {"idle", "body"}
  BY <1>1, <1>4, NoHolder
<1>17. Idle \in Call /\ Idle.at = "idle" /\ Idle.at \notin Holding \cup {"load", "body", "clear", "close"} \cup Owning
  <2>1. Idle \in Call /\ Idle.at = "idle"
    BY DEF Idle, Call
  <2>2. QED
    BY <2>1, States
<1>18. call'[c] = Idle /\ \A d \in Callers : d # c => call'[d] = call[d]
  BY <1>1, <1>4 DEF CallsFit
<1>19. CallsFit'
  <2>1. call[c].at \notin Holding
    BY <1>16, States
  <2>2. QED
    BY <1>1, <1>4, <1>16, <1>17, <2>1, OneCall
<1>20. EntriesFit' /\ ResidentExact'
  BY <1>1, <1>4, <1>14, <1>15 DEF EntriesFit, ResidentExact
<1>21. SameKeys
  BY <1>13, <1>14 DEF SameKeys
<1>22. \A d \in Callers : call'[d].at \notin Owning /\ call[d].at \notin Owning
  BY <1>16, <1>17, <1>18, States
<1>23. RegionsFit'
  BY <1>1, <1>4, <1>21, <1>22, RegionsKept DEF SameOwners
<1>24. BytesFit'
  <2>1. \A d \in Callers : call'[d].at # "sync"
    BY <1>22 DEF Owning
  <2>2. QED
    BY <1>1, <1>4, <1>14, <1>21, <2>1, BytesKept DEF SameKeys
<1>25. UsersExact'
  <2>1. Leases(k)' = T \ {c} /\ \A j : j # k => Leases(j)' = Leases(j)
    BY <1>2, <1>9, <1>17, <1>18 DEF Leases
  <2>2. \A j \in Keys : IF j \in DOMAIN entry' THEN entry'[j].users = Cardinality(Leases(j)') ELSE Leases(j)' = {}
    <3> SUFFICES ASSUME NEW j \in Keys
                 PROVE  IF j \in DOMAIN entry' THEN entry'[j].users = Cardinality(Leases(j)') ELSE Leases(j)' = {}
      OBVIOUS
    <3>1. CASE j = k
      BY <1>6, <1>10, <1>13, <1>14, <2>1, <3>1
    <3>2. CASE j # k
      BY <1>1, <1>14, <2>1, <3>2, UsersAre
    <3>3. QED
      BY <3>1, <3>2
  <2>3. QED
    BY <2>2 DEF UsersExact, Leases
<1>26. WorkFits'
  <2> SUFFICES ASSUME NEW t \in Streams, NEW i \in DOMAIN work[t], NEW j, j = work[t][i]
               PROVE  j \in DOMAIN entry' /\ Guarded(j, t, i)'
    BY <1>1, <1>4 DEF WorkFits
  <2>1. j \in DOMAIN entry /\ Guarded(j, t, i)
    BY <1>1 DEF WorkFits
  <2>2. ASSUME NEW e \in entry[j].events, e.stream = t, e.left >= i
        PROVE  Guarded(j, t, i)'
    <3>1. e \in entry'[j].events
      BY <1>13, <1>14, <2>1
    <3>2. QED
      BY <2>2, <3>1 DEF Guarded
  <2>3. ASSUME NEW d \in Callers, d # c, call[d].at = "body", call[d].key = j, call[d].stream = t
        PROVE  Guarded(j, t, i)'
    BY <1>18, <2>3 DEF Guarded
  <2>4. ASSUME k = j, s = t
        PROVE  Guarded(j, t, i)'
    <3>1. i \in 1..n
      BY <1>7, <2>4
    <3>2. ev \in entry'[k].events /\ ev.stream = t /\ ev.left >= i
      BY <1>7, <1>8, <1>13, <1>14, <2>4, <3>1
    <3>3. QED
      BY <2>4, <3>2 DEF Guarded
  <2>5. Guarded(j, t, i)'
    BY <1>2, <2>1, <2>2, <2>3, <2>4 DEF Guarded
  <2>6. QED
    BY <1>14, <2>1, <2>5
<1>27. QED
  BY <1>19, <1>20, <1>23, <1>24, <1>25, <1>26 DEF CacheInv

\* A kernel has finished: an event or a call that counts is one kernel nearer.
LEMMA AdvanceEvent ==
    ASSUME NEW e \in Events, NEW s
    PROVE  /\ Advance(e, s) \in Events /\ Advance(e, s).stream = e.stream
           /\ Advance(e, s).left = IF e.stream = s /\ e.left > 0 THEN e.left - 1 ELSE e.left
<1>1. PICK t \in Streams, n \in Nat : e = [stream |-> t, left |-> n]
  BY DEF Events
<1>2. PICK m : m = IF t = s /\ n > 0 THEN n - 1 ELSE n
  OBVIOUS
<1>3. m \in Nat
  BY <1>2
<1>4. Advance(e, s) = [stream |-> t, left |-> m]
  BY <1>1, <1>2 DEF Advance
<1>5. QED
  BY <1>1, <1>2, <1>3, <1>4 DEF Events

LEMMA AdvanceCall ==
    ASSUME NEW v \in Call, NEW s
    PROVE  /\ Advance(v, s) \in Call /\ Advance(v, s).at = v.at /\ Advance(v, s).key = v.key
           /\ Advance(v, s).stream = v.stream /\ Advance(v, s).offset = v.offset
           /\ v.left = 0 => Advance(v, s) = v
<1>1. PICK a, k, t, o, l : a = v.at /\ k = v.key /\ t = v.stream /\ o = v.offset /\ l = v.left
  OBVIOUS
<1>2. /\ v = [at |-> a, key |-> k, stream |-> t, offset |-> o, left |-> l]
      /\ a \in Holding \cup {"idle", "body"} /\ k \in Keys \cup {Nobody} /\ t \in Streams \cup {Nobody}
      /\ o \in Nat /\ l \in Nat
  BY <1>1, CallFacts
<1>3. PICK m : m = IF t = s /\ l > 0 THEN l - 1 ELSE l
  OBVIOUS
<1>4. m \in Nat
  BY <1>2, <1>3
<1>5. Advance(v, s) = [at |-> a, key |-> k, stream |-> t, offset |-> o, left |-> m]
  <2>1. Advance(v, s) = [v EXCEPT !.left = m]
    BY <1>1, <1>2, <1>3 DEF Advance
  <2>2. QED
    BY <1>2, <2>1, CallEdits
<1>6. l = 0 => m = l
  BY <1>3
<1>7. [at |-> a, key |-> k, stream |-> t, offset |-> o, left |-> m] \in Call
  BY <1>2, <1>4 DEF Call
<1>8. v.left = 0 => Advance(v, s) = v
  BY <1>1, <1>2, <1>5, <1>6
<1>9. QED
  BY <1>1, <1>5, <1>7, <1>8

LEMMA GpuFinishKeeps ==
    ASSUME CacheInv, NEW s \in Streams, GpuFinish(s)
    PROVE  CacheInv'
<1>1. CallsFit /\ EntriesFit /\ RegionsFit /\ BytesFit /\ WorkFits /\ UsersExact /\ ResidentExact
  BY DEF CacheInv
<1>2. PICK q, r : q = work[s] /\ r = Tail(q)
  OBVIOUS
<1>3. /\ q # <<>> /\ work' = [work EXCEPT ![s] = r] /\ call' = [c \in Callers |-> Advance(call[c], s)]
      /\ UNCHANGED <<lock, regions, entries, resident, arena>>
  BY <1>2 DEF GpuFinish
<1>4. /\ q \in Seq(Keys) /\ Len(q) \in Nat /\ r \in Seq(Keys) /\ Len(r) = Len(q) - 1
      /\ DOMAIN q = 1..Len(q) /\ DOMAIN r = 1..Len(r) /\ \A i \in 1..Len(r) : r[i] = q[i + 1]
  <2>1. q \in Seq(Keys)
    BY <1>1, <1>2 DEF WorkFits
  <2>2. QED
    BY <1>2, <1>3, <2>1, HeadTailProperties, LenProperties
<1>5. \A c \in Callers :
         /\ call'[c] \in Call /\ call'[c].at = call[c].at /\ call'[c].key = call[c].key
         /\ call'[c].stream = call[c].stream /\ call'[c].offset = call[c].offset
         /\ call[c].left = 0 => call'[c] = call[c]
  <2> SUFFICES ASSUME NEW c \in Callers
               PROVE  /\ call'[c] \in Call /\ call'[c].at = call[c].at /\ call'[c].key = call[c].key
                      /\ call'[c].stream = call[c].stream /\ call'[c].offset = call[c].offset
                      /\ call[c].left = 0 => call'[c] = call[c]
    OBVIOUS
  <2>1. call[c] \in Call /\ call'[c] = Advance(call[c], s)
    BY <1>1, <1>3 DEF CallsFit
  <2>2. QED
    BY <2>1, AdvanceCall
<1>6. DOMAIN entry' = DOMAIN entry
  BY DEF GpuFinish
<1>7. \A k \in DOMAIN entry :
         /\ entry'[k] \in Entry /\ entry'[k].offset = entry[k].offset /\ entry'[k].users = entry[k].users
         /\ entry'[k].events = {Advance(e, s) : e \in entry[k].events}
  <2> SUFFICES ASSUME NEW k \in DOMAIN entry
               PROVE  /\ entry'[k] \in Entry /\ entry'[k].offset = entry[k].offset
                      /\ entry'[k].users = entry[k].users
                      /\ entry'[k].events = {Advance(e, s) : e \in entry[k].events}
    OBVIOUS
  <2>1. PICK o, u, E, F : /\ o = entry[k].offset /\ u = entry[k].users /\ E = entry[k].events
                          /\ F = {Advance(e, s) : e \in E}
    OBVIOUS
  <2>2. /\ entry[k] = [offset |-> o, users |-> u, events |-> E] /\ o \in Nat /\ u \in Nat /\ E \in SUBSET Events
    BY <1>1, <2>1, ResidentKeys, EntryFacts
  <2>3. F \in SUBSET Events
    BY <2>1, <2>2, AdvanceEvent
  <2>4. entry'[k] = [entry[k] EXCEPT !.events = F]
    BY <2>1 DEF GpuFinish
  <2>5. entry'[k] = [offset |-> o, users |-> u, events |-> F]
    BY <2>2, <2>4, EntryEdits
  <2>6. entry'[k] \in Entry
    BY <2>2, <2>3, <2>5 DEF Entry
  <2>7. QED
    BY <2>1, <2>5, <2>6
<1>8. CallsFit'
  <2>1. call' \in [Callers -> Call]
    BY <1>3, <1>5
  <2>2. \A c \in Callers : call[c].at = "idle" => call'[c] = Idle
    BY <1>1, <1>5 DEF CallsFit, Idle
  <2>3. \A c \in Callers :
          /\ call'[c].at = "idle" => call'[c] = Idle
          /\ call'[c].at \in {"load", "body"} \cup Owning => call'[c].key \in Keys /\ call'[c].stream \in Streams
          /\ call'[c].at \in Holding <=> lock' = c
          /\ call'[c].at \in {"load"} \cup Owning => call'[c].key \notin DOMAIN entry'
          /\ call'[c].at \in {"clear", "close"} => \A k \in DOMAIN entry' : entry'[k].users = 0
    <3> SUFFICES ASSUME NEW c \in Callers
                 PROVE  /\ call'[c].at = "idle" => call'[c] = Idle
                        /\ call'[c].at \in {"load", "body"} \cup Owning =>
                              call'[c].key \in Keys /\ call'[c].stream \in Streams
                        /\ call'[c].at \in Holding <=> lock' = c
                        /\ call'[c].at \in {"load"} \cup Owning => call'[c].key \notin DOMAIN entry'
                        /\ call'[c].at \in {"clear", "close"} => \A k \in DOMAIN entry' : entry'[k].users = 0
      OBVIOUS
    <3>1. call'[c].at = call[c].at /\ call'[c].key = call[c].key /\ call'[c].stream = call[c].stream
      BY <1>5
    <3>2. /\ call[c].at \in {"load", "body"} \cup Owning => call[c].key \in Keys /\ call[c].stream \in Streams
          /\ call[c].at \in Holding <=> lock = c
          /\ call[c].at \in {"load"} \cup Owning => call[c].key \notin DOMAIN entry
          /\ call[c].at \in {"clear", "close"} => \A k \in DOMAIN entry : entry[k].users = 0
      BY <1>1 DEF CallsFit
    <3>3. call[c].at \in {"clear", "close"} => \A k \in DOMAIN entry' : entry'[k].users = 0
      BY <1>6, <1>7, <3>2
    <3>4. QED
      BY <1>3, <1>6, <2>2, <3>1, <3>2, <3>3
  <2>4. QED
    BY <2>1, <2>3, Idle' = Idle DEF CallsFit
<1>9. EntriesFit' /\ ResidentExact'
  <2>1. entry' = [k \in DOMAIN entry' |-> entry'[k]]
    BY <1>6 DEF GpuFinish
  <2>2. entry' \in [DOMAIN entry' -> Entry]
    BY <1>6, <1>7, <2>1
  <2>3. QED
    BY <1>1, <1>3, <1>6, <2>2 DEF EntriesFit, ResidentExact
<1>10. SameKeys /\ SameOwners /\ SameBodies
  BY <1>5, <1>6, <1>7 DEF SameKeys, SameOwners, SameBodies
<1>11. RegionsFit'
  BY <1>1, <1>3, <1>10, RegionsKept
<1>12. BytesFit'
  BY <1>1, <1>3, <1>5, <1>6, <1>7, BytesKept
<1>13. UsersExact'
  BY <1>1, <1>6, <1>7, <1>10, UsersKept
<1>14. work' \in [Streams -> Seq(Keys)] /\ work'[s] = r /\ \A t \in Streams : t # s => work'[t] = work[t]
  BY <1>1, <1>3, <1>4 DEF WorkFits
<1>15. WorkFits'
  <2> SUFFICES ASSUME NEW t \in Streams, NEW i \in DOMAIN work'[t], NEW j, j = work'[t][i]
               PROVE  j \in DOMAIN entry' /\ Guarded(j, t, i)'
    BY <1>14 DEF WorkFits
  <2>1. PICK p : p = IF t = s THEN i + 1 ELSE i
    OBVIOUS
  <2>2. i \in Nat /\ i >= 1 /\ p \in DOMAIN work[t] /\ j = work[t][p]
    <3>1. CASE t = s
      <4>1. i \in 1..Len(r) /\ p = i + 1
        BY <1>4, <1>14, <2>1, <3>1
      <4>2. p \in 1..Len(q) /\ q[p] = r[i] /\ i \in Nat /\ i >= 1
        BY <1>4, <4>1
      <4>3. QED
        BY <1>2, <1>4, <1>14, <3>1, <4>2
    <3>2. CASE t # s
      <4>1. i \in DOMAIN work[t] /\ p = i /\ work'[t] = work[t]
        BY <1>14, <2>1, <3>2
      <4>2. i \in Nat /\ i >= 1
        BY <1>1, <4>1, LenProperties DEF WorkFits
      <4>3. QED
        BY <4>1, <4>2
    <3>3. QED
      BY <3>1, <3>2
  <2>3. j \in DOMAIN entry /\ Guarded(j, t, p)
    BY <1>1, <2>2 DEF WorkFits
  <2>4. ASSUME NEW e \in entry[j].events, e.stream = t, e.left >= p
        PROVE  Guarded(j, t, i)'
    <3>1. e \in Events /\ e.left \in Nat
      <4>1. e \in Events
        BY <1>1, <2>3, ResidentKeys
      <4>2. QED
        BY <4>1 DEF Events
    <3>2. PICK f : f = Advance(e, s)
      OBVIOUS
    <3>3. f.stream = t /\ f.left = IF t = s /\ e.left > 0 THEN e.left - 1 ELSE e.left
      BY <2>4, <3>1, <3>2, AdvanceEvent
    <3>4. f.left >= i
      BY <2>1, <2>2, <2>4, <3>1, <3>3
    <3>5. f \in entry'[j].events
      BY <1>7, <2>3, <3>2
    <3>6. QED
      BY <3>3, <3>4, <3>5 DEF Guarded
  <2>5. ASSUME NEW d \in Callers, call[d].at = "body", call[d].key = j, call[d].stream = t
        PROVE  Guarded(j, t, i)'
    BY <1>5, <2>5 DEF Guarded
  <2>6. Guarded(j, t, i)'
    BY <2>3, <2>4, <2>5 DEF Guarded
  <2>7. QED
    BY <1>6, <2>3, <2>6
<1>16. QED
  BY <1>8, <1>9, <1>11, <1>12, <1>13, <1>15 DEF CacheInv

LEMMA CacheNext == CacheInv /\ [Next]_vars => CacheInv'
<1> SUFFICES ASSUME CacheInv, [Next]_vars PROVE CacheInv'
  OBVIOUS
<1>1. CASE UNCHANGED vars
  BY <1>1, Idle' = Idle
     DEF CacheInv, vars, CallsFit, EntriesFit, RegionsFit, BytesFit, WorkFits, UsersExact, ResidentExact,
         Owns, Owned, RangeOf, Guarded
<1>2. ASSUME NEW c \in Callers, NEW k \in Keys, NEW s \in Streams, LeaseHit(c, k, s) \/ LeaseMiss(c, k, s)
      PROVE  CacheInv'
  BY <1>2, LeaseHitKeeps, LeaseMissKeeps
<1>3. ASSUME NEW c \in Callers, Load(c) PROVE CacheInv'
  BY <1>3, LoadEvictKeeps, LoadBusyKeeps, LoadAllocateKeeps, LoadCopyKeeps, LoadDoneKeeps, LoadFailKeeps,
     LoadUndoKeeps DEF Load
<1>4. ASSUME NEW c \in Callers, Enqueue(c) \/ LeaseEnd(c) PROVE CacheInv'
  BY <1>4, EnqueueKeeps, LeaseEndKeeps
<1>5. ASSUME NEW c \in Callers, Clear(c) PROVE CacheInv'
  BY <1>5, ClearEvictKeeps, ClearEndKeeps DEF Clear
<1>6. ASSUME NEW c \in Callers, NEW last \in {"clear", "close"}, ClearBegin(c, last) PROVE CacheInv'
  BY <1>6, ClearBeginKeeps
<1>7. ASSUME NEW s \in Streams, GpuFinish(s) PROVE CacheInv'
  BY <1>7, GpuFinishKeeps
<1>8. QED
  BY <1>1, <1>2, <1>3, <1>4, <1>5, <1>6, <1>7 DEF Next

\* Calls, entries, regions, bytes, kernels and user counts of the cache agree with each other in every
\* reachable state (expert_cache.py).
THEOREM CacheCorrect == Spec => []CacheInv
<1>1. CacheInv /\ [Next]_vars => CacheInv'
  BY CacheNext
<1>2. QED
  BY <1>1, CacheInit, PTL DEF Spec

-----------------------------------------------------------------------------
(* What the invariant says.                                                *)

LEMMA AccountsFit == CacheInv => AccountsExact
<1> SUFFICES ASSUME CacheInv PROVE AccountsExact
  OBVIOUS
<1>1. RegionsFit /\ UsersExact /\ ResidentExact
  BY DEF CacheInv
<1>2. ASSUME NEW l \in Layers
      PROVE  DOMAIN regions[l].allocated =
                {entry[k].offset : k \in {j \in DOMAIN entry : LayerOf[j] = l}} \cup
                {call[c].offset : c \in {d \in Callers : /\ call[d].at \in {"copy", "sync", "undo"}
                                                         /\ LayerOf[call[d].key] = l}}
  <2>1. \A o \in DOMAIN regions[l].allocated :
           \/ \E k \in DOMAIN entry : LayerOf[k] = l /\ entry[k].offset = o
           \/ \E c \in Callers : call[c].at \in Owning /\ LayerOf[call[c].key] = l /\ call[c].offset = o
    BY <1>1 DEF RegionsFit, Owned
  <2>2. \A k \in DOMAIN entry : LayerOf[k] = l => entry[k].offset \in DOMAIN regions[l].allocated
    BY <1>1 DEF RegionsFit, Owns
  <2>3. \A c \in Callers : call[c].at \in Owning /\ LayerOf[call[c].key] = l =>
           call[c].offset \in DOMAIN regions[l].allocated
    BY <1>1 DEF RegionsFit, Owns
  <2>4. PICK E, C : /\ E = {entry[k].offset : k \in {j \in DOMAIN entry : LayerOf[j] = l}}
                    /\ C = {call[c].offset : c \in {d \in Callers : /\ call[d].at \in {"copy", "sync", "undo"}
                                                                    /\ LayerOf[call[d].key] = l}}
    OBVIOUS
  <2>5. \A o : o \in E <=> \E k \in DOMAIN entry : LayerOf[k] = l /\ entry[k].offset = o
    BY <2>4
  <2>6. \A o : o \in C <=> \E c \in Callers : call[c].at \in Owning /\ LayerOf[call[c].key] = l /\ call[c].offset = o
    BY <2>4 DEF Owning
  <2>7. DOMAIN regions[l].allocated = E \cup C
    BY <2>1, <2>2, <2>3, <2>5, <2>6
  <2>8. QED
    BY <2>4, <2>7
<1>3. \A l \in Layers : Partition(regions[l], Quota[l], BaseOf(l))
  BY <1>1 DEF RegionsFit, RegionOK
<1>4. ArenaAccounted
  BY <1>1, <1>2, <1>3 DEF ArenaAccounted, ResidentExact
<1>5. QED
  BY <1>1, <1>4 DEF AccountsExact

LEMMA BusyFits == CacheInv => BusyOnlyIfLeased
<1> SUFFICES ASSUME CacheInv, NEW c \in Callers, call[c].at = "load", Candidates(call[c].key) = {},
                    ~CanAllocate(RegionOf(call[c].key), SizeOf[call[c].key]),
                    \A k \in DOMAIN entry : LayerOf[k] = LayerOf[call[c].key] => ~(entry[k].users > 0)
             PROVE  FALSE
  BY DEF BusyOnlyIfLeased
<1>1. CallsFit /\ EntriesFit /\ RegionsFit
  BY DEF CacheInv
<1>2. PICK l : l = LayerOf[call[c].key]
  OBVIOUS
<1>3. call[c].key \in Keys /\ l \in Layers /\ SizeOf[call[c].key] \in Nat
      /\ Aligned(SizeOf[call[c].key]) = SizeOf[call[c].key] /\ SizeOf[call[c].key] <= Quota[l]
  BY <1>1, <1>2, KeyFacts DEF CallsFit
\* whatever is resident in the layer is idle, and there is no candidate: nothing is resident there
<1>4. \A k \in DOMAIN entry : LayerOf[k] # l
  <2> SUFFICES ASSUME NEW k \in DOMAIN entry, LayerOf[k] = l PROVE FALSE
    OBVIOUS
  <2>1. k \in ToSet(entries) /\ entry[k].users \in Nat
    BY <1>1, ResidentKeys
  <2>2. entry[k].users = 0
    BY <1>2, <2>1
  <2>3. PICK i \in DOMAIN entries : entries[i] = k
    BY <2>1 DEF ToSet
  <2>4. i \in Candidates(call[c].key)
    BY <1>2, <2>2, <2>3 DEF Candidates
  <2>5. QED
    BY <2>4
\* c has the lock and no range yet, so no other load has one
<1>5. \A d \in Callers : call[d].at \notin Owning
  <2>1. \A d \in Callers : d # c => call[d].at \in {"idle", "body"}
    BY <1>1, States, OneHolder
  <2>2. QED
    BY <2>1, States
<1>6. PICK r, size, base : r = regions[l] /\ size = Quota[l] /\ base = BaseOf(l)
  OBVIOUS
<1>7. DOMAIN r.allocated = {}
  BY <1>1, <1>3, <1>4, <1>5, <1>6 DEF RegionsFit, Owned
<1>8. RegionOK(r, size, base) /\ size \in Nat \ {0} /\ base \in Nat
  BY <1>1, <1>3, <1>6, LayerBases DEF RegionsFit
<1>9. CanAllocate(r, SizeOf[call[c].key])
  BY <1>3, <1>6, <1>7, <1>8, WholeFree
<1>10. QED
  BY <1>2, <1>6, <1>9 DEF RegionOf

\* No byte and no user of an expert goes unaccounted, whatever loads fail, are refused or evict others
\* (expert_cache.py, _load, _evict and lease).
THEOREM AccountsKept == Spec => []AccountsExact
BY CacheCorrect, AccountsFit, PTL

\* The range of a resident expert is its own, and a kernel finds the expert it was enqueued for, on
\* whichever stream its lease was taken (expert_cache.py, the events of lease and _evict).
THEOREM KernelsSafe == Spec => []NoReuseUnderKernel
<1>1. CacheInv => NoReuseUnderKernel
  BY DEF CacheInv, BytesFit, WorkFits, NoReuseUnderKernel
<1>2. QED
  BY <1>1, CacheCorrect, PTL

\* A load gives up only if an expert of its layer is leased: runs that touch are always merged, so an
\* empty region is one run and fits any record (expert_store.py, Regions; expert_cache.py, _load).
THEOREM RefusedOnlyIfLeased == Spec => []BusyOnlyIfLeased
BY CacheCorrect, BusyFits, PTL

\* What the invariant leaves open of the types.
Places == lock \in Callers \cup {Nobody} /\ closed \in BOOLEAN /\ arena \in [Arena -> Keys \cup {Nobody}]

LEMMA PlacesKept == CacheInv /\ Places /\ [Next]_vars => Places'
<1> SUFFICES ASSUME CacheInv, Places, [Next]_vars PROVE Places'
  OBVIOUS
<1>1. CASE UNCHANGED vars
  BY <1>1 DEF Places, vars
<1>2. ASSUME NEW c \in Callers, NEW k \in Keys, NEW s \in Streams, LeaseHit(c, k, s) \/ LeaseMiss(c, k, s)
      PROVE  Places'
  BY <1>2 DEF Places, LeaseHit, LeaseMiss
<1>3. ASSUME NEW c \in Callers, LoadCopy(c) PROVE Places'
  <2>1. call[c].key \in Keys
    BY <1>3 DEF CacheInv, CallsFit, LoadCopy, Owning
  <2>2. QED
    BY <1>3, <2>1 DEF Places, LoadCopy
<1>4. ASSUME NEW c \in Callers, Load(c), ~LoadCopy(c) PROVE Places'
  BY <1>4 DEF Places, Load, LoadEvict, LoadBusy, LoadAllocate, LoadDone, LoadFail, LoadUndo
<1>5. ASSUME NEW c \in Callers, Enqueue(c) \/ LeaseEnd(c) PROVE Places'
  BY <1>5 DEF Places, Enqueue, LeaseEnd
<1>6. ASSUME NEW c \in Callers, Clear(c) PROVE Places'
  BY <1>6 DEF Places, Clear, ClearEvict, ClearEnd
<1>7. ASSUME NEW c \in Callers, NEW last \in {"clear", "close"}, ClearBegin(c, last) PROVE Places'
  BY <1>7 DEF Places, ClearBegin
<1>8. ASSUME NEW s \in Streams, GpuFinish(s) PROVE Places'
  BY <1>8 DEF Places, GpuFinish
<1>9. QED
  BY <1>1, <1>2, <1>3, <1>4, <1>5, <1>6, <1>7, <1>8 DEF Next

\* Every variable of the cache has its type: an expert lies in the arena, and no more callers use it than
\* there are (expert_cache.py).
THEOREM CacheTyped == Spec => []TypeOK
<1>1. Init => Places
  BY DEF Init, Places
<1>2. CacheInv /\ Places => TypeOK
  <2> SUFFICES ASSUME CacheInv, Places PROVE TypeOK
    OBVIOUS
  <2>1. EntriesFit /\ RegionsFit /\ WorkFits /\ UsersExact
    BY DEF CacheInv
  <2>2. ASSUME NEW k \in DOMAIN entry
        PROVE  k \in Keys /\ entry[k].offset \in Arena /\ entry[k].users \in 0..Cardinality(Callers)
    <3>1. k \in Keys /\ entry[k].users \in Nat
      BY <2>1, ResidentKeys
    <3>2. Owns(k, entry[k].offset)
      BY <2>1 DEF RegionsFit
    <3>3. entry[k].offset \in Arena
      BY <2>1, <3>1, <3>2, RangeInArena
    <3>4. PICK T : T = Leases(k)
      OBVIOUS
    <3>5. entry[k].users = Cardinality(T) /\ T \subseteq Callers
      BY <2>1, <3>1, <3>4, UsersAre
    <3>6. Cardinality(T) <= Cardinality(Callers) /\ Cardinality(Callers) \in Nat
      BY <3>5, CallersAssumption, FS_Subset, FS_CardinalityType
    <3>7. QED
      BY <3>1, <3>3, <3>5, <3>6
  <2>3. QED
    BY <2>1, <2>2 DEF TypeOK, Places, EntriesFit, WorkFits
<1>3. QED
  BY <1>1, <1>2, CacheInit, CacheNext, PlacesKept, PTL DEF Spec

=============================================================================
