---------------------------- MODULE ServeProofs ----------------------------
(* What two parts of the serving process answer, for any table and requests and  *)
(* for any layer and batches: the n-gram row cache serves the original bytes of  *)
(* the rows asked for, and the dispatch computes every route of a batch once, by *)
(* its expert, at the bit widths of its trellises.                               *)
EXTENDS EngramRows, MoeDispatch, Inductions

Item == [row : Rows, owned : BOOLEAN]
\* the rows a request owns
Owned(request) == {request[i].row : i \in {j \in DOMAIN request : request[j].owned}}

-----------------------------------------------------------------------------
(* The folds.                                                              *)

\* h holds the values that a fold goes through: each read row enters the cache,
Inserts(h, rows, s) ==
    /\ h \in [0..Len(s) -> Seq(Rows)] /\ h[0] = rows
    /\ \A i \in 1..Len(s) : i - 1 \in 0..Len(s) /\ h[i] = Insert(h[i - 1], s[i])
\* the rows of s that are in S are kept,
Selects(h, s, S) ==
    /\ h \in [0..Len(s) -> Seq(Rows)] /\ h[0] = <<>>
    /\ \A i \in 1..Len(s) : /\ i - 1 \in 0..Len(s)
                            /\ h[i] = IF s[i] \in S THEN Append(h[i - 1], s[i]) ELSE h[i - 1]
\* the owned rows of a request are collected once each.
Collects(h, s) ==
    /\ h \in [0..Len(s) -> Seq(Rows)] /\ h[0] = <<>>
    /\ \A i \in 1..Len(s) : /\ i - 1 \in 0..Len(s)
                            /\ h[i] = IF s[i].owned /\ ~Contains(h[i - 1], s[i].row)
                                      THEN Append(h[i - 1], s[i].row) ELSE h[i - 1]

\* Those goes through the sequence, one row at a time.
LEMMA ThoseRun ==
    ASSUME NEW S, NEW s \in Seq(Rows)
    PROVE  \E h : Selects(h, s, S) /\ Those(s, S) = h[Len(s)]
<1> DEFINE n == Len(s)
           Op(kept, r) == IF r \in S THEN Append(kept, r) ELSE kept
           V == Seq(Rows)
           G == [i \in 1..n |-> [v \in V |-> Op(v, s[i])]]
           base == <<>>
           iter == CHOOSE f : f = [t \in SUBSET (DOMAIN s) |->
                                     IF t = {} THEN base ELSE Op(f[t \ {Max(t)}], s[Max(t)])]
<1>1. n \in Nat /\ DOMAIN s = 1..n /\ base \in V /\ \A i \in 1..n : s[i] \in Rows
  BY LenProperties, ElementOfSeq
<1>2. \A v \in V, i \in 1..n : Op(v, s[i]) \in V
  BY <1>1, AppendProperties
<1>3. Those(s, S) = iter[DOMAIN s]
  BY DEF Those, FoldLeft, MapThenFoldSet
<1> HIDE DEF n, Op, V, base
<1>4. G \in [1..n -> [V -> V]] /\ \A v \in V, i \in 1..n : G[i][v] = Op(v, s[i])
  BY <1>2
<1> HIDE DEF G
<1>5. PICK f : Unfolds(f, V, base, n, G)
  BY <1>1, <1>4, FoldSolution
<1>6. ASSUME NEW t \in SUBSET (1..n), t # {} PROVE f[t] = Op(f[t \ {Max(t)}], s[Max(t)])
  <2>1. Max(t) \in 1..n /\ f[t \ {Max(t)}] \in V
    BY <1>1, <1>5, <1>6, MaxIn DEF Unfolds
  <2>2. QED
    BY <1>4, <1>5, <1>6, <2>1 DEF Unfolds
<1>7. f = [t \in SUBSET (1..n) |-> IF t = {} THEN base ELSE Op(f[t \ {Max(t)}], s[Max(t)])]
  BY <1>5, <1>6 DEF Unfolds
<1>8. iter = [t \in SUBSET (1..n) |-> IF t = {} THEN base ELSE Op(iter[t \ {Max(t)}], s[Max(t)])]
  BY <1>1, <1>7
<1> HIDE DEF iter
<1>9. iter[{}] = base /\ \A i \in 1..n : iter[1..i] = Op(iter[1..(i - 1)], s[i])
  <2>1. iter[{}] = base
    BY <1>8
  <2>2. ASSUME NEW i \in 1..n PROVE iter[1..i] = Op(iter[1..(i - 1)], s[i])
    <3>1. 1..i \in SUBSET (1..n) /\ 1..i # {} /\ Max(1..i) = i /\ (1..i) \ {Max(1..i)} = 1..(i - 1)
      BY <1>1, UpTo
    <3>2. QED
      BY <1>8, <3>1
  <2>3. QED
    BY <2>1, <2>2
<1>10. PICK h : RunsThrough(h, V, base, n, G) /\ h[n] = iter[1..n]
  <2>1. Iterates(iter, V, base, n, G)
    BY <1>4, <1>9 DEF Iterates
  <2>2. QED
    BY <1>1, <1>4, <2>1, FoldRun
<1>11. \A i \in 1..n : i - 1 \in 0..n /\ h[i - 1] \in V /\ h[i] = Op(h[i - 1], s[i])
  BY <1>1, <1>4, <1>10, UpTo DEF RunsThrough
<1>12. h \in [0..n -> V] /\ h[0] = base /\ Those(s, S) = h[n]
  BY <1>1, <1>3, <1>10 DEF RunsThrough
<1>13. Selects(h, s, S)
  BY <1>11, <1>12 DEF n, V, Op, base, Selects
<1>14. QED
  BY <1>12, <1>13 DEF n

\* Keys goes through the request, one item at a time.
LEMMA KeysRun ==
    ASSUME NEW s \in Seq(Item)
    PROVE  \E h : Collects(h, s) /\ Keys(s) = h[Len(s)]
<1> DEFINE n == Len(s)
           Op(keys, item) == IF item.owned /\ ~Contains(keys, item.row) THEN Append(keys, item.row) ELSE keys
           V == Seq(Rows)
           G == [i \in 1..n |-> [v \in V |-> Op(v, s[i])]]
           base == <<>>
           iter == CHOOSE f : f = [t \in SUBSET (DOMAIN s) |->
                                     IF t = {} THEN base ELSE Op(f[t \ {Max(t)}], s[Max(t)])]
<1>1. n \in Nat /\ DOMAIN s = 1..n /\ base \in V /\ \A i \in 1..n : s[i] \in Item
  BY LenProperties, ElementOfSeq
<1>2. \A v \in V, i \in 1..n : Op(v, s[i]) \in V
  <2> SUFFICES ASSUME NEW v \in V, NEW i \in 1..n PROVE Op(v, s[i]) \in V
    OBVIOUS
  <2>1. s[i].row \in Rows
    BY <1>1 DEF Item
  <2>2. QED
    BY <2>1, AppendElement
<1>3. Keys(s) = iter[DOMAIN s]
  BY DEF Keys, FoldLeft, MapThenFoldSet
<1> HIDE DEF n, Op, V, base
<1>4. G \in [1..n -> [V -> V]] /\ \A v \in V, i \in 1..n : G[i][v] = Op(v, s[i])
  BY <1>2
<1> HIDE DEF G
<1>5. PICK f : Unfolds(f, V, base, n, G)
  BY <1>1, <1>4, FoldSolution
<1>6. ASSUME NEW t \in SUBSET (1..n), t # {} PROVE f[t] = Op(f[t \ {Max(t)}], s[Max(t)])
  <2>1. Max(t) \in 1..n /\ f[t \ {Max(t)}] \in V
    BY <1>1, <1>5, <1>6, MaxIn DEF Unfolds
  <2>2. QED
    BY <1>4, <1>5, <1>6, <2>1 DEF Unfolds
<1>7. f = [t \in SUBSET (1..n) |-> IF t = {} THEN base ELSE Op(f[t \ {Max(t)}], s[Max(t)])]
  BY <1>5, <1>6 DEF Unfolds
<1>8. iter = [t \in SUBSET (1..n) |-> IF t = {} THEN base ELSE Op(iter[t \ {Max(t)}], s[Max(t)])]
  BY <1>1, <1>7
<1> HIDE DEF iter
<1>9. iter[{}] = base /\ \A i \in 1..n : iter[1..i] = Op(iter[1..(i - 1)], s[i])
  <2>1. iter[{}] = base
    BY <1>8
  <2>2. ASSUME NEW i \in 1..n PROVE iter[1..i] = Op(iter[1..(i - 1)], s[i])
    <3>1. 1..i \in SUBSET (1..n) /\ 1..i # {} /\ Max(1..i) = i /\ (1..i) \ {Max(1..i)} = 1..(i - 1)
      BY <1>1, UpTo
    <3>2. QED
      BY <1>8, <3>1
  <2>3. QED
    BY <2>1, <2>2
<1>10. PICK h : RunsThrough(h, V, base, n, G) /\ h[n] = iter[1..n]
  <2>1. Iterates(iter, V, base, n, G)
    BY <1>4, <1>9 DEF Iterates
  <2>2. QED
    BY <1>1, <1>4, <2>1, FoldRun
<1>11. \A i \in 1..n : i - 1 \in 0..n /\ h[i - 1] \in V /\ h[i] = Op(h[i - 1], s[i])
  BY <1>1, <1>4, <1>10, UpTo DEF RunsThrough
<1>12. h \in [0..n -> V] /\ h[0] = base /\ Keys(s) = h[n]
  BY <1>1, <1>3, <1>10 DEF RunsThrough
<1>13. Collects(h, s)
  BY <1>11, <1>12 DEF n, V, Op, base, Collects
<1>14. QED
  BY <1>12, <1>13 DEF n

\* The rows read enter the cache one at a time.
LEMMA InsertRun ==
    ASSUME NEW rows \in Seq(Rows), NEW s \in Seq(Rows)
    PROVE  \E h : Inserts(h, rows, s) /\ FoldLeft(Insert, rows, s) = h[Len(s)]
<1> DEFINE n == Len(s)
           Op(kept, r) == Insert(kept, r)
           V == Seq(Rows)
           G == [i \in 1..n |-> [v \in V |-> Op(v, s[i])]]
           base == rows
           iter == CHOOSE f : f = [t \in SUBSET (DOMAIN s) |->
                                     IF t = {} THEN base ELSE Op(f[t \ {Max(t)}], s[Max(t)])]
<1>1. n \in Nat /\ DOMAIN s = 1..n /\ base \in V /\ \A i \in 1..n : s[i] \in Rows
  BY LenProperties, ElementOfSeq
<1>2. \A v \in V, i \in 1..n : Op(v, s[i]) \in V
  <2> SUFFICES ASSUME NEW v \in V, NEW i \in 1..n PROVE Op(v, s[i]) \in V
    OBVIOUS
  <2>1. Len(v) >= Capacity => v # <<>>
    BY CapacityAssumption, EmptyElements
  <2>2. (IF Len(v) >= Capacity THEN Tail(v) ELSE v) \in V
    BY <2>1, TailElement
  <2>3. QED
    BY <1>1, <2>2, AppendElement DEF Insert
<1>3. FoldLeft(Insert, rows, s) = iter[DOMAIN s]
  BY DEF FoldLeft, MapThenFoldSet
<1> HIDE DEF n, Op, V, base
<1>4. G \in [1..n -> [V -> V]] /\ \A v \in V, i \in 1..n : G[i][v] = Op(v, s[i])
  BY <1>2
<1> HIDE DEF G
<1>5. PICK f : Unfolds(f, V, base, n, G)
  BY <1>1, <1>4, FoldSolution
<1>6. ASSUME NEW t \in SUBSET (1..n), t # {} PROVE f[t] = Op(f[t \ {Max(t)}], s[Max(t)])
  <2>1. Max(t) \in 1..n /\ f[t \ {Max(t)}] \in V
    BY <1>1, <1>5, <1>6, MaxIn DEF Unfolds
  <2>2. QED
    BY <1>4, <1>5, <1>6, <2>1 DEF Unfolds
<1>7. f = [t \in SUBSET (1..n) |-> IF t = {} THEN base ELSE Op(f[t \ {Max(t)}], s[Max(t)])]
  BY <1>5, <1>6 DEF Unfolds
<1>8. iter = [t \in SUBSET (1..n) |-> IF t = {} THEN base ELSE Op(iter[t \ {Max(t)}], s[Max(t)])]
  BY <1>1, <1>7
<1> HIDE DEF iter
<1>9. iter[{}] = base /\ \A i \in 1..n : iter[1..i] = Op(iter[1..(i - 1)], s[i])
  <2>1. iter[{}] = base
    BY <1>8
  <2>2. ASSUME NEW i \in 1..n PROVE iter[1..i] = Op(iter[1..(i - 1)], s[i])
    <3>1. 1..i \in SUBSET (1..n) /\ 1..i # {} /\ Max(1..i) = i /\ (1..i) \ {Max(1..i)} = 1..(i - 1)
      BY <1>1, UpTo
    <3>2. QED
      BY <1>8, <3>1
  <2>3. QED
    BY <2>1, <2>2
<1>10. PICK h : RunsThrough(h, V, base, n, G) /\ h[n] = iter[1..n]
  <2>1. Iterates(iter, V, base, n, G)
    BY <1>4, <1>9 DEF Iterates
  <2>2. QED
    BY <1>1, <1>4, <2>1, FoldRun, SMTT(30)
<1>11. \A i \in 1..n : i - 1 \in 0..n /\ h[i - 1] \in V /\ h[i] = Op(h[i - 1], s[i])
  BY <1>1, <1>4, <1>10, UpTo DEF RunsThrough
<1>12. h \in [0..n -> V] /\ h[0] = base /\ FoldLeft(Insert, rows, s) = h[n]
  BY <1>1, <1>3, <1>10 DEF RunsThrough
<1>13. Inserts(h, rows, s)
  BY <1>11, <1>12 DEF n, V, Op, base, Inserts
<1>14. QED
  BY <1>12, <1>13 DEF n

\* Those keeps exactly the elements that are in the set, and repeats none.
LEMMA ThoseElements ==
    ASSUME NEW S, NEW s \in Seq(Rows)
    PROVE  /\ Those(s, S) \in Seq(Rows) /\ ToSet(Those(s, S)) = ToSet(s) \cap S
           /\ IsInjective(s) => IsInjective(Those(s, S))
<1>1. PICK h : Selects(h, s, S) /\ Those(s, S) = h[Len(s)]
  BY ThoseRun
<1> DEFINE n == Len(s)
           Before(i) == {s[k] : k \in 1..i}
           Kept(i) == ToSet(h[i]) = Before(i) \cap S /\ (IsInjective(s) => IsInjective(h[i]))
           T == {i \in 0..n : Kept(i)}
<1>2. n \in Nat /\ n \in 0..n /\ DOMAIN s = 1..n /\ \A i \in 1..n : s[i] \in Rows
  BY LenProperties, ElementOfSeq
<1>3. Kept(0)
  <2>1. Before(0) = {}
    OBVIOUS
  <2>2. QED
    BY <1>1, <2>1, EmptyElements DEF Selects
<1>4. ASSUME NEW i \in 1..n, Kept(i - 1) PROVE Kept(i)
  <2>1. h[i - 1] \in Seq(Rows)
    BY <1>1, <1>2 DEF Selects
  <2>2. Before(i) = Before(i - 1) \cup {s[i]}
    <3>1. 1..i = (1..(i - 1)) \cup {i}
      OBVIOUS
    <3>2. QED
      BY <3>1
  <2>3. IsInjective(s) => s[i] \notin Before(i - 1)
    BY <1>2 DEF IsInjective
  <2>4. CASE s[i] \in S
    <3>1. h[i] = Append(h[i - 1], s[i])
      BY <1>1, <2>4 DEF Selects
    <3>2. /\ ToSet(h[i]) = ToSet(h[i - 1]) \cup {s[i]}
          /\ IsInjective(h[i - 1]) /\ s[i] \notin ToSet(h[i - 1]) => IsInjective(h[i])
      BY <1>2, <2>1, <3>1, AppendElement
    <3> HIDE DEF Before
    <3>3. QED
      BY <1>4, <2>2, <2>3, <2>4, <3>2
  <2>5. CASE s[i] \notin S
    <3>1. h[i] = h[i - 1]
      BY <1>1, <2>5 DEF Selects
    <3> HIDE DEF Before
    <3>2. QED
      BY <1>4, <2>2, <2>5, <3>1
  <2>6. QED
    BY <2>4, <2>5
<1> HIDE DEF Kept
<1>5. 0 \in T /\ \A i \in 1..n : i - 1 \in T => i \in T
  <2>1. 0 \in 0..n /\ \A i \in 1..n : i \in 0..n
    BY <1>2
  <2>2. QED
    BY <1>3, <1>4, <2>1
<1> HIDE DEF T, n
<1>6. n \in T
  BY <1>2, <1>5, StepsInduct
<1>7. Kept(n) /\ h[n] \in Seq(Rows)
  BY <1>1, <1>2, <1>6 DEF T, Selects
<1>8. h[n] = h[Len(s)] /\ Before(n) = ToSet(s)
  BY <1>2 DEF n, ToSet
<1>9. QED
  BY <1>1, <1>7, <1>8 DEF Kept

\* The distinct owned rows of a request, each once.
LEMMA KeysElements ==
    ASSUME NEW s \in Seq(Item)
    PROVE  Keys(s) \in Seq(Rows) /\ IsInjective(Keys(s)) /\ ToSet(Keys(s)) = Owned(s)
<1>1. PICK h : Collects(h, s) /\ Keys(s) = h[Len(s)]
  BY KeysRun
<1> DEFINE n == Len(s)
           Before(i) == {s[k].row : k \in {j \in 1..i : s[j].owned}}
           Kept(i) == ToSet(h[i]) = Before(i) /\ IsInjective(h[i])
           T == {i \in 0..n : Kept(i)}
<1>2. n \in Nat /\ n \in 0..n /\ DOMAIN s = 1..n /\ \A i \in 1..n : s[i].row \in Rows /\ s[i].owned \in BOOLEAN
  <2>1. n \in Nat /\ n \in 0..n /\ DOMAIN s = 1..n /\ \A i \in 1..n : s[i] \in Item
    BY LenProperties, ElementOfSeq
  <2>2. \A x \in Item : x.row \in Rows /\ x.owned \in BOOLEAN
    BY DEF Item
  <2>3. QED
    BY <2>1, <2>2
<1>3. Kept(0)
  <2>1. Before(0) = {}
    OBVIOUS
  <2>2. QED
    BY <1>1, <2>1, EmptyElements DEF Collects
<1>4. ASSUME NEW i \in 1..n, Kept(i - 1) PROVE Kept(i)
  <2>1. h[i - 1] \in Seq(Rows) /\ s[i].row \in Rows
    BY <1>1, <1>2 DEF Collects
  <2>2. Before(i) = Before(i - 1) \cup (IF s[i].owned THEN {s[i].row} ELSE {})
    <3>1. {j \in 1..i : s[j].owned} = {j \in 1..(i - 1) : s[j].owned} \cup (IF s[i].owned THEN {i} ELSE {})
      <4>1. 1..i = (1..(i - 1)) \cup {i}
        OBVIOUS
      <4>2. QED
        BY <4>1
    <3>2. QED
      BY <3>1
  <2>3. Contains(h[i - 1], s[i].row) <=> s[i].row \in ToSet(h[i - 1])
    <3>1. DOMAIN h[i - 1] = 1..Len(h[i - 1])
      BY <2>1, LenProperties
    <3>2. QED
      BY <3>1 DEF Contains, ToSet
  <2>4. CASE s[i].owned /\ ~Contains(h[i - 1], s[i].row)
    <3>1. h[i] = Append(h[i - 1], s[i].row)
      BY <1>1, <2>4 DEF Collects
    <3>2. /\ ToSet(h[i]) = ToSet(h[i - 1]) \cup {s[i].row}
          /\ IsInjective(h[i - 1]) /\ s[i].row \notin ToSet(h[i - 1]) => IsInjective(h[i])
      BY <2>1, <3>1, AppendElement
    <3> HIDE DEF Before
    <3>3. QED
      BY <1>4, <2>2, <2>3, <2>4, <3>2
  <2>5. CASE ~(s[i].owned /\ ~Contains(h[i - 1], s[i].row))
    <3>1. h[i] = h[i - 1]
      BY <1>1, <2>5 DEF Collects
    <3> HIDE DEF Before
    <3>2. QED
      BY <1>4, <2>2, <2>3, <2>5, <3>1
  <2>6. QED
    BY <2>4, <2>5
<1> HIDE DEF Kept
<1>5. 0 \in T /\ \A i \in 1..n : i - 1 \in T => i \in T
  <2>1. 0 \in 0..n /\ \A i \in 1..n : i \in 0..n
    BY <1>2
  <2>2. QED
    BY <1>3, <1>4, <2>1
<1> HIDE DEF T, n
<1>6. n \in T
  BY <1>2, <1>5, StepsInduct
<1>7. Kept(n) /\ h[n] \in Seq(Rows)
  BY <1>1, <1>2, <1>6 DEF T, Collects
<1>8. h[n] = h[Len(s)] /\ Before(n) = Owned(s)
  BY <1>2 DEF n, Owned
<1>9. QED
  BY <1>1, <1>7, <1>8 DEF Kept

\* Rows that are not in the cache enter it: it stays within its capacity, each row once.
LEMMA InsertElements ==
    ASSUME NEW rows \in Seq(Rows), NEW s \in Seq(Rows), IsInjective(rows), IsInjective(s),
           \A r \in ToSet(s) : r \notin ToSet(rows), Len(rows) <= Capacity
    PROVE  /\ FoldLeft(Insert, rows, s) \in Seq(Rows) /\ IsInjective(FoldLeft(Insert, rows, s))
           /\ Len(FoldLeft(Insert, rows, s)) <= Capacity
           /\ ToSet(FoldLeft(Insert, rows, s)) \subseteq ToSet(rows) \cup ToSet(s)
           /\ s = <<>> => FoldLeft(Insert, rows, s) = rows
<1>1. PICK h : Inserts(h, rows, s) /\ FoldLeft(Insert, rows, s) = h[Len(s)]
  BY InsertRun
<1> DEFINE n == Len(s)
           Before(i) == {s[k] : k \in 1..i}
           Kept(i) == IsInjective(h[i]) /\ Len(h[i]) <= Capacity /\ ToSet(h[i]) \subseteq ToSet(rows) \cup Before(i)
           T == {i \in 0..n : Kept(i)}
<1>2. n \in Nat /\ n \in 0..n /\ DOMAIN s = 1..n /\ \A i \in 1..n : s[i] \in Rows
  BY LenProperties, ElementOfSeq
<1>3. Kept(0)
  BY <1>1 DEF Inserts
<1>4. ASSUME NEW i \in 1..n, Kept(i - 1) PROVE Kept(i)
  <2>1. h[i - 1] \in Seq(Rows) /\ s[i] \in Rows
    BY <1>1, <1>2 DEF Inserts
  <2>2. Before(i) = Before(i - 1) \cup {s[i]}
    <3>1. 1..i = (1..(i - 1)) \cup {i}
      OBVIOUS
    <3>2. QED
      BY <3>1
  <2>3. s[i] \notin ToSet(rows) /\ s[i] \notin Before(i - 1)
    <3>1. s[i] \in ToSet(s)
      BY <1>2 DEF ToSet
    <3>2. QED
      BY <1>2, <3>1 DEF IsInjective
  <2> DEFINE room == IF Len(h[i - 1]) >= Capacity THEN Tail(h[i - 1]) ELSE h[i - 1]
  <2> HIDE DEF Before
  <2>4. /\ room \in Seq(Rows) /\ IsInjective(room) /\ Len(room) \in Nat /\ Len(room) + 1 <= Capacity
        /\ ToSet(room) \subseteq ToSet(h[i - 1])
    <3>1. Len(h[i - 1]) \in Nat /\ (Len(h[i - 1]) >= Capacity => h[i - 1] # <<>>)
      BY <2>1, CapacityAssumption, EmptyElements, LenProperties
    <3>2. CASE Len(h[i - 1]) >= Capacity
      BY <1>4, <2>1, <3>1, <3>2, CapacityAssumption, TailElement
    <3>3. CASE ~(Len(h[i - 1]) >= Capacity)
      BY <1>4, <2>1, <3>1, <3>3, CapacityAssumption
    <3>4. QED
      BY <3>2, <3>3
  <2>5. h[i] = Append(room, s[i])
    BY <1>1 DEF Inserts, Insert
  <2> HIDE DEF room
  <2>6. s[i] \notin ToSet(room)
    BY <1>4, <2>3, <2>4
  <2>7. /\ Len(h[i]) = Len(room) + 1 /\ ToSet(h[i]) = ToSet(room) \cup {s[i]}
        /\ IsInjective(h[i])
    BY <2>1, <2>4, <2>5, <2>6, AppendElement
  <2>8. QED
    BY <1>4, <2>2, <2>4, <2>7
<1> HIDE DEF Kept
<1>5. 0 \in T /\ \A i \in 1..n : i - 1 \in T => i \in T
  <2>1. 0 \in 0..n /\ \A i \in 1..n : i \in 0..n
    BY <1>2
  <2>2. QED
    BY <1>3, <1>4, <2>1
<1> HIDE DEF T, n
<1>6. n \in T
  BY <1>2, <1>5, StepsInduct
<1>7. Kept(n) /\ h[n] \in Seq(Rows)
  BY <1>1, <1>2, <1>6 DEF T, Inserts
<1>8. h[n] = h[Len(s)] /\ Before(n) = ToSet(s)
  BY <1>2 DEF n, ToSet
<1>9. s = <<>> => h[n] = rows
  BY <1>1, EmptyElements DEF n, Inserts
<1>10. QED
  BY <1>1, <1>7, <1>8, <1>9 DEF Kept

-----------------------------------------------------------------------------
(* The invariant.                                                          *)

Gots == UNION {[S -> {"old", "new"}] : S \in SUBSET Rows}
Run == [at : {"none", "queued", "fetch", "done", "failed"}, request : Seq(Item), missing : Seq(Rows), got : Gots]
Gather == [at : {"idle", "await", "own", "close"}, request : Seq(Item), late : BOOLEAN]

StateOK ==
    /\ changed \in BOOLEAN /\ closed \in BOOLEAN
    /\ control \in Callers \cup {Nobody} /\ rowLock \in Procs \cup {Nobody}
    /\ pending \in Requests \cup {Nobody}
    /\ cache \in Seq(Rows) /\ bytes \in [ToSet(cache) -> {"old", "new"}]
    /\ job \in [Procs -> Run] /\ call \in [Callers -> Gather]

\* Cached rows are distinct, within the capacity, and were read before the change.
CacheFits == IsInjective(cache) /\ Len(cache) <= Capacity /\ \A r \in ToSet(cache) : bytes[r] = "old"

\* A lookup holds the row lock while it fetches.  It has, or has yet to read, every
\* row it was asked for; what it took from the cache, or read before the change, is old.
LookupFits(p) ==
    /\ job[p].at = "none" => job[p] = NoJob
    /\ job[p].at = "fetch" <=> rowLock = p
    /\ job[p].at # "fetch" => job[p].missing = <<>>
    /\ job[p].at = "fetch" =>
          /\ IsInjective(job[p].missing)
          /\ \A r \in ToSet(job[p].missing) : r \notin ToSet(cache)
          /\ DOMAIN job[p].got \cup ToSet(job[p].missing) = Owned(job[p].request)
          /\ \A r \in DOMAIN job[p].got : (r \notin ToSet(job[p].missing) \/ ~changed) => job[p].got[r] = "old"
    /\ job[p].at = "done" =>
          DOMAIN job[p].got = Owned(job[p].request) /\ \A r \in DOMAIN job[p].got : job[p].got[r] = "old"

\* Only the holder of the control lock is in a call, and only its own lookup runs for
\* it; a lookup of a gather that began after the change has not begun, or has failed.
CallFits(c) ==
    /\ control # c => call[c] = NoCall
    /\ control = c => call[c].at # "idle"
    /\ call[c].at = "own" <=> job[c].at # "none"
    /\ call[c].at = "own" => job[c].request = call[c].request
    /\ call[c].at = "await" => pending # Nobody
    /\ call[c].late => changed /\ job[c].at \in {"none", "queued", "failed"}

PrefetchFits ==
    /\ pending = Nobody <=> job[Prefetcher].at = "none"
    /\ pending # Nobody => job[Prefetcher].request = pending

\* The last output is the original bytes of the rows asked for, position by position.
ServedFits ==
    /\ served.request \in Seq(Item)
    /\ served.data = [i \in 1..Len(served.request) |->
                        IF served.request[i].owned THEN <<served.request[i].row, "old">> ELSE <<>>]
    /\ served.late => served.prefetched

ClosedFits == closed => control = Nobody /\ cache = <<>> /\ pending = Nobody

IInv == /\ StateOK /\ CacheFits /\ (\A p \in Procs : LookupFits(p)) /\ (\A c \in Callers : CallFits(c))
        /\ PrefetchFits /\ ServedFits /\ ClosedFits

-----------------------------------------------------------------------------

LEMMA ElementsInRows == \A s \in Seq(Rows) : ToSet(s) \subseteq Rows
BY LenProperties, ElementOfSeq DEF ToSet

LEMMA IdleRun == NoJob \in Run /\ NoCall \in Gather /\ [r \in {} |-> 0] \in Gots
<1>1. [r \in {} |-> 0] \in [{} -> {"old", "new"}]
  OBVIOUS
<1>2. [r \in {} |-> 0] \in Gots
  BY <1>1 DEF Gots
<1>3. <<>> \in Seq(Item) /\ <<>> \in Seq(Rows)
  OBVIOUS
<1>4. QED
  BY <1>2, <1>3 DEF NoJob, NoCall, Run, Gather

\* A queued lookup is a lookup.
LEMMA QueuedRun ==
    ASSUME NEW request \in Seq(Item)
    PROVE  /\ Queued(request) \in Run /\ Queued(request).at = "queued" /\ Queued(request).request = request
           /\ Queued(request).missing = <<>>
<1>1. NoJob \in Run /\ NoJob.missing = <<>>
  BY IdleRun DEF NoJob
<1>2. PICK run : run = NoJob
  OBVIOUS
<1>3. Queued(request) = [run EXCEPT !.at = "queued", !.request = request]
  BY <1>2 DEF Queued
<1>4. run \in Run /\ run.missing = <<>>
  BY <1>1, <1>2
<1>5. QED
  BY <1>3, <1>4 DEF Run

LEMMA InitIInv == Init => IInv
<1> SUFFICES ASSUME Init PROVE IInv
  OBVIOUS
<1>1. StateOK
  <2>1. <<>> \in Seq(Rows) /\ ToSet(<<>>) = {} /\ [r \in {} |-> 0] \in [{} -> {"old", "new"}]
    BY EmptyElements
  <2>2. QED
    BY <2>1, IdleRun DEF Init, StateOK
<1>2. CacheFits
  BY EmptyElements, CapacityAssumption DEF Init, CacheFits
<1>3. \A p \in Procs : LookupFits(p)
  BY NamesAssumption DEF Init, LookupFits, NoJob, Procs
<1>4. \A c \in Callers : CallFits(c)
  BY NamesAssumption DEF Init, CallFits, NoJob, NoCall, Procs
<1>5. PrefetchFits
  BY DEF Init, PrefetchFits, NoJob, Procs
<1>6. ServedFits
  <2>1. <<>> \in Seq(Item) /\ <<>> = [i \in 1..Len(<<>>) |-> IF <<>>[i].owned THEN <<<<>>[i].row, "old">> ELSE <<>>]
    BY EmptyElements
  <2>2. QED
    BY <2>1 DEF Init, ServedFits
<1>7. ClosedFits
  BY DEF Init, ClosedFits
<1>8. QED
  BY <1>1, <1>2, <1>3, <1>4, <1>5, <1>6, <1>7 DEF IInv

\* A lookup that a step leaves alone still fits, if the step leaves it the row lock
\* and the cache when it fetches, and gives it neither when it does not.
LEMMA OtherLookup ==
    ASSUME NEW q \in Procs, LookupFits(q), job'[q] = job[q], changed' = changed,
           job[q].at = "fetch" => rowLock' = q /\ cache' = cache, job[q].at # "fetch" => rowLock' # q
    PROVE  LookupFits(q)'
BY DEF LookupFits

\* A running lookup does not run in a closed cache, and no step of it disturbs the
\* calls, the prefetch, the output, or the closed cache.
LEMMA LookupStep ==
    ASSUME IInv, NEW p \in Procs, NEW run \in Run, job' = [job EXCEPT ![p] = run],
           job[p].at \in {"queued", "fetch"}, run.at # "none", run.request = job[p].request,
           changed /\ job[p].at = "queued" => run.at \in {"queued", "failed"},
           UNCHANGED <<changed, control, closed, pending, call, served>>
    PROVE  ~closed /\ (\A c \in Callers : CallFits(c)') /\ PrefetchFits' /\ ServedFits' /\ ClosedFits'
<1>1. job \in [Procs -> Run] /\ (\A c \in Callers : c \in Procs /\ c # Prefetcher /\ c # Nobody) /\ Prefetcher \in Procs
  BY NamesAssumption DEF IInv, StateOK, Procs
<1>2. \A q \in Procs : job'[q] = IF q = p THEN run ELSE job[q]
  BY <1>1
<1>3. ~closed
  <2>1. CASE p = Prefetcher
    BY <2>1 DEF IInv, PrefetchFits, ClosedFits
  <2>2. CASE p \in Callers
    BY <1>1, <2>2 DEF IInv, CallFits, ClosedFits, NoCall
  <2>3. QED
    BY <2>1, <2>2 DEF Procs
<1>4. \A c \in Callers : CallFits(c)'
  <2> SUFFICES ASSUME NEW c \in Callers PROVE CallFits(c)'
    OBVIOUS
  <2>1. CallFits(c)
    BY DEF IInv
  <2>2. job'[c] = job[c] \/ (p = c /\ job'[c] = run)
    BY <1>1, <1>2
  <2>3. QED
    BY <2>1, <2>2 DEF CallFits
<1>5. PrefetchFits'
  BY <1>1, <1>2 DEF IInv, PrefetchFits
<1>6. ServedFits' /\ ClosedFits'
  BY <1>3 DEF IInv, ServedFits, ClosedFits
<1>7. QED
  BY <1>3, <1>4, <1>5, <1>6

LEMMA PayloadsBeginStep ==
    ASSUME IInv, NEW p \in Procs, PayloadsBegin(p)
    PROVE  IInv'
<1> DEFINE keys == Keys(job[p].request)
           hits == Those(keys, ToSet(cache))
           rest == Those(cache, Rows \ ToSet(hits))
           missing == Those(keys, Rows \ ToSet(cache))
           got == [r \in ToSet(hits) |-> bytes[r]]
<1>1. PICK run : run = [at |-> "fetch", request |-> job[p].request, missing |-> missing, got |-> got]
  OBVIOUS
<1>2. /\ job[p] \in Run /\ cache \in Seq(Rows) /\ bytes \in [ToSet(cache) -> {"old", "new"}]
      /\ job \in [Procs -> Run] /\ p \in Procs /\ p # Nobody
  BY NamesAssumption DEF IInv, StateOK, Procs
<1>3. job[p].request \in Seq(Item) /\ ToSet(cache) \subseteq Rows
  BY <1>2, ElementsInRows DEF Run
<1>4. keys \in Seq(Rows) /\ IsInjective(keys) /\ ToSet(keys) = Owned(job[p].request) /\ ToSet(keys) \subseteq Rows
  BY <1>3, KeysElements, ElementsInRows
<1> HIDE DEF keys
<1>5. hits \in Seq(Rows) /\ IsInjective(hits) /\ ToSet(hits) = ToSet(keys) \cap ToSet(cache)
  BY <1>4, ThoseElements
<1>6. missing \in Seq(Rows) /\ IsInjective(missing) /\ ToSet(missing) = ToSet(keys) \cap (Rows \ ToSet(cache))
  BY <1>4, ThoseElements
<1> HIDE DEF hits
<1>7. /\ rest \in Seq(Rows) /\ ToSet(rest) = ToSet(cache) \cap (Rows \ ToSet(hits))
      /\ IsInjective(rest)
  BY <1>2, ThoseElements DEF IInv, CacheFits
<1>8. /\ job' = [job EXCEPT ![p] = run] /\ cache' = rest \o hits /\ rowLock' = p
      /\ job[p].at = "queued" /\ rowLock = Nobody /\ ~changed
      /\ UNCHANGED <<changed, control, closed, bytes, pending, call, served>>
  BY <1>1 DEF PayloadsBegin, keys, hits
<1> HIDE DEF rest, missing
<1>9. /\ cache' \in Seq(Rows) /\ IsInjective(cache') /\ ToSet(cache') = ToSet(cache)
      /\ Len(cache') = Len(cache)
  <2>1. /\ rest \o hits \in Seq(Rows) /\ ToSet(rest \o hits) = ToSet(rest) \cup ToSet(hits)
        /\ IsInjective(rest \o hits)
    BY <1>5, <1>7, ConcatElement
  <2>2. ToSet(rest \o hits) = ToSet(cache)
    BY <1>3, <1>5, <1>7, <2>1
  <2>3. Len(rest \o hits) = Cardinality(ToSet(rest \o hits)) /\ Len(cache) = Cardinality(ToSet(cache))
    BY <1>2, <2>1, InjectiveLength DEF IInv, CacheFits
  <2>4. QED
    BY <1>8, <2>1, <2>2, <2>3
<1>10. got \in Gots /\ DOMAIN got = ToSet(hits) /\ \A r \in ToSet(hits) : got[r] = "old"
  <2>1. ToSet(hits) \in SUBSET Rows /\ \A r \in ToSet(hits) : r \in ToSet(cache)
    BY <1>3, <1>5
  <2>2. got \in [ToSet(hits) -> {"old", "new"}] /\ \A r \in ToSet(hits) : got[r] = "old"
    BY <1>2, <2>1 DEF IInv, CacheFits
  <2>3. QED
    BY <2>1, <2>2 DEF Gots
<1> HIDE DEF got
<1>11. run \in Run /\ run.at = "fetch" /\ run.request = job[p].request /\ run.missing = missing /\ run.got = got
  BY <1>1, <1>3, <1>6, <1>10 DEF Run
<1>12. \A q \in Procs : job'[q] = IF q = p THEN run ELSE job[q]
  BY <1>2, <1>8
<1>13. StateOK'
  BY <1>2, <1>8, <1>9, <1>11 DEF IInv, StateOK
<1>14. CacheFits'
  BY <1>8, <1>9 DEF IInv, CacheFits
<1>15. LookupFits(p)'
  <2>1. DOMAIN got \cup ToSet(missing) = Owned(job[p].request)
    BY <1>4, <1>5, <1>6, <1>10
  <2>2. \A r \in ToSet(missing) : r \notin ToSet(cache')
    BY <1>6, <1>9
  <2>3. job'[p] = run /\ rowLock' = p
    BY <1>8, <1>12
  <2>4. QED
    BY <1>6, <1>10, <1>11, <2>1, <2>2, <2>3 DEF LookupFits
<1>16. ASSUME NEW q \in Procs PROVE LookupFits(q)'
  <2>1. CASE q = p
    BY <1>15, <2>1
  <2>2. CASE q # p
    <3>1. LookupFits(q) /\ job[q].at # "fetch" /\ q # Nobody
      BY <1>8, NamesAssumption DEF IInv, LookupFits, Procs
    <3>2. QED
      BY <1>8, <1>12, <2>2, <3>1, OtherLookup
  <2>3. QED
    BY <2>1, <2>2
<1>17. (\A c \in Callers : CallFits(c)') /\ PrefetchFits' /\ ServedFits' /\ ClosedFits'
  BY <1>8, <1>11, LookupStep
<1>18. QED
  BY <1>13, <1>14, <1>16, <1>17 DEF IInv

\* A lookup that ends, in failure or with every row it was asked for, lets go of the
\* row lock and may leave its rows in the cache.
LEMMA JobEndsStep ==
    ASSUME IInv, NEW p \in Procs, NEW at \in {"done", "failed"}, JobEnds(p, at),
           job[p].at \in {"queued", "fetch"}, job[p].at = "queued" => at = "failed" /\ rowLock = Nobody,
           at = "done" => /\ DOMAIN job[p].got = Owned(job[p].request)
                          /\ \A r \in DOMAIN job[p].got : job[p].got[r] = "old",
           cache' \in Seq(Rows), bytes' \in [ToSet(cache') -> {"old", "new"}], CacheFits',
           UNCHANGED <<changed, control, closed, pending, call, served>>
    PROVE  IInv'
<1>1. PICK run : run = [job[p] EXCEPT !.at = at, !.missing = <<>>]
  OBVIOUS
<1>2. job \in [Procs -> Run] /\ job[p] \in Run /\ \A q \in Procs : q # Nobody
  BY NamesAssumption DEF IInv, StateOK, Procs
<1>3. /\ run \in Run /\ run.at = at /\ run.request = job[p].request /\ run.missing = <<>>
      /\ run.got = job[p].got
  BY <1>1, <1>2, EmptySeq DEF Run
<1>4. job' = [job EXCEPT ![p] = run] /\ rowLock' = Nobody
  BY <1>1, <1>2 DEF JobEnds
<1>5. \A q \in Procs : job'[q] = IF q = p THEN run ELSE job[q]
  BY <1>2, <1>4
<1>6. StateOK'
  BY <1>2, <1>3, <1>4 DEF IInv, StateOK
<1>7. ASSUME NEW q \in Procs PROVE LookupFits(q)'
  <2>1. CASE q = p
    BY <1>2, <1>3, <1>4, <1>5, <2>1 DEF LookupFits
  <2>2. CASE q # p
    <3>1. LookupFits(q) /\ job[q].at # "fetch"
      BY <1>2, <2>2 DEF IInv, LookupFits
    <3>2. QED
      BY <1>2, <1>4, <1>5, <2>2, <3>1, OtherLookup
  <2>3. QED
    BY <2>1, <2>2
<1>8. (\A c \in Callers : CallFits(c)') /\ PrefetchFits' /\ ServedFits' /\ ClosedFits'
  BY <1>3, <1>4, LookupStep
<1>9. QED
  BY <1>6, <1>7, <1>8 DEF IInv

LEMMA PayloadsRefuseStep ==
    ASSUME IInv, NEW p \in Procs, PayloadsRefuse(p)
    PROVE  IInv'
<1>1. /\ JobEnds(p, "failed") /\ job[p].at = "queued" /\ rowLock = Nobody
      /\ UNCHANGED <<changed, control, closed, cache, bytes, pending, call, served>>
  BY DEF PayloadsRefuse
<1>2. cache' \in Seq(Rows) /\ bytes' \in [ToSet(cache') -> {"old", "new"}] /\ CacheFits'
  BY <1>1 DEF IInv, StateOK, CacheFits
<1>3. QED
  BY <1>1, <1>2, JobEndsStep

LEMMA FetchFailsStep ==
    ASSUME IInv, NEW p \in Procs, FetchShort(p) \/ FetchChanged(p)
    PROVE  IInv'
<1>1. /\ JobEnds(p, "failed") /\ job[p].at = "fetch"
      /\ UNCHANGED <<changed, control, closed, cache, bytes, pending, call, served>>
  BY DEF FetchShort, FetchChanged
<1>2. cache' \in Seq(Rows) /\ bytes' \in [ToSet(cache') -> {"old", "new"}] /\ CacheFits'
  BY <1>1 DEF IInv, StateOK, CacheFits
<1>3. QED
  BY <1>1, <1>2, JobEndsStep

LEMMA FetchRowStep ==
    ASSUME IInv, NEW p \in Procs, NEW r \in Rows, FetchRow(p, r)
    PROVE  IInv'
<1> DEFINE got == [x \in DOMAIN job[p].got \cup {r} |->
                     IF x = r THEN (IF changed THEN "new" ELSE "old") ELSE job[p].got[x]]
<1>1. PICK run : run = [job[p] EXCEPT !.got = got]
  OBVIOUS
<1>2. job \in [Procs -> Run] /\ job[p] \in Run /\ LookupFits(p) /\ \A q \in Procs : q # Nobody
  BY NamesAssumption DEF IInv, StateOK, Procs
<1>3. /\ job' = [job EXCEPT ![p] = run] /\ job[p].at = "fetch"
      /\ r \in ToSet(job[p].missing) \ DOMAIN job[p].got
      /\ UNCHANGED <<changed, control, rowLock, closed, cache, bytes, pending, call, served>>
  BY <1>1, <1>2 DEF FetchRow, Unread
<1>4. got \in Gots
  <2>1. PICK S \in SUBSET Rows : job[p].got \in [S -> {"old", "new"}]
    BY <1>2 DEF Run, Gots
  <2>2. S \cup {r} \in SUBSET Rows /\ DOMAIN job[p].got = S
    BY <2>1
  <2>3. got \in [S \cup {r} -> {"old", "new"}]
    BY <2>1, <2>2
  <2>4. QED
    BY <2>2, <2>3 DEF Gots
<1>5. /\ DOMAIN got = DOMAIN job[p].got \cup {r} /\ got[r] = (IF changed THEN "new" ELSE "old")
      /\ \A x \in DOMAIN job[p].got : x # r => got[x] = job[p].got[x]
  OBVIOUS
<1> HIDE DEF got
<1>6. /\ run \in Run /\ run.at = "fetch" /\ run.request = job[p].request /\ run.missing = job[p].missing
      /\ run.got = got
  BY <1>1, <1>2, <1>3, <1>4 DEF Run
<1>7. \A q \in Procs : job'[q] = IF q = p THEN run ELSE job[q]
  BY <1>2, <1>3
<1>8. StateOK' /\ CacheFits'
  BY <1>2, <1>3, <1>6 DEF IInv, StateOK, CacheFits
<1>9. LookupFits(p)'
  <2>1. DOMAIN got \cup ToSet(job[p].missing) = Owned(job[p].request)
    BY <1>2, <1>3, <1>5 DEF LookupFits
  <2>2. ASSUME NEW x \in DOMAIN got, x \notin ToSet(job[p].missing) \/ ~changed PROVE got[x] = "old"
    <3>1. CASE x = r
      BY <1>3, <1>5, <2>2, <3>1
    <3>2. CASE x # r
      BY <1>2, <1>3, <1>5, <2>2, <3>2 DEF LookupFits
    <3>3. QED
      BY <3>1, <3>2
  <2>3. job'[p] = run
    BY <1>7
  <2>4. QED
    BY <1>2, <1>3, <1>6, <2>1, <2>2, <2>3 DEF LookupFits
<1>10. ASSUME NEW q \in Procs PROVE LookupFits(q)'
  <2>1. CASE q = p
    BY <1>9, <2>1
  <2>2. CASE q # p
    BY <1>3, <1>7, <2>2 DEF IInv, LookupFits
  <2>3. QED
    BY <2>1, <2>2
<1>11. (\A c \in Callers : CallFits(c)') /\ PrefetchFits' /\ ServedFits' /\ ClosedFits'
  BY <1>3, <1>6, LookupStep
<1>12. QED
  BY <1>8, <1>10, <1>11 DEF IInv

LEMMA PayloadsEndStep ==
    ASSUME IInv, NEW p \in Procs, PayloadsEnd(p)
    PROVE  IInv'
<1> DEFINE rows == FoldLeft(Insert, cache, job[p].missing)
<1>1. /\ JobEnds(p, "done") /\ job[p].at = "fetch" /\ ToSet(job[p].missing) \subseteq DOMAIN job[p].got
      /\ (job[p].missing # <<>> => ~changed) /\ cache' = rows
      /\ bytes' = [r \in ToSet(cache') |-> IF r \in DOMAIN job[p].got THEN job[p].got[r] ELSE bytes[r]]
      /\ UNCHANGED <<changed, control, closed, pending, call, served>>
  BY DEF PayloadsEnd, Unread
<1>2. job[p] \in Run /\ LookupFits(p) /\ cache \in Seq(Rows) /\ bytes \in [ToSet(cache) -> {"old", "new"}]
  BY DEF IInv, StateOK
<1>3. /\ job[p].missing \in Seq(Rows) /\ IsInjective(job[p].missing)
      /\ \A r \in ToSet(job[p].missing) : r \notin ToSet(cache)
  BY <1>1, <1>2 DEF Run, LookupFits
<1>4. /\ rows \in Seq(Rows) /\ IsInjective(rows) /\ Len(rows) <= Capacity
      /\ ToSet(rows) \subseteq ToSet(cache) \cup ToSet(job[p].missing)
  BY <1>2, <1>3, InsertElements DEF IInv, CacheFits
<1> HIDE DEF rows
<1>5. DOMAIN job[p].got = Owned(job[p].request) /\ \A r \in DOMAIN job[p].got : job[p].got[r] = "old"
  <2>1. job[p].missing = <<>> => ToSet(job[p].missing) = {}
    BY EmptyElements
  <2>2. QED
    BY <1>1, <1>2, <2>1 DEF LookupFits
<1>6. \A r \in ToSet(cache') : bytes'[r] = "old"
  <2> SUFFICES ASSUME NEW r \in ToSet(cache') PROVE bytes'[r] = "old"
    OBVIOUS
  <2>1. CASE r \in DOMAIN job[p].got
    BY <1>1, <1>5, <2>1
  <2>2. CASE r \notin DOMAIN job[p].got
    BY <1>1, <1>4, <2>2 DEF IInv, CacheFits
  <2>3. QED
    BY <2>1, <2>2
<1>7. bytes' \in [ToSet(cache') -> {"old", "new"}]
  BY <1>1, <1>6
<1>8. cache' \in Seq(Rows) /\ CacheFits'
  BY <1>1, <1>4, <1>6 DEF CacheFits
<1>9. QED
  BY <1>1, <1>5, <1>7, <1>8, JobEndsStep

-----------------------------------------------------------------------------

LEMMA PrefetchStep ==
    ASSUME IInv, NEW request \in Requests, Prefetch(request)
    PROVE  IInv'
<1>1. PICK run : run = Queued(request)
  OBVIOUS
<1>2. request \in Seq(Item) /\ request # Nobody
  BY RequestAssumption, NamesAssumption DEF Item
<1>3. run \in Run /\ run.at = "queued" /\ run.request = request /\ run.missing = <<>>
  BY <1>1, <1>2, QueuedRun
<1>4. job \in [Procs -> Run] /\ Prefetcher \in Procs /\ \A c \in Callers : c \in Procs /\ c # Prefetcher
  BY NamesAssumption DEF IInv, StateOK, Procs
<1>5. /\ job' = [job EXCEPT ![Prefetcher] = run] /\ pending' = request /\ pending = Nobody /\ ~closed
      /\ UNCHANGED <<changed, control, rowLock, closed, cache, bytes, call, served>>
  BY <1>1 DEF Prefetch
<1>6. \A q \in Procs : job'[q] = IF q = Prefetcher THEN run ELSE job[q]
  BY <1>4, <1>5
<1>7. StateOK' /\ CacheFits' /\ ServedFits' /\ ClosedFits'
  BY <1>3, <1>4, <1>5 DEF IInv, StateOK, CacheFits, ServedFits, ClosedFits
<1>8. ASSUME NEW q \in Procs PROVE LookupFits(q)'
  <2>1. CASE q = Prefetcher
    <3>1. rowLock # Prefetcher
      BY <1>4, <1>5 DEF IInv, PrefetchFits, LookupFits
    <3>2. QED
      BY <1>3, <1>5, <1>6, <2>1, <3>1 DEF LookupFits
  <2>2. CASE q # Prefetcher
    BY <1>5, <1>6, <2>2 DEF IInv, LookupFits
  <2>3. QED
    BY <2>1, <2>2
<1>9. \A c \in Callers : CallFits(c)'
  BY <1>2, <1>4, <1>5, <1>6 DEF IInv, CallFits
<1>10. PrefetchFits'
  BY <1>2, <1>3, <1>4, <1>5, <1>6 DEF PrefetchFits
<1>11. QED
  BY <1>7, <1>8, <1>9, <1>10 DEF IInv

LEMMA GatherBeginStep ==
    ASSUME IInv, NEW c \in Callers, NEW request \in Requests, GatherBegin(c, request)
    PROVE  IInv'
<1>1. PICK own : own = [at |-> IF pending # Nobody THEN "await" ELSE "own", request |-> request, late |-> changed]
  OBVIOUS
<1>2. PICK run : run = IF pending # Nobody THEN job[c] ELSE Queued(request)
  OBVIOUS
<1>3. request \in Seq(Item)
  BY RequestAssumption DEF Item
<1>4. Queued(request) \in Run /\ Queued(request).at = "queued" /\ Queued(request).request = request /\ Queued(request).missing = <<>>
  BY <1>3, QueuedRun
<1>5. /\ job \in [Procs -> Run] /\ call \in [Callers -> Gather] /\ c \in Procs /\ c # Prefetcher
      /\ Prefetcher \in Procs /\ Nobody \notin Procs /\ (\A d \in Callers : d \in Procs) /\ changed \in BOOLEAN
  BY NamesAssumption DEF IInv, StateOK, Procs
<1>6. /\ call' = [call EXCEPT ![c] = own] /\ control' = c /\ control = Nobody /\ ~closed /\ call[c] = NoCall
      /\ job' = [job EXCEPT ![c] = run]
      /\ UNCHANGED <<changed, rowLock, closed, cache, bytes, pending, served>>
  BY <1>1, <1>2, <1>5 DEF GatherBegin
<1>7. /\ own \in Gather /\ own.at = (IF pending # Nobody THEN "await" ELSE "own") /\ own.request = request
      /\ own.late = changed
  BY <1>1, <1>3, <1>5 DEF Gather
<1>8. job[c].at = "none" /\ rowLock # c
  BY <1>5, <1>6 DEF IInv, CallFits, NoCall, LookupFits
<1>9. /\ run \in Run
      /\ IF pending # Nobody THEN run = job[c]
                             ELSE run.at = "queued" /\ run.request = request /\ run.missing = <<>>
  BY <1>2, <1>4, <1>5
<1>10. /\ \A q \in Procs : job'[q] = IF q = c THEN run ELSE job[q]
       /\ \A d \in Callers : call'[d] = IF d = c THEN own ELSE call[d]
  BY <1>5, <1>6
<1>11. StateOK' /\ CacheFits' /\ ServedFits' /\ ClosedFits'
  <2>1. StateOK'
    BY <1>5, <1>6, <1>7, <1>9 DEF IInv, StateOK
  <2>2. CacheFits' /\ ServedFits' /\ ClosedFits'
    BY <1>6 DEF IInv, CacheFits, ServedFits, ClosedFits
  <2>3. QED
    BY <2>1, <2>2
<1>12. ASSUME NEW q \in Procs PROVE LookupFits(q)'
  <2>1. CASE q = c
    BY <1>6, <1>8, <1>9, <1>10, <2>1 DEF IInv, LookupFits
  <2>2. CASE q # c
    BY <1>6, <1>10, <2>2 DEF IInv, LookupFits
  <2>3. QED
    BY <2>1, <2>2
<1>13. ASSUME NEW d \in Callers PROVE CallFits(d)'
  <2>1. CASE d = c
    BY <1>5, <1>6, <1>7, <1>8, <1>9, <1>10, <2>1 DEF CallFits
  <2>2. CASE d # c
    <3>1. CallFits(d) /\ job'[d] = job[d] /\ call'[d] = call[d] /\ control # d /\ control' # d
      BY <1>5, <1>6, <1>10, <2>2 DEF IInv
    <3>2. QED
      BY <1>6, <3>1 DEF CallFits
  <2>3. QED
    BY <2>1, <2>2
<1>14. PrefetchFits'
  BY <1>5, <1>6, <1>10 DEF IInv, PrefetchFits
<1>15. QED
  BY <1>11, <1>12, <1>13, <1>14 DEF IInv

-----------------------------------------------------------------------------

\* The output of a lookup that got the old bytes of every row it was asked for.
LEMMA OutputOld ==
    ASSUME NEW run \in Run, DOMAIN run.got = Owned(run.request), \A r \in DOMAIN run.got : run.got[r] = "old"
    PROVE  Output(run) = [i \in 1..Len(run.request) |->
                            IF run.request[i].owned THEN <<run.request[i].row, "old">> ELSE <<>>]
<1>1. run.request \in Seq(Item) /\ DOMAIN run.request = 1..Len(run.request)
  <2>1. run.request \in Seq(Item)
    BY DEF Run
  <2>2. QED
    BY <2>1, LenProperties
<1>2. ASSUME NEW i \in 1..Len(run.request), run.request[i].owned PROVE run.got[run.request[i].row] = "old"
  BY <1>1, <1>2 DEF Owned
<1>3. QED
  BY <1>1, <1>2 DEF Output

\* The step of a caller that ends its call: its lookup and the prefetch have settled,
\* and none is left running for it.
LEMMA CallEnds ==
    ASSUME IInv, NEW c \in Callers, control = c, call' = [call EXCEPT ![c] = NoCall], control' = Nobody,
           NEW q \in Procs, q = c \/ q = Prefetcher, job[q].at \in {"none", "done", "failed"},
           job' = [job EXCEPT ![q] = NoJob], q # c => job[c].at = "none",
           q = Prefetcher => pending' = Nobody, q # Prefetcher => pending' = pending,
           UNCHANGED <<changed, rowLock>>, closed' \in BOOLEAN,
           (cache' = <<>> /\ bytes' = [r \in {} |-> 0]) \/ UNCHANGED <<cache, bytes>>,
           closed' => cache' = <<>> /\ pending' = Nobody, ServedFits'
    PROVE  IInv'
<1>1. /\ job \in [Procs -> Run] /\ call \in [Callers -> Gather] /\ c \in Procs /\ c # Prefetcher
      /\ Prefetcher \in Procs /\ Nobody \notin Procs /\ (\A d \in Callers : d \in Procs /\ d # Prefetcher)
  BY NamesAssumption DEF IInv, StateOK, Procs
<1>2. NoJob \in Run /\ NoJob.at = "none" /\ NoJob.missing = <<>> /\ NoCall \in Gather /\ NoCall.at = "idle" /\ ~NoCall.late
  BY IdleRun DEF NoJob, NoCall
<1>3. PICK idle : idle = NoJob
  OBVIOUS
<1>4. PICK none : none = NoCall
  OBVIOUS
<1>5. /\ \A x \in Procs : job'[x] = IF x = q THEN idle ELSE job[x]
      /\ \A d \in Callers : call'[d] = IF d = c THEN none ELSE call[d]
  BY <1>1, <1>3, <1>4
<1>6. StateOK'
  <2>1. job' \in [Procs -> Run] /\ call' \in [Callers -> Gather]
    BY <1>1, <1>2
  <2>2. cache' \in Seq(Rows) /\ bytes' \in [ToSet(cache') -> {"old", "new"}]
    <3>1. CASE cache' = <<>> /\ bytes' = [r \in {} |-> 0]
      <4>1. ToSet(cache') = {} /\ bytes' \in [{} -> {"old", "new"}]
        BY <3>1, EmptyElements
      <4>2. QED
        BY <3>1, <4>1
    <3>2. CASE UNCHANGED <<cache, bytes>>
      BY <3>2 DEF IInv, StateOK
    <3>3. QED
      BY <3>1, <3>2
  <2>3. pending' \in Requests \cup {Nobody}
    BY DEF IInv, StateOK
  <2>4. QED
    BY <2>1, <2>2, <2>3 DEF IInv, StateOK
<1>7. CacheFits'
  <2>1. CASE cache' = <<>> /\ bytes' = [r \in {} |-> 0]
    BY <2>1, EmptyElements, CapacityAssumption DEF CacheFits
  <2>2. CASE UNCHANGED <<cache, bytes>>
    BY <2>2 DEF IInv, CacheFits
  <2>3. QED
    BY <2>1, <2>2
<1>8. ASSUME NEW x \in Procs PROVE LookupFits(x)'
  <2>1. CASE x = q
    <3>1. rowLock # q
      BY DEF IInv, LookupFits
    <3>2. QED
      BY <1>2, <1>3, <1>5, <2>1, <3>1 DEF LookupFits
  <2>2. CASE x # q
    <3>1. LookupFits(x) /\ job'[x] = job[x]
      BY <1>5, <2>2 DEF IInv
    <3>2. CASE job[x].at = "fetch"
      <4>1. cache' = cache \/ cache' = <<>>
        OBVIOUS
      <4>2. \A r \in ToSet(job[x].missing) : r \notin ToSet(cache')
        BY <3>1, <3>2, <4>1, EmptyElements DEF LookupFits
      <4>3. QED
        BY <3>1, <3>2, <4>2 DEF LookupFits
    <3>3. CASE job[x].at # "fetch"
      BY <3>1, <3>3 DEF LookupFits
    <3>4. QED
      BY <3>2, <3>3
  <2>3. QED
    BY <2>1, <2>2
<1>9. ASSUME NEW d \in Callers PROVE CallFits(d)'
  <2>1. CASE d = c
    <3>1. job'[c].at = "none"
      BY <1>1, <1>2, <1>3, <1>5
    <3>2. QED
      BY <1>1, <1>2, <1>4, <1>5, <2>1, <3>1 DEF CallFits
  <2>2. CASE d # c
    <3>1. CallFits(d) /\ job'[d] = job[d] /\ call'[d] = call[d] /\ call[d] = NoCall /\ control' # d
      BY <1>1, <1>5, <2>2 DEF IInv, CallFits
    <3>2. QED
      BY <1>2, <3>1 DEF CallFits
  <2>3. QED
    BY <2>1, <2>2
<1>10. PrefetchFits'
  <2>1. CASE q = Prefetcher
    BY <1>1, <1>2, <1>3, <1>5, <2>1 DEF PrefetchFits
  <2>2. CASE q # Prefetcher
    BY <1>1, <1>5, <2>2 DEF IInv, PrefetchFits
  <2>3. QED
    BY <2>1, <2>2
<1>11. ClosedFits'
  BY DEF ClosedFits
<1>12. QED
  BY <1>6, <1>7, <1>8, <1>9, <1>10, <1>11 DEF IInv

LEMMA GatherOwnStep ==
    ASSUME IInv, NEW c \in Callers, GatherOwn(c)
    PROVE  IInv'
<1>1. /\ control = c /\ call[c].at = "own" /\ job[c].at \in {"done", "failed"} /\ control' = Nobody
      /\ call' = [call EXCEPT ![c] = NoCall] /\ job' = [job EXCEPT ![c] = NoJob]
      /\ UNCHANGED <<changed, rowLock, closed, cache, bytes, pending>>
  BY DEF GatherOwn, Serve
<1>2. c \in Procs /\ c # Prefetcher /\ c # Nobody /\ job[c] \in Run /\ call[c] \in Gather
  BY NamesAssumption DEF IInv, StateOK, Procs
<1>3. ServedFits'
  <2>1. CASE job[c].at = "done" /\ Serve(c, job[c], FALSE)
    <3>1. PICK run \in Run : run = job[c]
      BY <1>2
    <3>2. /\ DOMAIN run.got = Owned(run.request) /\ (\A r \in DOMAIN run.got : run.got[r] = "old")
          /\ run.request = call[c].request /\ ~call[c].late /\ run.request \in Seq(Item)
      BY <1>1, <1>2, <2>1, <3>1 DEF IInv, LookupFits, CallFits, Run
    <3>3. Output(run) = [i \in 1..Len(run.request) |->
                           IF run.request[i].owned THEN <<run.request[i].row, "old">> ELSE <<>>]
      BY <3>2, OutputOld
    <3>4. PICK out : out = [data |-> Output(run), request |-> run.request, late |-> call[c].late, prefetched |-> FALSE]
      OBVIOUS
    <3>5. served' = out
      BY <2>1, <3>1, <3>2, <3>4 DEF Serve
    <3>6. out.data = Output(run) /\ out.request = run.request /\ ~out.late
      BY <3>2, <3>4
    <3>7. QED
      BY <3>2, <3>3, <3>5, <3>6 DEF ServedFits
  <2>2. CASE UNCHANGED served
    BY <2>2 DEF IInv, ServedFits
  <2>3. QED
    BY <2>1, <2>2 DEF GatherOwn
<1>4. closed' => cache' = <<>> /\ pending' = Nobody
  BY <1>1 DEF IInv, ClosedFits
<1>5. closed' \in BOOLEAN
  BY <1>1 DEF IInv, StateOK
<1>6. QED
  BY <1>1, <1>2, <1>3, <1>4, <1>5, CallEnds

LEMMA GatherPrefetchedStep ==
    ASSUME IInv, NEW c \in Callers, GatherPrefetched(c)
    PROVE  IInv'
<1>1. /\ control = c /\ call[c].at = "await" /\ job[Prefetcher].at = "done" /\ pending' = Nobody
      /\ UNCHANGED <<changed, rowLock, closed, cache, bytes>>
  BY DEF GatherPrefetched
<1>2. /\ job \in [Procs -> Run] /\ call \in [Callers -> Gather] /\ c \in Procs /\ c # Prefetcher
      /\ Prefetcher \in Procs /\ Nobody \notin Procs /\ (\A d \in Callers : d \in Procs /\ d # Prefetcher)
  BY NamesAssumption DEF IInv, StateOK, Procs
<1>3. ~closed /\ pending # Nobody /\ job[c].at = "none" /\ job[Prefetcher].request = pending
  BY <1>1, <1>2 DEF IInv, CallFits, ClosedFits, PrefetchFits
<1>4. CASE Matches(call[c].request)
  <2>1. /\ Serve(c, job[Prefetcher], TRUE) /\ job' = [job EXCEPT ![Prefetcher] = NoJob]
        /\ control' = Nobody /\ call' = [call EXCEPT ![c] = NoCall]
    BY <1>4 DEF GatherPrefetched, Serve
  <2>2. ServedFits'
    <3>1. PICK run \in Run : run = job[Prefetcher]
      BY <1>2
    <3>2. /\ DOMAIN run.got = Owned(run.request) /\ (\A r \in DOMAIN run.got : run.got[r] = "old")
          /\ run.request = call[c].request /\ run.request \in Seq(Item)
      BY <1>1, <1>2, <1>3, <1>4, <3>1 DEF IInv, LookupFits, Run, Matches
    <3>3. Output(run) = [i \in 1..Len(run.request) |->
                           IF run.request[i].owned THEN <<run.request[i].row, "old">> ELSE <<>>]
      BY <3>2, OutputOld
    <3>4. PICK out : out = [data |-> Output(run), request |-> run.request, late |-> call[c].late, prefetched |-> TRUE]
      OBVIOUS
    <3>5. served' = out
      BY <2>1, <3>1, <3>2, <3>4 DEF Serve
    <3>6. out.data = Output(run) /\ out.request = run.request /\ out.prefetched
      BY <3>4
    <3>7. QED
      BY <3>2, <3>3, <3>5, <3>6 DEF ServedFits
  <2>3. ~closed' /\ closed' \in BOOLEAN
    BY <1>1, <1>3 DEF IInv, StateOK
  <2>4. QED
    BY <1>1, <1>2, <1>3, <2>1, <2>2, <2>3, CallEnds
<1>5. CASE ~Matches(call[c].request)
  <2>1. PICK run : run = Queued(call[c].request)
    OBVIOUS
  <2>2. PICK own : own = [call[c] EXCEPT !.at = "own"]
    OBVIOUS
  <2>3. PICK idle : idle = NoJob
    OBVIOUS
  <2>4. /\ job' = [job EXCEPT ![Prefetcher] = idle, ![c] = run] /\ call' = [call EXCEPT ![c] = own]
        /\ UNCHANGED <<control, served>>
    BY <1>2, <1>5, <2>1, <2>2, <2>3 DEF GatherPrefetched
  <2>5. /\ own \in Gather /\ own.at = "own" /\ own.request = call[c].request /\ own.late = call[c].late
        /\ call[c].request \in Seq(Item)
    BY <1>2, <2>2 DEF Gather
  <2>6. run \in Run /\ run.at = "queued" /\ run.request = call[c].request /\ run.missing = <<>>
    BY <2>1, <2>5, QueuedRun
  <2>7. idle \in Run /\ idle.at = "none" /\ idle.missing = <<>>
    BY <2>3, IdleRun DEF NoJob
  <2>8. /\ \A x \in Procs : job'[x] = IF x = c THEN run ELSE IF x = Prefetcher THEN idle ELSE job[x]
        /\ \A d \in Callers : call'[d] = IF d = c THEN own ELSE call[d]
    BY <1>2, <2>4
  <2>9. StateOK'
    BY <1>1, <1>2, <2>4, <2>5, <2>6, <2>7 DEF IInv, StateOK
  <2>10. CacheFits' /\ ServedFits' /\ ClosedFits'
    BY <1>1, <1>3, <2>4 DEF IInv, CacheFits, ServedFits, ClosedFits
  <2>11. ASSUME NEW x \in Procs PROVE LookupFits(x)'
    <3>1. rowLock # c /\ rowLock # Prefetcher
      BY <1>1, <1>2, <1>3 DEF IInv, LookupFits
    <3>2. CASE x = c
      BY <1>1, <2>6, <2>8, <3>1, <3>2 DEF LookupFits
    <3>3. CASE x = Prefetcher
      BY <1>1, <1>2, <2>3, <2>7, <2>8, <3>1, <3>3 DEF LookupFits
    <3>4. CASE x # c /\ x # Prefetcher
      BY <1>1, <2>8, <3>4 DEF IInv, LookupFits
    <3>5. QED
      BY <3>2, <3>3, <3>4
  <2>12. ASSUME NEW d \in Callers PROVE CallFits(d)'
    <3>1. CASE d = c
      <4>1. CallFits(c)
        BY DEF IInv
      <4>2. QED
        BY <1>1, <1>2, <2>4, <2>5, <2>6, <2>8, <3>1, <4>1 DEF CallFits
    <3>2. CASE d # c
      <4>1. /\ CallFits(d) /\ job'[d] = job[d] /\ call'[d] = call[d] /\ call[d] = NoCall /\ control # d
            /\ control' # d
        BY <1>1, <1>2, <2>4, <2>8, <3>2 DEF IInv, CallFits
      <4>2. NoCall.at = "idle" /\ ~NoCall.late
        BY DEF NoCall
      <4>3. QED
        BY <4>1, <4>2 DEF CallFits
    <3>3. QED
      BY <3>1, <3>2
  <2>13. PrefetchFits'
    BY <1>1, <1>2, <2>7, <2>8 DEF PrefetchFits
  <2>14. QED
    BY <2>9, <2>10, <2>11, <2>12, <2>13 DEF IInv
<1>6. QED
  BY <1>4, <1>5

\* The call of c changes, its lookup and the prefetch do not.
LEMMA GatherRaisesStep ==
    ASSUME IInv, NEW c \in Callers, GatherRaises(c)
    PROVE  IInv'
<1>1. /\ control = c /\ call[c].at = "await" /\ control' = Nobody /\ call' = [call EXCEPT ![c] = NoCall]
      /\ UNCHANGED <<changed, rowLock, closed, cache, bytes, pending, job, served>>
  BY DEF GatherRaises
<1>2. call \in [Callers -> Gather] /\ c # Nobody /\ \A d \in Callers : d # Nobody
  BY NamesAssumption DEF IInv, StateOK, Procs
<1>3. PICK none : none = NoCall
  OBVIOUS
<1>4. none \in Gather /\ none.at = "idle" /\ ~none.late
  BY <1>3, IdleRun DEF NoCall
<1>5. \A d \in Callers : call'[d] = IF d = c THEN none ELSE call[d]
  BY <1>1, <1>2, <1>3
<1>6. StateOK' /\ CacheFits' /\ PrefetchFits' /\ ServedFits' /\ ClosedFits'
  <2>1. StateOK'
    BY <1>1, <1>2, <1>3, <1>4 DEF IInv, StateOK
  <2>2. QED
    BY <1>1, <2>1 DEF IInv, CacheFits, PrefetchFits, ServedFits, ClosedFits
<1>7. \A q \in Procs : LookupFits(q)'
  BY <1>1 DEF IInv, LookupFits
<1>8. ASSUME NEW d \in Callers PROVE CallFits(d)'
  <2>1. CASE d = c
    BY <1>1, <1>2, <1>3, <1>4, <1>5, <2>1 DEF IInv, CallFits
  <2>2. CASE d # c
    BY <1>1, <1>2, <1>5, <2>2 DEF IInv, CallFits
  <2>3. QED
    BY <2>1, <2>2
<1>9. QED
  BY <1>6, <1>7, <1>8 DEF IInv

LEMMA CloseBeginStep ==
    ASSUME IInv, NEW c \in Callers, CloseBegin(c)
    PROVE  IInv'
<1>1. PICK own : own = [call[c] EXCEPT !.at = "close"]
  OBVIOUS
<1>2. /\ control = Nobody /\ ~closed /\ call[c] = NoCall /\ control' = c /\ call' = [call EXCEPT ![c] = own]
      /\ UNCHANGED <<changed, rowLock, closed, cache, bytes, pending, job, served>>
  BY <1>1 DEF CloseBegin
<1>3. call \in [Callers -> Gather] /\ c # Nobody /\ \A d \in Callers : d # Nobody
  BY NamesAssumption DEF IInv, StateOK, Procs
<1>4. own \in Gather /\ own.at = "close" /\ ~own.late
  <2>1. ~NoCall.late
    BY DEF NoCall
  <2>2. call[c] \in Gather /\ ~call[c].late
    BY <1>2, <1>3, <2>1
  <2>3. QED
    BY <1>1, <2>2 DEF Gather
<1>5. \A d \in Callers : call'[d] = IF d = c THEN own ELSE call[d]
  BY <1>2, <1>3
<1>6. StateOK' /\ CacheFits' /\ PrefetchFits' /\ ServedFits' /\ ClosedFits'
  <2>1. StateOK'
    BY <1>2, <1>3, <1>4 DEF IInv, StateOK
  <2>2. QED
    BY <1>2, <2>1 DEF IInv, CacheFits, PrefetchFits, ServedFits, ClosedFits
<1>7. \A q \in Procs : LookupFits(q)'
  BY <1>2 DEF IInv, LookupFits
<1>8. ASSUME NEW d \in Callers PROVE CallFits(d)'
  <2>1. CASE d = c
    <3>1. job[c].at = "none"
      BY <1>2 DEF IInv, CallFits, NoCall
    <3>2. QED
      BY <1>2, <1>3, <1>4, <1>5, <2>1, <3>1 DEF IInv, CallFits
  <2>2. CASE d # c
    BY <1>2, <1>3, <1>5, <2>2 DEF IInv, CallFits
  <2>3. QED
    BY <2>1, <2>2
<1>9. QED
  BY <1>6, <1>7, <1>8 DEF IInv

LEMMA CloseEndStep ==
    ASSUME IInv, NEW c \in Callers, CloseEnd(c)
    PROVE  IInv'
<1>1. /\ control = c /\ call[c].at = "close" /\ job[Prefetcher].at \in {"none", "done", "failed"}
      /\ closed' = TRUE /\ cache' = <<>> /\ bytes' = [r \in {} |-> 0] /\ pending' = Nobody
      /\ job' = [job EXCEPT ![Prefetcher] = NoJob] /\ control' = Nobody /\ call' = [call EXCEPT ![c] = NoCall]
      /\ UNCHANGED <<changed, rowLock, served>>
  BY DEF CloseEnd
<1>2. Prefetcher \in Procs
  BY DEF Procs
<1>3. job[c].at = "none"
  BY <1>1, NamesAssumption DEF IInv, CallFits
<1>4. ServedFits'
  BY <1>1 DEF IInv, ServedFits
<1>5. QED
  BY <1>1, <1>2, <1>3, <1>4, CallEnds

LEMMA ChangeStep ==
    ASSUME IInv, Change
    PROVE  IInv'
<1>1. /\ changed' = TRUE /\ UNCHANGED <<control, rowLock, closed, cache, bytes, pending, job, call, served>>
  BY DEF Change
<1>2. \A q \in Procs : LookupFits(q)'
  BY <1>1 DEF IInv, LookupFits
<1>3. \A c \in Callers : CallFits(c)'
  BY <1>1 DEF IInv, CallFits
<1>4. StateOK' /\ CacheFits' /\ PrefetchFits' /\ ServedFits' /\ ClosedFits'
  BY <1>1 DEF IInv, StateOK, CacheFits, PrefetchFits, ServedFits, ClosedFits
<1>5. QED
  BY <1>2, <1>3, <1>4 DEF IInv

LEMMA StutterStep ==
    ASSUME IInv, UNCHANGED vars
    PROVE  IInv'
<1>1. UNCHANGED <<changed, control, rowLock, closed, cache, bytes, pending, job, call, served>>
  BY DEF vars
<1>2. (\A q \in Procs : LookupFits(q)') /\ (\A c \in Callers : CallFits(c)')
  BY <1>1 DEF IInv, LookupFits, CallFits
<1>3. StateOK' /\ CacheFits' /\ PrefetchFits' /\ ServedFits' /\ ClosedFits'
  BY <1>1 DEF IInv, StateOK, CacheFits, PrefetchFits, ServedFits, ClosedFits
<1>4. QED
  BY <1>2, <1>3 DEF IInv

\* The invariant holds in every reachable state.
THEOREM Invariance == Spec => []IInv
<1>1. ASSUME IInv, [Next]_vars PROVE IInv'
  <2>1. ASSUME NEW p \in Procs, Payloads(p) PROVE IInv'
    BY <1>1, <2>1, PayloadsBeginStep, PayloadsRefuseStep, FetchFailsStep, PayloadsEndStep, FetchRowStep DEF Payloads
  <2>2. ASSUME NEW request \in Requests, Prefetch(request) PROVE IInv'
    BY <1>1, <2>2, PrefetchStep
  <2>3. ASSUME NEW request \in Requests, NEW c \in Callers, GatherBegin(c, request) PROVE IInv'
    BY <1>1, <2>3, GatherBeginStep
  <2>4. ASSUME NEW c \in Callers, Finish(c) \/ CloseBegin(c) PROVE IInv'
    BY <1>1, <2>4, GatherPrefetchedStep, GatherRaisesStep, GatherOwnStep, CloseEndStep, CloseBeginStep DEF Finish
  <2>5. CASE Change
    BY <1>1, <2>5, ChangeStep
  <2>6. CASE UNCHANGED vars
    BY <1>1, <2>6, StutterStep
  <2>7. QED
    BY <1>1, <2>1, <2>2, <2>3, <2>4, <2>5, <2>6 DEF Next
<1>2. QED
  BY <1>1, InitIInv, PTL DEF Spec

-----------------------------------------------------------------------------
(* What it implies.                                                        *)

\* Variables have their types; the cache holds distinct rows and never more than its
\* capacity, whatever a request inserts (engram_rows.py:106-116).
THEOREM TypeCorrect == Spec => []TypeOK
<1>1. ASSUME IInv PROVE TypeOK
  <2>1. ToSet(cache) \subseteq Rows /\ DOMAIN bytes = ToSet(cache)
    BY <1>1, ElementsInRows DEF IInv, StateOK
  <2>2. \A p \in Procs : ToSet(job[p].missing) \subseteq Rows
    <3>1. \A p \in Procs : job[p].missing \in Seq(Rows)
      BY <1>1 DEF IInv, StateOK, Run
    <3>2. QED
      BY <3>1, ElementsInRows
  <2>3. QED
    BY <1>1, <2>1, <2>2 DEF IInv, StateOK, CacheFits, TypeOK
<1>2. QED
  BY <1>1, Invariance, PTL

\* No byte of a changed table is cached or served, and a gather that begins after the
\* change is served only by a prefetch made before (the second identity check comes
\* before the rows are cached, engram_rows.py:84-96).
THEOREM BytesOriginal == Spec => []OriginalBytesOnly
<1>1. ASSUME IInv PROVE OriginalBytesOnly
  <2>1. \A r \in DOMAIN bytes : bytes[r] = "old"
    BY <1>1 DEF IInv, StateOK, CacheFits
  <2>2. served.late => served.prefetched
    BY <1>1 DEF IInv, ServedFits
  <2>3. ASSUME NEW i \in DOMAIN served.data PROVE served.data[i] \in {<<>>} \cup (Rows \X {"old"})
    <3>1. PICK req \in Seq(Item) : req = served.request
      BY <1>1 DEF IInv, ServedFits
    <3>2. i \in 1..Len(req) /\ served.data[i] = IF req[i].owned THEN <<req[i].row, "old">> ELSE <<>>
      BY <1>1, <2>3, <3>1 DEF IInv, ServedFits
    <3>3. req[i] \in Item
      BY <3>1, <3>2, ElementOfSeq
    <3>4. req[i].row \in Rows
      BY <3>3 DEF Item
    <3>5. QED
      BY <3>2, <3>4
  <2>4. QED
    BY <2>1, <2>2, <2>3 DEF OriginalBytesOnly
<1>2. QED
  BY <1>1, Invariance, PTL

\* Each position of an output holds the row asked for there, or zeros if it is not
\* owned, whatever was prefetched, cached or evicted (engram_rows.py:135-152).
THEOREM AnswersFit == Spec => []ServedAsRequested
<1>1. ASSUME IInv PROVE ServedAsRequested
  <2>1. PICK req \in Seq(Item) : req = served.request
    BY <1>1 DEF IInv, ServedFits
  <2>2. /\ Len(req) \in Nat
        /\ served.data = [i \in 1..Len(req) |-> IF req[i].owned THEN <<req[i].row, "old">> ELSE <<>>]
    BY <1>1, <2>1, LenProperties DEF IInv, ServedFits
  <2>3. DOMAIN served.data = 1..Len(req)
    BY <2>2
  <2>4. Len(served.data) = Len(req)
    BY <2>2, <2>3
  <2>5. ASSUME NEW i \in DOMAIN served.data
        PROVE  IF served.request[i].owned THEN served.data[i][1] = served.request[i].row
                                          ELSE served.data[i] = <<>>
    BY <2>1, <2>2, <2>3, <2>5
  <2>6. QED
    BY <2>1, <2>4, <2>5 DEF ServedAsRequested
<1>2. QED
  BY <1>1, Invariance, PTL

\* When close() has returned nothing is cached, outstanding or running
\* (engram_rows.py:154-168).
THEOREM ClosedQuiet == Spec => []ClosedIsQuiet
<1>1. ASSUME IInv PROVE ClosedIsQuiet
  <2> SUFFICES ASSUME closed
               PROVE  cache = <<>> /\ pending = Nobody /\ rowLock = Nobody /\ \A p \in Procs : job[p] = NoJob
    BY DEF ClosedIsQuiet
  <2>1. cache = <<>> /\ pending = Nobody /\ control = Nobody
    BY <1>1 DEF IInv, ClosedFits
  <2>2. ASSUME NEW p \in Procs PROVE job[p] = NoJob /\ rowLock # p
    <3>1. LookupFits(p)
      BY <1>1 DEF IInv
    <3>2. CASE p = Prefetcher
      BY <1>1, <2>1, <3>1, <3>2 DEF IInv, PrefetchFits, LookupFits
    <3>3. CASE p \in Callers
      <4>1. CallFits(p) /\ p # Nobody
        BY <1>1, <3>3, NamesAssumption DEF IInv
      <4>2. call[p].at # "own"
        BY <2>1, <4>1 DEF CallFits, NoCall
      <4>3. job[p].at = "none"
        BY <4>1, <4>2 DEF CallFits
      <4>4. QED
        BY <3>1, <4>3 DEF LookupFits
    <3>4. QED
      BY <3>2, <3>3 DEF Procs
  <2>3. QED
    BY <1>1, <2>1, <2>2 DEF IInv, StateOK
<1>2. QED
  BY <1>1, Invariance, PTL

-----------------------------------------------------------------------------
(* Orders.                                                                 *)

Orders(R, S) ==
    /\ \A x \in S : <<x, x>> \notin R
    /\ \A x, y \in S : x = y \/ <<x, y>> \in R \/ <<y, x>> \in R
    /\ \A x, y, z \in S : <<x, y>> \in R /\ <<y, z>> \in R => <<x, z>> \in R
Below(R, S, x) == {y \in S : <<y, x>> \in R}
Lists(L, S) ==
    /\ L \in [1..Cardinality(S) -> S] /\ \A x \in S : \E i \in 1..Cardinality(S) : L[i] = x
    /\ \A i, j \in 1..Cardinality(S) : L[i] = L[j] => i = j

\* In an ordered set, for every number there is one element with so many before it.
LEMMA RanksFill ==
    ASSUME NEW S, IsFiniteSet(S), NEW R, Orders(R, S)
    PROVE  /\ Cardinality(S) \in Nat
           /\ \A i \in 1..Cardinality(S) : \E x \in S : Cardinality(Below(R, S, x)) = i - 1
<1> DEFINE n == Cardinality(S)
           c == [x \in S |-> Cardinality(Below(R, S, x))]
<1>1. n \in Nat
  BY FS_CardinalityType
<1>2. ASSUME NEW x \in S PROVE c[x] \in 0..(n - 1) /\ IsFiniteSet(Below(R, S, x))
  <2>1. Below(R, S, x) \in SUBSET (S \ {x})
    BY DEF Orders, Below
  <2>2. IsFiniteSet(S \ {x}) /\ Cardinality(S \ {x}) = n - 1
    BY FS_RemoveElement
  <2>3. IsFiniteSet(Below(R, S, x)) /\ Cardinality(Below(R, S, x)) <= n - 1
    BY <2>1, <2>2, FS_Subset
  <2>4. QED
    BY <1>1, <2>3, FS_CardinalityType
<1>3. ASSUME NEW x \in S, NEW y \in S, <<x, y>> \in R PROVE c[x] < c[y]
  <2>1. Below(R, S, x) \cup {x} \in SUBSET Below(R, S, y) /\ x \notin Below(R, S, x)
    BY <1>3 DEF Orders, Below
  <2>2. Cardinality(Below(R, S, x) \cup {x}) = c[x] + 1
    BY <1>2, <2>1, FS_AddElement
  <2>3. c[x] + 1 <= c[y]
    BY <1>2, <2>1, <2>2, FS_Subset
  <2>4. QED
    BY <1>1, <1>2, <2>3
<1>4. c \in Injection(S, 0..(n - 1))
  <2>1. ASSUME NEW x \in S, NEW y \in S, c[x] = c[y] PROVE x = y
    <3>1. CASE <<x, y>> \in R
      BY <1>1, <1>2, <1>3, <2>1, <3>1
    <3>2. CASE <<y, x>> \in R
      BY <1>1, <1>2, <1>3, <2>1, <3>2
    <3>3. QED
      BY <3>1, <3>2 DEF Orders
  <2>2. c \in [S -> 0..(n - 1)]
    BY <1>2
  <2> HIDE DEF c
  <2>3. QED
    BY <2>1, <2>2 DEF Injection, IsInjective
<1>5. IsFiniteSet(0..(n - 1)) /\ Cardinality(0..(n - 1)) = n
  BY <1>1, FS_Interval
<1> HIDE DEF c
<1>6. c \in Surjection(S, 0..(n - 1))
  BY <1>4, <1>5, FS_Injection DEF n
<1>7. ASSUME NEW i \in 1..n PROVE \E x \in S : c[x] = i - 1
  <2>1. i - 1 \in 0..(n - 1)
    BY <1>1
  <2>2. QED
    BY <1>6, <2>1 DEF Surjection
<1>8. QED
  BY <1>1, <1>7 DEF c

\* A sequence that has at each place the element with so many before it lists the set.
LEMMA RankedLists ==
    ASSUME NEW S, IsFiniteSet(S), NEW R, NEW L \in [1..Cardinality(S) -> S],
           \A i \in 1..Cardinality(S) : Cardinality(Below(R, S, L[i])) = i - 1
    PROVE  Lists(L, S)
<1> DEFINE n == Cardinality(S)
           D == 1..n
<1>1. n \in Nat /\ IsFiniteSet(D) /\ Cardinality(D) = n
  <2>1. n \in Nat
    BY FS_CardinalityType
  <2> HIDE DEF n
  <2>2. QED
    BY <2>1, UpToFinite
<1>2. L \in [D -> S]
  OBVIOUS
<1>3. ASSUME NEW i \in D, NEW j \in D, L[i] = L[j] PROVE i = j
  <2>1. i - 1 = j - 1
    BY <1>3
  <2>2. QED
    BY <1>1, <2>1
<1>4. L \in Injection(D, S)
  BY <1>2, <1>3 DEF Injection, IsInjective
<1>5. L \in Surjection(D, S)
  BY <1>1, <1>4, FS_Injection
<1>6. QED
  BY <1>2, <1>3, <1>5 DEF Lists, Surjection

-----------------------------------------------------------------------------
(* The bit widths of a layer.                                              *)

Ks == (1..8) \X (1..8) \X (1..8)

LEMMA TupleParts ==
    ASSUME NEW t \in Ks
    PROVE  t = <<t[1], t[2], t[3]>> /\ t[1] \in 1..8 /\ t[2] \in 1..8 /\ t[3] \in 1..8 /\ DOMAIN t = 1..3
BY DEF Ks

LEMMA TupleLess ==
    ASSUME NEW s, NEW t
    PROVE  TupleBefore(s, t) <=> \/ s[1] < t[1]
                                 \/ s[1] = t[1] /\ s[2] < t[2]
                                 \/ s[1] = t[1] /\ s[2] = t[2] /\ s[3] < t[3]
<1> DEFINE At(i) == s[i] < t[i] /\ \A j \in 1..(i - 1) : s[j] = t[j]
<1>1. TupleBefore(s, t) <=> At(1) \/ At(2) \/ At(3)
  <2>1. 1..3 = {1, 2, 3}
    OBVIOUS
  <2> HIDE DEF At
  <2>2. (\E i \in 1..3 : At(i)) <=> At(1) \/ At(2) \/ At(3)
    BY <2>1
  <2>3. QED
    BY <2>2 DEF TupleBefore, At
<1>2. At(1) <=> s[1] < t[1]
  OBVIOUS
<1>3. At(2) <=> s[1] = t[1] /\ s[2] < t[2]
  <2>1. 1..(2 - 1) = {1}
    OBVIOUS
  <2>2. QED
    BY <2>1
<1>4. At(3) <=> s[1] = t[1] /\ s[2] = t[2] /\ s[3] < t[3]
  <2>1. 1..(3 - 1) = {1, 2}
    OBVIOUS
  <2>2. QED
    BY <2>1
<1>5. QED
  BY <1>1, <1>2, <1>3, <1>4

\* Tuples of bit widths are ordered.
LEMMA TuplesOrdered ==
    ASSUME NEW s \in Ks, NEW t \in Ks
    PROVE  /\ ~TupleBefore(s, s)
           /\ s = t \/ TupleBefore(s, t) \/ TupleBefore(t, s)
           /\ \A u \in Ks : TupleBefore(s, t) /\ TupleBefore(t, u) => TupleBefore(s, u)
<1>1. /\ s = <<s[1], s[2], s[3]>> /\ s[1] \in Int /\ s[2] \in Int /\ s[3] \in Int
      /\ t = <<t[1], t[2], t[3]>> /\ t[1] \in Int /\ t[2] \in Int /\ t[3] \in Int
  BY TupleParts
<1>2. ~TupleBefore(s, s)
  BY <1>1, TupleLess
<1>3. s = t \/ TupleBefore(s, t) \/ TupleBefore(t, s)
  <2>1. CASE s[1] = t[1] /\ s[2] = t[2] /\ s[3] = t[3]
    BY <1>1, <2>1
  <2>2. CASE ~(s[1] = t[1] /\ s[2] = t[2] /\ s[3] = t[3])
    BY <1>1, <2>2, TupleLess
  <2>3. QED
    BY <2>1, <2>2
<1>4. ASSUME NEW u \in Ks, TupleBefore(s, t), TupleBefore(t, u) PROVE TupleBefore(s, u)
  <2>1. u[1] \in Int /\ u[2] \in Int /\ u[3] \in Int
    BY TupleParts
  <2>2. QED
    BY <1>1, <1>4, <2>1, TupleLess
<1>5. QED
  BY <1>2, <1>3, <1>4

LEMMA ExpertFacts ==
    /\ NumExperts \in Nat \ {0} /\ Remote = NumExperts /\ Remote \notin Experts /\ 0 \in Experts
    /\ IsFiniteSet(Experts) /\ Cardinality(Experts) = NumExperts
    /\ \A i \in 1..NumExperts : i - 1 \in Experts
    /\ \A e \in Experts : e \in 0..NumExperts /\ e \in Nat /\ e < NumExperts /\ e + 1 \in 1..NumExperts
    /\ \A x \in 0..NumExperts : x \in Experts \/ x = Remote
<1>1. NumExperts \in Nat \ {0}
  BY LimitsAssumption
<1>2. IsFiniteSet(Experts) /\ Cardinality(Experts) = NumExperts
  BY <1>1, FS_Interval DEF Experts
<1>3. QED
  BY <1>1, <1>2 DEF Experts, Remote

\* The tuples of a layer.
LEMMA KFacts ==
    ASSUME case \in Cases
    PROVE  /\ \A e \in Experts : KOf(e) \in Ks /\ KOf(e) \in Tuples
           /\ Tuples \subseteq Ks /\ \A t \in Tuples : \E e \in Experts : t = KOf(e)
<1>1. case.k \in [Experts -> Ks]
  BY CasesAssumption DEF Experts, Ks
<1>2. ASSUME NEW e \in Experts PROVE KOf(e) \in Ks
  <2>1. PICK t \in Ks : t = case.k[e]
    BY <1>1
  <2>2. t[1] \in 1..8 /\ t[2] \in 1..8 /\ t[3] \in 1..8
    BY TupleParts
  <2>3. KOf(e) = IF Gateless THEN <<t[2], t[2], t[3]>> ELSE t
    BY <2>1 DEF KOf
  <2>4. <<t[2], t[2], t[3]>> \in Ks
    BY <2>2 DEF Ks
  <2>5. QED
    BY <2>3, <2>4
<1>3. QED
  BY <1>2 DEF Tuples

LEMMA KsFinite == IsFiniteSet(Ks)
<1>1. IsFiniteSet(1..8)
  BY UpToFinite
<1> DEFINE A == 1..8
<1> HIDE DEF A
<1>2. IsFiniteSet(A) /\ IsFiniteSet(A \X A)
  BY <1>1, FS_Product DEF A
<1>3. PICK f : f = [x \in (A \X A) \X A |-> <<x[1][1], x[1][2], x[2]>>]
  OBVIOUS
<1>4. IsFiniteSet((A \X A) \X A)
  BY <1>2, FS_Product
<1>5. f \in Surjection((A \X A) \X A, A \X A \X A)
  <2>1. f \in [(A \X A) \X A -> A \X A \X A]
    BY <1>3
  <2>2. ASSUME NEW t \in A \X A \X A PROVE \E x \in (A \X A) \X A : f[x] = t
    <3>1. <<<<t[1], t[2]>>, t[3]>> \in (A \X A) \X A
      OBVIOUS
    <3>2. f[<<<<t[1], t[2]>>, t[3]>>] = t
      BY <1>3, <3>1
    <3>3. QED
      BY <3>1, <3>2
  <2>3. QED
    BY <2>1, <2>2 DEF Surjection
<1>6. QED
  BY <1>4, <1>5, FS_Surjection DEF A, Ks

\* What the layer makes of its tuples: the largest K, whether it is mixed, the one tuple.
LEMMA WidthFacts ==
    ASSUME case \in Cases
    PROVE  /\ \A e \in Experts : ArrayK(e) = KOf(e)
           /\ ~MixedK => \A e \in Experts : KOf(e) = Thrice(ScalarK)
           /\ OneTuple => \A e \in Experts : KOf(e) = CHOOSE t \in Tuples : TRUE
           /\ ~MixedK => OneTuple
<1>1. /\ \A e \in Experts : KOf(e) \in Ks /\ KOf(e) \in Tuples
      /\ Tuples \in SUBSET Ks /\ \A t \in Tuples : \E e \in Experts : t = KOf(e)
  BY KFacts
<1>2. \A t \in Tuples : t = <<t[1], t[2], t[3]>> /\ t[1] \in 1..8 /\ t[2] \in 1..8 /\ t[3] \in 1..8 /\ DOMAIN t = 1..3
  BY <1>1, TupleParts
<1>3. PICK t0 : t0 \in Tuples
  BY <1>1, ExpertFacts
<1>4. IsFiniteSet(Tuples)
  BY <1>1, KsFinite, FS_Subset
<1>5. \A e \in Experts : ArrayK(e) = KOf(e)
  <2> DEFINE U == UNION {ToSet(t) : t \in Tuples}
             Top(k) == \A t \in Tuples : \A i \in 1..3 : t[i] <= k
  <2>1. \A t \in Tuples : \A i \in 1..3 : t[i] \in U
    BY <1>2 DEF ToSet
  <2>2. U \in SUBSET (1..8) /\ U # {}
    <3>1. \A t \in Tuples : \A i \in 1..3 : t[i] \in 1..8
      BY <1>2
    <3>2. \A t \in Tuples : ToSet(t) \subseteq 1..8
      BY <1>2, <3>1 DEF ToSet
    <3>3. QED
      BY <1>3, <2>1, <3>2
  <2>3. MaxK = CHOOSE k \in U : Top(k)
    BY DEF MaxK
  <2>4. Max(U) \in U /\ \A y \in U : Max(U) >= y
    BY <2>2, MaxIn
  <2>5. Top(Max(U))
    <3>1. \A y \in U : y \in Int
      BY <2>2
    <3>2. QED
      BY <2>1, <2>4, <3>1
  <2> HIDE DEF U
  <2>6. Top(MaxK)
    <3> HIDE DEF Top
    <3>1. QED
      BY <2>3, <2>4, <2>5
  <2>7. QED
    BY <1>1, <2>6 DEF ArrayK
<1>6. OneTuple => \A e \in Experts : KOf(e) = CHOOSE t \in Tuples : TRUE
  <2>1. ASSUME OneTuple PROVE \E x : Tuples = {x}
    BY <1>4, <2>1, FS_Singleton DEF OneTuple
  <2>2. QED
    BY <1>1, <1>3, <2>1
<1>7. ASSUME ~MixedK PROVE (\A e \in Experts : KOf(e) = Thrice(ScalarK)) /\ OneTuple
  <2> DEFINE W == UNION {{t[1], t[2], t[3]} : t \in Tuples}
  <2>1. W \in SUBSET (1..8)
    BY <1>2
  <2>2. IsFiniteSet(W) /\ Cardinality(W) \in Nat
    <3>1. IsFiniteSet(1..8)
      BY UpToFinite
    <3>2. IsFiniteSet(W)
      BY <2>1, <3>1, FS_Subset
    <3> HIDE DEF W
    <3>3. QED
      BY <3>2, FS_CardinalityType
  <2>3. ~(Cardinality(W) > 1)
    BY <1>7 DEF MixedK
  <2>4. t0[1] \in W /\ \A t \in Tuples : t[1] \in W /\ t[2] \in W /\ t[3] \in W
    BY <1>3
  <2> HIDE DEF W
  <2>5. Cardinality(W) = 1
    <3>1. Cardinality(W) # 0
      BY <2>2, <2>4, FS_EmptySet
    <3>2. QED
      BY <2>2, <2>3, <3>1
  <2>6. PICK k : W = {k}
    BY <2>2, <2>5, FS_Singleton
  <2>7. \A t \in Tuples : t = Thrice(k) /\ t[3] = k
    BY <1>2, <2>4, <2>6 DEF Thrice
  <2>8. ScalarK = k
    BY <1>3, <2>7 DEF ScalarK
  <2>9. Tuples = {Thrice(k)}
    BY <1>3, <2>7
  <2>10. Cardinality(Tuples) = 1
    BY <2>9, FS_Singleton
  <2>11. QED
    BY <1>1, <2>7, <2>8, <2>10 DEF OneTuple
<1>8. QED
  BY <1>5, <1>6, <1>7

\* The groups are the tuples.
LEMMA GroupsList == ASSUME case \in Cases PROVE Lists(KGroups, Tuples)
<1> DEFINE R == {p \in Tuples \X Tuples : TupleBefore(p[1], p[2])}
<1>1. Tuples \in SUBSET Ks /\ IsFiniteSet(Tuples)
  BY KFacts, KsFinite, FS_Subset
<1>2. \A x, y \in Tuples : <<x, y>> \in R <=> TupleBefore(x, y)
  OBVIOUS
<1>3. Orders(R, Tuples)
  <2> HIDE DEF R
  <2>1. \A x, y \in Tuples : x \in Ks /\ y \in Ks
    BY <1>1
  <2>2. \A x \in Tuples : <<x, x>> \notin R
    BY <1>2, <2>1, TuplesOrdered
  <2>3. \A x, y \in Tuples : x = y \/ <<x, y>> \in R \/ <<y, x>> \in R
    BY <1>2, <2>1, TuplesOrdered
  <2>4. \A x, y, z \in Tuples : <<x, y>> \in R /\ <<y, z>> \in R => <<x, z>> \in R
    BY <1>2, <2>1, TuplesOrdered
  <2>5. QED
    BY <2>2, <2>3, <2>4 DEF Orders
<1>4. \A x \in Tuples : {y \in Tuples : TupleBefore(y, x)} = Below(R, Tuples, x)
  BY <1>2 DEF Below
<1> HIDE DEF R
<1>5. \A i \in 1..Cardinality(Tuples) : \E x \in Tuples : Cardinality({y \in Tuples : TupleBefore(y, x)}) = i - 1
  BY <1>1, <1>3, <1>4, RanksFill
<1>6. KGroups = [i \in 1..Cardinality(Tuples) |->
                    CHOOSE x \in Tuples : Cardinality({y \in Tuples : TupleBefore(y, x)}) = i - 1]
  BY DEF KGroups, Ordered
<1>7. ASSUME NEW i \in 1..Cardinality(Tuples)
      PROVE  KGroups[i] \in Tuples /\ Cardinality(Below(R, Tuples, KGroups[i])) = i - 1
  <2>1. KGroups[i] = CHOOSE x \in Tuples : Cardinality({y \in Tuples : TupleBefore(y, x)}) = i - 1
    BY <1>6
  <2>2. KGroups[i] \in Tuples /\ Cardinality({y \in Tuples : TupleBefore(y, KGroups[i])}) = i - 1
    BY <1>5, <2>1
  <2>3. QED
    BY <1>4, <2>2
<1>8. KGroups \in [1..Cardinality(Tuples) -> Tuples]
  <2>1. \A i \in 1..Cardinality(Tuples) :
           (CHOOSE x \in Tuples : Cardinality({y \in Tuples : TupleBefore(y, x)}) = i - 1) \in Tuples
    BY <1>5
  <2>2. QED
    BY <1>6, <2>1, Zenon
<1>9. QED
  BY <1>1, <1>7, <1>8, RankedLists
LEMMA KMaxNumber == ASSUME case \in Cases, NEW e \in Experts PROVE KMax(e) \in Nat
<1> DEFINE U == {KOf(e)[i] : i \in 1..3}
           Top(k) == \A i \in 1..3 : k >= KOf(e)[i]
<1>1. KOf(e) \in Ks
  BY KFacts
<1>2. \A i \in 1..3 : KOf(e)[i] \in 1..8
  BY <1>1, TupleParts
<1>3. U \in SUBSET (1..8) /\ U # {}
  <2>1. 1 \in 1..3
    OBVIOUS
  <2>2. QED
    BY <1>2, <2>1
<1>4. Max(U) \in U /\ \A y \in U : Max(U) >= y
  BY <1>3, MaxIn
<1>5. Top(Max(U))
  BY <1>4
<1>6. KMax(e) = CHOOSE k \in U : Top(k)
  BY DEF KMax
<1> HIDE DEF U, Top
<1>7. KMax(e) \in U
  BY <1>4, <1>5, <1>6
<1>8. KMax(e) \in 1..8
  BY <1>3, <1>7
<1>9. QED
  BY <1>8

LEMMA ExpertsListed ==
    ASSUME NEW R, Orders(R, Experts), NEW L, L = [i \in 1..Cardinality(Experts) |-> L[i]],
           \A i \in 1..Cardinality(Experts) : L[i] = CHOOSE x \in Experts : Cardinality(Below(R, Experts, x)) = i - 1
    PROVE  /\ Lists(L, Experts)
           /\ \A i \in 1..NumExperts : Cardinality(Below(R, Experts, L[i])) = i - 1
<1>1. IsFiniteSet(Experts) /\ Cardinality(Experts) = NumExperts
  BY ExpertFacts
<1>2. \A i \in 1..Cardinality(Experts) : \E x \in Experts : Cardinality(Below(R, Experts, x)) = i - 1
  BY <1>1, RanksFill
<1>3. ASSUME NEW i \in 1..Cardinality(Experts)
      PROVE  L[i] \in Experts /\ Cardinality(Below(R, Experts, L[i])) = i - 1
  BY <1>2
<1>4. L \in [1..Cardinality(Experts) -> Experts]
  <2> DEFINE D == 1..Cardinality(Experts)
  <2>1. L = [i \in D |-> L[i]] /\ \A i \in D : L[i] \in Experts
    BY <1>3
  <2> HIDE DEF D
  <2>2. L \in [D -> Experts]
    BY <2>1
  <2>3. QED
    BY <2>2 DEF D
<1>5. Lists(L, Experts)
  BY <1>1, <1>3, <1>4, RankedLists
<1>6. QED
  BY <1>1, <1>3, <1>5

\* Every place once: by ids, by falling K, by tuples.
Order(L) ==
    /\ L \in [1..NumExperts -> Experts] /\ \A x \in Experts : \E i \in 1..NumExperts : L[i] = x
    /\ \A i, j \in 1..NumExperts : L[i] = L[j] => i = j

LEMMA ByIdsOrders == Order(ByIds) /\ \A i \in 1..NumExperts : ByIds[i] = i - 1
<1>1. \A i \in 1..NumExperts : ByIds[i] = i - 1
  BY DEF ByIds
<1>2. ByIds \in [1..NumExperts -> Experts]
  BY ExpertFacts DEF ByIds
<1>3. ASSUME NEW x \in Experts PROVE \E i \in 1..NumExperts : ByIds[i] = x
  <2>1. x + 1 \in 1..NumExperts /\ x \in Nat
    BY ExpertFacts
  <2>2. ByIds[x + 1] = x
    BY <1>1, <2>1
  <2>3. QED
    BY <2>1, <2>2
<1>4. ASSUME NEW i \in 1..NumExperts, NEW j \in 1..NumExperts, ByIds[i] = ByIds[j] PROVE i = j
  <2>1. i - 1 = j - 1
    BY <1>1, <1>4
  <2>2. QED
    BY <2>1
<1>5. QED
  BY <1>1, <1>2, <1>3, <1>4 DEF Order

LEMMA KDescendingOrders ==
    ASSUME case \in Cases
    PROVE  Order(KDescending) /\ (OneTuple => KDescending = ByIds)
<1> DEFINE R == {p \in Experts \X Experts : WiderBefore(p[1], p[2])}
<1>1. \A x, y \in Experts : <<x, y>> \in R <=> WiderBefore(x, y)
  OBVIOUS
<1>2. \A x \in Experts : KMax(x) \in Nat /\ x \in Nat
  BY KMaxNumber, ExpertFacts
<1>3. \A x \in Experts : {y \in Experts : WiderBefore(y, x)} = Below(R, Experts, x)
  BY <1>1 DEF Below
<1> HIDE DEF R
<1>4. /\ KDescending = [i \in 1..Cardinality(Experts) |-> KDescending[i]]
      /\ \A i \in 1..Cardinality(Experts) :
            KDescending[i] = CHOOSE x \in Experts : Cardinality(Below(R, Experts, x)) = i - 1
  <2>1. KDescending = [i \in 1..Cardinality(Experts) |->
                        CHOOSE x \in Experts : Cardinality({y \in Experts : WiderBefore(y, x)}) = i - 1]
    BY DEF KDescending, Ordered
  <2>2. ASSUME NEW i \in 1..Cardinality(Experts)
        PROVE  KDescending[i] = CHOOSE x \in Experts : Cardinality(Below(R, Experts, x)) = i - 1
    <3>1. KDescending[i] = CHOOSE x \in Experts : Cardinality({y \in Experts : WiderBefore(y, x)}) = i - 1
      BY <2>1
    <3>2. QED
      BY <1>3, <3>1
  <2>3. KDescending = [i \in 1..Cardinality(Experts) |-> KDescending[i]]
    <3> DEFINE D == 1..Cardinality(Experts)
               C(i) == CHOOSE x \in Experts : Cardinality({y \in Experts : WiderBefore(y, x)}) = i - 1
    <3>1. KDescending = [i \in D |-> C(i)]
      BY <2>1
    <3> HIDE DEF D, C
    <3>2. KDescending = [i \in D |-> KDescending[i]]
      BY <3>1
    <3>3. QED
      BY <3>2 DEF D
  <2>4. QED
    BY <2>2, <2>3
<1>5. Orders(R, Experts)
  <2>1. ASSUME NEW x \in Experts PROVE <<x, x>> \notin R
    <3>1. KMax(x) \in Nat /\ x \in Nat
      BY <1>2
    <3>2. ~WiderBefore(x, x)
      BY <3>1 DEF WiderBefore
    <3>3. QED
      BY <1>1, <3>2
  <2>2. ASSUME NEW x \in Experts, NEW y \in Experts PROVE x = y \/ <<x, y>> \in R \/ <<y, x>> \in R
    <3>1. KMax(x) \in Nat /\ KMax(y) \in Nat /\ x \in Nat /\ y \in Nat
      BY <1>2
    <3>2. x = y \/ WiderBefore(x, y) \/ WiderBefore(y, x)
      BY <3>1 DEF WiderBefore
    <3>3. QED
      BY <1>1, <3>2
  <2>3. ASSUME NEW x \in Experts, NEW y \in Experts, NEW z \in Experts, <<x, y>> \in R, <<y, z>> \in R
        PROVE  <<x, z>> \in R
    <3>1. KMax(x) \in Nat /\ KMax(y) \in Nat /\ KMax(z) \in Nat /\ x \in Nat /\ y \in Nat /\ z \in Nat
      BY <1>2
    <3>2. WiderBefore(x, y) /\ WiderBefore(y, z)
      BY <1>1, <2>3
    <3>3. WiderBefore(x, z)
      BY <3>1, <3>2 DEF WiderBefore
    <3>4. QED
      BY <1>1, <3>3
  <2>4. QED
    BY <2>1, <2>2, <2>3 DEF Orders
<1>6. /\ Lists(KDescending, Experts)
      /\ \A i \in 1..NumExperts : Cardinality(Below(R, Experts, KDescending[i])) = i - 1
  BY <1>4, <1>5, ExpertsListed
<1>7. Order(KDescending)
  BY <1>6, ExpertFacts DEF Order, Lists
<1>8. ASSUME OneTuple PROVE KDescending = ByIds
  <2>1. \A d, e \in Experts : KOf(d) = KOf(e)
    BY <1>8, WidthFacts
  <2>2. \A d, e \in Experts : KMax(d) = KMax(e)
    BY <2>1 DEF KMax
  <2>3. ASSUME NEW i \in 1..NumExperts PROVE KDescending[i] = i - 1
    <3>1. KDescending[i] \in Experts
      BY <1>7 DEF Order
    <3>2. PICK x \in Experts : x = KDescending[i]
      BY <3>1
    <3>3. x \in Nat /\ NumExperts \in Nat /\ x < NumExperts
      BY ExpertFacts
    <3>4. Below(R, Experts, x) = 0..(x - 1)
      <4>1. ASSUME NEW y \in Experts PROVE <<y, x>> \in R <=> y < x
        <5>1. KMax(x) = KMax(y) /\ KMax(x) \in Nat
          BY <1>2, <2>2
        <5>2. WiderBefore(y, x) <=> y < x
          BY <5>1 DEF WiderBefore
        <5>3. QED
          BY <1>1, <5>2
      <4>2. QED
        BY <3>3, <4>1 DEF Below, Experts
    <3>5. Cardinality(0..(x - 1)) = x
      <4>1. 0 \in Int /\ x - 1 \in Int
        BY <3>3
      <4>2. Cardinality(0..(x - 1)) = IF 0 > x - 1 THEN 0 ELSE (x - 1) - 0 + 1
        BY <4>1, FS_Interval
      <4>3. QED
        BY <3>3, <4>2
    <3>6. QED
      BY <1>6, <3>2, <3>4, <3>5
  <2> DEFINE D == 1..NumExperts
  <2>4. KDescending \in [D -> Experts] /\ ByIds \in [D -> Experts]
    BY <1>7, ByIdsOrders DEF Order
  <2>5. \A i \in D : KDescending[i] = ByIds[i]
    BY <2>3, ByIdsOrders
  <2> HIDE DEF D
  <2>6. KDescending = [i \in D |-> KDescending[i]] /\ ByIds = [i \in D |-> ByIds[i]]
    BY <2>4
  <2>7. [i \in D |-> KDescending[i]] = [i \in D |-> ByIds[i]]
    BY <2>5
  <2>8. QED
    BY <2>6, <2>7, Zenon
<1>9. QED
  BY <1>7, <1>8

LEMMA PackedOrders == ASSUME case \in Cases PROVE Order(Packed)
<1> DEFINE R == {p \in Experts \X Experts : GroupBefore(p[1], p[2])}
<1>1. \A x, y \in Experts : <<x, y>> \in R <=> GroupBefore(x, y)
  OBVIOUS
<1>2. \A x \in Experts : KOf(x) \in Ks /\ x \in Nat
  BY KFacts, ExpertFacts
<1>3. \A x \in Experts : {y \in Experts : GroupBefore(y, x)} = Below(R, Experts, x)
  BY <1>1 DEF Below
<1> HIDE DEF R
<1>4. /\ Packed = [i \in 1..Cardinality(Experts) |-> Packed[i]]
      /\ \A i \in 1..Cardinality(Experts) :
            Packed[i] = CHOOSE x \in Experts : Cardinality(Below(R, Experts, x)) = i - 1
  <2>1. Packed = [i \in 1..Cardinality(Experts) |->
                        CHOOSE x \in Experts : Cardinality({y \in Experts : GroupBefore(y, x)}) = i - 1]
    BY DEF Packed, Ordered
  <2>2. ASSUME NEW i \in 1..Cardinality(Experts)
        PROVE  Packed[i] = CHOOSE x \in Experts : Cardinality(Below(R, Experts, x)) = i - 1
    <3>1. Packed[i] = CHOOSE x \in Experts : Cardinality({y \in Experts : GroupBefore(y, x)}) = i - 1
      BY <2>1
    <3>2. QED
      BY <1>3, <3>1
  <2>3. Packed = [i \in 1..Cardinality(Experts) |-> Packed[i]]
    <3> DEFINE D == 1..Cardinality(Experts)
               C(i) == CHOOSE x \in Experts : Cardinality({y \in Experts : GroupBefore(y, x)}) = i - 1
    <3>1. Packed = [i \in D |-> C(i)]
      BY <2>1
    <3> HIDE DEF D, C
    <3>2. Packed = [i \in D |-> Packed[i]]
      BY <3>1
    <3>3. QED
      BY <3>2 DEF D
  <2>4. QED
    BY <2>2, <2>3
<1>5. Orders(R, Experts)
  <2>1. ASSUME NEW x \in Experts PROVE <<x, x>> \notin R
    <3>1. ~TupleBefore(KOf(x), KOf(x)) /\ x \in Nat
      BY <1>2, TuplesOrdered
    <3>2. ~GroupBefore(x, x)
      BY <3>1 DEF GroupBefore
    <3>3. QED
      BY <1>1, <3>2
  <2>2. ASSUME NEW x \in Experts, NEW y \in Experts PROVE x = y \/ <<x, y>> \in R \/ <<y, x>> \in R
    <3>1. KOf(x) = KOf(y) \/ TupleBefore(KOf(x), KOf(y)) \/ TupleBefore(KOf(y), KOf(x))
      BY <1>2, TuplesOrdered
    <3>2. x = y \/ x < y \/ y < x
      BY <1>2
    <3>3. x = y \/ GroupBefore(x, y) \/ GroupBefore(y, x)
      BY <3>1, <3>2 DEF GroupBefore
    <3>4. QED
      BY <1>1, <3>3
  <2>3. ASSUME NEW x \in Experts, NEW y \in Experts, NEW z \in Experts, <<x, y>> \in R, <<y, z>> \in R
        PROVE  <<x, z>> \in R
    <3>1. TupleBefore(KOf(x), KOf(y)) /\ TupleBefore(KOf(y), KOf(z)) => TupleBefore(KOf(x), KOf(z))
      BY <1>2, TuplesOrdered
    <3>2. x < y /\ y < z => x < z
      BY <1>2
    <3>3. GroupBefore(x, y) /\ GroupBefore(y, z)
      BY <1>1, <2>3
    <3>4. GroupBefore(x, z)
      BY <3>1, <3>2, <3>3 DEF GroupBefore
    <3>5. QED
      BY <1>1, <3>4
  <2>4. QED
    BY <2>1, <2>2, <2>3 DEF Orders
<1>7. Lists(Packed, Experts)
  BY <1>4, <1>5, ExpertsListed
<1>8. QED
  BY <1>7, ExpertFacts DEF Order, Lists

-----------------------------------------------------------------------------
(* A kernel that goes through sorted rows.                                 *)

\* Walking through the rows in the order of their places, each expert takes those
\* whose place is its own, and those of the sentinel remain.
LEMMA WalkTakes ==
    ASSUME NEW rows \in SUBSET (Nat \X Nat), IsFiniteSet(rows), NEW place \in [rows -> 0..NumExperts], NEW walk, Order(walk),
           NEW count, \A i \in 1..NumExperts : count[walk[i]] = Cardinality({r \in rows : place[r] = i - 1})
    PROVE  Walked(rows, place, walk, count) =
             {<<r, walk[place[r] + 1]>> : r \in {s \in rows : place[s] < NumExperts}}
<1> DEFINE N == NumExperts
           Less(i) == {r \in rows : place[r] < i}
           At(i) == {r \in rows : place[r] = i - 1}
           L == [i \in 0..N |-> Cardinality(Less(i))]
           O == CHOOSE f : f = [i \in 0..N |-> IF i = 0 THEN 0 ELSE f[i - 1] + count[walk[i]]]
<1>1. N \in Nat /\ Len(walk) = N /\ walk \in [1..N -> Experts]
  <2>1. N \in Nat /\ walk \in [1..N -> Experts]
    BY ExpertFacts DEF Order
  <2>2. Len(walk) = N
    BY <2>1
  <2>3. QED
    BY <2>1, <2>2
<1>2. \A r \in rows : place[r] \in Nat /\ place[r] <= N
  BY <1>1
<1>3. ASSUME NEW i \in 0..N PROVE IsFiniteSet(Less(i)) /\ L[i] \in Nat /\ L[i] = Cardinality(Less(i))
  <2>1. IsFiniteSet(Less(i))
    BY FS_Subset
  <2>2. L[i] = Cardinality(Less(i))
    OBVIOUS
  <2> HIDE DEF L, Less
  <2>3. QED
    BY <2>1, <2>2, FS_CardinalityType
<1>4. L[0] = 0
  <2>1. Less(0) = {}
    BY <1>2
  <2>2. 0 \in 0..N
    BY <1>1
  <2> HIDE DEF L, Less
  <2>3. QED
    BY <1>3, <2>1, <2>2, FS_EmptySet
<1>5. ASSUME NEW i \in 1..N PROVE L[i] = L[i - 1] + count[walk[i]]
  <2>1. i \in 0..N /\ i - 1 \in 0..N /\ i \in Nat
    BY <1>1
  <2>2. Less(i) = Less(i - 1) \cup At(i) /\ Less(i - 1) \cap At(i) = {}
    BY <1>2, <2>1
  <2>3. IsFiniteSet(At(i)) /\ Cardinality(At(i)) = count[walk[i]]
    BY FS_Subset
  <2> HIDE DEF L, Less, At
  <2>4. Cardinality(Less(i)) = Cardinality(Less(i - 1)) + Cardinality(At(i))
    <3>1. IsFiniteSet(Less(i - 1)) /\ IsFiniteSet(At(i))
      BY <1>3, <2>1, <2>3
    <3>2. Cardinality(Less(i - 1) \cup At(i)) = Cardinality(Less(i - 1)) + Cardinality(At(i)) - Cardinality(Less(i - 1) \cap At(i))
      BY <3>1, FS_Union
    <3>3. Cardinality(Less(i - 1) \cap At(i)) = 0
      BY <2>2, FS_EmptySet
    <3>4. Cardinality(Less(i - 1)) \in Nat /\ Cardinality(At(i)) \in Nat
      BY <3>1, FS_CardinalityType
    <3>5. QED
      BY <2>2, <3>2, <3>3, <3>4
  <2>5. QED
    BY <1>3, <2>1, <2>3, <2>4
<1>6. \A i, j \in 0..N : i <= j => L[i] <= L[j]
  <2>1. ASSUME NEW i \in 0..N, NEW j \in 0..N, i <= j PROVE L[i] <= L[j]
    <3>1. Less(i) \in SUBSET Less(j)
      BY <1>1, <1>2, <2>1
    <3> HIDE DEF L, Less
    <3>2. Cardinality(Less(i)) <= Cardinality(Less(j))
      BY <1>3, <3>1, FS_Subset
    <3>3. QED
      BY <1>3, <3>2
  <2>2. QED
    BY <2>1
<1>7. ASSUME NEW i \in 0..N PROVE O[i] = L[i]
  <2> DEFINE S == {j \in 0..N : O[j] = L[j]}
  <2>1. L = [j \in 0..N |-> IF j = 0 THEN 0 ELSE L[j - 1] + count[walk[j]]]
    <3> DEFINE D == 0..N
               G == [j \in 0..N |-> IF j = 0 THEN 0 ELSE L[j - 1] + count[walk[j]]]
    <3>1. L = [j \in D |-> L[j]] /\ G = [j \in D |-> G[j]]
      OBVIOUS
    <3>2. ASSUME NEW j \in D PROVE L[j] = G[j]
      <4>1. G[j] = IF j = 0 THEN 0 ELSE L[j - 1] + count[walk[j]]
        OBVIOUS
      <4> HIDE DEF L, G
      <4>2. CASE j = 0
        BY <1>4, <4>1, <4>2
      <4>3. CASE j # 0
        <5>1. j \in 1..N
          BY <1>1, <4>3
        <5>2. QED
          BY <1>5, <4>1, <4>3, <5>1
      <4>4. QED
        BY <4>2, <4>3
    <3> HIDE DEF D, L, G
    <3>3. [j \in D |-> L[j]] = [j \in D |-> G[j]]
      BY <3>2
    <3>4. L = G
      BY <3>1, <3>3, Zenon
    <3>5. QED
      BY <3>4 DEF G
  <2> HIDE DEF L
  <2>2. O = [j \in 0..N |-> IF j = 0 THEN 0 ELSE O[j - 1] + count[walk[j]]]
    BY <2>1, Zenon
  <2> HIDE DEF O
  <2>3. O[0] = 0 /\ \A j \in 1..N : O[j] = O[j - 1] + count[walk[j]]
    <3>1. 0 \in 0..N /\ \A j \in 1..N : j \in 0..N /\ j # 0
      BY <1>1
    <3>2. QED
      BY <2>2, <3>1
  <2>4. 0 \in S
    BY <1>1, <1>4, <2>3
  <2>5. ASSUME NEW j \in 1..N, j - 1 \in S PROVE j \in S
    BY <1>1, <1>5, <2>3, <2>5
  <2> HIDE DEF S
  <2>6. \A j \in 0..N : j \in S
    BY <1>1, <2>4, <2>5, StepsInduct
  <2>7. QED
    BY <2>6 DEF S
<1> DEFINE Taken(p) == {walk[i] : i \in {j \in 1..N : O[j - 1] < p /\ p <= O[j]}}
<1>8. Walked(rows, place, walk, count) = UNION {{r} \X Taken(Position(rows, place, r)) : r \in rows}
  BY <1>1 DEF Walked
<1> HIDE DEF O
<1>9. ASSUME NEW r \in rows, NEW i \in 1..N
      PROVE  O[i - 1] < Position(rows, place, r) /\ Position(rows, place, r) <= O[i] <=> i = place[r] + 1
  <2> DEFINE B == {s \in rows : SortsBefore(place, s, r)}
             q == place[r]
  <2>1. q \in 0..N /\ q \in Nat /\ i \in Nat /\ i \in 0..N /\ i - 1 \in 0..N /\ N \in Nat
    BY <1>1, <1>2
  <2>2. Position(rows, place, r) = Cardinality(B) + 1
    BY DEF Position
  <2>3. IsFiniteSet(B) /\ Cardinality(B) \in Nat
    <3>1. IsFiniteSet(B)
      BY FS_Subset
    <3> HIDE DEF B
    <3>2. QED
      BY <3>1, FS_CardinalityType
  <2>4. L[q] <= Cardinality(B)
    <3>1. Less(q) \in SUBSET B
      BY DEF SortsBefore
    <3> HIDE DEF B, Less, L
    <3>2. QED
      BY <1>3, <2>1, <2>3, <3>1, FS_Subset
  <2>5. q < N => Cardinality(B) + 1 <= L[q + 1]
    <3>1. ASSUME q < N PROVE Cardinality(B) + 1 <= L[q + 1]
      <4>1. q + 1 \in 0..N
        BY <2>1, <3>1
      <4>2. B \cup {r} \in SUBSET Less(q + 1) /\ r \notin B
        <5>1. \A s \in B : s \in rows /\ (place[s] < q \/ place[s] = q)
          BY DEF SortsBefore
        <5>2. \A s \in B : place[s] < q + 1
          BY <1>2, <2>1, <5>1
        <5>3. r[1] \in Nat /\ r[2] \in Nat
          OBVIOUS
        <5>4. ~SortsBefore(place, r, r)
          BY <2>1, <5>3 DEF SortsBefore
        <5>5. QED
          BY <2>1, <5>1, <5>2, <5>4
      <4> HIDE DEF B, Less, L
      <4>3. Cardinality(B \cup {r}) = Cardinality(B) + 1
        BY <2>3, <4>2, FS_AddElement
      <4>4. QED
        BY <1>3, <4>1, <4>2, <4>3, FS_Subset
    <3>2. QED
      BY <3>1
  <2> HIDE DEF B, L, Less
  <2>6. O[i] = L[i] /\ O[i - 1] = L[i - 1] /\ L[i] \in Nat /\ L[i - 1] \in Nat /\ L[q] \in Nat
    BY <1>3, <1>7, <2>1
  <2>7. CASE i <= q
    <3>1. L[i] <= L[q]
      BY <1>6, <2>1, <2>7
    <3>2. QED
      BY <2>1, <2>2, <2>3, <2>4, <2>6, <2>7, <3>1
  <2>8. CASE i = q + 1
    BY <2>1, <2>2, <2>3, <2>4, <2>5, <2>6, <2>8
  <2>9. CASE i > q + 1
    <3>1. q < N /\ q + 1 \in 0..N /\ q + 1 <= i - 1
      BY <2>1, <2>9
    <3>2. L[q + 1] <= L[i - 1] /\ L[q + 1] \in Nat
      BY <1>3, <1>6, <2>1, <3>1
    <3>3. QED
      BY <2>1, <2>2, <2>3, <2>5, <2>6, <2>9, <3>1, <3>2
  <2>10. QED
    BY <2>1, <2>7, <2>8, <2>9
<1>10. ASSUME NEW r, NEW e
       PROVE  <<r, e>> \in Walked(rows, place, walk, count)
                <=> r \in rows /\ place[r] < N /\ e = walk[place[r] + 1]
  <2>1. <<r, e>> \in Walked(rows, place, walk, count) <=> r \in rows /\ e \in Taken(Position(rows, place, r))
    BY <1>8
  <2>2. ASSUME r \in rows PROVE e \in Taken(Position(rows, place, r)) <=> place[r] < N /\ e = walk[place[r] + 1]
    <3>1. e \in Taken(Position(rows, place, r)) <=> \E i \in 1..N : i = place[r] + 1 /\ e = walk[i]
      BY <1>9, <2>2
    <3> HIDE DEF Taken
    <3>2. place[r] + 1 \in 1..N <=> place[r] < N
      BY <1>1, <1>2, <2>2
    <3>3. QED
      BY <3>1, <3>2
  <2>3. QED
    BY <2>1, <2>2
<1>11. \A t \in Walked(rows, place, walk, count) : t = <<t[1], t[2]>>
  BY <1>8
<1>12. QED
  BY <1>10, <1>11

Window(b, first, last) == (first..last) \X (1..Topk(b))

\* A window of a batch: its rows, and what they ask for.
LEMMA WindowFacts ==
    ASSUME NEW b \in Batches, NEW first \in Nat \ {0}, NEW last \in Nat, first <= last, last <= Len(b)
    PROVE  /\ DOMAIN b = 1..Len(b) /\ Len(b) \in Nat \ {0} /\ Topk(b) \in Nat
           /\ Window(b, first, last) \in SUBSET (Nat \X Nat) /\ IsFiniteSet(Window(b, first, last))
           /\ \A r \in Window(b, first, last) :
                 r \in RoutesOf(b) /\ LocalOf(b, r) \in 0..NumExperts
           /\ \A r, s \in Window(b, first, last) :
                 r[1] = s[1] /\ LocalOf(b, r) = LocalOf(b, s) /\ LocalOf(b, r) \in Experts => r = s
<1>1. /\ b \in Seq(Seq(0..NumExperts)) /\ b # <<>>
      /\ \A t \in DOMAIN b : /\ Len(b[t]) = Len(b[1])
                             /\ \A i, j \in DOMAIN b[t] : i # j /\ b[t][i] = b[t][j] => b[t][i] = NumExperts
  BY BatchesAssumption
<1>2. DOMAIN b = 1..Len(b) /\ Len(b) \in Nat \ {0} /\ 1 \in DOMAIN b /\ \A t \in DOMAIN b : b[t] \in Seq(0..NumExperts)
  BY <1>1
<1>3. \A t \in DOMAIN b : DOMAIN b[t] = 1..Topk(b) /\ \A i \in 1..Topk(b) : b[t][i] \in 0..NumExperts
  <2> SUFFICES ASSUME NEW t \in DOMAIN b
               PROVE  DOMAIN b[t] = 1..Topk(b) /\ \A i \in 1..Topk(b) : b[t][i] \in 0..NumExperts
    OBVIOUS
  <2>1. b[t] \in Seq(0..NumExperts) /\ Len(b[t]) = Topk(b)
    BY <1>1, <1>2 DEF Topk
  <2>2. ASSUME NEW V, NEW s \in Seq(V) PROVE DOMAIN s = 1..Len(s) /\ \A i \in 1..Len(s) : s[i] \in V
    OBVIOUS
  <2>3. DOMAIN b[t] = 1..Len(b[t]) /\ \A i \in 1..Len(b[t]) : b[t][i] \in 0..NumExperts
    BY <2>1, <2>2
  <2>4. QED
    BY <2>1, <2>3
<1>4. Topk(b) \in Nat
  BY <1>2 DEF Topk
<1>5. IsFiniteSet(first..last) /\ IsFiniteSet(1..Topk(b))
  BY <1>4, UpToFinite, FS_Interval
<1>6. Window(b, first, last) \in SUBSET (Nat \X Nat) /\ IsFiniteSet(Window(b, first, last))
  BY <1>4, <1>5, FS_Product DEF Window
<1>7. ASSUME NEW r \in Window(b, first, last)
      PROVE  /\ r[1] \in DOMAIN b /\ r[2] \in 1..Topk(b) /\ r = <<r[1], r[2]>>
             /\ r \in RoutesOf(b) /\ LocalOf(b, r) \in 0..NumExperts
  <2>1. r[1] \in DOMAIN b /\ r[2] \in 1..Topk(b) /\ r = <<r[1], r[2]>>
    BY <1>2 DEF Window
  <2>2. QED
    BY <1>3, <2>1 DEF LocalOf, RoutesOf
<1>8. ASSUME NEW r \in Window(b, first, last), NEW s \in Window(b, first, last),
             r[1] = s[1], LocalOf(b, r) = LocalOf(b, s), LocalOf(b, r) \in Experts
      PROVE  r = s
  <2>1. LocalOf(b, r) # NumExperts
    BY <1>8, ExpertFacts
  <2>2. b[r[1]][r[2]] = b[r[1]][s[2]] /\ b[r[1]][r[2]] # NumExperts
    BY <1>8, <2>1 DEF LocalOf
  <2>3. r[1] \in DOMAIN b /\ r[2] \in DOMAIN b[r[1]] /\ s[2] \in DOMAIN b[r[1]]
    BY <1>3, <1>7, <1>8
  <2>4. r[2] = s[2]
    BY <1>1, <2>2, <2>3
  <2>5. QED
    BY <1>7, <1>8, <2>4
<1>9. QED
  BY <1>2, <1>4, <1>6, <1>7, <1>8

\* An expert gets at most one row of each token.
LEMMA CountBound ==
    ASSUME NEW b \in Batches, NEW first \in Nat \ {0}, NEW last \in Nat, first <= last, last <= Len(b),
           NEW e \in Experts
    PROVE  Counts(b, first, last)[e] \in Nat /\ Counts(b, first, last)[e] <= last - first + 1
<1> DEFINE T == {r \in Window(b, first, last) : LocalOf(b, r) = e}
           f == [r \in T |-> r[1]]
           I == {r[1] : r \in T}
<1>1. Counts(b, first, last)[e] = Cardinality(T)
  BY DEF Counts, Window
<1>2. IsFiniteSet(T)
  BY WindowFacts, FS_Subset
<1>3. \A r \in T : r[1] \in first..last
  BY DEF Window
<1>4. f \in Bijection(T, I)
  <2>1. f \in [T -> I] /\ \A y \in I : \E r \in T : f[r] = y
    OBVIOUS
  <2>2. ASSUME NEW r \in T, NEW s \in T, f[r] = f[s] PROVE r = s
    <3>1. r[1] = s[1] /\ LocalOf(b, r) = LocalOf(b, s) /\ LocalOf(b, r) \in Experts
      BY <2>2
    <3>2. r \in Window(b, first, last) /\ s \in Window(b, first, last)
      OBVIOUS
    <3> HIDE DEF T
    <3>3. QED
      BY <3>1, <3>2, WindowFacts
  <2> HIDE DEF f, T, I
  <2>3. QED
    BY <2>1, <2>2 DEF Bijection, Injection, Surjection, IsInjective
<1>5. I \in SUBSET (first..last)
  BY <1>3
<1>6. IsFiniteSet(first..last) /\ Cardinality(first..last) = last - first + 1
  BY FS_Interval
<1> HIDE DEF T, f, I
<1>7. Cardinality(I) = Cardinality(T)
  <2>1. ExistsBijection(T, I)
    BY <1>4 DEF ExistsBijection
  <2>2. QED
    BY <1>2, <2>1, FS_Bijection
<1>8. Cardinality(I) <= last - first + 1
  BY <1>5, <1>6, FS_Subset
<1>9. Cardinality(T) \in Nat
  BY <1>2, FS_CardinalityType
<1>10. QED
  BY <1>1, <1>7, <1>8, <1>9

LEMMA PlaceInOrder ==
    ASSUME NEW order, Order(order), NEW x \in 0..NumExperts
    PROVE  /\ PlaceIn(order, x) \in 0..NumExperts
           /\ \A i \in 1..NumExperts : PlaceIn(order, x) = i - 1 <=> x = order[i]
           /\ PlaceIn(order, x) < NumExperts <=> x # Remote
           /\ x # Remote => order[PlaceIn(order, x) + 1] = x
<1>1. order \in [1..NumExperts -> Experts] /\ DOMAIN order = 1..NumExperts /\ NumExperts \in Nat \ {0}
  BY ExpertFacts DEF Order
<1>2. CASE x = Remote
  <2>1. PlaceIn(order, x) = NumExperts
    BY <1>2, ExpertFacts DEF PlaceIn
  <2>2. \A i \in 1..NumExperts : i - 1 # NumExperts /\ order[i] # Remote
    BY <1>1, ExpertFacts
  <2>3. QED
    BY <1>1, <1>2, <2>1, <2>2
<1>3. CASE x # Remote
  <2>1. x \in Experts
    BY <1>3, ExpertFacts
  <2>2. PICK i \in 1..NumExperts : order[i] = x
    BY <2>1 DEF Order
  <2>3. \A j \in 1..NumExperts : order[j] = x <=> j = i
    BY <2>2 DEF Order
  <2>4. PlaceIn(order, x) = i - 1
    <3>1. (CHOOSE j \in DOMAIN order : order[j] = x) = i
      BY <1>1, <2>2, <2>3
    <3>2. QED
      BY <1>3, <3>1 DEF PlaceIn
  <2>5. i - 1 < NumExperts /\ i - 1 \in 0..NumExperts /\ (i - 1) + 1 = i
    BY <1>1
  <2>6. QED
    BY <1>3, <2>3, <2>4, <2>5
<1>4. QED
  BY <1>2, <1>3

\* Whatever the rows are sorted by, what is taken are rows, by experts of the order walked.
LEMMA WalkWithin ==
    ASSUME NEW rows, NEW place, NEW walk, Order(walk), NEW count
    PROVE  \A t \in Walked(rows, place, walk, count) : t[1] \in rows /\ t[2] \in Experts
<1>1. DOMAIN walk = 1..NumExperts /\ Len(walk) = NumExperts /\ \A i \in 1..Len(walk) : walk[i] \in Experts
  <2>1. NumExperts \in Nat /\ walk \in [1..NumExperts -> Experts]
    BY ExpertFacts DEF Order
  <2>2. Len(walk) = NumExperts
    BY <2>1
  <2>3. QED
    BY <2>1, <2>2
<1>2. PICK Takers : \A t \in Walked(rows, place, walk, count) :
                       \E r \in rows : t \in {r} \X {walk[i] : i \in Takers[r]} /\ Takers[r] \subseteq 1..Len(walk)
  <2> DEFINE Offset == CHOOSE f : f = [i \in 0..Len(walk) |-> IF i = 0 THEN 0 ELSE f[i - 1] + count[walk[i]]]
             P == [r \in rows |-> {j \in 1..Len(walk) : Offset[j - 1] < Position(rows, place, r)
                                                      /\ Position(rows, place, r) <= Offset[j]}]
  <2>1. Walked(rows, place, walk, count) = UNION {{r} \X {walk[i] : i \in P[r]} : r \in rows}
    BY DEF Walked
  <2>2. \A r \in rows : P[r] \subseteq 1..Len(walk)
    OBVIOUS
  <2> HIDE DEF P
  <2>3. QED
    BY <2>1, <2>2
<1>3. QED
  BY <1>1, <1>2

\* Rows sorted by the places of their keys, walked in that order: each key takes its rows.
LEMMA OrderTakes ==
    ASSUME NEW rows \in SUBSET (Nat \X Nat), IsFiniteSet(rows), NEW key \in [rows -> 0..NumExperts],
           NEW order, Order(order)
    PROVE  Walked(rows, [r \in rows |-> PlaceIn(order, key[r])], order, CountsOf(rows, key)) =
             {<<r, key[r]>> : r \in {s \in rows : key[s] # Remote}}
<1> DEFINE place == [r \in rows |-> PlaceIn(order, key[r])]
           count == CountsOf(rows, key)
<1>1. \A r \in rows :
         /\ place[r] \in 0..NumExperts /\ \A i \in 1..NumExperts : place[r] = i - 1 <=> key[r] = order[i]
         /\ place[r] < NumExperts <=> key[r] # Remote
         /\ key[r] # Remote => order[place[r] + 1] = key[r]
  BY PlaceInOrder
<1>2. place \in [rows -> 0..NumExperts]
  BY <1>1
<1> HIDE DEF place
<1>3. ASSUME NEW i \in 1..NumExperts PROVE count[order[i]] = Cardinality({r \in rows : place[r] = i - 1})
  <2>1. order[i] \in Experts
    BY DEF Order
  <2>2. count[order[i]] = Cardinality({r \in rows : key[r] = order[i]})
    BY <2>1 DEF CountsOf
  <2>3. {r \in rows : key[r] = order[i]} = {r \in rows : place[r] = i - 1}
    BY <1>1
  <2>4. QED
    BY <2>2, <2>3
<1> HIDE DEF count
<1>4. Walked(rows, place, order, count) = {<<r, order[place[r] + 1]>> : r \in {s \in rows : place[s] < NumExperts}}
  BY <1>2, <1>3, WalkTakes, SMTT(30)
<1>5. {s \in rows : place[s] < NumExperts} = {s \in rows : key[s] # Remote}
  BY <1>1
<1>6. \A r \in {s \in rows : key[s] # Remote} : order[place[r] + 1] = key[r]
  BY <1>1
<1>7. Walked(rows, place, order, count) = {<<r, key[r]>> : r \in {s \in rows : key[s] # Remote}}
  BY <1>4, <1>5, <1>6
<1>8. QED
  BY <1>7 DEF place, count

\* By ids the place of an expert is its id.
LEMMA IdsTake ==
    ASSUME NEW rows \in SUBSET (Nat \X Nat), IsFiniteSet(rows), NEW key \in [rows -> 0..NumExperts]
    PROVE  Walked(rows, key, ByIds, CountsOf(rows, key)) =
             {<<r, key[r]>> : r \in {s \in rows : key[s] # Remote}}
<1>1. ASSUME NEW x \in 0..NumExperts PROVE PlaceIn(ByIds, x) = x
  <2>1. CASE x = Remote
    BY <2>1 DEF PlaceIn
  <2>2. CASE x # Remote
    <3>1. x + 1 \in 1..NumExperts /\ x \in Nat
      BY <2>2, ExpertFacts
    <3>2. ByIds[x + 1] = x /\ x = (x + 1) - 1
      BY <3>1, ByIdsOrders
    <3>3. QED
      BY <3>1, <3>2, ByIdsOrders, PlaceInOrder
  <2>3. QED
    BY <2>1, <2>2
<1>2. key = [r \in rows |-> key[r]] /\ \A r \in rows : key[r] \in 0..NumExperts
  OBVIOUS
<1>3. [r \in rows |-> PlaceIn(ByIds, key[r])] = [r \in rows |-> key[r]]
  BY <1>1, <1>2
<1>4. QED
  BY <1>2, <1>3, OrderTakes, ByIdsOrders

\* What a launch makes: one contribution for each row of its own, by the expert of the row.
Made(X, b, l, Mine) ==
    /\ \A c \in X : c.launch = l /\ c.route \in Mine /\ c.expert = LocalOf(b, c.route)
    /\ \A r \in Mine : \E c \in X : c.route = r
    /\ \A c, d \in X : c.route = d.route => c = d
RightK(X) == \A c \in X : c.k = KOf(c.expert)
\* What it makes under any binding: contributions of its rows, by local experts.
Within(X, b, l) == \A c \in X : c.route \in Window(b, l.first, l.last) /\ c.expert \in Experts

MadeBy(X, b, l, Mine, f) == \A c : c \in X <=> \E r \in Mine : c = Contribution(l, r, LocalOf(b, r), f[r])

LEMMA MadeOf ==
    ASSUME NEW b, NEW l, NEW Mine, NEW f, NEW X, MadeBy(X, b, l, Mine, f)
    PROVE  Made(X, b, l, Mine) /\ ((\A r \in Mine : f[r] = KOf(LocalOf(b, r))) => RightK(X))
<1>1. \A c \in X : \E r \in Mine : /\ c = Contribution(l, r, LocalOf(b, r), f[r])
                                  /\ c.launch = l /\ c.route = r /\ c.expert = LocalOf(b, r) /\ c.k = f[r]
  BY DEF Contribution, MadeBy
<1>2. \A r \in Mine : Contribution(l, r, LocalOf(b, r), f[r]) \in X /\ Contribution(l, r, LocalOf(b, r), f[r]).route = r
  BY DEF Contribution, MadeBy
<1>3. QED
  BY <1>1, <1>2 DEF Made, RightK

MadeOfTaken(X, b, l, rows, key, Taken, Kept, K, Mine) ==
    /\ Taken = {<<r, key[r]>> : r \in {s \in rows : key[s] # Remote}}
    /\ \A r \in rows : key[r] # Remote => key[r] = LocalOf(b, r)
    /\ \A c : c \in X <=> \E t \in Taken : t[2] \in Kept /\ c = Contribution(l, t[1], t[2], K[t[2]])
    /\ \A r : r \in Mine <=> r \in rows /\ key[r] # Remote /\ key[r] \in Kept

LEMMA TakenMade ==
    ASSUME NEW b, NEW l, NEW rows, NEW key, NEW Taken, NEW Kept, NEW K, NEW X, NEW Mine,
           MadeOfTaken(X, b, l, rows, key, Taken, Kept, K, Mine)
    PROVE  Made(X, b, l, Mine) /\ ((\A r \in Mine : K[key[r]] = KOf(key[r])) => RightK(X))
<1> DEFINE f == [r \in Mine |-> K[key[r]]]
<1>1. \A r \in Mine : key[r] = LocalOf(b, r) /\ f[r] = K[key[r]] /\ <<r, key[r]>> \in Taken /\ key[r] \in Kept
  BY DEF MadeOfTaken
<1>2. \A t \in Taken : t[2] \in Kept => t[1] \in Mine /\ t[2] = key[t[1]]
  BY DEF MadeOfTaken
<1> HIDE DEF f
<1>3. ASSUME NEW c PROVE c \in X <=> \E r \in Mine : c = Contribution(l, r, LocalOf(b, r), f[r])
  <2>1. ASSUME c \in X PROVE \E r \in Mine : c = Contribution(l, r, LocalOf(b, r), f[r])
    <3>1. PICK t \in Taken : t[2] \in Kept /\ c = Contribution(l, t[1], t[2], K[t[2]])
      BY <2>1 DEF MadeOfTaken
    <3>2. t[1] \in Mine /\ t[2] = LocalOf(b, t[1]) /\ K[t[2]] = f[t[1]]
      BY <1>1, <1>2, <3>1
    <3>3. QED
      BY <3>1, <3>2
  <2>2. ASSUME NEW r \in Mine, c = Contribution(l, r, LocalOf(b, r), f[r]) PROVE c \in X
    <3>1. PICK t \in Taken : t = <<r, key[r]>>
      BY <1>1
    <3>2. t[1] = r /\ t[2] = key[r] /\ t[2] \in Kept /\ c = Contribution(l, t[1], t[2], K[t[2]])
      BY <1>1, <2>2, <3>1
    <3>3. QED
      BY <3>2 DEF MadeOfTaken
  <2>3. QED
    BY <2>1, <2>2
<1>4. Made(X, b, l, Mine) /\ ((\A r \in Mine : f[r] = KOf(LocalOf(b, r))) => RightK(X))
  <2>1. MadeBy(X, b, l, Mine, f)
    BY <1>3 DEF MadeBy
  <2>2. QED
    BY <2>1, MadeOf
<1>5. QED
  BY <1>1, <1>4

-----------------------------------------------------------------------------
(* The launches.                                                           *)

LocalRows(b, l) == {r \in Window(b, l.first, l.last) : LocalOf(b, r) # Remote}
\* the rows that are a launch's own
Own(b, l) ==
    CASE l.kernel \in {"native", "coop", "loop"} -> LocalRows(b, l)
      [] l.kernel \in {"batched", "unified"} -> {r \in LocalRows(b, l) : LocalOf(b, r) \notin FatIn(b, l)}
      [] l.kernel = "group" ->
            {r \in LocalRows(b, l) : LocalOf(b, r) \notin FatIn(b, l) /\ InGroup(LocalOf(b, r), l.group)}
      [] l.kernel = "fat" -> {r \in LocalRows(b, l) : l.count[LocalOf(b, r)] > Fat}

\* what a launch needs to serve its rows
Fits(b, l) ==
    /\ l.first \in Nat \ {0} /\ l.last \in Nat /\ l.first <= l.last /\ l.last <= Len(b)
    /\ l.kernel \in {"native", "coop", "loop", "batched", "unified", "group", "fat"}
    /\ l.kernel = "native" => ~MixedK
    /\ l.kernel = "coop" => OneTuple /\ \A r \in Window(b, l.first, l.last) : RowNumber(b, l, r) <= CoopSlots
    /\ l.kernel = "batched" => ~MixedK \/ OneTuple
    /\ l.kernel = "unified" => case.mode = "unified"
    /\ l.kernel \in {"batched", "unified", "group"} =>
         \A e \in Experts : Counts(b, l.first, l.last)[e] <= TempRows
    /\ l.kernel = "group" => l.group \in DOMAIN KGroups
    /\ l.kernel = "fat" => l.count = Counts(b, l.first, l.last)

\* the config of a layer of one bit width states the width of its trellises
StatesK == ~MixedK /\ case.ext => case.bits = ScalarK

LEMMA TupleKRight ==
    ASSUME case \in Cases, ~MixedK \/ OneTuple, StatesK
    PROVE  \A e \in Experts : TupleK = KOf(e)
<1>1. OneTuple
  BY WidthFacts
<1>2. CASE ~MixedK /\ case.ext
  BY <1>2, WidthFacts DEF TupleK, StatesK
<1>3. CASE ~(~MixedK /\ case.ext)
  BY <1>1, <1>3, WidthFacts DEF TupleK
<1>4. QED
  BY <1>2, <1>3

LEMMA DirectMade ==
    ASSUME case \in Cases, NEW b \in Batches, NEW l, Fits(b, l), l.kernel \in {"native", "coop", "loop"}
    PROVE  Made(Direct(b, l), b, l, LocalRows(b, l)) /\ (StatesK => RightK(Direct(b, l)))
<1> DEFINE K(e) == CASE l.kernel = "loop" -> KOf(e)
                     [] l.kernel = "coop" -> TupleK
                     [] l.kernel = "native" -> Thrice(ScalarK)
           W == Window(b, l.first, l.last)
           R == LocalRows(b, l)
           f == [r \in R |-> K(LocalOf(b, r))]
<1>1. Direct(b, l) = {Contribution(l, r, LocalOf(b, r), K(LocalOf(b, r))) :
            r \in {s \in W : LocalOf(b, s) # Remote /\ (l.kernel = "coop" => RowNumber(b, l, s) <= CoopSlots)}}
  BY DEF Direct, RowsOf, Window
<1>2. {s \in W : LocalOf(b, s) # Remote /\ (l.kernel = "coop" => RowNumber(b, l, s) <= CoopSlots)} = R
  BY DEF Fits, LocalRows
<1>3. \A r \in R : LocalOf(b, r) \in Experts
  BY WindowFacts, ExpertFacts DEF LocalRows, Fits
<1>4. StatesK => \A e \in Experts : K(e) = KOf(e)
  <2>1. CASE l.kernel = "loop"
    BY <2>1
  <2>2. CASE l.kernel = "coop"
    <3>1. StatesK => \A e \in Experts : TupleK = KOf(e)
      BY <2>2, TupleKRight DEF Fits
    <3>2. \A e : K(e) = TupleK
      BY <2>2
    <3>3. QED
      BY <3>1, <3>2
  <2>3. CASE l.kernel = "native"
    <3>1. \A e \in Experts : KOf(e) = Thrice(ScalarK)
      BY <2>3, WidthFacts DEF Fits
    <3>2. \A e : K(e) = Thrice(ScalarK)
      BY <2>3
    <3>3. QED
      BY <3>1, <3>2
  <2>4. QED
    BY <2>1, <2>2, <2>3
<1>5. \A r \in R : f[r] = K(LocalOf(b, r))
  OBVIOUS
<1> HIDE DEF K, R, f
<1>6. MadeBy(Direct(b, l), b, l, R, f)
  BY <1>1, <1>2, <1>5 DEF MadeBy
<1>7. Made(Direct(b, l), b, l, R) /\ ((\A r \in R : f[r] = KOf(LocalOf(b, r))) => RightK(Direct(b, l)))
  BY <1>6, MadeOf
<1>8. QED
  BY <1>3, <1>4, <1>5, <1>7 DEF R

\* the rows of a launch once the fat experts are masked, or others
LEMMA KeyFacts ==
    ASSUME NEW b \in Batches, NEW l, Fits(b, l), NEW Masks, NEW key,
           key = [r \in RowsOf(b, l) |-> IF LocalOf(b, r) \in Masks THEN Remote ELSE LocalOf(b, r)]
    PROVE  /\ RowsOf(b, l) = Window(b, l.first, l.last)
           /\ RowsOf(b, l) \in SUBSET (Nat \X Nat) /\ IsFiniteSet(RowsOf(b, l))
           /\ key \in [RowsOf(b, l) -> 0..NumExperts]
           /\ \A r \in RowsOf(b, l) : /\ key[r] # Remote => key[r] = LocalOf(b, r) /\ key[r] \in Experts
                                      /\ key[r] # Remote <=> LocalOf(b, r) # Remote /\ LocalOf(b, r) \notin Masks
           /\ \A e \in Experts \ Masks : CountsOf(RowsOf(b, l), key)[e] = Counts(b, l.first, l.last)[e]
<1>1. RowsOf(b, l) = Window(b, l.first, l.last)
  BY DEF RowsOf, Window
<1>2. /\ RowsOf(b, l) \in SUBSET (Nat \X Nat) /\ IsFiniteSet(RowsOf(b, l))
      /\ \A r \in RowsOf(b, l) : LocalOf(b, r) \in 0..NumExperts
  BY <1>1, WindowFacts DEF Fits
<1>3. Remote \in 0..NumExperts
  BY ExpertFacts
<1>4. \A r \in RowsOf(b, l) : key[r] = IF LocalOf(b, r) \in Masks THEN Remote ELSE LocalOf(b, r)
  OBVIOUS
<1>5. key \in [RowsOf(b, l) -> 0..NumExperts]
  BY <1>2, <1>3
<1>6. \A r \in RowsOf(b, l) : /\ key[r] # Remote => key[r] = LocalOf(b, r) /\ key[r] \in Experts
                              /\ key[r] # Remote <=> LocalOf(b, r) # Remote /\ LocalOf(b, r) \notin Masks
  BY <1>2, <1>4, ExpertFacts
<1>7. ASSUME NEW e \in Experts \ Masks PROVE CountsOf(RowsOf(b, l), key)[e] = Counts(b, l.first, l.last)[e]
  <2>1. {r \in RowsOf(b, l) : key[r] = e} = {r \in RowsOf(b, l) : LocalOf(b, r) = e}
    BY <1>4, <1>7, ExpertFacts
  <2>2. CountsOf(RowsOf(b, l), key)[e] = Cardinality({r \in RowsOf(b, l) : key[r] = e})
    BY DEF CountsOf
  <2>3. Counts(b, l.first, l.last)[e] = Cardinality({r \in RowsOf(b, l) : LocalOf(b, r) = e})
    BY DEF Counts, RowsOf
  <2>4. QED
    BY <2>1, <2>2, <2>3
<1>8. QED
  BY <1>1, <1>2, <1>5, <1>6, <1>7

LEMMA StandardMade ==
    ASSUME case \in Cases, NEW b \in Batches, NEW l, Fits(b, l), l.kernel \in {"batched", "unified"}
    PROVE  /\ OrderTaken => Made(Standard(b, l), b, l, Own(b, l))
           /\ Within(Standard(b, l), b, l) /\ (StatesK => RightK(Standard(b, l)))
<1> DEFINE rows == RowsOf(b, l)
           fat == FatIn(b, l)
           key == [r \in rows |-> StandardLocal(b, fat, r)]
           order == IF LptOrder THEN KDescending ELSE ByIds
           walk == IF l.kernel = "unified" /\ case.orders THEN order ELSE ByIds
           count == CountsOf(rows, key)
           Taken == Walked(rows, [r \in rows |-> PlaceIn(order, key[r])], walk, count)
           K == [e \in Experts |-> IF l.kernel = "unified" THEN ArrayK(e) ELSE TupleK]
           Kept == {e \in Experts : count[e] <= TempRows}
           R == {r \in rows : key[r] # Remote /\ key[r] \in Kept}
<1>1. /\ rows = Window(b, l.first, l.last) /\ rows \in SUBSET (Nat \X Nat) /\ IsFiniteSet(rows)
      /\ key \in [rows -> 0..NumExperts]
      /\ \A r \in rows : /\ key[r] # Remote => key[r] = LocalOf(b, r) /\ key[r] \in Experts
                         /\ key[r] # Remote <=> LocalOf(b, r) # Remote /\ LocalOf(b, r) \notin fat
      /\ \A e \in Experts \ fat : count[e] = Counts(b, l.first, l.last)[e]
  <2>1. key = [r \in RowsOf(b, l) |-> IF LocalOf(b, r) \in fat THEN Remote ELSE LocalOf(b, r)]
    BY DEF StandardLocal
  <2>2. rows = RowsOf(b, l) /\ count = CountsOf(RowsOf(b, l), key)
    OBVIOUS
  <2> HIDE DEF rows, fat, key, count
  <2>3. QED
    BY <2>1, <2>2, KeyFacts
<1>2. Order(order) /\ Order(walk) /\ (OrderTaken => walk = order)
  <2>1. Order(order) /\ Order(walk)
    BY KDescendingOrders, ByIdsOrders
  <2>2. l.kernel = "batched" /\ LptOrder => KDescending = ByIds
    BY KDescendingOrders DEF Fits, LptOrder
  <2>3. l.kernel = "unified" /\ OrderTaken /\ LptOrder => case.orders
    BY DEF Fits, LptOrder, OrderTaken
  <2>4. QED
    BY <2>1, <2>2, <2>3
<1>3. Standard(b, l) = {Contribution(l, t[1], t[2], IF l.kernel = "unified" THEN ArrayK(t[2]) ELSE TupleK) :
                          t \in {s \in Taken : count[s[2]] <= TempRows}}
  BY DEF Standard
<1> HIDE DEF rows, fat, key, order, walk, count
<1>4. OrderTaken => Taken = {<<r, key[r]>> : r \in {s \in rows : key[s] # Remote}}
  <2>1. Walked(rows, [r \in rows |-> PlaceIn(order, key[r])], order, CountsOf(rows, key)) =
             {<<r, key[r]>> : r \in {s \in rows : key[s] # Remote}}
    BY <1>1, <1>2, OrderTakes
  <2>2. QED
    BY <1>2, <2>1 DEF count
<1>5. \A t \in Taken : t[1] \in rows /\ t[2] \in Experts /\ (count[t[2]] <= TempRows <=> t[2] \in Kept)
  <2>1. \A t \in Taken : t[1] \in rows /\ t[2] \in Experts
    BY <1>2, WalkWithin
  <2>2. QED
    BY <2>1
<1> HIDE DEF Taken, Kept
<1>6. {s \in Taken : count[s[2]] <= TempRows} = {s \in Taken : s[2] \in Kept}
  BY <1>5
<1>7. \A t \in Taken : (IF l.kernel = "unified" THEN ArrayK(t[2]) ELSE TupleK) = K[t[2]]
  BY <1>5
<1> HIDE DEF K
<1>8. \A c : c \in Standard(b, l) <=> \E t \in Taken : t[2] \in Kept /\ c = Contribution(l, t[1], t[2], K[t[2]])
  BY <1>3, <1>6, <1>7
<1>9. OrderTaken => Made(Standard(b, l), b, l, R)
  <2> SUFFICES ASSUME OrderTaken PROVE Made(Standard(b, l), b, l, R)
    OBVIOUS
  <2>1. MadeOfTaken(Standard(b, l), b, l, rows, key, Taken, Kept, K, R)
    BY <1>1, <1>4, <1>8 DEF MadeOfTaken
  <2> HIDE DEF R
  <2>2. QED
    BY <2>1, TakenMade
<1>10. StatesK => \A e \in Experts : K[e] = KOf(e)
  <2>1. CASE l.kernel = "unified"
    BY <2>1, WidthFacts DEF K
  <2>2. CASE l.kernel = "batched"
    <3>1. StatesK => \A e \in Experts : TupleK = KOf(e)
      BY <2>2, TupleKRight DEF Fits
    <3>2. QED
      BY <2>2, <3>1 DEF K
  <2>3. QED
    BY <2>1, <2>2
<1>11. R = Own(b, l)
  <2>1. Own(b, l) = {r \in LocalRows(b, l) : LocalOf(b, r) \notin fat}
    BY DEF Own, fat
  <2>2. \A r \in rows : key[r] # Remote => key[r] \in Kept
    <3>1. \A r \in rows : key[r] # Remote => key[r] \in Experts \ fat
      BY <1>1
    <3>2. \A e \in Experts \ fat : e \in Kept
      BY <1>1 DEF Fits, Kept
    <3>3. QED
      BY <3>1, <3>2
  <2>3. QED
    BY <1>1, <2>1, <2>2 DEF LocalRows
<1>12. \A c \in Standard(b, l) : /\ c.route \in Window(b, l.first, l.last) /\ c.expert \in Experts
                                 /\ c.k = K[c.expert]
  <2> SUFFICES ASSUME NEW c \in Standard(b, l)
               PROVE  c.route \in Window(b, l.first, l.last) /\ c.expert \in Experts /\ c.k = K[c.expert]
    OBVIOUS
  <2>1. PICK t \in Taken : c = Contribution(l, t[1], t[2], K[t[2]])
    BY <1>8
  <2>2. c.route = t[1] /\ c.expert = t[2] /\ c.k = K[t[2]]
    BY <2>1 DEF Contribution
  <2>3. QED
    BY <1>1, <1>5, <2>2
<1>13. Within(Standard(b, l), b, l) /\ (StatesK => RightK(Standard(b, l)))
  BY <1>10, <1>12 DEF Within, RightK
<1>14. QED
  BY <1>9, <1>11, <1>13

LEMMA FatMade ==
    ASSUME case \in Cases, NEW b \in Batches, NEW l, Fits(b, l), l.kernel = "fat"
    PROVE  Made(FatRows(b, l), b, l, Own(b, l)) /\ RightK(FatRows(b, l))
<1> DEFINE rows == RowsOf(b, l)
           key == [r \in rows |-> LocalOf(b, r)]
           Taken == Walked(rows, key, ByIds, l.count)
           K == [e \in Experts |-> KOf(e)]
           Kept == {e \in Experts : l.count[e] > Fat}
           R == Own(b, l)
<1>1. /\ rows = Window(b, l.first, l.last) /\ rows \in SUBSET (Nat \X Nat) /\ IsFiniteSet(rows)
      /\ key \in [rows -> 0..NumExperts]
      /\ \A r \in rows : key[r] = LocalOf(b, r) /\ (key[r] # Remote => key[r] \in Experts)
  <2> DEFINE Masks == {}
  <2>1. key = [r \in RowsOf(b, l) |-> IF LocalOf(b, r) \in Masks THEN Remote ELSE LocalOf(b, r)]
    OBVIOUS
  <2>2. rows = RowsOf(b, l) /\ \A r \in rows : key[r] = LocalOf(b, r)
    OBVIOUS
  <2> HIDE DEF rows, key, Masks
  <2>3. QED
    BY <2>1, <2>2, KeyFacts
<1>2. l.count = CountsOf(rows, key)
  <2>1. l.count = [e \in Experts |-> Cardinality({r \in rows : LocalOf(b, r) = e})]
    BY DEF Fits, Counts, RowsOf
  <2>2. CountsOf(rows, key) = [e \in Experts |-> Cardinality({r \in rows : key[r] = e})]
    BY DEF CountsOf
  <2>3. ASSUME NEW e PROVE {r \in rows : LocalOf(b, r) = e} = {r \in rows : key[r] = e}
    OBVIOUS
  <2> HIDE DEF rows, key
  <2>4. QED
    BY <2>1, <2>2, <2>3
<1>3. FatRows(b, l) = {Contribution(l, t[1], t[2], KOf(t[2])) : t \in {s \in Taken : l.count[s[2]] > Fat}}
  BY DEF FatRows
<1> HIDE DEF rows, key
<1>4. Taken = {<<r, key[r]>> : r \in {s \in rows : key[s] # Remote}}
  BY <1>1, <1>2, IdsTake
<1>5. \A t \in Taken : t[2] \in Experts /\ (l.count[t[2]] > Fat <=> t[2] \in Kept) /\ KOf(t[2]) = K[t[2]]
  BY <1>1, <1>4
<1>6. \A r : r \in R <=> r \in rows /\ key[r] # Remote /\ key[r] \in Kept
  <2>1. R = {r \in LocalRows(b, l) : l.count[LocalOf(b, r)] > Fat}
    BY DEF Own
  <2>2. QED
    BY <1>1, <2>1 DEF LocalRows
<1> HIDE DEF Taken, Kept, K, R
<1>7. \A c : c \in FatRows(b, l) <=> \E t \in Taken : t[2] \in Kept /\ c = Contribution(l, t[1], t[2], K[t[2]])
  BY <1>3, <1>5
<1>8. MadeOfTaken(FatRows(b, l), b, l, rows, key, Taken, Kept, K, R)
  BY <1>1, <1>4, <1>6, <1>7 DEF MadeOfTaken
<1>9. Made(FatRows(b, l), b, l, R) /\ ((\A r \in R : K[key[r]] = KOf(key[r])) => RightK(FatRows(b, l)))
  BY <1>8, TakenMade
<1>10. \A r \in R : K[key[r]] = KOf(key[r])
  BY <1>1, <1>6 DEF K
<1>11. QED
  BY <1>9, <1>10 DEF R

LEMMA PackedMade ==
    ASSUME case \in Cases, NEW b \in Batches, NEW l, Fits(b, l), l.kernel = "group"
    PROVE  Made(GroupPacked(b, l), b, l, Own(b, l)) /\ RightK(GroupPacked(b, l))
<1> DEFINE rows == RowsOf(b, l)
           fat == FatIn(b, l)
           key == [r \in rows |-> StandardLocal(b, fat, r)]
           count == CountsOf(rows, key)
           Taken == Walked(rows, [r \in rows |-> PlaceIn(Packed, key[r])], Packed, count)
           K == [e \in Experts |-> KGroups[l.group]]
           Kept == {e \in Experts : InGroup(e, l.group) /\ count[e] <= TempRows}
           R == Own(b, l)
<1>1. /\ rows = Window(b, l.first, l.last) /\ rows \in SUBSET (Nat \X Nat) /\ IsFiniteSet(rows)
      /\ key \in [rows -> 0..NumExperts]
      /\ \A r \in rows : /\ key[r] # Remote => key[r] = LocalOf(b, r) /\ key[r] \in Experts
                         /\ key[r] # Remote <=> LocalOf(b, r) # Remote /\ LocalOf(b, r) \notin fat
      /\ \A e \in Experts \ fat : count[e] = Counts(b, l.first, l.last)[e]
  <2>1. key = [r \in RowsOf(b, l) |-> IF LocalOf(b, r) \in fat THEN Remote ELSE LocalOf(b, r)]
    BY DEF StandardLocal
  <2>2. rows = RowsOf(b, l) /\ count = CountsOf(RowsOf(b, l), key)
    OBVIOUS
  <2> HIDE DEF rows, fat, key, count
  <2>3. QED
    BY <2>1, <2>2, KeyFacts
<1>2. GroupPacked(b, l) = {Contribution(l, t[1], t[2], KGroups[l.group]) :
            t \in {s \in Taken : InGroup(s[2], l.group) /\ count[s[2]] <= TempRows}}
  BY DEF GroupPacked
<1> HIDE DEF rows, fat, key
<1>3. Taken = {<<r, key[r]>> : r \in {s \in rows : key[s] # Remote}}
  BY <1>1, PackedOrders, OrderTakes
<1> HIDE DEF count
<1>4. \A t \in Taken : /\ t[2] \in Experts /\ K[t[2]] = KGroups[l.group]
                       /\ InGroup(t[2], l.group) /\ count[t[2]] <= TempRows <=> t[2] \in Kept
  BY <1>1, <1>3
<1>5. \A r : r \in R <=> r \in rows /\ key[r] # Remote /\ key[r] \in Kept
  <2>1. R = {r \in LocalRows(b, l) : LocalOf(b, r) \notin fat /\ InGroup(LocalOf(b, r), l.group)}
    BY DEF Own, fat
  <2>2. \A r \in rows : key[r] # Remote => (key[r] \in Kept <=> InGroup(LocalOf(b, r), l.group))
    <3>1. \A r \in rows : key[r] # Remote => key[r] \in Experts \ fat /\ key[r] = LocalOf(b, r)
      BY <1>1
    <3>2. \A e \in Experts \ fat : count[e] <= TempRows
      BY <1>1 DEF Fits
    <3>3. QED
      BY <3>1, <3>2
  <2> HIDE DEF Kept
  <2>3. QED
    BY <1>1, <2>1, <2>2 DEF LocalRows
<1> HIDE DEF Taken, K, R
<1>6. \A c : c \in GroupPacked(b, l) <=> \E t \in Taken : t[2] \in Kept /\ c = Contribution(l, t[1], t[2], K[t[2]])
  <2> HIDE DEF Kept
  <2>1. QED
    BY <1>2, <1>4
<1>7. MadeOfTaken(GroupPacked(b, l), b, l, rows, key, Taken, Kept, K, R)
  <2> HIDE DEF Kept
  <2>1. QED
    BY <1>1, <1>3, <1>5, <1>6 DEF MadeOfTaken
<1>8. Made(GroupPacked(b, l), b, l, R) /\ ((\A r \in R : K[key[r]] = KOf(key[r])) => RightK(GroupPacked(b, l)))
  <2> HIDE DEF Kept
  <2>1. QED
    BY <1>7, TakenMade
<1>9. \A r \in R : K[key[r]] = KOf(key[r])
  <2>1. \A e \in Kept : K[e] = KGroups[l.group] /\ KOf(e) = KGroups[l.group]
    BY DEF K, InGroup
  <2> HIDE DEF Kept
  <2>2. QED
    BY <1>5, <2>1
<1>10. QED
  BY <1>8, <1>9 DEF R

LEMMA MaskedMade ==
    ASSUME case \in Cases, NEW b \in Batches, NEW l, Fits(b, l), l.kernel = "group"
    PROVE  Made(GroupMasked(b, l), b, l, Own(b, l)) /\ RightK(GroupMasked(b, l))
<1> DEFINE rows == RowsOf(b, l)
           fat == FatIn(b, l)
           Masks == fat \cup {e \in Experts : ~InGroup(e, l.group)}
           key == [r \in rows |->
                    LET e == StandardLocal(b, fat, r)
                    IN  IF e # Remote /\ InGroup(e, l.group) THEN e ELSE Remote]
           count == CountsOf(rows, key)
           Taken == Walked(rows, key, ByIds, count)
           K == [e \in Experts |-> KGroups[l.group]]
           Kept == {e \in Experts : count[e] <= TempRows}
           R == Own(b, l)
<1>1. /\ rows = Window(b, l.first, l.last) /\ rows \in SUBSET (Nat \X Nat) /\ IsFiniteSet(rows)
      /\ key \in [rows -> 0..NumExperts]
      /\ \A r \in rows : /\ key[r] # Remote => key[r] = LocalOf(b, r) /\ key[r] \in Experts
                         /\ key[r] # Remote <=> LocalOf(b, r) # Remote /\ LocalOf(b, r) \notin Masks
      /\ \A e \in Experts \ Masks : count[e] = Counts(b, l.first, l.last)[e]
  <2>1. ASSUME NEW r \in RowsOf(b, l)
        PROVE  key[r] = IF LocalOf(b, r) \in Masks THEN Remote ELSE LocalOf(b, r)
    <3>1. LocalOf(b, r) \in Experts \/ LocalOf(b, r) = Remote
      <4>1. LocalOf(b, r) \in 0..NumExperts
        BY WindowFacts DEF Fits, RowsOf, Window
      <4>2. QED
        BY <4>1, ExpertFacts
    <3>2. key[r] = LET e == StandardLocal(b, fat, r) IN IF e # Remote /\ InGroup(e, l.group) THEN e ELSE Remote
      OBVIOUS
    <3>3. LocalOf(b, r) \in Masks <=> LocalOf(b, r) \in fat \/ (LocalOf(b, r) \in Experts /\ ~InGroup(LocalOf(b, r), l.group))
      OBVIOUS
    <3> HIDE DEF key, fat, Masks
    <3>4. QED
      BY <3>1, <3>2, <3>3 DEF StandardLocal
  <2>2. key = [r \in RowsOf(b, l) |-> key[r]]
    OBVIOUS
  <2>3. rows = RowsOf(b, l) /\ count = CountsOf(RowsOf(b, l), key)
    OBVIOUS
  <2> HIDE DEF rows, fat, key, count, Masks
  <2>4. key = [r \in RowsOf(b, l) |-> IF LocalOf(b, r) \in Masks THEN Remote ELSE LocalOf(b, r)]
    BY <2>1, <2>2
  <2>5. QED
    BY <2>3, <2>4, KeyFacts
<1>2. GroupMasked(b, l) = {Contribution(l, t[1], t[2], KGroups[l.group]) : t \in {s \in Taken : count[s[2]] <= TempRows}}
  BY DEF GroupMasked
<1>3. \A e \in Experts : e \notin Masks => InGroup(e, l.group) /\ e \notin fat
  OBVIOUS
<1>4. \A e \in Experts : e \in Masks => e \in fat \/ ~InGroup(e, l.group)
  OBVIOUS
<1> HIDE DEF rows, fat, key, Masks
<1>5. Taken = {<<r, key[r]>> : r \in {s \in rows : key[s] # Remote}}
  BY <1>1, IdsTake
<1> HIDE DEF count
<1>6. \A t \in Taken : /\ t[2] \in Experts /\ K[t[2]] = KGroups[l.group]
                       /\ count[t[2]] <= TempRows <=> t[2] \in Kept
  BY <1>1, <1>5
<1>7. \A r : r \in R <=> r \in rows /\ key[r] # Remote /\ key[r] \in Kept
  <2>1. R = {r \in LocalRows(b, l) : LocalOf(b, r) \notin fat /\ InGroup(LocalOf(b, r), l.group)}
    BY DEF Own, fat
  <2>2. \A r \in rows : key[r] # Remote => key[r] \in Kept
    <3>1. \A r \in rows : key[r] # Remote => key[r] \in Experts \ Masks
      BY <1>1
    <3>2. \A e \in Experts \ Masks : count[e] <= TempRows
      BY <1>1 DEF Fits
    <3>3. QED
      BY <3>1, <3>2
  <2> HIDE DEF Kept
  <2>3. \A r \in rows : LocalOf(b, r) \in Experts \/ LocalOf(b, r) = Remote
    <3>1. \A r \in rows : LocalOf(b, r) \in 0..NumExperts
      BY <1>1, WindowFacts DEF Fits
    <3>2. QED
      BY <3>1, ExpertFacts
  <2>4. \A r \in rows : key[r] # Remote <=> /\ LocalOf(b, r) # Remote /\ LocalOf(b, r) \notin fat
                                            /\ InGroup(LocalOf(b, r), l.group)
    BY <1>1, <1>3, <1>4, <2>3
  <2>5. QED
    BY <1>1, <2>1, <2>2, <2>4 DEF LocalRows
<1> HIDE DEF Taken, K, R, Kept
<1>8. \A c : c \in GroupMasked(b, l) <=> \E t \in Taken : t[2] \in Kept /\ c = Contribution(l, t[1], t[2], K[t[2]])
  BY <1>2, <1>6
<1>9. MadeOfTaken(GroupMasked(b, l), b, l, rows, key, Taken, Kept, K, R)
  BY <1>1, <1>5, <1>7, <1>8 DEF MadeOfTaken
<1>10. Made(GroupMasked(b, l), b, l, R) /\ ((\A r \in R : K[key[r]] = KOf(key[r])) => RightK(GroupMasked(b, l)))
  BY <1>9, TakenMade
<1>11. \A r \in R : K[key[r]] = KOf(key[r])
  <2>1. \A r \in R : key[r] \in Experts /\ InGroup(key[r], l.group)
    BY <1>1, <1>3, <1>7
  <2>2. QED
    BY <2>1 DEF K, InGroup
<1>12. QED
  BY <1>10, <1>11 DEF R

LEMMA MadeWithin ==
    ASSUME NEW b \in Batches, NEW l, Fits(b, l), NEW X, Made(X, b, l, Own(b, l))
    PROVE  Within(X, b, l)
<1>1. Own(b, l) \subseteq LocalRows(b, l)
  BY DEF Own, Fits
<1>2. \A r \in Window(b, l.first, l.last) : LocalOf(b, r) \in 0..NumExperts
  BY WindowFacts DEF Fits
<1>3. QED
  BY <1>1, <1>2, ExpertFacts DEF Made, Within, LocalRows

\* Every launch makes what its own rows ask for, if it takes the order they are in, and what
\* it makes is at the bit widths of the experts.
LEMMA LaunchMade ==
    ASSUME case \in Cases, NEW b \in Batches, NEW l, Fits(b, l)
    PROVE  /\ OrderTaken => Made(Result(b, l), b, l, Own(b, l))
           /\ Within(Result(b, l), b, l) /\ (StatesK => RightK(Result(b, l)))
<1>1. CASE l.kernel \in {"native", "coop", "loop"}
  <2>1. Result(b, l) = Direct(b, l) /\ Own(b, l) = LocalRows(b, l)
    BY <1>1 DEF Result, Own
  <2>2. QED
    BY <1>1, <2>1, DirectMade, MadeWithin
<1>2. CASE l.kernel \in {"batched", "unified"}
  <2>1. Result(b, l) = Standard(b, l)
    BY <1>2 DEF Result
  <2>2. QED
    BY <1>2, <2>1, StandardMade
<1>3. CASE l.kernel = "group"
  <2>1. Result(b, l) = IF case.packed THEN GroupPacked(b, l) ELSE GroupMasked(b, l)
    BY <1>3 DEF Result
  <2>2. QED
    BY <1>3, <2>1, PackedMade, MaskedMade, MadeWithin
<1>4. CASE l.kernel = "fat"
  <2>1. Result(b, l) = FatRows(b, l)
    BY <1>4 DEF Result
  <2>2. QED
    BY <1>4, <2>1, FatMade, MadeWithin
<1>5. QED
  BY <1>1, <1>2, <1>3, <1>4 DEF Fits

\* The launches ls serve the rows W of the batch: each is right in itself, and each row of W
\* for a local expert is the own row of one.
Serves(b, ls, W) ==
    /\ ls \in Seq(ToSet(ls))
    /\ \A l \in ToSet(ls) : Fits(b, l) /\ Own(b, l) \subseteq W
    /\ \A r \in W : LocalOf(b, r) # Remote => \E l \in ToSet(ls) : r \in Own(b, l)
    /\ \A l, m \in ToSet(ls) : \A r \in Own(b, l) : r \in Own(b, m) => l = m

LEMMA OneServes ==
    ASSUME NEW b, NEW l, Fits(b, l), NEW W, Own(b, l) \subseteq W, \A r \in W : LocalOf(b, r) # Remote => r \in Own(b, l)
    PROVE  Serves(b, <<l>>, W)
<1>1. ToSet(<<l>>) = {l} /\ <<l>> \in Seq({l})
  BY DEF ToSet
<1>2. QED
  BY <1>1 DEF Serves

\* A coop launch has scratch for all its rows.
LEMMA CoopRows ==
    ASSUME NEW b, NEW l, NEW first \in Nat \ {0}, NEW last \in Nat, first <= last, Topk(b) \in Nat,
           l.first = first, (last - first + 1) * Topk(b) <= CoopSlots, NEW r \in Window(b, first, last)
    PROVE  RowNumber(b, l, r) <= CoopSlots
<1> DEFINE k == Topk(b)
           i == r[1] - first
           n == last - first
<1>1. r[1] \in first..last /\ r[2] \in 1..k
  BY DEF Window
<1>2. i \in Nat /\ n \in Nat /\ i <= n /\ k \in Nat /\ r[2] \in Nat /\ r[2] <= k
  BY <1>1
<1>3. RowNumber(b, l, r) = i * k + r[2]
  BY DEF RowNumber
<1>4. last - first + 1 = n + 1
  OBVIOUS
<1>5. CoopSlots \in Nat
  BY LimitsAssumption
<1> HIDE DEF k, i, n
<1>6. (n + 1) * k <= CoopSlots
  BY <1>4 DEF k
<1>7. i * k <= n * k /\ (n + 1) * k = n * k + k /\ i * k \in Nat /\ n * k \in Nat
  <2>1. PICK d \in Nat : n = i + d
    <3>1. n - i \in Nat /\ n = i + (n - i)
      BY <1>2
    <3>2. QED
      BY <3>1
  <2>2. n * k = i * k + d * k /\ d * k \in Nat /\ i * k \in Nat
    BY <1>2, <2>1
  <2>3. QED
    BY <1>2, <2>2
<1>8. QED
  BY <1>2, <1>3, <1>5, <1>6, <1>7

LEMMA NativeServes ==
    ASSUME case \in Cases, NEW b \in Batches, NEW first \in Nat \ {0}, NEW last \in Nat, first <= last, last <= Len(b),
           NEW kernel \in {"native", "coop", "loop"}, kernel = "native" => ~MixedK,
           kernel = "coop" => CoopTakes(last - first + 1, Topk(b))
    PROVE  Serves(b, <<Over(kernel, first, last)>>, Window(b, first, last))
<1> DEFINE l == Over(kernel, first, last)
<1>1. l.kernel = kernel /\ l.first = first /\ l.last = last
  BY DEF Over
<1> HIDE DEF l
<1>2. Own(b, l) = {r \in Window(b, first, last) : LocalOf(b, r) # Remote}
  BY <1>1 DEF Own, LocalRows
<1>3. ASSUME kernel = "coop" PROVE OneTuple /\ \A r \in Window(b, l.first, l.last) : RowNumber(b, l, r) <= CoopSlots
  <2>1. OneTuple /\ (last - first + 1) * Topk(b) <= CoopSlots
    BY <1>3 DEF CoopTakes, CoopCompat
  <2>2. Topk(b) \in Nat
    BY WindowFacts
  <2>3. QED
    BY <1>1, <2>1, <2>2, CoopRows
<1>4. Fits(b, l)
  BY <1>1, <1>3 DEF Fits
<1>5. Serves(b, <<l>>, Window(b, first, last))
  BY <1>2, <1>4, OneServes
<1>6. QED
  BY <1>5 DEF l

-----------------------------------------------------------------------------
(* The launches of a window neither native nor coop takes.                 *)

\* The base launches serve the rows but those of the fat experts.
BaseOf(first, last, fat) ==
    IF ~(MixedK /\ ~OneTuple) THEN <<Masked("batched", first, last, fat)>>
    ELSE IF case.mode = "unified" THEN <<Masked("unified", first, last, fat)>>
    ELSE [g \in DOMAIN KGroups |->
            [kernel |-> "group", first |-> first, last |-> last, fat |-> fat, group |-> g]]

FatSet(b, first, last, fat) == {e \in Experts : fat /\ Counts(b, first, last)[e] > Fat}
Unmasked(b, first, last, F) == {r \in Window(b, first, last) : LocalOf(b, r) \notin F}

LEMMA BaseServes ==
    ASSUME case \in Cases, NEW b \in Batches, NEW first \in Nat \ {0}, NEW last \in Nat, first <= last, last <= Len(b),
           \A e \in Experts : Counts(b, first, last)[e] <= TempRows,
           NEW fat \in BOOLEAN
    PROVE  Serves(b, BaseOf(first, last, fat), Unmasked(b, first, last, FatSet(b, first, last, fat)))
<1> USE DEF Unmasked
<1> DEFINE F == FatSet(b, first, last, fat)
           W == Unmasked(b, first, last, F)
           Base == BaseOf(first, last, fat)
<1>1. ASSUME NEW l, l.first = first, l.last = last, l.fat = fat
      PROVE  FatIn(b, l) = F /\ LocalRows(b, l) = {r \in Window(b, first, last) : LocalOf(b, r) # Remote}
  BY <1>1 DEF FatIn, FatSet, LocalRows
<1>2. ASSUME NEW kernel \in {"batched", "unified"}, Base = <<Masked(kernel, first, last, fat)>>,
             kernel = "batched" => ~MixedK \/ OneTuple, kernel = "unified" => case.mode = "unified"
      PROVE  Serves(b, Base, W)
  <2> DEFINE l == Masked(kernel, first, last, fat)
  <2>1. l.kernel = kernel /\ l.first = first /\ l.last = last /\ l.fat = fat
    BY DEF Masked
  <2>2. Base = <<l>>
    BY <1>2
  <2> HIDE DEF l, Base
  <2>3. Fits(b, l)
    BY <1>2, <2>1 DEF Fits
  <2>4. Own(b, l) = {r \in W : LocalOf(b, r) # Remote}
    <3>1. Own(b, l) = {r \in LocalRows(b, l) : LocalOf(b, r) \notin FatIn(b, l)}
      BY <2>1 DEF Own
    <3>2. QED
      BY <1>1, <2>1, <3>1
  <2>5. Serves(b, <<l>>, W)
    BY <2>3, <2>4, OneServes
  <2>6. QED
    BY <2>2, <2>5
<1>3. ASSUME Base = [g \in DOMAIN KGroups |->
                       [kernel |-> "group", first |-> first, last |-> last, fat |-> fat, group |-> g]]
      PROVE  Serves(b, Base, W)
  <2> DEFINE L(g) == [kernel |-> "group", first |-> first, last |-> last, fat |-> fat, group |-> g]
             n == Cardinality(Tuples)
  <2>1. n \in Nat /\ DOMAIN KGroups = 1..n /\ Lists(KGroups, Tuples)
    <3>1. IsFiniteSet(Tuples)
      BY KFacts, KsFinite, FS_Subset
    <3>2. n \in Nat
      BY <3>1, FS_CardinalityType
    <3>3. QED
      BY <3>2, GroupsList DEF Lists
  <2>2. \A g \in 1..n : /\ L(g).kernel = "group" /\ L(g).first = first /\ L(g).last = last
                        /\ L(g).fat = fat /\ L(g).group = g
    OBVIOUS
  <2>3. Base = [g \in 1..n |-> L(g)]
    BY <1>3, <2>1
  <2> HIDE DEF Base, L, n
  <2>4. ToSet(Base) = {L(g) : g \in 1..n} /\ Base \in Seq(ToSet(Base))
    <3>1. DOMAIN Base = 1..n /\ \A g \in 1..n : Base[g] = L(g)
      BY <2>3
    <3>2. ToSet(Base) = {L(g) : g \in 1..n}
      BY <3>1 DEF ToSet
    <3>3. Base = [g \in 1..n |-> Base[g]] /\ \A g \in 1..n : Base[g] \in ToSet(Base)
      BY <2>3, <3>1 DEF ToSet
    <3> DEFINE S == ToSet(Base)
    <3> HIDE DEF S
    <3>4. Base \in [1..n -> S]
      BY <3>3 DEF S
    <3>5. Base \in Seq(S)
      BY <2>1, <3>4
    <3>6. QED
      BY <3>2, <3>5 DEF S
  <2>5. ASSUME NEW g \in 1..n
        PROVE  /\ Fits(b, L(g))
               /\ Own(b, L(g)) = {r \in W : LocalOf(b, r) # Remote /\ KOf(LocalOf(b, r)) = KGroups[g]}
    <3>1. Fits(b, L(g))
      BY <2>1, <2>2 DEF Fits
    <3>2. Own(b, L(g)) = {r \in LocalRows(b, L(g)) : LocalOf(b, r) \notin FatIn(b, L(g)) /\ InGroup(LocalOf(b, r), g)}
      BY <2>2 DEF Own
    <3>3. QED
      BY <1>1, <2>2, <3>1, <3>2 DEF InGroup
  <2>6. ASSUME NEW r \in W, LocalOf(b, r) # Remote PROVE \E g \in 1..n : KOf(LocalOf(b, r)) = KGroups[g]
    <3>1. LocalOf(b, r) \in Experts
      BY <2>6, WindowFacts, ExpertFacts
    <3>2. KOf(LocalOf(b, r)) \in Tuples
      BY <3>1, KFacts
    <3>3. QED
      BY <2>1, <3>2 DEF Lists, n
  <2>7. \A g, h \in 1..n : KGroups[g] = KGroups[h] => g = h
    BY <2>1 DEF Lists, n
  <2>8. \A l \in ToSet(Base) : Fits(b, l) /\ Own(b, l) \subseteq W
    BY <2>4, <2>5
  <2>9. ASSUME NEW r \in W, LocalOf(b, r) # Remote PROVE \E l \in ToSet(Base) : r \in Own(b, l)
    <3>1. PICK g \in 1..n : KOf(LocalOf(b, r)) = KGroups[g]
      BY <2>6, <2>9
    <3>2. r \in Own(b, L(g)) /\ L(g) \in ToSet(Base)
      BY <2>4, <2>5, <2>9, <3>1
    <3>3. QED
      BY <3>2
  <2>10. ASSUME NEW l \in ToSet(Base), NEW m \in ToSet(Base), NEW r \in Own(b, l), r \in Own(b, m) PROVE l = m
    <3>1. PICK g \in 1..n : l = L(g)
      BY <2>4
    <3>2. PICK h \in 1..n : m = L(h)
      BY <2>4
    <3>3. KOf(LocalOf(b, r)) = KGroups[g] /\ KOf(LocalOf(b, r)) = KGroups[h]
      BY <2>5, <2>10, <3>1, <3>2
    <3>4. QED
      BY <2>7, <3>1, <3>2, <3>3
  <2>11. QED
    BY <2>4, <2>8, <2>9, <2>10 DEF Serves
<1>4. CASE ~(MixedK /\ ~OneTuple)
  <2>1. Base = <<Masked("batched", first, last, fat)>>
    BY <1>4 DEF BaseOf
  <2> HIDE DEF Base
  <2>2. Serves(b, Base, W)
    BY <1>2, <1>4, <2>1
  <2>3. QED
    BY <2>2 DEF Base
<1>5. CASE (MixedK /\ ~OneTuple) /\ case.mode = "unified"
  <2>1. Base = <<Masked("unified", first, last, fat)>>
    BY <1>5 DEF BaseOf
  <2> HIDE DEF Base
  <2>2. Serves(b, Base, W)
    BY <1>2, <1>5, <2>1
  <2>3. QED
    BY <2>2 DEF Base
<1>6. CASE (MixedK /\ ~OneTuple) /\ case.mode # "unified"
  <2>1. Base = [g \in DOMAIN KGroups |->
                  [kernel |-> "group", first |-> first, last |-> last, fat |-> fat, group |-> g]]
    BY <1>6 DEF BaseOf
  <2> HIDE DEF Base
  <2>2. Serves(b, Base, W)
    BY <1>3, <2>1
  <2>3. QED
    BY <2>2 DEF Base
<1>7. QED
  BY <1>4, <1>5, <1>6

LEMMA BatchedServes ==
    ASSUME case \in Cases, NEW b \in Batches, NEW first \in Nat \ {0}, NEW last \in Nat, first <= last, last <= Len(b),
           \A e \in Experts : Counts(b, first, last)[e] <= TempRows, NEW c \in BOOLEAN
    PROVE  Serves(b, Batched(b, first, last, c), Window(b, first, last))
<1> DEFINE fat == FatPossible(last - first + 1, c)
           count == Counts(b, first, last)
           F == {e \in Experts : fat /\ count[e] > Fat}
           Base == BaseOf(first, last, fat)
           f == [kernel |-> "fat", first |-> first, last |-> last, count |-> count]
           All == Batched(b, first, last, c)
           W == Window(b, first, last)
<1>1. fat \in BOOLEAN
  BY DEF FatPossible
<1>2. All = IF fat /\ \E e \in Experts : count[e] > Fat THEN Append(Base, f) ELSE Base
  BY DEF Batched, BaseOf
<1>3. f.kernel = "fat" /\ f.first = first /\ f.last = last /\ f.count = count
  OBVIOUS
<1>4. Serves(b, Base, {r \in W : LocalOf(b, r) \notin F})
  <2> HIDE DEF fat
  <2>1. Serves(b, BaseOf(first, last, fat), Unmasked(b, first, last, FatSet(b, first, last, fat)))
    BY <1>1, BaseServes
  <2>2. QED
    BY <2>1 DEF Unmasked, FatSet
<1> HIDE DEF fat, Base, All, W, f
<1>5. CASE ~(fat /\ \E e \in Experts : count[e] > Fat)
  <2>1. F = {}
    BY <1>5
  <2>2. {r \in W : LocalOf(b, r) \notin F} = W
    BY <2>1
  <2> HIDE DEF count, F
  <2>3. Serves(b, All, W)
    BY <1>2, <1>4, <1>5, <2>2
  <2>4. QED
    BY <2>3 DEF All, W
<1>6. CASE fat /\ \E e \in Experts : count[e] > Fat
  <2>1. All = Append(Base, f)
    BY <1>2, <1>6
  <2>2. \A e \in Experts : e \in F <=> count[e] > Fat
    BY <1>6
  <2>3. Fits(b, f)
    BY <1>3 DEF Fits
  <2>4. \A r \in W : LocalOf(b, r) # Remote => LocalOf(b, r) \in Experts
    BY WindowFacts, ExpertFacts DEF W
  <2>5. Own(b, f) = {r \in W : LocalOf(b, r) # Remote /\ LocalOf(b, r) \in F}
    <3>1. Own(b, f) = {r \in LocalRows(b, f) : f.count[LocalOf(b, r)] > Fat}
      BY <1>3 DEF Own
    <3>2. LocalRows(b, f) = {r \in W : LocalOf(b, r) # Remote}
      BY <1>3 DEF LocalRows, W
    <3> HIDE DEF F, count
    <3>3. QED
      BY <1>3, <2>2, <2>4, <3>1, <3>2
  <2> HIDE DEF F, count
  <2>6. /\ Base \in Seq(ToSet(Base))
        /\ \A l \in ToSet(Base) : Fits(b, l) /\ \A r \in Own(b, l) : r \in W /\ LocalOf(b, r) \notin F
        /\ \A r \in W : LocalOf(b, r) # Remote /\ LocalOf(b, r) \notin F => \E l \in ToSet(Base) : r \in Own(b, l)
        /\ \A l, m \in ToSet(Base) : \A r \in Own(b, l) : r \in Own(b, m) => l = m
    BY <1>4 DEF Serves
  <2>7. ToSet(All) = ToSet(Base) \cup {f} /\ All \in Seq(ToSet(All))
    <3> DEFINE S == ToSet(Base) \cup {f}
    <3>1. Base \in Seq(S) /\ f \in S
      BY <2>6
    <3> HIDE DEF S
    <3>2. All \in Seq(S) /\ ToSet(All) = ToSet(Base) \cup {f}
      BY <2>1, <3>1, AppendElement
    <3>3. QED
      BY <3>2 DEF S
  <2>8. \A l \in ToSet(All) : Fits(b, l) /\ Own(b, l) \subseteq W
    BY <2>3, <2>5, <2>6, <2>7
  <2>9. \A r \in W : LocalOf(b, r) # Remote => \E l \in ToSet(All) : r \in Own(b, l)
    BY <2>5, <2>6, <2>7
  <2>10. ASSUME NEW l \in ToSet(All), NEW m \in ToSet(All), NEW r \in Own(b, l), r \in Own(b, m) PROVE l = m
    <3>1. CASE LocalOf(b, r) \in F
      BY <2>6, <2>7, <2>10, <3>1
    <3>2. CASE LocalOf(b, r) \notin F
      BY <2>5, <2>6, <2>7, <2>10, <3>2
    <3>3. QED
      BY <3>1, <3>2
  <2>11. Serves(b, All, W)
    BY <2>7, <2>8, <2>9, <2>10 DEF Serves
  <2>12. QED
    BY <2>11 DEF All, W
<1>7. QED
  BY <1>5, <1>6

LEMMA WholeServes ==
    ASSUME case \in Cases, NEW b \in Batches, NEW first \in Nat \ {0}, NEW last \in Nat, first <= last, last <= Len(b),
           \A e \in Experts : Counts(b, first, last)[e] <= TempRows, NEW c \in BOOLEAN
    PROVE  Serves(b, Whole(b, first, last, c), Window(b, first, last))
<1> DEFINE tokens == last - first + 1
<1>1. CASE NativeTakes(tokens)
  <2>1. Whole(b, first, last, c) = <<Over("native", first, last)>>
    BY <1>1 DEF Whole
  <2>2. ~MixedK
    BY <1>1 DEF NativeTakes
  <2>3. QED
    BY <2>1, <2>2, NativeServes
<1>2. CASE ~NativeTakes(tokens) /\ CoopTakes(tokens, Topk(b))
  <2>1. Whole(b, first, last, c) = <<Over("coop", first, last)>>
    BY <1>2 DEF Whole
  <2>2. QED
    BY <1>2, <2>1, NativeServes
<1>3. CASE ~NativeTakes(tokens) /\ ~CoopTakes(tokens, Topk(b))
  <2>1. Whole(b, first, last, c) = Batched(b, first, last, c)
    BY <1>3 DEF Whole
  <2>2. QED
    BY <2>1, BatchedServes
<1>4. QED
  BY <1>1, <1>2, <1>3

-----------------------------------------------------------------------------
(* Slices.                                                                 *)

SlicesOf(b) == (Len(b) + TempRows - 1) \div TempRows
SliceStart(s) == (s - 1) * TempRows + 1

\* The slices cut the batch into windows of at most TempRows tokens.
LEMMA SlicesCut ==
    ASSUME NEW b \in Batches
    PROVE  /\ SlicesOf(b) \in Nat \ {0}
           /\ \A s \in 1..SlicesOf(b) :
                 /\ SliceStart(s) \in Nat \ {0} /\ SliceEnd(b, s) \in Nat
                 /\ SliceStart(s) <= SliceEnd(b, s) /\ SliceEnd(b, s) <= Len(b)
                 /\ SliceEnd(b, s) - SliceStart(s) + 1 <= TempRows
           /\ \A t \in 1..Len(b) : \E s \in 1..SlicesOf(b) : t \in SliceStart(s)..SliceEnd(b, s)
           /\ \A s, u \in 1..SlicesOf(b) : \A t \in SliceStart(s)..SliceEnd(b, s) :
                 t \in SliceStart(u)..SliceEnd(b, u) => s = u
<1> DEFINE T == TempRows
           n == Len(b)
           K == SlicesOf(b)
<1>1. T \in Nat \ {0} /\ n \in Nat \ {0}
  BY LimitsAssumption, BatchesAssumption
<1>2. K \in Nat /\ K * T <= n + T - 1 /\ n + T - 1 < K * T + T /\ K * T \in Nat
  <2>1. n + T - 1 \in Nat
    BY <1>1
  <2>2. K = (n + T - 1) \div T
    BY DEF SlicesOf
  <2> HIDE DEF T, n, K
  <2>3. QED
    BY <1>1, <2>1, <2>2, Divided
<1>3. \A s : SliceStart(s) = (s - 1) * T + 1 /\ SliceEnd(b, s) = IF s * T < n THEN s * T ELSE n
  BY DEF SliceStart, SliceEnd
<1>4. K # 0
  <2>1. 0 * T = 0
    BY <1>1
  <2> HIDE DEF T, n, K
  <2>2. QED
    BY <1>1, <1>2, <2>1
<1> HIDE DEF T, n, K
<1>5. ASSUME NEW s \in 1..K
      PROVE  /\ (s - 1) * T = s * T - T /\ s * T \in Int /\ s * T - T \in Nat /\ s * T - T < n
  <2>1. s \in Int /\ K \in Int /\ s <= K /\ 0 < s
    BY <1>2
  <2>2. (s - 1) * T = s * T - T /\ s * T \in Int /\ s * T <= K * T
    BY <1>1, <2>1, ProductRises
  <2>3. 0 * T + T <= s * T /\ 0 * T = 0
    BY <1>1, <2>1, ProductRises
  <2>4. QED
    BY <1>1, <1>2, <2>2, <2>3
<1>6. ASSUME NEW s \in 1..K
      PROVE  /\ SliceStart(s) \in Nat \ {0} /\ SliceEnd(b, s) \in Nat
             /\ SliceStart(s) <= SliceEnd(b, s) /\ SliceEnd(b, s) <= n
             /\ SliceEnd(b, s) - SliceStart(s) + 1 <= T
             /\ \A t \in Int : t \in SliceStart(s)..SliceEnd(b, s) <=> s * T - T < t /\ t <= s * T /\ t <= n
  <2>1. SliceStart(s) = s * T - T + 1 /\ SliceEnd(b, s) = IF s * T < n THEN s * T ELSE n
    BY <1>3, <1>5
  <2>2. QED
    BY <1>1, <1>5, <2>1
<1>7. ASSUME NEW t \in 1..n PROVE \E s \in 1..K : t \in SliceStart(s)..SliceEnd(b, s)
  <2> DEFINE q == (t - 1) \div T
  <2>1. t - 1 \in Nat /\ t \in Int /\ t <= n
    BY <1>1
  <2>2. q \in Nat /\ q * T <= t - 1 /\ t - 1 < q * T + T /\ q * T \in Nat
    BY <1>1, <2>1, Divided
  <2> HIDE DEF q
  <2>3. q < K
    <3>1. q \in Int /\ K \in Int
      BY <1>2, <2>2
    <3>2. K <= q => K * T <= q * T
      BY <1>1, <3>1, ProductRises
    <3>3. q * T < K * T
      BY <1>1, <1>2, <2>1, <2>2
    <3>4. QED
      BY <1>2, <2>2, <3>1, <3>2, <3>3
  <2>4. q + 1 \in 1..K
    BY <1>2, <2>2, <2>3
  <2>5. (q + 1) * T = q * T + T
    BY <1>1, <2>2, ProductRises
  <2>6. (q + 1) * T - T < t /\ t <= (q + 1) * T
    BY <1>1, <2>1, <2>2, <2>5
  <2>7. QED
    BY <1>6, <2>1, <2>4, <2>6
<1>8. ASSUME NEW s \in 1..K, NEW u \in 1..K, NEW t \in Int, s < u,
             t \in SliceStart(s)..SliceEnd(b, s), t \in SliceStart(u)..SliceEnd(b, u)
      PROVE  FALSE
  <2>1. s \in Int /\ u \in Int
    BY <1>2
  <2>2. s * T + T <= u * T
    BY <1>1, <1>8, <2>1, ProductRises
  <2>3. t <= s * T /\ u * T - T < t
    BY <1>6, <1>8
  <2>4. QED
    BY <1>1, <1>5, <2>2, <2>3
<1>9. ASSUME NEW s \in 1..K, NEW u \in 1..K, NEW t \in SliceStart(s)..SliceEnd(b, s), t \in SliceStart(u)..SliceEnd(b, u)
      PROVE  s = u
  <2>1. t \in Int
    BY <1>6
  <2>2. s = u \/ s < u \/ u < s
    BY <1>2
  <2>3. QED
    BY <1>8, <1>9, <2>1, <2>2
<1>10. QED
  BY <1>2, <1>4, <1>6, <1>7, <1>9 DEF T, n, K

LEMMA SlicedServes ==
    ASSUME case \in Cases, NEW b \in Batches, NEW c \in BOOLEAN
    PROVE  Serves(b, Sliced(b, c), Window(b, 1, Len(b)))
<1> DEFINE K == SlicesOf(b)
           Start(s) == SliceStart(s)
           End(s) == SliceEnd(b, s)
           Part(s) == Whole(b, Start(s), End(s), c)
           ss == [s \in 1..K |-> Part(s)]
           W(s) == Window(b, Start(s), End(s))
           All == Window(b, 1, Len(b))
           L == Sliced(b, c)
<1>1. /\ K \in Nat \ {0}
      /\ \A s \in 1..K : /\ Start(s) \in Nat \ {0} /\ End(s) \in Nat
                         /\ Start(s) <= End(s) /\ End(s) <= Len(b)
                         /\ End(s) - Start(s) + 1 <= TempRows
      /\ \A t \in 1..Len(b) : \E s \in 1..K : t \in Start(s)..End(s)
      /\ \A s, u \in 1..K : \A t \in Start(s)..End(s) : t \in Start(u)..End(u) => s = u
  BY SlicesCut
<1>2. L = FlattenSeq(ss)
  BY DEF Sliced, SlicesOf, SliceStart
<1> HIDE DEF K, Start, End
<1>3. ASSUME NEW s \in 1..K PROVE Serves(b, Part(s), W(s))
  <2>1. /\ Start(s) \in Nat \ {0} /\ End(s) \in Nat /\ Start(s) <= End(s) /\ End(s) <= Len(b)
        /\ End(s) - Start(s) + 1 <= TempRows
    BY <1>1
  <2>2. ASSUME NEW e \in Experts PROVE Counts(b, Start(s), End(s))[e] <= TempRows
    <3>1. /\ Counts(b, Start(s), End(s))[e] \in Nat
          /\ Counts(b, Start(s), End(s))[e] <= End(s) - Start(s) + 1
      BY <2>1, CountBound
    <3>2. TempRows \in Nat
      BY LimitsAssumption
    <3>3. QED
      BY <2>1, <3>1, <3>2
  <2>3. QED
    BY <2>1, <2>2, WholeServes
<1> DEFINE S == UNION {ToSet(Part(s)) : s \in 1..K}
<1>4. ASSUME NEW s \in 1..K PROVE Part(s) \in Seq(S) /\ ss[s] = Part(s)
  <2>1. Part(s) \in Seq(ToSet(Part(s))) /\ ToSet(Part(s)) \subseteq S
    BY <1>3 DEF Serves
  <2>2. ss[s] = Part(s)
    OBVIOUS
  <2> HIDE DEF Part, S
  <2>3. QED
    BY <2>1, <2>2
<1>5. L \in Seq(S) /\ ToSet(L) = S
  <2>1. ss \in [1..K -> Seq(S)]
    BY <1>4
  <2>2. {ToSet(ss[i]) : i \in 1..K} = {ToSet(Part(s)) : s \in 1..K}
    BY <1>4
  <2> DEFINE P == {ToSet(Part(s)) : s \in 1..K}
  <2>3. S = UNION P /\ {ToSet(ss[i]) : i \in 1..K} = P
    BY <2>2
  <2> HIDE DEF ss, S, L, P
  <2>4. FlattenSeq(ss) \in Seq(S) /\ ToSet(FlattenSeq(ss)) = UNION {ToSet(ss[i]) : i \in 1..K}
    BY <1>1, <2>1, FlattenElements
  <2>5. QED
    BY <1>2, <2>3, <2>4
<1>6. \A l \in ToSet(L) : \E s \in 1..K : l \in ToSet(Part(s))
  BY <1>5
<1>7. \A s \in 1..K : \A l \in ToSet(Part(s)) : l \in ToSet(L)
  BY <1>5
<1>8. ASSUME NEW s \in 1..K, NEW r \in W(s) PROVE r \in All /\ r[1] \in Start(s)..End(s)
  <2>1. r[1] \in Start(s)..End(s) /\ r[2] \in 1..Topk(b) /\ r = <<r[1], r[2]>>
    BY DEF Window
  <2>2. Start(s) \in Nat \ {0} /\ End(s) \in Nat /\ End(s) <= Len(b) /\ Len(b) \in Nat
    BY <1>1, BatchesAssumption
  <2>3. r[1] \in 1..Len(b)
    BY <2>1, <2>2
  <2>4. QED
    BY <2>1, <2>3 DEF Window
<1>9. ASSUME NEW r \in All PROVE \E s \in 1..K : r \in W(s)
  <2>1. r[1] \in 1..Len(b) /\ r[2] \in 1..Topk(b) /\ r = <<r[1], r[2]>>
    BY DEF Window
  <2>2. PICK s \in 1..K : r[1] \in Start(s)..End(s)
    BY <1>1, <2>1
  <2>3. QED
    BY <2>1, <2>2 DEF Window
<1> HIDE DEF Part, W, All, L, S
<1>10. \A l \in ToSet(L) : Fits(b, l) /\ Own(b, l) \subseteq All
  BY <1>3, <1>6, <1>8 DEF Serves
<1>11. ASSUME NEW r \in All, LocalOf(b, r) # Remote PROVE \E l \in ToSet(L) : r \in Own(b, l)
  <2>1. PICK s \in 1..K : r \in W(s)
    BY <1>9
  <2>2. PICK l \in ToSet(Part(s)) : r \in Own(b, l)
    BY <1>3, <1>11, <2>1 DEF Serves
  <2>3. QED
    BY <1>7, <2>2
<1>12. ASSUME NEW l \in ToSet(L), NEW m \in ToSet(L), NEW r \in Own(b, l), r \in Own(b, m) PROVE l = m
  <2>1. PICK s \in 1..K : l \in ToSet(Part(s))
    BY <1>6
  <2>2. PICK u \in 1..K : m \in ToSet(Part(u))
    BY <1>6
  <2>3. r \in W(s) /\ r \in W(u)
    BY <1>3, <1>12, <2>1, <2>2 DEF Serves
  <2>4. s = u
    <3>1. r[1] \in Start(s)..End(s) /\ r[1] \in Start(u)..End(u)
      BY <1>8, <2>3
    <3>2. QED
      BY <1>1, <3>1
  <2>5. QED
    BY <1>3, <1>12, <2>1, <2>2, <2>4 DEF Serves
<1>13. Serves(b, L, All)
  BY <1>5, <1>10, <1>11, <1>12 DEF Serves
<1>14. QED
  BY <1>13 DEF L, All

\* The launches of a batch serve it: cut into slices, or with no more rows of an expert than
\* the scratch of a launch holds.
LEMMA LaunchesServe ==
    ASSUME CaptureTokens <= TempRows, case \in Cases, NEW b \in Batches, NEW c \in BOOLEAN,
           c => Len(b) <= CaptureTokens
    PROVE  Serves(b, Launches(b, c), RoutesOf(b))
<1>1. /\ Len(b) \in Nat \ {0} /\ DOMAIN b = 1..Len(b) /\ TempRows \in Nat /\ CaptureTokens \in Nat
      /\ Window(b, 1, Len(b)) = RoutesOf(b)
  <2>1. Len(b) \in Nat \ {0} /\ DOMAIN b = 1..Len(b)
    BY BatchesAssumption
  <2>2. QED
    BY <2>1, LimitsAssumption DEF Window, RoutesOf
<1> DEFINE n == Len(b)
<1>2. 1 \in Nat \ {0} /\ n \in Nat /\ 1 <= n /\ n <= Len(b) /\ n - 1 + 1 = n
  BY <1>1
<1>3. CASE NativeTakes(n)
  <2>1. Launches(b, c) = <<Over("native", 1, n)>>
    BY <1>3 DEF Launches
  <2>2. ~MixedK
    BY <1>3 DEF NativeTakes
  <2>3. QED
    BY <1>1, <1>2, <2>1, <2>2, NativeServes
<1>4. CASE ~NativeTakes(n) /\ ~(HasPointers /\ case.ext)
  <2>1. Launches(b, c) = <<Over("loop", 1, n)>>
    BY <1>4 DEF Launches
  <2>2. QED
    BY <1>1, <1>2, <2>1, NativeServes
<1>5. CASE ~NativeTakes(n) /\ HasPointers /\ case.ext /\ TooLong(b, c)
  <2>1. Launches(b, c) = Sliced(b, c)
    BY <1>5 DEF Launches
  <2>2. QED
    BY <1>1, <2>1, SlicedServes
<1>6. CASE ~NativeTakes(n) /\ HasPointers /\ case.ext /\ ~TooLong(b, c)
  <2>1. Launches(b, c) = Whole(b, 1, n, c)
    BY <1>6 DEF Launches
  <2>2. ASSUME NEW e \in Experts PROVE Counts(b, 1, n)[e] <= TempRows
    <3>1. Counts(b, 1, n)[e] \in Nat /\ Counts(b, 1, n)[e] <= n - 1 + 1
      BY <1>2, CountBound
    <3>2. CASE n <= TempRows
      BY <1>1, <1>2, <3>1, <3>2
    <3>3. CASE ~(n <= TempRows)
      <4>1. ~c
        BY <1>1, <3>3
      <4>2. ~\E x \in Experts : Counts(b, 1, n)[x] > TempRows
        BY <1>1, <1>6, <3>3, <4>1 DEF TooLong
      <4>3. QED
        BY <1>1, <3>1, <4>2
    <3>4. QED
      BY <3>2, <3>3
  <2>3. QED
    BY <1>1, <1>2, <2>1, <2>2, WholeServes
<1>7. QED
  BY <1>3, <1>4, <1>5, <1>6

-----------------------------------------------------------------------------
(* The layer does not change.                                              *)

LEMMA SameKs ==
    ASSUME case' = case
    PROVE  /\ Gateless' = Gateless /\ \A e : KOf(e)' = KOf(e)
           /\ Tuples' = Tuples /\ MixedK' = MixedK /\ OneTuple' = OneTuple
<1>1. Gateless' = Gateless
  BY DEF Gateless
<1>2. ASSUME NEW e PROVE KOf(e)' = KOf(e)
  BY <1>1 DEF KOf
<1>3. Tuples' = Tuples
  BY <1>2 DEF Tuples
<1>4. MixedK' = MixedK /\ OneTuple' = OneTuple
  BY <1>3 DEF MixedK, OneTuple
<1>5. QED
  BY <1>1, <1>2, <1>3, <1>4

LEMMA SameWidths ==
    ASSUME case' = case
    PROVE  /\ HasPointers' = HasPointers /\ CoopCompat' = CoopCompat
           /\ ScalarK' = ScalarK /\ TupleK' = TupleK /\ \A e : ArrayK(e)' = ArrayK(e)
<1>1. HasPointers' = HasPointers
  BY SameKs DEF HasPointers
<1>2. CoopCompat' = CoopCompat
  BY SameKs DEF CoopCompat
<1>3. ScalarK' = ScalarK
  BY SameKs DEF ScalarK
<1>4. TupleK' = TupleK
  BY SameKs DEF TupleK
<1>5. MaxK' = MaxK
  BY SameKs DEF MaxK
<1>6. \A e : ArrayK(e)' = ArrayK(e)
  BY <1>5, SameKs DEF ArrayK
<1>7. QED
  BY <1>1, <1>2, <1>3, <1>4, <1>6

LEMMA SameOrders ==
    ASSUME case' = case
    PROVE  /\ KGroups' = KGroups /\ KDescending' = KDescending /\ Packed' = Packed /\ LptOrder' = LptOrder
           /\ \A e, g : InGroup(e, g)' = InGroup(e, g)
<1>1. KGroups' = KGroups
  <2> DEFINE Listed(S) == [i \in 1..Cardinality(S) |->
                             CHOOSE x \in S : Cardinality({y \in S : TupleBefore(y, x)}) = i - 1]
  <2>1. KGroups = Listed(Tuples) /\ KGroups' = Listed(Tuples')
    BY DEF KGroups, Ordered
  <2> HIDE DEF Listed
  <2>2. QED
    BY <2>1, SameKs
<1> DEFINE K(c, e) == IF c.act = "relu2" THEN <<c.k[e][2], c.k[e][2], c.k[e][3]>> ELSE c.k[e]
           Widest(c, e) == CHOOSE k \in {K(c, e)[i] : i \in 1..3} : \A i \in 1..3 : k >= K(c, e)[i]
<1>2. KDescending' = KDescending
  <2> DEFINE Before(c, d, e) == \/ Widest(c, e) < Widest(c, d)
                                \/ Widest(c, d) = Widest(c, e) /\ d < e
             Listed(c) == [i \in 1..Cardinality(Experts) |->
                             CHOOSE x \in Experts : Cardinality({y \in Experts : Before(c, y, x)}) = i - 1]
  <2>1. KDescending = Listed(case) /\ KDescending' = Listed(case')
    BY DEF KDescending, Ordered, WiderBefore, KMax, KOf, Gateless
  <2> HIDE DEF Listed
  <2>2. QED
    BY <2>1
<1>3. Packed' = Packed
  <2> DEFINE Before(c, d, e) == \/ TupleBefore(K(c, d), K(c, e))
                                \/ K(c, d) = K(c, e) /\ d < e
             Listed(c) == [i \in 1..Cardinality(Experts) |->
                             CHOOSE x \in Experts : Cardinality({y \in Experts : Before(c, y, x)}) = i - 1]
  <2>1. Packed = Listed(case) /\ Packed' = Listed(case')
    BY DEF Packed, Ordered, GroupBefore, KOf, Gateless
  <2> HIDE DEF Listed
  <2>2. QED
    BY <2>1
<1>4. LptOrder' = LptOrder
  BY SameKs DEF LptOrder
<1>5. \A e, g : InGroup(e, g)' = InGroup(e, g)
  BY <1>1, SameKs DEF InGroup
<1>6. QED
  BY <1>1, <1>2, <1>3, <1>4, <1>5

LEMMA SameResult ==
    ASSUME case' = case, NEW b, NEW l
    PROVE  Result(b, l)' = Result(b, l)
<1>1. Direct(b, l)' = Direct(b, l)
  BY SameKs, SameWidths DEF Direct
<1>2. Standard(b, l)' = Standard(b, l)
  <2> DEFINE order == IF LptOrder THEN KDescending ELSE ByIds
             key == [r \in RowsOf(b, l) |-> StandardLocal(b, FatIn(b, l), r)]
             count == CountsOf(RowsOf(b, l), key)
             Taken(o) == {s \in Walked(RowsOf(b, l), [r \in RowsOf(b, l) |-> PlaceIn(o, key[r])],
                                       IF l.kernel = "unified" /\ case.orders THEN o ELSE ByIds, count) :
                           count[s[2]] <= TempRows}
  <2>1. order' = order
    BY SameOrders
  <2>2. Standard(b, l) = {Contribution(l, t[1], t[2], IF l.kernel = "unified" THEN ArrayK(t[2]) ELSE TupleK) :
                            t \in Taken(order)}
    BY DEF Standard
  <2>3. Standard(b, l)' = {Contribution(l, t[1], t[2], IF l.kernel = "unified" THEN ArrayK(t[2])' ELSE TupleK') :
                            t \in Taken(order')}
    BY DEF Standard
  <2> HIDE DEF order, Taken
  <2>4. QED
    BY <2>1, <2>2, <2>3, SameWidths
<1>3. GroupMasked(b, l)' = GroupMasked(b, l)
  BY SameOrders DEF GroupMasked
<1>4. GroupPacked(b, l)' = GroupPacked(b, l)
  BY SameOrders DEF GroupPacked
<1>5. FatRows(b, l)' = FatRows(b, l)
  BY SameKs DEF FatRows
<1>6. QED
  BY <1>1, <1>2, <1>3, <1>4, <1>5 DEF Result

LEMMA SameLaunches ==
    ASSUME case' = case, NEW b, NEW c
    PROVE  Launches(b, c)' = Launches(b, c)
<1>1. ASSUME NEW n PROVE NativeTakes(n)' = NativeTakes(n)
  BY SameKs, SameWidths DEF NativeTakes, NativeShape, OwnShape, NativeRowCap, RowCap
<1>2. ASSUME NEW n, NEW k PROVE CoopTakes(n, k)' = CoopTakes(n, k)
  BY SameWidths DEF CoopTakes
<1>3. ASSUME NEW first, NEW last PROVE Batched(b, first, last, c)' = Batched(b, first, last, c)
  BY SameKs, SameOrders DEF Batched
<1>4. ASSUME NEW first, NEW last PROVE Whole(b, first, last, c)' = Whole(b, first, last, c)
  BY <1>1, <1>2, <1>3 DEF Whole
<1>5. Sliced(b, c)' = Sliced(b, c)
  BY <1>4 DEF Sliced
<1>6. QED
  BY <1>1, <1>4, <1>5, SameWidths DEF Launches

\* What a capture launches depends on the shape of its batch alone.
LEMMA CaptureOfShape ==
    ASSUME NEW b, NEW d, Len(b) = Len(d), Topk(b) = Topk(d)
    PROVE  Launches(b, TRUE) = Launches(d, TRUE)
<1>1. ~TooLong(b, TRUE) /\ ~TooLong(d, TRUE)
  BY DEF TooLong
<1>2. ASSUME NEW first, NEW last PROVE Batched(b, first, last, TRUE) = Batched(d, first, last, TRUE)
  <2>1. ~FatPossible(last - first + 1, TRUE)
    BY DEF FatPossible
  <2>2. Batched(b, first, last, TRUE) = BaseOf(first, last, FatPossible(last - first + 1, TRUE))
    BY <2>1 DEF Batched, BaseOf
  <2>3. Batched(d, first, last, TRUE) = BaseOf(first, last, FatPossible(last - first + 1, TRUE))
    BY <2>1 DEF Batched, BaseOf
  <2>4. QED
    BY <2>2, <2>3
<1>3. Whole(b, 1, Len(b), TRUE) = Whole(d, 1, Len(d), TRUE)
  BY <1>2 DEF Whole
<1>4. QED
  BY <1>1, <1>3 DEF Launches

-----------------------------------------------------------------------------
(* The invariant.                                                          *)

Captured ==
    \/ graph = None
    \/ \E b \in Batches : /\ graph.shape = <<Len(b), Topk(b)>> /\ graph.launches = Launches(b, TRUE)
                          /\ Len(b) <= CaptureTokens

\* What was made and what is still to be launched are together what the launches of the batch
\* make, those chosen for it or those of a capture.
Under(b, c) ==
    /\ batch = b /\ (c => Len(b) <= CaptureTokens)
    /\ todo \in Seq(ToSet(todo)) /\ ToSet(todo) \subseteq ToSet(Launches(b, c))
    /\ \A x : (x \in done \/ \E l \in ToSet(todo) : x \in Result(b, l))
                <=> \E l \in ToSet(Launches(b, c)) : x \in Result(b, l)

DInv ==
    /\ case \in Cases
    /\ Captured
    /\ \/ batch = None /\ todo = <<>> /\ done = {}
       \/ \E b \in Batches, c \in BOOLEAN : Under(b, c)

LEMMA DInvInit == ASSUME DispatchInit PROVE DInv
BY DEF DispatchInit, DInv, Captured

LEMMA Started ==
    ASSUME CaptureTokens <= TempRows, case \in Cases, case' = case, NEW b \in Batches, NEW c \in BOOLEAN,
           c => Len(b) <= CaptureTokens, batch' = b, todo' = Launches(b, c), done' = {}
    PROVE  Under(b, c)'
<1>1. Launches(b, c) \in Seq(ToSet(Launches(b, c)))
  BY LaunchesServe DEF Serves
<1>2. Launches(b, c)' = Launches(b, c)
  BY SameLaunches
<1>3. \A l : Result(b, l)' = Result(b, l)
  BY SameResult
<1>4. QED
  BY <1>1, <1>2, <1>3 DEF Under

LEMMA CapturedStays == ASSUME Captured, case' = case, graph' = graph PROVE Captured'
<1>1. \A b : Launches(b, TRUE)' = Launches(b, TRUE)
  BY SameLaunches
<1>2. QED
  BY <1>1 DEF Captured

LEMMA DInvStep == ASSUME CaptureTokens <= TempRows, DInv, [DispatchNext]_dispatchVars PROVE DInv'
<1>1. case \in Cases /\ Captured
  BY DEF DInv
<1>2. ASSUME NEW b \in Batches, Forward(b) PROVE DInv'
  <2>1. case' = case /\ graph' = graph /\ batch' = b /\ todo' = Launches(b, FALSE) /\ done' = {}
    BY <1>2 DEF Forward
  <2>2. Under(b, FALSE)'
    BY <1>1, <2>1, Started
  <2>3. Captured'
    BY <1>1, <2>1, CapturedStays
  <2>4. QED
    BY <1>1, <2>1, <2>2, <2>3 DEF DInv
<1>3. ASSUME NEW b \in Batches, Capture(b) PROVE DInv'
  <2>1. /\ case' = case /\ batch' = batch /\ todo' = todo /\ done' = done /\ batch = None
        /\ Len(b) <= CaptureTokens
        /\ graph' = [shape |-> <<Len(b), Topk(b)>>, launches |-> Launches(b, TRUE)]
    BY <1>3 DEF Capture, Idle
  <2>2. Launches(b, TRUE)' = Launches(b, TRUE)
    BY <2>1, SameLaunches
  <2>3. Captured'
    BY <2>1, <2>2 DEF Captured
  <2>4. todo = <<>> /\ done = {}
    <3>1. \A d \in Batches : d # None
      BY BatchesAssumption DEF None
    <3>2. QED
      BY <2>1, <3>1 DEF DInv, Under
  <2>5. QED
    BY <1>1, <2>1, <2>3, <2>4 DEF DInv
<1>4. ASSUME NEW b \in Batches, Replay(b) PROVE DInv'
  <2>1. /\ case' = case /\ graph' = graph /\ batch' = b /\ todo' = graph.launches /\ done' = {}
        /\ graph # None /\ graph.shape = <<Len(b), Topk(b)>>
    BY <1>4 DEF Replay
  <2>2. PICK d \in Batches : /\ graph.shape = <<Len(d), Topk(d)>> /\ graph.launches = Launches(d, TRUE)
                             /\ Len(d) <= CaptureTokens
    BY <1>1, <2>1 DEF Captured
  <2>3. Len(b) = Len(d) /\ Topk(b) = Topk(d)
    BY <2>1, <2>2
  <2>4. Launches(b, TRUE) = Launches(d, TRUE)
    BY <2>3, CaptureOfShape
  <2>5. Under(b, TRUE)'
    BY <1>1, <2>1, <2>2, <2>3, <2>4, Started
  <2>6. Captured'
    BY <1>1, <2>1, CapturedStays
  <2>7. QED
    BY <1>1, <2>1, <2>5, <2>6 DEF DInv
<1>5. ASSUME Launch PROVE DInv'
  <2>1. /\ case' = case /\ graph' = graph /\ batch' = batch /\ todo # <<>>
        /\ done' = done \cup Result(batch, Head(todo)) /\ todo' = Tail(todo)
    BY <1>5 DEF Launch
  <2>2. PICK b \in Batches, c \in BOOLEAN : Under(b, c)
    BY <2>1 DEF DInv
  <2>3. /\ batch = b /\ (c => Len(b) <= CaptureTokens)
        /\ todo \in Seq(ToSet(todo)) /\ ToSet(todo) \subseteq ToSet(Launches(b, c))
        /\ \A x : (x \in done \/ \E l \in ToSet(todo) : x \in Result(b, l))
                    <=> \E l \in ToSet(Launches(b, c)) : x \in Result(b, l)
    BY <2>2 DEF Under
  <2>4. /\ ToSet(todo) = {Head(todo)} \cup ToSet(Tail(todo)) /\ Tail(todo) \in Seq(ToSet(Tail(todo)))
    BY <2>1, <2>3, HeadElements
  <2>5. Launches(b, c)' = Launches(b, c) /\ \A l : Result(b, l)' = Result(b, l)
    BY <2>1, SameLaunches, SameResult
  <2>6. \A x : (x \in done' \/ \E l \in ToSet(todo') : x \in Result(b, l))
                 <=> \E l \in ToSet(Launches(b, c)) : x \in Result(b, l)
    BY <2>1, <2>3, <2>4
  <2>7. todo' \in Seq(ToSet(todo')) /\ ToSet(todo') \subseteq ToSet(Launches(b, c))
    BY <2>1, <2>3, <2>4
  <2>8. Under(b, c)'
    BY <2>1, <2>3, <2>5, <2>6, <2>7 DEF Under
  <2>9. Captured'
    BY <1>1, <2>1, CapturedStays
  <2>10. QED
    BY <1>1, <2>1, <2>8, <2>9 DEF DInv
<1>6. ASSUME Return PROVE DInv'
  <2>1. case' = case /\ graph' = graph /\ todo' = todo /\ todo = <<>> /\ batch' = None /\ done' = {}
    BY <1>6 DEF Return
  <2>2. Captured'
    BY <1>1, <2>1, CapturedStays
  <2>3. QED
    BY <1>1, <2>1, <2>2 DEF DInv
<1>7. ASSUME UNCHANGED dispatchVars PROVE DInv'
  <2>1. case' = case /\ graph' = graph /\ todo' = todo /\ batch' = batch /\ done' = done
    BY <1>7 DEF dispatchVars
  <2>2. Captured'
    BY <1>1, <2>1, CapturedStays
  <2>3. CASE batch = None /\ todo = <<>> /\ done = {}
    BY <1>1, <2>1, <2>2, <2>3 DEF DInv
  <2>4. CASE \E b \in Batches, c \in BOOLEAN : Under(b, c)
    <3>1. PICK b \in Batches, c \in BOOLEAN : Under(b, c)
      BY <2>4
    <3>2. Launches(b, c)' = Launches(b, c) /\ \A l : Result(b, l)' = Result(b, l)
      BY <2>1, SameLaunches, SameResult
    <3>3. Under(b, c)'
      BY <2>1, <3>1, <3>2 DEF Under
    <3>4. QED
      BY <1>1, <2>1, <2>2, <3>3 DEF DInv
  <2>5. QED
    BY <2>3, <2>4 DEF DInv
<1>8. QED
  BY <1>2, <1>3, <1>4, <1>5, <1>6, <1>7 DEF DispatchNext

\* What the work on a batch has made so far.
LEMMA UnderMade ==
    ASSUME CaptureTokens <= TempRows, case \in Cases, NEW b \in Batches, NEW c \in BOOLEAN, Under(b, c)
    PROVE  /\ \A x \in done : /\ x.route \in RoutesOf(b) /\ x.expert \in Experts
                              /\ StatesK => x.k = KOf(x.expert)
           /\ OrderTaken =>
                /\ \A x \in done : LocalOf(b, x.route) # Remote /\ x.expert = LocalOf(b, x.route)
                /\ \A x, y \in done : x.route = y.route => x = y
                /\ todo = <<>> => \A r \in RoutesOf(b) : LocalOf(b, r) # Remote => \E x \in done : x.route = r
           /\ \A l \in ToSet(todo) : Fits(b, l)
<1> DEFINE L == ToSet(Launches(b, c))
<1>1. /\ c => Len(b) <= CaptureTokens
      /\ ToSet(todo) \subseteq L
      /\ \A x \in done : \E l \in L : x \in Result(b, l)
      /\ todo = <<>> => \A l \in L : \A x \in Result(b, l) : x \in done
  BY EmptyElements DEF Under
<1>2. /\ \A l \in L : Fits(b, l) /\ Own(b, l) \subseteq RoutesOf(b)
      /\ \A r \in RoutesOf(b) : LocalOf(b, r) # Remote => \E l \in L : r \in Own(b, l)
      /\ \A l, m \in L : \A r \in Own(b, l) : r \in Own(b, m) => l = m
  BY <1>1, LaunchesServe DEF Serves
<1> HIDE DEF L
<1>3. ASSUME NEW l \in L
      PROVE  /\ OrderTaken => Made(Result(b, l), b, l, Own(b, l))
             /\ Within(Result(b, l), b, l) /\ (StatesK => RightK(Result(b, l)))
  BY <1>2, LaunchMade
<1>4. ASSUME NEW l \in L, NEW r \in Own(b, l) PROVE LocalOf(b, r) # Remote
  <2>1. Own(b, l) \subseteq LocalRows(b, l)
    BY <1>2 DEF Own, Fits
  <2>2. QED
    BY <2>1 DEF LocalRows
<1>5. ASSUME NEW x \in done
      PROVE  x.route \in RoutesOf(b) /\ x.expert \in Experts /\ (StatesK => x.k = KOf(x.expert))
  <2>1. PICK l \in L : x \in Result(b, l)
    BY <1>1
  <2>2. x.route \in Window(b, l.first, l.last) /\ x.expert \in Experts /\ (StatesK => x.k = KOf(x.expert))
    BY <1>3, <2>1 DEF Within, RightK
  <2>3. Window(b, l.first, l.last) \subseteq RoutesOf(b)
    BY <1>2, WindowFacts DEF Fits
  <2>4. QED
    BY <2>2, <2>3
<1>6. ASSUME OrderTaken, NEW x \in done
      PROVE  \E l \in L : /\ x \in Result(b, l) /\ x.route \in Own(b, l)
                          /\ x.expert = LocalOf(b, x.route)
  <2>1. PICK l \in L : x \in Result(b, l)
    BY <1>1
  <2>2. QED
    BY <1>3, <1>6, <2>1 DEF Made
<1>7. ASSUME OrderTaken, NEW x \in done
      PROVE  LocalOf(b, x.route) # Remote /\ x.expert = LocalOf(b, x.route)
  <2>1. PICK l \in L : x.route \in Own(b, l) /\ x.expert = LocalOf(b, x.route)
    BY <1>6, <1>7
  <2>2. QED
    BY <1>4, <2>1
<1>8. ASSUME OrderTaken, NEW x \in done, NEW y \in done, x.route = y.route PROVE x = y
  <2>1. PICK l \in L : x \in Result(b, l) /\ x.route \in Own(b, l)
    BY <1>6, <1>8
  <2>2. PICK m \in L : y \in Result(b, m) /\ y.route \in Own(b, m)
    BY <1>6, <1>8
  <2>3. l = m
    BY <1>2, <1>8, <2>1, <2>2
  <2>4. QED
    BY <1>3, <1>8, <2>1, <2>2, <2>3 DEF Made
<1>9. ASSUME OrderTaken, todo = <<>>, NEW r \in RoutesOf(b), LocalOf(b, r) # Remote
      PROVE  \E x \in done : x.route = r
  <2>1. PICK l \in L : r \in Own(b, l)
    BY <1>2, <1>9
  <2>2. PICK x \in Result(b, l) : x.route = r
    BY <1>3, <1>9, <2>1 DEF Made
  <2>3. QED
    BY <1>1, <1>9, <2>2
<1>10. \A l \in ToSet(todo) : Fits(b, l)
  BY <1>1, <1>2
<1>11. QED
  BY <1>5, <1>7, <1>8, <1>9, <1>10

LEMMA DInvType == ASSUME CaptureTokens <= TempRows, DInv PROVE DispatchTypeOK
<1>1. CASE batch = None /\ todo = <<>> /\ done = {}
  BY <1>1 DEF DInv, DispatchTypeOK
<1>2. ASSUME NEW b \in Batches, NEW c \in BOOLEAN, Under(b, c) PROVE DispatchTypeOK
  <2>1. case \in Cases /\ batch = b
    BY <1>2 DEF DInv, Under
  <2>2. \A x \in done : x.route \in RoutesOf(b) /\ x.expert \in Experts
    BY <1>2, <2>1, UnderMade
  <2>3. ASSUME NEW i \in DOMAIN todo PROVE todo[i].first \in 1..todo[i].last /\ todo[i].last <= Len(b)
    <3>1. todo[i] \in ToSet(todo)
      BY DEF ToSet
    <3>2. Fits(b, todo[i])
      BY <1>2, <2>1, <3>1, UnderMade
    <3>3. QED
      BY <3>2 DEF Fits
  <2>4. QED
    BY <2>1, <2>2, <2>3 DEF DispatchTypeOK
<1>3. QED
  BY <1>1, <1>2 DEF DInv

LEMMA DInvOnce == ASSUME CaptureTokens <= TempRows, DInv PROVE EachRouteOnce
<1> SUFFICES ASSUME batch # None, todo = <<>>, OrderTaken, NEW r \in RoutesOf(batch)
             PROVE  /\ {c.expert : c \in {d \in done : d.route = r}} = {LocalOf(batch, r)} \ {Remote}
                    /\ Cardinality({d \in done : d.route = r}) <= 1
  BY DEF EachRouteOnce, Finished, Idle
<1>1. PICK b \in Batches, c \in BOOLEAN : Under(b, c)
  BY DEF DInv
<1>2. case \in Cases /\ batch = b
  BY <1>1 DEF DInv, Under
<1>3. /\ \A x \in done : LocalOf(b, x.route) # Remote /\ x.expert = LocalOf(b, x.route)
      /\ \A x, y \in done : x.route = y.route => x = y
      /\ LocalOf(b, r) # Remote => \E x \in done : x.route = r
  BY <1>1, <1>2, UnderMade
<1> DEFINE X == {d \in done : d.route = r}
<1>4. CASE LocalOf(b, r) = Remote
  <2>1. X = {}
    BY <1>3, <1>4
  <2>2. Cardinality(X) = 0
    BY <2>1, FS_EmptySet
  <2>3. {x.expert : x \in X} = {LocalOf(b, r)} \ {Remote}
    BY <1>4, <2>1
  <2> HIDE DEF X
  <2>4. Cardinality(X) <= 1
    BY <2>2
  <2>5. QED
    BY <1>2, <2>3, <2>4 DEF X
<1>5. CASE LocalOf(b, r) # Remote
  <2>1. PICK x \in done : x.route = r
    BY <1>3, <1>5
  <2>2. X = {x} /\ x.expert = LocalOf(b, r)
    BY <1>3, <2>1
  <2>3. Cardinality(X) = 1
    BY <2>2, FS_Singleton
  <2>4. {y.expert : y \in X} = {LocalOf(b, r)} \ {Remote}
    BY <1>5, <2>2
  <2> HIDE DEF X
  <2>5. {y.expert : y \in X} = {LocalOf(b, r)} \ {Remote} /\ Cardinality(X) <= 1
    BY <2>3, <2>4
  <2>6. QED
    BY <1>2, <2>5 DEF X
<1>6. QED
  BY <1>4, <1>5

-----------------------------------------------------------------------------
(* The theorems.                                                           *)

\* The bit width a case's config states, where a layer has one and the extension is there,
\* is the one of its trellises.
StatesPhysicalK(c) ==
    c.ext => \A k \in 1..8 :
               (\A e \in Experts : c.k[e][2] = k /\ c.k[e][3] = k /\ (c.act # "relu2" => c.k[e][1] = k))
                 => c.bits = k

LEMMA PhysicalStated == ASSUME case \in Cases, StatesPhysicalK(case) PROVE StatesK
<1> SUFFICES ASSUME ~MixedK, case.ext PROVE case.bits = ScalarK
  BY DEF StatesK
<1>1. \A e \in Experts : KOf(e) = Thrice(ScalarK) /\ KOf(e) \in Ks
  BY WidthFacts, KFacts
<1>2. ScalarK \in 1..8
  <2>1. KOf(0) = Thrice(ScalarK) /\ KOf(0) \in Ks
    BY <1>1, ExpertFacts
  <2>2. Thrice(ScalarK)[1] \in 1..8
    BY <2>1, TupleParts
  <2>3. QED
    BY <2>2 DEF Thrice
<1>3. ASSUME NEW e \in Experts
      PROVE  case.k[e][2] = ScalarK /\ case.k[e][3] = ScalarK /\ (case.act # "relu2" => case.k[e][1] = ScalarK)
  <2>1. KOf(e)[1] = ScalarK /\ KOf(e)[2] = ScalarK /\ KOf(e)[3] = ScalarK
    BY <1>1 DEF Thrice
  <2>2. CASE Gateless
    BY <2>1, <2>2 DEF KOf, Gateless
  <2>3. CASE ~Gateless
    BY <2>1, <2>3 DEF KOf, Gateless
  <2>4. QED
    BY <2>2, <2>3
<1>4. QED
  BY <1>2, <1>3 DEF StatesPhysicalK

LEMMA DInvBits ==
    ASSUME CaptureTokens <= TempRows, \A c \in Cases : StatesPhysicalK(c), DInv
    PROVE  RightBits
<1>1. StatesK
  BY PhysicalStated DEF DInv
<1>2. CASE done = {}
  BY <1>2 DEF RightBits
<1>3. ASSUME NEW b \in Batches, NEW c \in BOOLEAN, Under(b, c) PROVE RightBits
  BY <1>1, <1>3, UnderMade DEF RightBits, DInv
<1>4. QED
  BY <1>2, <1>3 DEF DInv

\* A graph holds the launches chosen for a captured batch of its shape, and what was made and
\* what is still to be launched are together what these launches, or those chosen for the batch
\* itself, make (exl3.py:3171-3349, 3648-3704). A capture is not sliced: its tokens fit the
\* scratch rows.
THEOREM DispatchInvariant == ASSUME CaptureTokens <= TempRows PROVE DispatchSpec => []DInv
<1>1. DispatchInit => DInv
  BY DInvInit
<1>2. DInv /\ [DispatchNext]_dispatchVars => DInv'
  BY DInvStep
<1>3. QED
  BY <1>1, <1>2, PTL DEF DispatchSpec

\* The layer, the graph, the batch, its launches and its results have their types: every route
\* computed is one of the batch, by a local expert, at one to eight bits.
THEOREM DispatchTypeCorrect == ASSUME CaptureTokens <= TempRows PROVE DispatchSpec => []DispatchTypeOK
<1>1. DInv => DispatchTypeOK
  BY DInvType
<1>2. QED
  BY <1>1, DispatchInvariant, PTL

\* For any layer, build and batches, eager or replayed: when a batch returns, every route to a
\* local expert was computed once, by that expert, and no other route was (the bands of
\* exl3.py:3286-3349, the masks of 3402-3535, the early returns of 3171-3246).
THEOREM RoutesServedOnce == ASSUME CaptureTokens <= TempRows PROVE DispatchSpec => []EachRouteOnce
<1>1. DInv => EachRouteOnce
  BY DInvOnce
<1>2. QED
  BY <1>1, DispatchInvariant, PTL

\* If every layer whose trellises have one width has the width the config states
\* (exl3.py:2683-2687 gives the others the config's), every route is computed at the widths of
\* its expert's trellises, whichever of the three copies a launch reads.
THEOREM TrellisesReadRight ==
    ASSUME CaptureTokens <= TempRows, \A c \in Cases : StatesPhysicalK(c)
    PROVE  DispatchSpec => []RightBits
<1>1. DInv => RightBits
  BY DInvBits
<1>2. QED
  BY <1>1, DispatchInvariant, PTL

=============================================================================
