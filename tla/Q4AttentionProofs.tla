--------------------------- MODULE Q4AttentionProofs ---------------------------
(* What the 4-bit pool holds, what the queries of a forward attend to, and    *)
(* how a prefill chunk is cut, for any pool, layout, requests and batches.     *)
EXTENDS Q4Attention, Inductions

-----------------------------------------------------------------------------
(* The invariant.                                                          *)

Rows == Reqs \X Nat \X Nat
Calling == call.phase \in {"inserted", "served"}
Rejectable(r) == Calling /\ call.kind = "decode" /\ call.cu[2] > 1 /\ r \in Range(call.members)

\* The rows of r that stay, whatever the forward in progress rejects.
Settled(r) == IF Rejectable(r) THEN Len0(r) - 1 ELSE Len0(r)

TypeOK ==
    /\ free \in Seq(Pages) /\ table \in [Reqs -> Seq(Pages)]
    /\ rows \in [Reqs -> Seq(Rows)]
    /\ versions \in [Reqs -> [0..(MaxBlocks * BlockSize - 1) -> Nat]]
    /\ pool \in [Pages -> [Tokens -> Rows \cup {Nothing}]]
    /\ index \in [Pages -> [Tokens -> Rows \cup {Nothing}]]
    /\ cap \in Caps /\ calls \in Nat
    /\ \/ call = Idle
       \/ /\ Calling /\ call.kind \in {"prefill", "decode"}
          /\ \E S \in (SUBSET Reqs) \ {{}} : call.members = Sorted(S)

\* A page is free, or of one request, or the full first page of several.
PagesApart ==
    /\ IsInjective(free)
    /\ \A r \in Reqs : IsInjective(table[r]) /\ Range(free) \cap Range(table[r]) = {}
    /\ \A r, o \in Reqs : \A i \in DOMAIN table[r], j \in DOMAIN table[o] :
         r # o /\ table[r][i] = table[o][j] => i = 1 /\ Settled(r) >= BlockSize

\* A request has the pages of its rows, at most one page more than it will keep rows for.
PagesEnough ==
    \A r \in Reqs : /\ Settled(r) >= 0
                    /\ Len0(r) <= Len(table[r]) * BlockSize /\ Len0(r) <= MaxBlocks * BlockSize
                    /\ Len(table[r]) <= BlocksFor(Settled(r) + 1)

\* Every position of a request is in the pool and in the index cache.
Stored ==
    \A r \in Reqs : \A p \in 0..(Len0(r) - 1) :
        /\ pool[table[r][p \div BlockSize + 1]][p % BlockSize] = rows[r][p + 1]
        /\ index[table[r][p \div BlockSize + 1]][p % BlockSize] = rows[r][p + 1]

IInv == TypeOK /\ PagesApart /\ PagesEnough /\ Stored

-----------------------------------------------------------------------------
(* Arithmetic and the layout of a page.                                    *)

LEMMA Natural == BlockSize \in Nat \ {0} /\ DataBytes \in Nat \ {0} /\ ScaleBytes \in Nat \ {0}
                 /\ NumKvHeads \in Nat \ {0} /\ NumPages \in Nat \ {0} /\ Quad \in Nat \ {0} /\ Nothing \notin Int
BY LayoutAssumption

LEMMA DivMod == ASSUME NEW a \in Int, NEW b \in Nat \ {0}
                PROVE  a = b * (a \div b) + (a % b) /\ a \div b \in Int /\ a % b \in 0..(b - 1)
BY Z3

LEMMA DivNat == ASSUME NEW a \in Nat, NEW b \in Nat \ {0} PROVE a \div b \in Nat
BY SMT

LEMMA MulMono == ASSUME NEW a \in Int, NEW b \in Int, NEW c \in Nat, a <= b
                 PROVE  a * c <= b * c /\ c * a <= c * b /\ a * c = c * a /\ b * c = c * b
                        /\ a * c \in Int /\ b * c \in Int
BY SMT

LEMMA MulCancel == ASSUME NEW a \in Int, NEW b \in Int, NEW c \in Nat \ {0}, a * c = b * c PROVE a = b
<1>1. CASE a < b
  <2>1. (a + 1) * c <= b * c
    BY <1>1, MulMono
  <2>2. QED
    BY <2>1, SMT
<1>2. CASE b < a
  <2>1. (b + 1) * c <= a * c
    BY <1>2, MulMono
  <2>2. QED
    BY <2>1, SMT
<1>3. QED
  BY <1>1, <1>2

\* Quotient and remainder are determined by the bounds of the remainder.
LEMMA DivUnique == ASSUME NEW a \in Int, NEW b \in Nat \ {0}, NEW q \in Int, NEW t \in 0..(b - 1), a = q * b + t
                   PROVE  a \div b = q /\ a % b = t
<1> DEFINE q0 == a \div b
           t0 == a % b
<1>1. a = q0 * b + t0 /\ q0 \in Int /\ t0 \in 0..(b - 1)
  <2>1. a = b * q0 + t0 /\ q0 \in Int /\ t0 \in 0..(b - 1)
    BY DivMod
  <2> HIDE DEF q0, t0
  <2>2. b * q0 = q0 * b
    BY <2>1, SMT
  <2>3. QED
    BY <2>1, <2>2
<1> HIDE DEF q0, t0
<1>2. ASSUME q < q0 PROVE FALSE
  <2>1. (q + 1) * b <= q0 * b /\ (q + 1) * b = q * b + b /\ q * b \in Int /\ q0 * b \in Int
    BY <1>1, <1>2, MulMono, SMT
  <2>2. QED
    BY <1>1, <2>1
<1>3. ASSUME q0 < q PROVE FALSE
  <2>1. (q0 + 1) * b <= q * b /\ (q0 + 1) * b = q0 * b + b /\ q * b \in Int /\ q0 * b \in Int
    BY <1>1, <1>3, MulMono, SMT
  <2>2. QED
    BY <1>1, <2>1
<1>4. q0 = q
  BY <1>1, <1>2, <1>3
<1>5. q * b \in Int
  OBVIOUS
<1>6. t0 = t
  BY <1>1, <1>4, <1>5
<1>7. QED
  BY <1>4, <1>6 DEF q0, t0

\* The block of a position lies among m blocks if the position lies among their tokens.
LEMMA BlockAmong == ASSUME NEW p \in Nat, NEW m \in Nat, p < m * BlockSize
                    PROVE  p \div BlockSize \in 0..(m - 1) /\ p % BlockSize \in Tokens
<1>1. /\ p \div BlockSize \in Nat /\ p % BlockSize \in 0..(BlockSize - 1)
      /\ p = BlockSize * (p \div BlockSize) + (p % BlockSize)
  <2>1. BlockSize \in Nat \ {0} /\ p \in Int
    BY Natural
  <2>2. QED
    BY <2>1, DivMod, DivNat
<1> DEFINE d == p \div BlockSize
<1>2. ASSUME d >= m PROVE FALSE
  <2> HIDE DEF d
  <2>1. d \in Nat /\ p >= BlockSize * d
    BY <1>1, Natural DEF d
  <2>2. m * BlockSize <= BlockSize * d /\ BlockSize * d \in Int /\ m * BlockSize \in Int
    BY <1>2, <2>1, Natural, MulMono
  <2>3. QED
    BY <2>1, <2>2
<1>3. QED
  BY <1>1, <1>2 DEF Tokens

LEMMA BlocksBound == ASSUME NEW n \in Nat
                     PROVE  BlocksFor(n) \in Nat /\ n <= BlocksFor(n) * BlockSize
                            /\ BlocksFor(n) * BlockSize < n + BlockSize
<1> DEFINE a == n + BlockSize - 1
           b == BlocksFor(n)
<1>1. a \in Nat /\ a = BlockSize * b + (a % BlockSize) /\ b \in Nat /\ a % BlockSize \in 0..(BlockSize - 1)
  <2>1. a \in Nat /\ BlockSize \in Nat \ {0} /\ b = a \div BlockSize
    BY Natural DEF BlocksFor
  <2> HIDE DEF a, b
  <2>2. a = BlockSize * (a \div BlockSize) + (a % BlockSize) /\ a % BlockSize \in 0..(BlockSize - 1)
    BY <2>1, DivMod
  <2>3. a \div BlockSize \in Nat
    BY <2>1, DivNat
  <2>4. QED
    BY <2>1, <2>2, <2>3
<1>2. BlockSize * b = b * BlockSize /\ b * BlockSize \in Int
  BY <1>1, Natural, MulMono
<1> HIDE DEF b
<1>3. n <= b * BlockSize /\ b * BlockSize < n + BlockSize
  BY <1>1, <1>2, Natural
<1>4. QED
  BY <1>1, <1>3 DEF b

LEMMA BlocksMono == ASSUME NEW n \in Nat, NEW m \in Nat, n <= m PROVE BlocksFor(n) <= BlocksFor(m)
<1>1. /\ BlocksFor(n) \in Nat /\ BlocksFor(m) \in Nat
      /\ BlocksFor(n) * BlockSize < n + BlockSize /\ m <= BlocksFor(m) * BlockSize
  BY BlocksBound
<1> DEFINE a == BlocksFor(n)
           b == BlocksFor(m)
<1> HIDE DEF a, b
<1>2. ASSUME b < a PROVE FALSE
  <2>1. (b + 1) * BlockSize <= a * BlockSize /\ (b + 1) * BlockSize = b * BlockSize + BlockSize
        /\ b * BlockSize \in Int /\ a * BlockSize \in Int
    BY <1>1, <1>2, Natural, MulMono, SMT DEF a, b
  <2>2. a * BlockSize < n + BlockSize /\ m <= b * BlockSize
    BY <1>1 DEF a, b
  <2>3. QED
    BY <2>1, <2>2, Natural
<1>3. QED
  BY <1>1, <1>2 DEF a, b

\* A reader of the table finds every token's own row: the addresses the writer used.
LEMMA TableIsPack == ASSUME NEW s \in Slots, NEW t \in Tokens, NEW p \in Parts
                     PROVE  TableAddress[s][t][p] = PackAddress[s][t][p]
<1>1. CASE p < DataBytes
  BY <1>1 DEF TableAddress, PackAddress
<1>2. CASE ~(p < DataBytes)
  <2>1. p - DataBytes \in Groups /\ s % 2 \in Sides
    BY <1>2, Natural, SMT DEF Parts, Groups, Slots, Sides
  <2>2. ScaleOffsetTable[s % 2][t][p - DataBytes] = PackScaleOffset(s % 2, t, p - DataBytes)
    BY <2>1 DEF ScaleOffsetTable, PackScaleOffset
  <2>3. QED
    BY <1>2, <2>2 DEF TableAddress, PackAddress
<1>3. QED
  BY <1>1, <1>2

LEMMA FirstByte == ASSUME NEW s \in Slots, NEW t \in Tokens
                   PROVE  0 \in Parts /\ PackAddress[s][t][0] = s * SlotBytes + t * DataBytes
<1>1. 0 \in Parts /\ 0 < DataBytes
  BY Natural DEF Parts
<1>2. PackAddress[s][t][0] = s * SlotBytes + (t * DataBytes + 0)
  BY <1>1 DEF PackAddress
<1>3. t * DataBytes \in Int
  BY Natural DEF Tokens
<1>4. QED
  BY <1>1, <1>2, <1>3

LEMMA SeesOwn == ASSUME NEW address, NEW s \in Slots, NEW t \in Tokens,
                        \A p \in Parts : address[s][t][p] = PackAddress[s][t][p]
                 PROVE  Sees(address)[s][t] = t
<1> DEFINE Same(x) == \A p \in Parts : PackAddress[s][x][p] = address[s][t][p]
<1>1. Same(t)
  OBVIOUS
<1>2. ASSUME NEW x \in Tokens, Same(x) PROVE x = t
  <2>1. s * SlotBytes + x * DataBytes = s * SlotBytes + t * DataBytes
    BY <1>1, <1>2, FirstByte
  <2>2. s * SlotBytes \in Int /\ x * DataBytes \in Int /\ t * DataBytes \in Int /\ x \in Int /\ t \in Int
    BY Natural DEF Slots, SlotBytes, Tokens, DataRegion
  <2>3. x * DataBytes = t * DataBytes
    <3> DEFINE z == s * SlotBytes
               x0 == x * DataBytes
               t0 == t * DataBytes
    <3> HIDE DEF z, x0, t0
    <3>1. z + x0 = z + t0 /\ z \in Int /\ x0 \in Int /\ t0 \in Int
      BY <2>1, <2>2 DEF z, x0, t0
    <3>2. x0 = t0
      BY <3>1
    <3>3. QED
      BY <3>2 DEF x0, t0
  <2>4. QED
    BY <2>2, <2>3, Natural, MulCancel
<1>3. Sees(address)[s][t] = IF \E x \in Tokens : Same(x) THEN CHOOSE x \in Tokens : Same(x) ELSE Nothing
  BY DEF Sees
<1> HIDE DEF Same
<1>4. QED
  BY <1>1, <1>2, <1>3

LEMMA SlotOf == ASSUME NEW h \in KvHeads, NEW side \in Sides PROVE Slot(h, side) \in Slots
BY Natural DEF KvHeads, Sides, Slots, Slot

LEMMA TableReads == ASSUME NEW page, NEW h \in KvHeads, NEW side \in Sides, NEW t \in Tokens
                    PROVE  TableRow(page, h, side, t) = page[t]
<1>1. TableSees[Slot(h, side)][t] = t
  BY SlotOf, SeesOwn, TableIsPack DEF TableSees
<1>2. t # Nothing
  BY Natural DEF Tokens
<1>3. QED
  BY <1>1, <1>2 DEF TableRow, RowSeen

-----------------------------------------------------------------------------
(* Prefix sums and sorted listings.                                        *)

\* cu has the sums of the first lengths: none, one, ... all.
PrefixSums(cu, n, lens) ==
    /\ cu \in Seq(Nat) /\ Len(cu) = n + 1 /\ cu[1] = 0
    /\ \A j \in 1..n : cu[j + 1] = cu[j] + lens[j]

LEMMA CuFacts ==
    ASSUME NEW n \in Nat, NEW lens \in [1..n -> Nat]
    PROVE  PrefixSums(CuSeqlens(lens), n, lens)
<1> DEFINE V == Seq(Nat) \ {<<>>}
           Op(cu, x) == Append(cu, Last(cu) + x)
           G == [i \in 1..n |-> [v \in V |-> Op(v, lens[i])]]
           base == <<0>>
           iter == CHOOSE f : f = [t \in SUBSET (DOMAIN lens) |->
                                     IF t = {} THEN base ELSE Op(f[t \ {Max(t)}], lens[Max(t)])]
<1>1. DOMAIN lens = 1..n /\ base \in V /\ \A i \in 1..n : lens[i] \in Nat
  OBVIOUS
<1>2. ASSUME NEW v \in V, NEW x \in Nat
      PROVE  /\ Op(v, x) \in V /\ Len(v) \in Nat \ {0} /\ Len(Op(v, x)) = Len(v) + 1
             /\ Op(v, x)[Len(v) + 1] = v[Len(v)] + x
             /\ \A j \in 1..Len(v) : Op(v, x)[j] = v[j] /\ v[j] \in Nat
  <2>1. v \in Seq(Nat) /\ Len(v) \in Nat \ {0} /\ \A j \in 1..Len(v) : v[j] \in Nat
    BY EmptySeq, LenProperties, ElementOfSeq
  <2>2. Last(v) = v[Len(v)] /\ Last(v) + x \in Nat
    BY <2>1 DEF Last
  <2>3. QED
    BY <2>1, <2>2, AppendProperties, SMTT(30)
<1>3. CuSeqlens(lens) = iter[DOMAIN lens]
  BY DEF CuSeqlens, FoldLeft, MapThenFoldSet
<1> HIDE DEF Op, base, V
<1>4. G \in [1..n -> [V -> V]] /\ \A v \in V, i \in 1..n : G[i][v] = Op(v, lens[i])
  BY <1>1, <1>2
<1> HIDE DEF G
<1>5. PICK f : Unfolds(f, V, base, n, G)
  BY <1>1, <1>4, FoldSolution
<1>6. ASSUME NEW t \in SUBSET (1..n), t # {} PROVE f[t] = Op(f[t \ {Max(t)}], lens[Max(t)])
  <2>1. Max(t) \in 1..n /\ f[t \ {Max(t)}] \in V
    BY <1>1, <1>5, <1>6, MaxIn DEF Unfolds
  <2>2. QED
    BY <1>4, <1>5, <1>6, <2>1 DEF Unfolds
<1>7. f = [t \in SUBSET (1..n) |-> IF t = {} THEN base ELSE Op(f[t \ {Max(t)}], lens[Max(t)])]
  BY <1>5, <1>6 DEF Unfolds
<1>8. iter = [t \in SUBSET (1..n) |-> IF t = {} THEN base ELSE Op(iter[t \ {Max(t)}], lens[Max(t)])]
  BY <1>1, <1>7
<1> HIDE DEF iter
<1>9. iter[{}] = base /\ \A i \in 1..n : iter[1..i] = Op(iter[1..(i - 1)], lens[i])
  <2>1. iter[{}] = base
    BY <1>8
  <2>2. ASSUME NEW i \in 1..n PROVE iter[1..i] = Op(iter[1..(i - 1)], lens[i])
    <3>1. 1..i \in SUBSET (1..n) /\ 1..i # {} /\ Max(1..i) = i /\ (1..i) \ {Max(1..i)} = 1..(i - 1)
      BY <1>1, UpTo
    <3>2. QED
      BY <1>8, <3>1
  <2>3. QED
    BY <2>1, <2>2
<1>10. PICK h : RunsThrough(h, V, base, n, G) /\ h[n] = iter[1..n]
  <2>1. Iterates(iter, V, base, n, G)
    BY <1>4, <1>9 DEF Iterates
  <2>2. G \in [1..n -> [V -> V]]
    BY <1>4
  <2>3. QED
    BY <1>1, <2>1, <2>2, FoldRun, SMTT(60)
<1> DEFINE S == {i \in 0..n : PrefixSums(h[i], i, lens)}
<1>11. 0 \in S
  <2>1. h[0] = <<0>>
    BY <1>10 DEF RunsThrough, base
  <2>2. <<0>> \in Seq(Nat) /\ Len(<<0>>) = 0 + 1 /\ <<0>>[1] = 0
    OBVIOUS
  <2>3. PrefixSums(h[0], 0, lens)
    BY <2>1, <2>2 DEF PrefixSums
  <2>4. QED
    BY <2>3
<1>12. ASSUME NEW i \in 1..n, i - 1 \in S PROVE i \in S
  <2>1. PrefixSums(h[i - 1], i - 1, lens) /\ h[i - 1] \in V /\ h[i] = Op(h[i - 1], lens[i])
    BY <1>4, <1>10, <1>12 DEF RunsThrough
  <2> DEFINE c == h[i - 1]
             d == h[i]
  <2>2. Len(c) = i /\ c[1] = 0 /\ c \in V /\ d = Op(c, lens[i]) /\ \A j \in 1..(i - 1) : c[j + 1] = c[j] + lens[j]
    BY <2>1 DEF PrefixSums
  <2> HIDE DEF c, d
  <2>3. /\ d \in V /\ Len(d) = i + 1 /\ d[i + 1] = c[i] + lens[i]
        /\ \A j \in 1..i : d[j] = c[j]
    BY <1>1, <1>2, <2>2
  <2>4. ASSUME NEW j \in 1..i PROVE d[j + 1] = d[j] + lens[j]
    <3>1. CASE j = i
      BY <2>3, <3>1
    <3>2. CASE j \in 1..(i - 1)
      BY <2>2, <2>3, <3>2
    <3>3. QED
      BY <3>1, <3>2
  <2>5. d \in Seq(Nat) /\ d[1] = 0
    BY <2>2, <2>3 DEF V
  <2>6. PrefixSums(d, i, lens)
    BY <2>3, <2>4, <2>5 DEF PrefixSums
  <2>7. QED
    BY <2>6 DEF d
<1> HIDE DEF S
<1>13. n \in S
  <2>1. \A i \in 0..n : i \in S
    BY <1>11, <1>12, StepsInduct
  <2>2. QED
    BY <2>1
<1>14. CuSeqlens(lens) = h[n]
  BY <1>1, <1>3, <1>10
<1>15. QED
  BY <1>13, <1>14 DEF S

LEMMA SumsMono ==
    ASSUME NEW n \in Nat, NEW lens \in [1..n -> Nat], NEW cu, PrefixSums(cu, n, lens),
           NEW i \in 1..(n + 1), NEW j \in i..(n + 1)
    PROVE  cu[i] <= cu[j] /\ cu[i] \in Nat /\ cu[j] \in Nat
<1> DEFINE S == {k \in 0..n : i <= k + 1 => cu[i] <= cu[k + 1]}
<1>1. \A k \in 1..(n + 1) : cu[k] \in Nat
  BY ElementOfSeq DEF PrefixSums
<1>2. 0 \in S
  BY <1>1
<1>3. ASSUME NEW k \in 1..n, k - 1 \in S PROVE k \in S
  <2>1. cu[k + 1] = cu[k] + lens[k] /\ lens[k] \in Nat /\ cu[k] \in Nat /\ cu[k + 1] \in Nat /\ cu[i] \in Nat
    BY <1>1 DEF PrefixSums
  <2>2. CASE i <= k
    <3>1. cu[i] <= cu[k]
      BY <1>3, <2>2
    <3>2. QED
      BY <2>1, <3>1
  <2>3. CASE i = k + 1
    BY <2>1, <2>3
  <2>4. CASE i > k + 1
    BY <2>4
  <2>5. QED
    BY <2>2, <2>3, <2>4
<1> HIDE DEF S
<1>4. j - 1 \in S
  <2>1. \A k \in 0..n : k \in S
    BY <1>2, <1>3, StepsInduct
  <2>2. QED
    BY <2>1
<1>5. QED
  BY <1>1, <1>4 DEF S

\* The elements of a finite set of numbers in order, each once.
LEMMA SortedLists ==
    ASSUME NEW X \in SUBSET Int, IsFiniteSet(X)
    PROVE  /\ Cardinality(X) \in Nat /\ Sorted(X) \in [1..Cardinality(X) -> X]
           /\ \A i, j \in 1..Cardinality(X) : Sorted(X)[i] = Sorted(X)[j] => i = j
           /\ \A x \in X : \E i \in 1..Cardinality(X) : Sorted(X)[i] = x
<1> DEFINE n == Cardinality(X)
           Below(x) == {y \in X : y < x}
           rank == [x \in X |-> Cardinality(Below(x)) + 1]
<1>1. n \in Nat
  BY FS_CardinalityType
<1>2. ASSUME NEW x \in X PROVE IsFiniteSet(Below(x)) /\ Cardinality(Below(x)) \in 0..(n - 1)
  <2>1. Below(x) \in SUBSET X /\ x \notin Below(x)
    OBVIOUS
  <2> HIDE DEF Below
  <2>2. IsFiniteSet(Below(x)) /\ Cardinality(Below(x)) <= n /\ (n = Cardinality(Below(x)) => X = Below(x))
    BY <2>1, FS_Subset
  <2>3. Cardinality(Below(x)) \in Nat /\ Cardinality(Below(x)) # n
    BY <2>1, <2>2, FS_CardinalityType
  <2>4. QED
    BY <2>2, <2>3, <1>1
<1>3. ASSUME NEW x \in X, NEW z \in X, x < z PROVE Cardinality(Below(x)) < Cardinality(Below(z))
  <2>1. Below(x) \in SUBSET Below(z) /\ x \in Below(z) /\ x \notin Below(x)
    <3>1. x \in Int /\ ~(x < x)
      OBVIOUS
    <3>2. \A y \in X : y < x => y < z
      BY <1>3
    <3>3. QED
      BY <1>3, <3>1, <3>2
  <2>2. IsFiniteSet(Below(z)) /\ Cardinality(Below(x)) \in Nat /\ Cardinality(Below(z)) \in Nat
    BY <1>2
  <2> HIDE DEF Below
  <2>3. Cardinality(Below(x)) <= Cardinality(Below(z)) /\ (Cardinality(Below(z)) = Cardinality(Below(x)) => Below(z) = Below(x))
    BY <2>1, <2>2, FS_Subset
  <2>4. QED
    BY <2>1, <2>2, <2>3
<1>4. ASSUME NEW x \in X, NEW z \in X, Cardinality(Below(x)) = Cardinality(Below(z)) PROVE x = z
  <2>1. x < z \/ z < x \/ x = z
    OBVIOUS
  <2>2. Cardinality(Below(x)) \in Int /\ Cardinality(Below(z)) \in Int
    BY <1>2
  <2> HIDE DEF Below
  <2>3. QED
    BY <1>3, <1>4, <2>1, <2>2
<1>5. \A i \in 1..n : \E x \in X : Cardinality(Below(x)) = i - 1
  <2>1. rank \in [X -> 1..n] /\ \A x, z \in X : rank[x] = rank[z] => x = z
    <3>1. \A x \in X : rank[x] \in 1..n
      BY <1>1, <1>2
    <3>2. ASSUME NEW x \in X, NEW z \in X, rank[x] = rank[z] PROVE x = z
      <4>1. Cardinality(Below(x)) \in Int /\ Cardinality(Below(z)) \in Int
        BY <1>2
      <4> HIDE DEF Below
      <4>2. Cardinality(Below(x)) = Cardinality(Below(z))
        BY <3>2, <4>1
      <4>3. QED
        BY <1>4, <4>2
    <3>3. QED
      BY <3>1, <3>2
  <2>2. rank \in Injection(X, 1..n)
    BY <2>1 DEF Injection, IsInjective
  <2>3. IsFiniteSet(1..n) /\ Cardinality(1..n) = n
    BY <1>1, FS_Interval
  <2> HIDE DEF rank
  <2>4. rank \in Surjection(X, 1..n)
    BY <2>2, <2>3, FS_Injection
  <2>5. ASSUME NEW i \in 1..n PROVE \E x \in X : Cardinality(Below(x)) = i - 1
    <3>1. PICK x \in X : rank[x] = i
      BY <2>4 DEF Surjection
    <3>2. Cardinality(Below(x)) \in Int /\ Cardinality(Below(x)) + 1 = i
      BY <3>1, <1>2 DEF rank
    <3> HIDE DEF Below
    <3>3. QED
      BY <3>2
  <2>6. QED
    BY <2>5
<1>6. Sorted(X) = [i \in 1..n |-> CHOOSE x \in X : Cardinality(Below(x)) = i - 1]
  BY DEF Sorted
<1>7. ASSUME NEW x \in X PROVE Cardinality(Below(x)) + 1 \in 1..n /\ (Cardinality(Below(x)) + 1) - 1 = Cardinality(Below(x))
  BY <1>1, <1>2
<1> HIDE DEF Below
<1>8. \A i \in 1..n : Sorted(X)[i] \in X /\ Cardinality(Below(Sorted(X)[i])) = i - 1
  BY <1>5, <1>6
<1>9. Sorted(X) \in [1..n -> X]
  BY <1>6, <1>8
<1>10. \A i, j \in 1..n : Sorted(X)[i] = Sorted(X)[j] => i = j
  <2>1. \A i, j \in 1..n : i - 1 = j - 1 => i = j
    BY <1>1
  <2>2. QED
    BY <1>8, <2>1
<1>11. ASSUME NEW x \in X PROVE \E i \in 1..n : Sorted(X)[i] = x
  <2>1. Cardinality(Below(Sorted(X)[Cardinality(Below(x)) + 1])) = Cardinality(Below(x))
    BY <1>7, <1>8
  <2>2. QED
    BY <1>4, <1>7, <1>8, <2>1
<1>12. QED
  BY <1>1, <1>9, <1>10, <1>11

-----------------------------------------------------------------------------
(* The steps that write nothing.                                           *)

\* The members of a batch: each request of it once.
LEMMA Members ==
    ASSUME NEW S \in SUBSET Reqs
    PROVE  /\ S \in SUBSET Int /\ IsFiniteSet(S) /\ Cardinality(S) \in Nat
           /\ Sorted(S) \in [1..Cardinality(S) -> S] /\ DOMAIN Sorted(S) = 1..Cardinality(S) /\ Range(Sorted(S)) = S
           /\ \A i, j \in 1..Cardinality(S) : Sorted(S)[i] = Sorted(S)[j] => i = j
           /\ \A x \in S : \E i \in 1..Cardinality(S) : Sorted(S)[i] = x
<1>1. Reqs \subseteq Nat /\ IsFiniteSet(Reqs)
  BY AttentionAssumption
<1>2. IsFiniteSet(S)
  BY <1>1, FS_Subset
<1>3. S \in SUBSET Int
  <2>1. \A x \in S : x \in Int
    BY <1>1
  <2>2. QED
    BY <2>1
<1>4. /\ Cardinality(S) \in Nat /\ Sorted(S) \in [1..Cardinality(S) -> S]
      /\ \A i, j \in 1..Cardinality(S) : Sorted(S)[i] = Sorted(S)[j] => i = j
      /\ \A x \in S : \E i \in 1..Cardinality(S) : Sorted(S)[i] = x
  BY <1>2, <1>3, SortedLists
<1>5. DOMAIN Sorted(S) = 1..Cardinality(S) /\ Range(Sorted(S)) = S
  BY <1>4 DEF Range
<1>6. QED
  BY <1>2, <1>3, <1>4, <1>5

LEMMA RequestType == ASSUME TypeOK, NEW r \in Reqs
                     PROVE  /\ table[r] \in Seq(Pages) /\ Len(table[r]) \in Nat /\ DOMAIN table[r] = 1..Len(table[r])
                            /\ rows[r] \in Seq(Rows) /\ Len0(r) \in Nat /\ DOMAIN rows[r] = 1..Len0(r)
                            /\ \A i \in 1..Len(table[r]) : table[r][i] \in Pages
                            /\ Settled(r) \in Int /\ Settled(r) <= Len0(r) /\ Len0(r) <= Settled(r) + 1
<1>1. table[r] \in Seq(Pages) /\ rows[r] \in Seq(Rows)
  BY DEF TypeOK
<1>2. Len(table[r]) \in Nat /\ Len0(r) \in Nat /\ DOMAIN table[r] = 1..Len(table[r]) /\ DOMAIN rows[r] = 1..Len0(r)
  BY <1>1, LenProperties DEF Len0
<1>3. \A i \in 1..Len(table[r]) : table[r][i] \in Pages
  BY <1>1, ElementOfSeq
<1>4. Settled(r) \in Int /\ Settled(r) <= Len0(r) /\ Len0(r) <= Settled(r) + 1
  BY <1>2 DEF Settled
<1>5. QED
  BY <1>1, <1>2, <1>3, <1>4

\* The page and the place of a position that was written.
LEMMA PlaceOf == ASSUME TypeOK, PagesEnough, NEW r \in Reqs, NEW p \in 0..(Len0(r) - 1)
                 PROVE  /\ p \in Nat /\ p \div BlockSize \in Nat /\ p \div BlockSize + 1 \in DOMAIN table[r]
                        /\ p % BlockSize \in Tokens /\ table[r][p \div BlockSize + 1] \in Pages /\ p + 1 \in 1..Len0(r)
<1>1. Len(table[r]) \in Nat /\ DOMAIN table[r] = 1..Len(table[r]) /\ Len0(r) \in Nat
      /\ \A i \in 1..Len(table[r]) : table[r][i] \in Pages
  BY RequestType
<1>2. Len0(r) <= Len(table[r]) * BlockSize /\ Len(table[r]) * BlockSize \in Int
  BY <1>1, Natural DEF PagesEnough
<1>3. p \in Nat /\ p < Len(table[r]) * BlockSize /\ p + 1 \in 1..Len0(r)
  BY <1>1, <1>2
<1>4. p \div BlockSize \in 0..(Len(table[r]) - 1) /\ p % BlockSize \in Tokens
  BY <1>1, <1>3, BlockAmong
<1>5. p \div BlockSize + 1 \in 1..Len(table[r]) /\ p \div BlockSize \in Nat
  BY <1>1, <1>4
<1>6. QED
  BY <1>1, <1>3, <1>4, <1>5

LEMMA ReadsLatest == IInv => PoolHoldsLatest
<1> SUFFICES ASSUME IInv, NEW r \in Reqs, NEW p \in 0..(Len0(r) - 1)
             PROVE  /\ index[table[r][p \div BlockSize + 1]][p % BlockSize] = rows[r][p + 1]
                    /\ \A h \in KvHeads, side \in Sides :
                         TableRow(pool[table[r][p \div BlockSize + 1]], h, side, p % BlockSize) = rows[r][p + 1]
  BY DEF PoolHoldsLatest
<1>1. /\ pool[table[r][p \div BlockSize + 1]][p % BlockSize] = rows[r][p + 1]
      /\ index[table[r][p \div BlockSize + 1]][p % BlockSize] = rows[r][p + 1]
  BY DEF IInv, Stored
<1>2. p % BlockSize \in Tokens
  BY PlaceOf DEF IInv
<1>3. QED
  BY <1>1, <1>2, TableReads

LEMMA EmptyRange == Range(<<>>) = {} /\ IsInjective(<<>>) /\ Len(<<>>) = 0 /\ DOMAIN <<>> = {}
BY DEF Range, IsInjective

LEMMA RangeIsToSet == \A s : Range(s) = ToSet(s)
BY DEF Range, ToSet

LEMMA InitInv == Init => IInv
<1> SUFFICES ASSUME Init PROVE IInv
  OBVIOUS
<1>1. free \in Seq(Pages) /\ IsInjective(free)
  BY AttentionAssumption DEF Init
<1>2. ~Calling /\ \A r \in Reqs : table[r] = <<>> /\ rows[r] = <<>> /\ Settled(r) = 0 /\ Len0(r) = 0
  <2>1. ~Calling
    BY DEF Init, Idle, Calling
  <2>2. QED
    BY <2>1, EmptyRange DEF Init, Settled, Rejectable, Len0
<1>3. TypeOK
  <2>1. MaxBlocks \in Nat /\ cap \in Caps
    BY AttentionAssumption DEF Init
  <2>2. <<>> \in Seq(Pages) /\ <<>> \in Seq(Rows)
    OBVIOUS
  <2>3. QED
    BY <1>1, <2>1, <2>2 DEF Init, TypeOK
<1>4. PagesApart
  BY <1>1, <1>2, EmptyRange DEF PagesApart
<1>5. PagesEnough
  <2>1. MaxBlocks * BlockSize \in Nat /\ 0 * BlockSize = 0 /\ 0 + 1 \in Nat
    BY Natural, AttentionAssumption
  <2>2. BlocksFor(0 + 1) \in Nat
    BY <2>1, BlocksBound
  <2>3. QED
    BY <1>2, <2>1, <2>2, EmptyRange DEF PagesEnough
<1>6. Stored
  BY <1>2 DEF Stored
<1>7. QED
  BY <1>3, <1>4, <1>5, <1>6 DEF IInv

\* A step that only changes how far the forward is.
LEMMA CallOnly ==
    ASSUME IInv, UNCHANGED <<free, table, rows, versions, pool, index, cap, calls>>,
           Calling, Calling', call'.kind = call.kind, call'.members = call.members, call'.cu = call.cu
    PROVE  IInv'
<1>1. call # Idle
  BY DEF Calling, Idle
<1>2. \A r \in Reqs : Settled(r)' = Settled(r) /\ Len0(r)' = Len0(r)
  BY DEF Settled, Rejectable, Len0
<1>3. TypeOK'
  BY <1>1 DEF IInv, TypeOK
<1>4. PagesApart' /\ PagesEnough' /\ Stored'
  BY <1>2 DEF IInv, PagesApart, PagesEnough, Stored
<1>5. QED
  BY <1>3, <1>4 DEF IInv

LEMMA PrefillInv == ASSUME IInv, Prefill PROVE IInv'
<1>1. /\ Calling /\ call'.phase = "served" /\ call.kind = "prefill"
      /\ call'.kind = "prefill" /\ call'.members = call.members /\ call'.cu = call.cu
  BY DEF Prefill, PrefillSlices, Calling
<1>2. QED
  BY <1>1, CallOnly DEF Prefill, Calling

LEMMA DecodeInv == ASSUME IInv, Decode PROVE IInv'
<1>1. /\ Calling /\ call'.phase = "served" /\ call.kind = "decode"
      /\ call'.kind = "decode" /\ call'.members = call.members /\ call'.cu = call.cu
  BY DEF Decode, Calling
<1>2. QED
  BY <1>1, CallOnly DEF Decode, Calling

LEMMA ReturnInv == ASSUME IInv, Return PROVE IInv'
<1>1. PICK rejecting \in IF call.kind = "decode" /\ call.cu[2] > 1 THEN SUBSET Range(call.members) ELSE {{}} :
         rows' = [r \in Reqs |-> IF r \in rejecting THEN Front(rows[r]) ELSE rows[r]]
  BY DEF Return
<1>2. /\ call.phase = "served" /\ call' = Idle /\ Calling
      /\ UNCHANGED <<free, table, versions, pool, index, cap, capacity, calls>>
  BY DEF Return, Calling
<1>3. ~Calling' /\ \A r \in Reqs : Settled(r)' = Len0(r)'
  BY <1>2 DEF Idle, Calling, Settled, Rejectable
<1>4. ASSUME NEW r \in Reqs
      PROVE  /\ rows'[r] \in Seq(Rows) /\ Len0(r)' \in Nat /\ Settled(r) <= Len0(r)' /\ Len0(r)' <= Len0(r)
             /\ \A i \in 1..Len0(r)' : rows'[r][i] = rows[r][i]
  <2>1. rows[r] \in Seq(Rows) /\ Len0(r) \in Nat /\ Settled(r) \in Int /\ Settled(r) <= Len0(r) /\ Settled(r) >= 0
    BY RequestType DEF IInv, PagesEnough
  <2>2. CASE r \in rejecting
    <3>1. Rejectable(r)
      BY <1>1, <1>2, <2>2 DEF Rejectable
    <3>2. Settled(r) = Len0(r) - 1
      BY <3>1 DEF Settled
    <3>3. rows'[r] = SubSeq(rows[r], 1, Len0(r) - 1)
      BY <1>1, <2>2 DEF Front, Len0
    <3>4. \A i \in 1..(Len0(r) - 1) : rows[r][i] \in Rows
      BY <2>1, ElementOfSeq DEF Len0
    <3>5. /\ rows'[r] \in Seq(Rows) /\ Len(rows'[r]) = Len0(r) - 1
          /\ \A i \in 1..(Len0(r) - 1) : rows'[r][i] = rows[r][i]
      <4>1. Len0(r) - 1 \in Nat /\ rows[r] \in Seq(Rows) /\ Len(rows[r]) = Len0(r)
        BY <2>1, <3>2 DEF Len0
      <4>2. QED
        BY <3>3, <4>1
    <3>6. QED
      BY <2>1, <3>2, <3>5 DEF Len0
  <2>3. CASE r \notin rejecting
    BY <1>1, <2>1, <2>3 DEF Len0
  <2>4. QED
    BY <2>2, <2>3
<1>5. TypeOK'
  BY <1>1, <1>2, <1>4 DEF IInv, TypeOK
<1>6. PagesApart'
  <2>1. \A r \in Reqs : Settled(r) >= BlockSize => Settled(r)' >= BlockSize
    BY <1>3, <1>4, RequestType, Natural DEF IInv
  <2>2. QED
    BY <1>2, <2>1 DEF IInv, PagesApart
<1>7. PagesEnough'
  <2>1. ASSUME NEW r \in Reqs
        PROVE  /\ Settled(r)' >= 0 /\ Len0(r)' <= Len(table[r]) * BlockSize /\ Len0(r)' <= MaxBlocks * BlockSize
               /\ Len(table[r]) <= BlocksFor(Settled(r)' + 1)
    <3>1. /\ Settled(r) \in Nat /\ Len0(r) <= Len(table[r]) * BlockSize /\ Len0(r) <= MaxBlocks * BlockSize
          /\ Len(table[r]) <= BlocksFor(Settled(r) + 1) /\ Len(table[r]) \in Nat /\ Len0(r) \in Nat
      BY RequestType DEF IInv, PagesEnough
    <3>2. Len(table[r]) * BlockSize \in Int /\ MaxBlocks * BlockSize \in Int
      BY <3>1, Natural, AttentionAssumption
    <3>3. Settled(r)' \in Nat /\ Settled(r) <= Settled(r)' /\ Settled(r)' = Len0(r)' /\ Len0(r)' <= Len0(r)
      BY <1>3, <1>4
    <3>4. BlocksFor(Settled(r) + 1) <= BlocksFor(Settled(r)' + 1)
      BY <3>1, <3>3, BlocksMono
    <3>5. BlocksFor(Settled(r) + 1) \in Nat /\ BlocksFor(Settled(r)' + 1) \in Nat
      <4>1. Settled(r) + 1 \in Nat /\ Settled(r)' + 1 \in Nat
        BY <3>1, <3>3
      <4>2. QED
        BY <4>1, BlocksBound
    <3>6. QED
      BY <3>1, <3>2, <3>3, <3>4, <3>5
  <2>2. QED
    BY <1>2, <2>1 DEF PagesEnough
<1>8. Stored'
  <2>1. ASSUME NEW r \in Reqs, NEW p \in 0..(Len0(r)' - 1) PROVE p \in 0..(Len0(r) - 1) /\ rows'[r][p + 1] = rows[r][p + 1]
    <3>1. Len0(r)' \in Nat /\ Len0(r) \in Nat /\ Len0(r)' <= Len0(r)
      BY <1>4, RequestType DEF IInv
    <3>2. p + 1 \in 1..Len0(r)'
      BY <3>1
    <3>3. QED
      BY <1>4, <3>1, <3>2
  <2>2. QED
    BY <1>2, <2>1 DEF IInv, Stored
<1>9. QED
  BY <1>5, <1>6, <1>7, <1>8 DEF IInv

LEMMA ShareInv == ASSUME IInv, NEW r \in Reqs, NEW o \in Reqs, Share(r, o) PROVE IInv'
<1> DEFINE page == table[o][1]
<1>1. /\ call.phase = "idle" /\ table[r] = <<>> /\ r # o /\ Len0(o) >= BlockSize
      /\ table' = [table EXCEPT ![r] = <<page>>]
      /\ rows' = [rows EXCEPT ![r] = SubSeq(rows[o], 1, BlockSize)]
      /\ UNCHANGED <<free, versions, pool, index, cap, capacity, call, calls>>
  BY DEF Share
<1>2. ~Calling /\ ~Calling' /\ \A x \in Reqs : Settled(x) = Len0(x) /\ Settled(x)' = Len0(x)'
  BY <1>1 DEF Calling, Settled, Rejectable
<1>3. 1 \in DOMAIN table[o] /\ page \in Pages /\ BlockSize \in Nat \ {0}
  <2>1. 0 \in 0..(Len0(o) - 1) /\ Len0(o) \in Nat /\ BlockSize \in Nat \ {0}
    BY <1>1, Natural, RequestType DEF IInv
  <2>2. 0 \div BlockSize = 0
    <3>1. 0 = 0 * BlockSize + 0 /\ 0 \in 0..(BlockSize - 1)
      BY <2>1
    <3>2. QED
      BY <2>1, <3>1, DivUnique
  <2>3. 0 \div BlockSize + 1 \in DOMAIN table[o] /\ table[o][0 \div BlockSize + 1] \in Pages
    BY <2>1, PlaceOf DEF IInv
  <2>4. QED
    BY <2>1, <2>2, <2>3
<1>4. /\ rows'[r] \in Seq(Rows) /\ Len0(r)' = BlockSize
      /\ \A i \in 1..BlockSize : rows'[r][i] = rows[o][i]
  <2>1. rows[o] \in Seq(Rows) /\ Len(rows[o]) \in Nat /\ BlockSize <= Len(rows[o])
    BY <1>1, RequestType DEF IInv, Len0
  <2>2. rows'[r] = SubSeq(rows[o], 1, BlockSize)
    BY <1>1 DEF IInv, TypeOK
  <2>3. QED
    BY <1>3, <2>1, <2>2 DEF Len0
<1>5. \A x \in Reqs : x # r => table'[x] = table[x] /\ rows'[x] = rows[x] /\ Len0(x)' = Len0(x)
  BY <1>1 DEF IInv, TypeOK, Len0
<1>6. table'[r] = <<page>> /\ <<page>> \in Seq(Pages) /\ DOMAIN <<page>> = {1} /\ Len(<<page>>) = 1 /\ <<page>>[1] = page
  BY <1>1, <1>3 DEF IInv, TypeOK
<1>7. TypeOK'
  <2>1. table' \in [Reqs -> Seq(Pages)] /\ rows' \in [Reqs -> Seq(Rows)]
    BY <1>1, <1>4, <1>5, <1>6 DEF IInv, TypeOK
  <2>2. call' = Idle
    BY <1>1, <1>2 DEF IInv, TypeOK
  <2>3. QED
    BY <1>1, <2>1, <2>2 DEF IInv, TypeOK
<1>8. PagesApart'
  <2>1. IsInjective(table'[r]) /\ Range(free) \cap Range(table'[r]) = {}
    <3>1. page \notin Range(free)
      BY <1>3 DEF IInv, PagesApart, Range
    <3>2. Range(<<page>>) = {page} /\ IsInjective(<<page>>)
      BY <1>6 DEF Range, IsInjective
    <3>3. QED
      BY <1>6, <3>1, <3>2
  <2>2. ASSUME NEW x \in Reqs, NEW y \in Reqs, NEW i \in DOMAIN table'[x], NEW j \in DOMAIN table'[y],
               x # y, table'[x][i] = table'[y][j]
        PROVE  i = 1 /\ Len0(x)' >= BlockSize
    <3>1. CASE x = r
      BY <3>1, <2>2, <1>3, <1>4, <1>6
    <3>2. CASE x # r /\ y = r
      <4>1. j = 1 /\ table[x][i] = page /\ i \in DOMAIN table[x]
        BY <3>2, <2>2, <1>5, <1>6
      <4>2. CASE x = o
        <5>1. i = 1
          BY <4>1, <4>2, <1>3 DEF IInv, PagesApart, IsInjective
        <5>2. QED
          BY <5>1, <4>2, <1>1, <1>5
      <4>3. CASE x # o
        BY <4>1, <4>3, <3>2, <1>2, <1>3, <1>5 DEF IInv, PagesApart
      <4>4. QED
        BY <4>2, <4>3
    <3>3. CASE x # r /\ y # r
      BY <3>3, <2>2, <1>2, <1>5 DEF IInv, PagesApart
    <3>4. QED
      BY <3>1, <3>2, <3>3
  <2>3. \A x \in Reqs : IsInjective(table'[x]) /\ Range(free) \cap Range(table'[x]) = {}
    BY <2>1, <1>5 DEF IInv, PagesApart
  <2>4. IsInjective(free')
    BY <1>1 DEF IInv, PagesApart
  <2>5. QED
    BY <2>2, <2>3, <2>4, <1>1, <1>2 DEF PagesApart
<1>9. PagesEnough'
  <2>1. /\ Len0(r)' >= 0 /\ Len0(r)' <= Len(table'[r]) * BlockSize /\ Len0(r)' <= MaxBlocks * BlockSize
        /\ Len(table'[r]) <= BlocksFor(Len0(r)' + 1)
    <3>1. 1 <= MaxBlocks /\ MaxBlocks \in Nat
      BY AttentionAssumption
    <3>2. 1 * BlockSize <= MaxBlocks * BlockSize
      BY <3>1, <1>3, MulMono
    <3>3. BlocksFor(BlockSize + 1) \in Nat /\ BlockSize + 1 <= BlocksFor(BlockSize + 1) * BlockSize
      <4>1. BlockSize + 1 \in Nat
        BY <1>3
      <4>2. QED
        BY <4>1, BlocksBound
    <3>4. BlocksFor(BlockSize + 1) # 0
      <4>1. CASE BlocksFor(BlockSize + 1) = 0
        BY <4>1, <3>3, <1>3
      <4>2. QED
        BY <4>1
    <3>5. MaxBlocks * BlockSize \in Int
      BY <3>1, <1>3
    <3>6. QED
      BY <1>3, <1>4, <1>6, <3>2, <3>3, <3>4, <3>5
  <2>2. \A x \in Reqs : x # r => /\ Len0(x)' >= 0 /\ Len0(x)' <= Len(table'[x]) * BlockSize /\ Len0(x)' <= MaxBlocks * BlockSize
                                /\ Len(table'[x]) <= BlocksFor(Len0(x)' + 1)
    BY <1>2, <1>5 DEF IInv, PagesEnough
  <2>3. QED
    BY <1>2, <2>1, <2>2 DEF PagesEnough
<1>10. Stored'
  <2>1. ASSUME NEW p \in 0..(Len0(r)' - 1)
        PROVE  /\ pool[table'[r][p \div BlockSize + 1]][p % BlockSize] = rows'[r][p + 1]
               /\ index[table'[r][p \div BlockSize + 1]][p % BlockSize] = rows'[r][p + 1]
    <3>1. p \in 0..(BlockSize - 1)
      BY <1>3, <1>4
    <3>2. p \div BlockSize = 0 /\ p % BlockSize = p
      <4>1. p = 0 * BlockSize + p
        BY <3>1, <1>3
      <4>2. QED
        BY <4>1, <3>1, <1>3, DivUnique
    <3>3. p \in 0..(Len0(o) - 1) /\ p + 1 \in 1..BlockSize
      <4>1. Len0(o) \in Nat /\ Len0(o) >= BlockSize
        BY <1>1, <1>3, RequestType DEF IInv
      <4>2. QED
        BY <4>1, <3>1, Natural
    <3>4. pool[table[o][p \div BlockSize + 1]][p % BlockSize] = rows[o][p + 1]
          /\ index[table[o][p \div BlockSize + 1]][p % BlockSize] = rows[o][p + 1]
      BY <3>3 DEF IInv, Stored
    <3>5. QED
      BY <3>2, <3>3, <3>4, <1>4, <1>6
  <2>2. \A x \in Reqs : x # r => \A p \in 0..(Len0(x)' - 1) :
               /\ pool[table'[x][p \div BlockSize + 1]][p % BlockSize] = rows'[x][p + 1]
               /\ index[table'[x][p \div BlockSize + 1]][p % BlockSize] = rows'[x][p + 1]
    BY <1>5 DEF IInv, Stored
  <2>3. QED
    BY <2>1, <2>2, <1>1 DEF Stored
<1>11. QED
  BY <1>7, <1>8, <1>9, <1>10 DEF IInv

\* The elements of a finite set, each once, whatever the order.
LEMMA ListedOnce ==
    ASSUME NEW X, IsFiniteSet(X)
    PROVE  SetToSeq(X) \in Seq(X) /\ IsInjective(SetToSeq(X)) /\ ToSet(SetToSeq(X)) = X
<1> DEFINE D == 1..Cardinality(X)
           f == SetToSeq(X)
<1>1. ExistsBijection(D, X) /\ Cardinality(X) \in Nat
  BY FS_CardinalityType
<1>2. PICK g : g \in Bijection(D, X)
  BY <1>1 DEF ExistsBijection
<1>3. g \in [D -> X] /\ IsInjective(g)
  <2>1. g \in [D -> X] /\ \A a, b \in D : g[a] = g[b] => a = b
    BY <1>2 DEF Bijection, Injection, Surjection, IsInjective
  <2>2. QED
    BY <2>1 DEF IsInjective
<1>4. f \in [D -> X] /\ IsInjective(f)
  BY <1>3 DEF SetToSeq
<1> HIDE DEF f
<1>5. f \in Injection(D, X)
  BY <1>4 DEF Injection, IsInjective
<1>6. IsFiniteSet(D) /\ Cardinality(D) = Cardinality(X)
  BY <1>1, FS_Interval
<1>7. f \in Surjection(D, X)
  BY <1>5, <1>6, FS_Injection
<1>8. \A x \in X : \E k \in D : f[k] = x
  BY <1>7 DEF Surjection
<1>9. ToSet(f) = X
  BY <1>4, <1>8 DEF ToSet
<1>10. f \in Seq(X)
  BY <1>1, <1>4
<1>11. QED
  BY <1>4, <1>9, <1>10 DEF f

LEMMA FinishInv == ASSUME IInv, NEW r \in Reqs, Finish(r) PROVE IInv'
<1> DEFINE others == UNION {Range(table[o]) : o \in Reqs \ {r}}
           freed == Range(table[r]) \ others
<1>1. /\ call.phase = "idle"
      /\ table' = [table EXCEPT ![r] = <<>>] /\ rows' = [rows EXCEPT ![r] = <<>>]
      /\ free' = free \o SetToSeq(freed)
      /\ UNCHANGED <<versions, pool, index, cap, capacity, call, calls>>
  BY DEF Finish
<1>2. ~Calling /\ ~Calling' /\ \A x \in Reqs : Settled(x) = Len0(x) /\ Settled(x)' = Len0(x)'
  BY <1>1 DEF Calling, Settled, Rejectable
<1>3. /\ freed \subseteq Range(table[r]) /\ freed \subseteq Pages
      /\ \A x \in Reqs \ {r} : freed \cap Range(table[x]) = {}
  <2>1. \A x \in Reqs \ {r} : Range(table[x]) \subseteq others
    OBVIOUS
  <2>2. Range(table[r]) \subseteq Pages
    BY RequestType DEF IInv, Range
  <2> HIDE DEF others
  <2>3. QED
    BY <2>1, <2>2
<1> HIDE DEF freed
<1>4. IsFiniteSet(freed)
  <2>1. IsFiniteSet(Pages)
    <3>1. 0 \in Int /\ NumPages - 1 \in Int
      BY Natural
    <3>2. QED
      BY <3>1, FS_Interval DEF Pages
  <2>2. freed \in SUBSET Pages
    BY <1>3
  <2>3. QED
    BY <2>1, <2>2, FS_Subset
<1>5. SetToSeq(freed) \in Seq(Pages) /\ IsInjective(SetToSeq(freed)) /\ ToSet(SetToSeq(freed)) = freed
  <2>1. SetToSeq(freed) \in Seq(freed) /\ IsInjective(SetToSeq(freed)) /\ ToSet(SetToSeq(freed)) = freed
    BY <1>4, ListedOnce
  <2>2. QED
    BY <2>1, <1>3, SeqMonotonic
<1>6. free \in Seq(Pages) /\ IsInjective(free) /\ \A x \in Reqs : ToSet(free) \cap Range(table[x]) = {}
  BY RangeIsToSet DEF IInv, TypeOK, PagesApart
<1>7. free' \in Seq(Pages) /\ IsInjective(free') /\ Range(free') = ToSet(free) \cup freed
  <2>1. ToSet(free) \cap ToSet(SetToSeq(freed)) = {}
    BY <1>3, <1>5, <1>6
  <2>2. /\ free \o SetToSeq(freed) \in Seq(Pages) /\ IsInjective(free \o SetToSeq(freed))
        /\ ToSet(free \o SetToSeq(freed)) = ToSet(free) \cup ToSet(SetToSeq(freed))
    BY <2>1, <1>5, <1>6, ConcatElement
  <2>3. QED
    BY <2>2, <1>1, <1>5, RangeIsToSet
<1>8. table'[r] = <<>> /\ rows'[r] = <<>> /\ Len0(r)' = 0
  BY <1>1, EmptyRange DEF IInv, TypeOK, Len0
<1>9. \A x \in Reqs : x # r => table'[x] = table[x] /\ rows'[x] = rows[x] /\ Len0(x)' = Len0(x)
  BY <1>1 DEF IInv, TypeOK, Len0
<1>10. TypeOK'
  <2>1. <<>> \in Seq(Pages) /\ <<>> \in Seq(Rows)
    OBVIOUS
  <2>2. QED
    <3>1. table' \in [Reqs -> Seq(Pages)] /\ rows' \in [Reqs -> Seq(Rows)]
      BY <1>1, <2>1 DEF IInv, TypeOK
    <3>2. call' = Idle
      BY <1>1, <1>2 DEF IInv, TypeOK
    <3>3. QED
      BY <1>1, <1>7, <3>1, <3>2 DEF IInv, TypeOK
<1>11. PagesApart'
  <2>1. \A x \in Reqs : IsInjective(table'[x]) /\ Range(free') \cap Range(table'[x]) = {}
    <3>1. ASSUME NEW x \in Reqs, x # r PROVE IsInjective(table'[x]) /\ Range(free') \cap Range(table'[x]) = {}
      BY <3>1, <1>3, <1>6, <1>7, <1>9 DEF IInv, PagesApart
    <3>2. QED
      BY <3>1, <1>8, EmptyRange
  <2>2. ASSUME NEW x \in Reqs, NEW y \in Reqs, NEW i \in DOMAIN table'[x], NEW j \in DOMAIN table'[y],
               x # y, table'[x][i] = table'[y][j]
        PROVE  i = 1 /\ Len0(x)' >= BlockSize
    <3>1. x # r /\ y # r
      BY <2>2, <1>8, EmptyRange
    <3>2. QED
      BY <3>1, <2>2, <1>2, <1>9 DEF IInv, PagesApart
  <2>3. QED
    BY <2>1, <2>2, <1>2, <1>7 DEF PagesApart
<1>12. PagesEnough'
  <2>1. /\ Len0(r)' >= 0 /\ Len0(r)' <= Len(table'[r]) * BlockSize /\ Len0(r)' <= MaxBlocks * BlockSize
        /\ Len(table'[r]) <= BlocksFor(Len0(r)' + 1)
    <3>1. MaxBlocks * BlockSize \in Nat /\ 0 * BlockSize = 0 /\ 0 + 1 \in Nat
      BY Natural, AttentionAssumption
    <3>2. BlocksFor(0 + 1) \in Nat
      BY <3>1, BlocksBound
    <3>3. QED
      BY <3>1, <3>2, <1>8, EmptyRange
  <2>2. \A x \in Reqs : x # r => /\ Len0(x)' >= 0 /\ Len0(x)' <= Len(table'[x]) * BlockSize /\ Len0(x)' <= MaxBlocks * BlockSize
                                /\ Len(table'[x]) <= BlocksFor(Len0(x)' + 1)
    BY <1>2, <1>9 DEF IInv, PagesEnough
  <2>3. QED
    BY <1>2, <2>1, <2>2 DEF PagesEnough
<1>13. Stored'
  <2>1. ASSUME NEW x \in Reqs, NEW p \in 0..(Len0(x)' - 1) PROVE x # r
    BY <1>8
  <2>2. QED
    BY <2>1, <1>1, <1>9 DEF IInv, Stored
<1>14. QED
  BY <1>10, <1>11, <1>12, <1>13 DEF IInv

-----------------------------------------------------------------------------
(* A batch is inserted.                                                    *)

Needed(r, n) == BlocksFor(Len0(r) + n) - Len(table[r])
New(r, n) == Len0(r)..(Len0(r) + n - 1)

\* Every r of S gets k[r] rows and the pages it needs for them, those behind
\* place a[r] of the queue; no two get the same ones.
Allots(S, k, a, total) ==
    /\ S \in SUBSET Reqs /\ k \in [S -> Nat \ {0}] /\ a \in [S -> Nat] /\ total \in 0..Len(free)
    /\ \A r \in S :
         /\ Needed(r, k[r]) \in Nat /\ a[r] + Needed(r, k[r]) <= total
         /\ Len0(r) + k[r] <= MaxBlocks * BlockSize
         /\ table'[r] = table[r] \o SubSeq(free, a[r] + 1, a[r] + Needed(r, k[r]))
         /\ rows'[r] = rows[r] \o [o \in 1..k[r] |-> <<r, Len0(r) + o - 1, versions[r][Len0(r) + o - 1]>>]
    /\ \A r, o \in S : r # o => a[r] + Needed(r, k[r]) <= a[o] \/ a[o] + Needed(o, k[o]) <= a[r]
    /\ \A r \in Reqs \ S : table'[r] = table[r] /\ rows'[r] = rows[r]
    /\ DOMAIN table' = Reqs /\ DOMAIN rows' = Reqs
    /\ free' = SubSeq(free, total + 1, Len(free))

\* The tokens are those of the rows, besides padding.
Stores(S, k, toks) ==
    /\ \A r \in S : \A p \in New(r, k[r]) : Token(r, p, table') \in toks
    /\ \A tok \in toks : tok = PaddingToken \/ \E r \in S : \E p \in New(r, k[r]) : tok = Token(r, p, table')
    /\ pool' = InsertTokens(pool, toks) /\ index' = InsertIndex(index, toks)

\* A page more than a request has is needed for its next row.
LEMMA NeedsPages ==
    ASSUME IInv, ~Calling, NEW r \in Reqs, NEW n \in Nat \ {0}
    PROVE  Needed(r, n) \in Nat /\ BlocksFor(Len0(r) + n) \in Nat
<1>1. Settled(r) = Len0(r) /\ Len0(r) \in Nat /\ Len(table[r]) \in Nat /\ Len(table[r]) <= BlocksFor(Settled(r) + 1)
  BY RequestType DEF IInv, PagesEnough, Settled, Rejectable
<1>2. Len0(r) + 1 \in Nat /\ Len0(r) + n \in Nat /\ Len0(r) + 1 <= Len0(r) + n
  BY <1>1
<1>3. BlocksFor(Len0(r) + 1) \in Nat /\ BlocksFor(Len0(r) + n) \in Nat /\ BlocksFor(Len0(r) + 1) <= BlocksFor(Len0(r) + n)
  BY <1>2, BlocksBound, BlocksMono
<1>4. QED
  BY <1>1, <1>3 DEF Needed

LEMMA InsertShape ==
    ASSUME IInv, NEW S \in (SUBSET Reqs) \ {{}}, NEW lens \in [1..Cardinality(S) -> Nat \ {0}], NEW kind, NEW padding,
           Insert(kind, Sorted(S), lens, padding)
    PROVE  /\ call'.phase = "inserted" /\ call'.kind = kind /\ call'.members = Sorted(S) /\ ~Calling
           /\ \E k, a, total, toks : /\ Allots(S, k, a, total) /\ Stores(S, k, toks)
                                     /\ \A i \in 1..Cardinality(S) : k[Sorted(S)[i]] = lens[i]
           /\ versions' \in [Reqs -> [0..(MaxBlocks * BlockSize - 1) -> Nat]]
           /\ calls' \in Nat /\ cap' = cap
<1> DEFINE members == Sorted(S)
           n == Cardinality(S)
           need(i) == BlocksFor(Len0(members[i]) + lens[i]) - Len(table[members[i]])
           needs == [i \in DOMAIN members |-> need(i)]
           cuNeed == CuSeqlens(needs)
           start(i) == cuNeed[i]
           total == Last(cuNeed)
           place(r) == CHOOSE i \in DOMAIN members : members[i] = r
           new == [r \in Reqs |-> IF r \in Range(members)
                                  THEN table[r] \o SubSeq(free, start(place(r)) + 1, start(place(r)) + need(place(r)))
                                  ELSE table[r]]
           toks == BatchTokens(members, lens, new)
           all == toks \cup {PaddingToken : i \in 1..padding}
           k == [r \in S |-> lens[place(r)]]
           a == [r \in S |-> start(place(r))]
<1>1. /\ call.phase = "idle" /\ total <= Len(free)
      /\ \A i \in DOMAIN members : Len0(members[i]) + lens[i] <= MaxBlocks * BlockSize
      /\ table' = new /\ free' = SubSeq(free, total + 1, Len(free))
      /\ pool' = InsertTokens(pool, all) /\ index' = InsertIndex(index, all)
      /\ rows' = [r \in Reqs |-> IF r \in Range(members)
                                 THEN rows[r] \o [o \in 1..lens[place(r)] |->
                                        <<r, Len0(r) + o - 1, versions[r][Len0(r) + o - 1]>>]
                                 ELSE rows[r]]
  BY DEF Insert
<1>2. /\ call'.phase = "inserted" /\ call'.kind = kind /\ call'.members = members
      /\ versions' = [r \in Reqs |-> [p \in DOMAIN versions[r] |->
                          IF \E tok \in toks : tok.row[1] = r /\ tok.row[2] = p
                          THEN versions[r][p] + 1 ELSE versions[r][p]]]
      /\ calls' = calls + 1 /\ cap' = cap
  BY DEF Insert
<1>3. S \in SUBSET Int /\ IsFiniteSet(S) /\ S \in SUBSET Reqs
  BY Members
<1>4. /\ n \in Nat /\ members \in [1..n -> S]
      /\ \A i, j \in 1..n : members[i] = members[j] => i = j
      /\ \A x \in S : \E i \in 1..n : members[i] = x
  BY Members
<1>5. DOMAIN members = 1..n /\ Range(members) = S
  BY Members
<1>6. ~Calling
  BY <1>1 DEF Calling
<1> HIDE DEF members
<1>7. \A r \in S : place(r) \in 1..n /\ members[place(r)] = r
  BY <1>4, <1>5
<1>8. \A i \in 1..n : need(i) \in Nat /\ need(i) = Needed(members[i], lens[i])
  <2>1. ASSUME NEW i \in 1..n PROVE Needed(members[i], lens[i]) \in Nat
    <3>1. members[i] \in Reqs /\ lens[i] \in Nat \ {0}
      BY <1>3, <1>4
    <3>2. QED
      BY <3>1, <1>6, NeedsPages
  <2>2. QED
    BY <2>1 DEF Needed
<1> HIDE DEF n
<1>9. needs \in [1..n -> Nat] /\ \A i \in 1..n : needs[i] = need(i)
  BY <1>5, <1>8
<1> HIDE DEF needs, need
<1>10. PrefixSums(cuNeed, n, needs)
  BY <1>4, <1>9, CuFacts
<1> HIDE DEF cuNeed
<1>11. total = cuNeed[n + 1]
  BY <1>10 DEF PrefixSums, Last
<1>12. \A i \in 1..n : \A j \in (i + 1)..(n + 1) : cuNeed[i] \in Nat /\ cuNeed[j] \in Nat /\ cuNeed[i] + need(i) <= cuNeed[j]
  <2> SUFFICES ASSUME NEW i \in 1..n, NEW j \in (i + 1)..(n + 1)
               PROVE  cuNeed[i] \in Nat /\ cuNeed[j] \in Nat /\ cuNeed[i] + need(i) <= cuNeed[j]
    OBVIOUS
  <2>1. cuNeed[i + 1] = cuNeed[i] + need(i)
    BY <1>9, <1>10 DEF PrefixSums
  <2>2. i + 1 \in 1..(n + 1) /\ j \in (i + 1)..(n + 1) /\ i \in 1..(n + 1) /\ i + 1 \in i..(n + 1)
    BY <1>4
  <2>3. cuNeed[i + 1] <= cuNeed[j] /\ cuNeed[j] \in Nat
    BY <1>4, <1>9, <1>10, <2>2, SumsMono
  <2>4. cuNeed[i] \in Nat
    BY <1>4, <1>9, <1>10, <2>2, SumsMono
  <2>5. QED
    BY <2>1, <2>3, <2>4
<1>13. total \in 0..Len(free)
  <2>1. cuNeed[n + 1] \in Nat
    <3>1. n + 1 \in 1..(n + 1) /\ n + 1 \in (n + 1)..(n + 1)
      BY <1>4
    <3>2. QED
      BY <3>1, <1>4, <1>9, <1>10, SumsMono
  <2>2. Len(free) \in Nat
    BY LenProperties DEF IInv, TypeOK
  <2>3. QED
    BY <2>1, <2>2, <1>1, <1>11
<1> HIDE DEF total, place
<1>14. \A r \in S : /\ k[r] \in Nat \ {0} /\ k[r] = lens[place(r)] /\ a[r] = cuNeed[place(r)] /\ a[r] \in Nat
                   /\ need(place(r)) = Needed(r, k[r]) /\ Needed(r, k[r]) \in Nat
  <2> SUFFICES ASSUME NEW r \in S
               PROVE  /\ k[r] \in Nat \ {0} /\ k[r] = lens[place(r)] /\ a[r] = cuNeed[place(r)] /\ a[r] \in Nat
                      /\ need(place(r)) = Needed(r, k[r]) /\ Needed(r, k[r]) \in Nat
    OBVIOUS
  <2>1. place(r) \in 1..n /\ members[place(r)] = r
    BY <1>7
  <2>2. lens[place(r)] \in Nat \ {0}
    BY <2>1 DEF n
  <2>3. place(r) + 1 \in (place(r) + 1)..(n + 1)
    BY <2>1, <1>4
  <2>4. cuNeed[place(r)] \in Nat
    BY <2>1, <2>3, <1>12
  <2>5. QED
    BY <2>1, <2>2, <2>4, <1>8
<1> HIDE DEF k, a
<1>15. k \in [S -> Nat \ {0}] /\ a \in [S -> Nat]
  BY <1>14 DEF k, a
<1>16. ASSUME NEW r \in S PROVE a[r] + Needed(r, k[r]) <= total
  <2>1. place(r) \in 1..n /\ n + 1 \in (place(r) + 1)..(n + 1)
    BY <1>4, <1>7
  <2>2. QED
    BY <2>1, <1>11, <1>12, <1>14
<1>17. ASSUME NEW r \in S, NEW o \in S, r # o
       PROVE  a[r] + Needed(r, k[r]) <= a[o] \/ a[o] + Needed(o, k[o]) <= a[r]
  <2>1. place(r) \in 1..n /\ place(o) \in 1..n /\ place(r) # place(o)
    BY <1>7, <1>17
  <2>2. place(o) \in (place(r) + 1)..(n + 1) \/ place(r) \in (place(o) + 1)..(n + 1)
    BY <2>1, <1>4
  <2>3. QED
    BY <2>1, <2>2, <1>12, <1>14
<1>18. \A r \in S : Len0(r) + k[r] <= MaxBlocks * BlockSize
  BY <1>1, <1>5, <1>7, <1>14
<1>3a. \A r \in S : /\ table'[r] = table[r] \o SubSeq(free, a[r] + 1, a[r] + Needed(r, k[r]))
                   /\ rows'[r] = rows[r] \o [o \in 1..k[r] |-> <<r, Len0(r) + o - 1, versions[r][Len0(r) + o - 1]>>]
  BY <1>1, <1>3, <1>5, <1>14
<1>20. \A r \in Reqs \ S : table'[r] = table[r] /\ rows'[r] = rows[r]
  BY <1>1, <1>5
<1>21. Allots(S, k, a, total)
  BY <1>1, <1>3, <1>13, <1>14, <1>15, <1>16, <1>17, <1>18, <1>3a, <1>20 DEF Allots
<1>22. Stores(S, k, all)
  <2>1. table' = new
    BY <1>1
  <2> HIDE DEF new
  <2>2. ASSUME NEW r \in S, NEW p \in New(r, k[r]) PROVE Token(r, p, table') \in all
    <3>1. place(r) \in DOMAIN members /\ members[place(r)] = r /\ k[r] = lens[place(r)] /\ k[r] \in Nat
      BY <1>5, <1>7, <1>14
    <3>2. Len0(r) \in Nat
      BY <1>3, RequestType DEF IInv
    <3> DEFINE o == p - Len0(r) + 1
    <3>3. o \in 1..lens[place(r)] /\ Len0(r) + o - 1 = p
      BY <3>1, <3>2 DEF New
    <3> HIDE DEF o
    <3>4. Token(members[place(r)], Len0(members[place(r)]) + o - 1, new) = Token(r, p, table')
      BY <2>1, <3>1, <3>3
    <3>5. Token(r, p, table') \in toks
      BY <3>1, <3>3, <3>4 DEF BatchTokens
    <3>6. QED
      BY <3>5
  <2>3. ASSUME NEW tok \in all
        PROVE  tok = PaddingToken \/ \E r \in S : \E p \in New(r, k[r]) : tok = Token(r, p, table')
    <3>1. CASE tok \in toks
      <4>0. PICK i \in DOMAIN members : \E o \in 1..lens[i] : tok = Token(members[i], Len0(members[i]) + o - 1, new)
        BY <3>1 DEF BatchTokens
      <4>1. PICK o \in 1..lens[i] : tok = Token(members[i], Len0(members[i]) + o - 1, new)
        BY <4>0
      <4> DEFINE r == members[i]
                 p == Len0(r) + o - 1
      <4>2. r \in S /\ place(r) = i
        BY <1>4, <1>5, <1>7
      <4>3. k[r] = lens[i] /\ k[r] \in Nat /\ Len0(r) \in Nat
        BY <4>2, <1>3, <1>14, RequestType DEF IInv
      <4>4. p \in New(r, k[r])
        BY <4>3 DEF New
      <4>5. tok = Token(r, p, table')
        BY <2>1, <4>1
      <4> HIDE DEF r, p
      <4>6. QED
        BY <4>2, <4>4, <4>5
    <3>2. CASE tok \notin toks
      BY <3>2
    <3>3. QED
      BY <3>1, <3>2
  <2>4. QED
    BY <2>2, <2>3, <1>1 DEF Stores
<1>23. versions' \in [Reqs -> [0..(MaxBlocks * BlockSize - 1) -> Nat]]
  <2> DEFINE D == 0..(MaxBlocks * BlockSize - 1)
  <2>0. versions \in [Reqs -> [D -> Nat]]
    BY DEF IInv, TypeOK
  <2> HIDE DEF D
  <2>1. \A r \in Reqs : DOMAIN versions[r] = D /\ \A p \in DOMAIN versions[r] : versions[r][p] \in Nat
    BY <2>0
  <2>2. \A r \in Reqs : \A p \in DOMAIN versions[r] : versions[r][p] + 1 \in Nat
    BY <2>1
  <2> HIDE DEF toks
  <2>3. versions' \in [Reqs -> [D -> Nat]]
    BY <1>2, <2>1, <2>2
  <2>4. QED
    BY <2>3 DEF D
<1>24. calls' \in Nat
  BY <1>2 DEF IInv, TypeOK
<1> HIDE DEF all
<1>25. \A i \in 1..n : k[members[i]] = lens[i]
  BY <1>4, <1>7, <1>14
<1>26. QED
  BY <1>2, <1>6, <1>21, <1>22, <1>23, <1>24, <1>25, ZenonT(60) DEF members, n

\* A page of a request after the batch: one it had, or one from the queue.
LEMMA PageSource ==
    ASSUME IInv, NEW S, NEW k, NEW a, NEW total, Allots(S, k, a, total), NEW r \in Reqs
    PROVE  /\ table'[r] \in Seq(Pages) /\ Len(table'[r]) \in Nat /\ DOMAIN table'[r] = 1..Len(table'[r])
           /\ Len(table[r]) \in Nat /\ DOMAIN table[r] = 1..Len(table[r])
           /\ r \in S => Len(table'[r]) = BlocksFor(Len0(r) + k[r]) /\ Len(table'[r]) = Len(table[r]) + Needed(r, k[r])
           /\ r \notin S => Len(table'[r]) = Len(table[r])
           /\ \A i \in 1..Len(table[r]) : i \in DOMAIN table'[r] /\ table'[r][i] = table[r][i]
           /\ \A i \in DOMAIN table'[r] : i \notin DOMAIN table[r] =>
                r \in S /\ \E j \in (a[r] + 1)..(a[r] + Needed(r, k[r])) :
                     j = a[r] + i - Len(table[r]) /\ j \in 1..total /\ j \in 1..Len(free) /\ table'[r][i] = free[j]
<1>1. /\ table[r] \in Seq(Pages) /\ Len(table[r]) \in Nat /\ DOMAIN table[r] = 1..Len(table[r])
      /\ free \in Seq(Pages) /\ Len(free) \in Nat /\ DOMAIN free = 1..Len(free)
      /\ \A i \in 1..Len(free) : free[i] \in Pages
  BY RequestType, LenProperties, ElementOfSeq DEF IInv, TypeOK
<1>2. CASE r \notin S
  BY <1>1, <1>2 DEF Allots
<1>3. CASE r \in S
  <2> DEFINE n == Needed(r, k[r])
             piece == SubSeq(free, a[r] + 1, a[r] + n)
             s == table[r]
             w == table'[r]
  <2>1. n \in Nat /\ a[r] \in Nat /\ a[r] + n <= total /\ total \in 0..Len(free) /\ w = s \o piece
    BY <1>3 DEF Allots
  <2>2. BlocksFor(Len0(r) + k[r]) = Len(s) + n
    <3>1. k[r] \in Nat /\ Len0(r) \in Nat /\ Len0(r) + k[r] \in Nat
      BY <1>3, RequestType DEF Allots, IInv
    <3>2. BlocksFor(Len0(r) + k[r]) \in Int
      BY <3>1, BlocksBound
    <3>3. QED
      BY <3>2, <1>1 DEF Needed
  <2> HIDE DEF n
  <2> DEFINE b == a[r]
             f == free
  <2>3. /\ piece \in Seq(Pages) /\ Len(piece) = n
        /\ \A j \in 1..n : piece[j] = f[b + j] /\ b + j \in 1..total /\ b + j \in 1..Len(f)
    <3>0. b \in Nat /\ n \in Nat /\ b + n <= total /\ total \in 0..Len(f) /\ Len(f) \in Nat /\ piece = SubSeq(f, b + 1, b + n)
          /\ f \in Seq(Pages)
      BY <2>1, <1>1
    <3> HIDE DEF b, f, piece
    <3>1. \A j \in 1..n : b + j \in 1..total /\ b + j \in 1..Len(f)
      BY <3>0
    <3>2. \A j \in (b + 1)..(b + n) : j \in 1..Len(f)
      BY <3>0
    <3>3. piece \in Seq(Pages) /\ Len(piece) = n /\ \A j \in 1..n : piece[j] = f[b + j]
      <4>1. b + 1 \in 1..(Len(f) + 1) /\ b + n \in b..Len(f)
        BY <3>0
      <4>2. /\ SubSeq(f, b + 1, b + n) \in Seq(Pages)
            /\ Len(SubSeq(f, b + 1, b + n)) = n
            /\ \A j \in 1..n : SubSeq(f, b + 1, b + n)[j] = f[(b + 1) + j - 1]
        BY <4>1, <3>0, SubSeqProperties
      <4>3. \A j \in 1..n : (b + 1) + j - 1 = b + j
        BY <3>0
      <4>4. QED
        BY <3>0, <4>2, <4>3
    <3>4. QED
      BY <3>1, <3>3
  <2> HIDE DEF piece, s, w
  <2>4. s \in Seq(Pages) /\ Len(s) \in Nat /\ DOMAIN s = 1..Len(s)
    BY <1>1 DEF s
  <2>5. /\ w \in Seq(Pages) /\ Len(w) = Len(s) + n
        /\ \A i \in 1..Len(s) : w[i] = s[i]
        /\ \A i \in (Len(s) + 1)..(Len(s) + n) : w[i] = piece[i - Len(s)]
    BY <2>1, <2>3, <2>4
  <2>6. Len(w) \in Nat /\ DOMAIN w = 1..Len(w)
    BY <2>5, LenProperties
  <2>7. \A i \in 1..Len(s) : i \in DOMAIN w /\ w[i] = s[i]
    BY <2>1, <2>4, <2>5, <2>6
  <2>8. ASSUME NEW i \in DOMAIN w, i \notin DOMAIN s
        PROVE  \E j \in (a[r] + 1)..(a[r] + n) : j = a[r] + i - Len(s) /\ j \in 1..total /\ j \in 1..Len(free) /\ w[i] = free[j]
    <3>1. i \in (Len(s) + 1)..(Len(s) + n) /\ i - Len(s) \in 1..n
      BY <2>1, <2>4, <2>5, <2>6, <2>8
    <3>2. w[i] = free[a[r] + (i - Len(s))] /\ a[r] + (i - Len(s)) \in 1..total /\ a[r] + (i - Len(s)) \in 1..Len(free)
      BY <3>1, <2>3, <2>5
    <3>3. a[r] + (i - Len(s)) = a[r] + i - Len(s) /\ a[r] + i - Len(s) \in (a[r] + 1)..(a[r] + n)
      BY <3>1, <2>1, <2>4
    <3>4. QED
      BY <3>2, <3>3
  <2>9. QED
    BY <1>3, <2>1, <2>2, <2>4, <2>5, <2>6, <2>7, <2>8 DEF n, s, w
<1>4. QED
  BY <1>2, <1>3

\* A page of a request is not in the queue.
LEMMA FreeUnused ==
    ASSUME IInv, NEW r \in Reqs, NEW j \in DOMAIN table[r], NEW q \in 1..Len(free)
    PROVE  table[r][j] # free[q]
<1>1. DOMAIN free = 1..Len(free)
  BY LenProperties DEF IInv, TypeOK
<1>2. Range(free) \cap Range(table[r]) = {}
  BY DEF IInv, PagesApart
<1>3. free[q] \in Range(free) /\ table[r][j] \in Range(table[r])
  BY <1>1 DEF Range
<1>4. QED
  BY <1>2, <1>3

\* Requests share only what they shared before.
LEMMA SharedOld ==
    ASSUME IInv, ~Calling, NEW S, NEW k, NEW a, NEW total, Allots(S, k, a, total),
           NEW r \in Reqs, NEW o \in Reqs, r # o, NEW i \in DOMAIN table'[r], NEW j \in DOMAIN table'[o],
           table'[r][i] = table'[o][j]
    PROVE  i = 1 /\ Len0(r) >= BlockSize
<1>1. \A p \in 1..Len(free), q \in 1..Len(free) : free[p] = free[q] => p = q
  BY LenProperties DEF IInv, TypeOK, PagesApart, IsInjective
<1>2. \A x \in Reqs : \A p \in DOMAIN table[x], q \in 1..Len(free) : table[x][p] # free[q]
  BY FreeUnused
<1>3. DOMAIN table[r] = 1..Len(table[r]) /\ DOMAIN table[o] = 1..Len(table[o])
  BY PageSource
<1>4. CASE i \in DOMAIN table[r] /\ j \in DOMAIN table[o]
  <2>1. table[r][i] = table[o][j]
    <3>1. table'[r][i] = table[r][i]
      BY <1>3, <1>4, PageSource
    <3>2. table'[o][j] = table[o][j]
      BY <1>3, <1>4, PageSource
    <3>3. QED
      BY <3>1, <3>2
  <2>2. Settled(r) = Len0(r)
    BY DEF Settled, Rejectable
  <2>3. QED
    BY <1>4, <2>1, <2>2 DEF IInv, PagesApart
<1>5. CASE i \in DOMAIN table[r] /\ j \notin DOMAIN table[o]
  <2>1. table'[r][i] = table[r][i]
    BY <1>3, <1>5, PageSource
  <2>2. \E q \in 1..Len(free) : table'[o][j] = free[q]
    BY <1>5, PageSource
  <2>3. QED
    BY <1>2, <1>5, <2>1, <2>2
<1>6. CASE i \notin DOMAIN table[r] /\ j \in DOMAIN table[o]
  <2>1. table'[o][j] = table[o][j]
    BY <1>3, <1>6, PageSource
  <2>2. \E q \in 1..Len(free) : table'[r][i] = free[q]
    BY <1>6, PageSource
  <2>3. QED
    BY <1>2, <1>6, <2>1, <2>2
<1>7. CASE i \notin DOMAIN table[r] /\ j \notin DOMAIN table[o]
  <2>1. PICK p \in (a[r] + 1)..(a[r] + Needed(r, k[r])) : p \in 1..Len(free) /\ table'[r][i] = free[p]
    BY <1>7, PageSource
  <2>2. PICK q \in (a[o] + 1)..(a[o] + Needed(o, k[o])) : q \in 1..Len(free) /\ table'[o][j] = free[q]
    BY <1>7, PageSource
  <2>3. r \in S /\ o \in S
    <3>1. r \in S
      BY <1>7, PageSource
    <3>2. o \in S
      BY <1>7, PageSource
    <3>3. QED
      BY <3>1, <3>2
  <2>4. p = q
    BY <1>1, <2>1, <2>2
  <2>5. /\ a[r] \in Nat /\ a[o] \in Nat /\ Needed(r, k[r]) \in Nat /\ Needed(o, k[o]) \in Nat
        /\ a[r] + Needed(r, k[r]) <= a[o] \/ a[o] + Needed(o, k[o]) <= a[r]
    BY <2>3 DEF Allots
  <2>6. FALSE
    BY <2>1, <2>2, <2>4, <2>5
  <2>7. QED
    BY <2>6
<1>8. QED
  BY <1>4, <1>5, <1>6, <1>7

LEMMA PagesOnce ==
    ASSUME IInv, NEW S, NEW k, NEW a, NEW total, Allots(S, k, a, total), NEW r \in Reqs
    PROVE  IsInjective(table'[r])
<1>1. \A p \in 1..Len(free), q \in 1..Len(free) : free[p] = free[q] => p = q
  BY LenProperties DEF IInv, TypeOK, PagesApart, IsInjective
<1>2. \A p \in DOMAIN table[r], q \in 1..Len(free) : table[r][p] # free[q]
  BY FreeUnused
<1>3. DOMAIN table[r] = 1..Len(table[r]) /\ Len(table[r]) \in Nat /\ DOMAIN table'[r] = 1..Len(table'[r])
  BY PageSource
<1>4. \A i \in DOMAIN table[r] : table'[r][i] = table[r][i]
  BY <1>3, PageSource
<1>5. \A i \in DOMAIN table'[r] : i \notin DOMAIN table[r] =>
         r \in S /\ \E j \in 1..Len(free) : j = a[r] + i - Len(table[r]) /\ table'[r][i] = free[j]
  BY PageSource
<1>6. ASSUME NEW i \in DOMAIN table'[r], NEW j \in DOMAIN table'[r], table'[r][i] = table'[r][j] PROVE i = j
  <2>1. CASE i \in DOMAIN table[r] /\ j \in DOMAIN table[r]
    BY <2>1, <1>4, <1>6 DEF IInv, PagesApart, IsInjective
  <2>2. CASE i \in DOMAIN table[r] /\ j \notin DOMAIN table[r]
    BY <2>2, <1>2, <1>4, <1>5, <1>6
  <2>3. CASE i \notin DOMAIN table[r] /\ j \in DOMAIN table[r]
    BY <2>3, <1>2, <1>4, <1>5, <1>6
  <2>4. CASE i \notin DOMAIN table[r] /\ j \notin DOMAIN table[r]
    <3>1. PICK p \in 1..Len(free) : p = a[r] + i - Len(table[r]) /\ table'[r][i] = free[p]
      BY <2>4, <1>5
    <3>2. PICK q \in 1..Len(free) : q = a[r] + j - Len(table[r]) /\ table'[r][j] = free[q]
      BY <2>4, <1>5
    <3>3. p = q
      BY <1>1, <1>6, <3>1, <3>2
    <3>4. a[r] \in Nat
      BY <2>4, <1>5 DEF Allots
    <3>5. QED
      BY <3>1, <3>2, <3>3, <3>4, <1>3
  <2>5. QED
    BY <2>1, <2>2, <2>3, <2>4
<1>7. QED
  BY <1>6 DEF IsInjective

\* The rows of a request after the batch.
LEMMA RowsAfter ==
    ASSUME IInv, NEW S, NEW k, NEW a, NEW total, Allots(S, k, a, total), NEW r \in Reqs
    PROVE  /\ rows'[r] \in Seq(Rows) /\ Len0(r) \in Nat /\ Len0(r)' \in Nat
           /\ r \in S => Len0(r)' = Len0(r) + k[r] /\ k[r] \in Nat \ {0}
           /\ r \notin S => Len0(r)' = Len0(r)
           /\ \A i \in 1..Len0(r) : rows'[r][i] = rows[r][i]
           /\ r \in S => \A p \in New(r, k[r]) : /\ p \in Nat /\ <<r, p, versions[r][p]>> \in Rows
                                                 /\ rows'[r][p + 1] = <<r, p, versions[r][p]>>
<1>1. rows[r] \in Seq(Rows) /\ Len0(r) \in Nat /\ Len0(r) = Len(rows[r])
  BY RequestType DEF IInv, Len0
<1>2. CASE r \notin S
  BY <1>1, <1>2 DEF Allots, Len0
<1>3. CASE r \in S
  <2> DEFINE n == k[r]
             z == Len0(r)
             s == rows[r]
             w == rows'[r]
             piece == [o \in 1..n |-> <<r, z + o - 1, versions[r][z + o - 1]>>]
  <2>1. n \in Nat \ {0} /\ z + n <= MaxBlocks * BlockSize /\ w = s \o piece
    BY <1>3 DEF Allots
  <2>2. ASSUME NEW p \in z..(z + n - 1) PROVE p \in Nat /\ <<r, p, versions[r][p]>> \in Rows /\ p + 1 - z \in 1..n
    <3> DEFINE M == MaxBlocks * BlockSize
    <3>1. M \in Int /\ n \in Nat \ {0} /\ z + n <= M /\ z \in Nat
      BY <1>1, <2>1, Natural, AttentionAssumption
    <3>2. p \in 0..(M - 1) /\ p \in Nat /\ p + 1 - z \in 1..n
      <4> HIDE DEF M, n, z
      <4>1. QED
        BY <3>1
    <3> DEFINE D == 0..(MaxBlocks * BlockSize - 1)
    <3>3. versions \in [Reqs -> [D -> Nat]] /\ p \in D
      BY <3>2 DEF IInv, TypeOK
    <3> HIDE DEF D
    <3>4. versions[r][p] \in Nat
      BY <3>3
    <3>5. QED
      BY <3>2, <3>4 DEF Rows
  <2>3. \A o \in 1..n : z + o - 1 \in z..(z + n - 1)
    BY <1>1, <2>1
  <2>4. piece \in Seq(Rows) /\ Len(piece) = n
    <3>1. \A o \in 1..n : <<r, z + o - 1, versions[r][z + o - 1]>> \in Rows
      BY <2>2, <2>3
    <3>2. piece \in [1..n -> Rows]
      BY <3>1
    <3> HIDE DEF piece, n, z, s, w
    <3>3. n \in Nat
      BY <2>1
    <3>4. \A f \in [1..n -> Rows] : f \in Seq(Rows) /\ Len(f) = n
      BY <3>3
    <3>5. QED
      BY <3>2, <3>4
  <2>5. \A o \in 1..n : piece[o] = <<r, z + o - 1, versions[r][z + o - 1]>>
    OBVIOUS
  <2>6. s \in Seq(Rows) /\ Len(s) = z /\ z \in Nat
    BY <1>1
  <2> HIDE DEF n, z, s, w, piece
  <2>7. /\ w \in Seq(Rows) /\ Len(w) = z + n
        /\ \A i \in 1..z : w[i] = s[i]
        /\ \A i \in (z + 1)..(z + n) : w[i] = piece[i - z]
    <3>1. n \in Nat \ {0} /\ w = s \o piece
      BY <2>1
    <3>2. /\ s \o piece \in Seq(Rows) /\ Len(s \o piece) = Len(s) + Len(piece)
          /\ \A i \in 1..(Len(s) + Len(piece)) :
               (s \o piece)[i] = IF i <= Len(s) THEN s[i] ELSE piece[i - Len(s)]
      BY <2>4, <2>6, ConcatProperties
    <3>3. QED
      BY <2>4, <2>6, <3>1, <3>2
  <2>8. ASSUME NEW p \in z..(z + n - 1) PROVE w[p + 1] = <<r, p, versions[r][p]>>
    <3>0. n \in Nat \ {0}
      BY <2>1
    <3>1. p + 1 \in (z + 1)..(z + n) /\ p + 1 - z \in 1..n /\ z + (p + 1 - z) - 1 = p
      BY <3>0, <2>6
    <3>2. w[p + 1] = piece[p + 1 - z]
      <4>1. \A i \in (z + 1)..(z + n) : w[i] = piece[i - z]
        BY <2>7
      <4>2. QED
        BY <4>1, <3>1, <3>0, <2>6
    <3>3. piece[p + 1 - z] = <<r, z + (p + 1 - z) - 1, versions[r][z + (p + 1 - z) - 1]>>
      BY <2>5, <3>1
    <3>4. QED
      BY <3>1, <3>2, <3>3
  <2>9. Len0(r)' = z + n /\ z + n \in Nat
    BY <2>1, <2>6, <2>7 DEF Len0, w
  <2>10. New(r, k[r]) = z..(z + n - 1)
    BY DEF New, z, n
  <2>11. QED
    BY <1>3, <2>1, <2>2, <2>6, <2>7, <2>8, <2>9, <2>10 DEF n, z, s, w
<1>4. QED
  BY <1>2, <1>3

\* A request has the pages of its rows after the batch.
LEMMA PlaceAfter ==
    ASSUME IInv, ~Calling, NEW S, NEW k, NEW a, NEW total, Allots(S, k, a, total), NEW r \in Reqs
    PROVE  /\ Len0(r)' <= Len(table'[r]) * BlockSize
           /\ \A p \in 0..(Len0(r)' - 1) :
                /\ p \in Nat /\ p \div BlockSize \in Nat /\ p \div BlockSize + 1 \in DOMAIN table'[r]
                /\ p % BlockSize \in Tokens /\ table'[r][p \div BlockSize + 1] \in Pages
<1>1. /\ Len(table'[r]) \in Nat /\ DOMAIN table'[r] = 1..Len(table'[r])
      /\ table'[r] \in Seq(Pages) /\ Len0(r)' \in Nat
  BY PageSource, RowsAfter
<1>2. Len0(r)' <= Len(table'[r]) * BlockSize
  <2>1. CASE r \in S
    <3>1. Len0(r)' = Len0(r) + k[r] /\ Len(table'[r]) = BlocksFor(Len0(r) + k[r]) /\ Len0(r) + k[r] \in Nat
      BY <1>1, <2>1, RowsAfter, PageSource
    <3>2. QED
      BY <3>1, BlocksBound
  <2>2. CASE r \notin S
    <3>1. Len0(r)' = Len0(r) /\ Len(table'[r]) = Len(table[r])
      BY <2>2, RowsAfter, PageSource
    <3>2. QED
      BY <3>1 DEF IInv, PagesEnough
  <2>3. QED
    BY <2>1, <2>2
<1>3. ASSUME NEW p \in 0..(Len0(r)' - 1)
      PROVE  /\ p \in Nat /\ p \div BlockSize \in Nat /\ p \div BlockSize + 1 \in DOMAIN table'[r]
             /\ p % BlockSize \in Tokens /\ table'[r][p \div BlockSize + 1] \in Pages
  <2>1. Len(table'[r]) * BlockSize \in Int
    BY <1>1, Natural
  <2>2. p \in Nat /\ p < Len(table'[r]) * BlockSize
    BY <1>1, <1>2, <2>1
  <2>3. p \div BlockSize \in 0..(Len(table'[r]) - 1) /\ p % BlockSize \in Tokens
    BY <1>1, <2>2, BlockAmong
  <2>4. p \div BlockSize + 1 \in 1..Len(table'[r]) /\ p \div BlockSize \in Nat
    BY <1>1, <2>3
  <2>5. table'[r][p \div BlockSize + 1] \in Pages
    BY <1>1, <2>4, ElementOfSeq
  <2>6. QED
    BY <1>1, <2>2, <2>3, <2>4, <2>5
<1>4. QED
  BY <1>2, <1>3

\* No other row is where a new one goes.
LEMMA OnePlace ==
    ASSUME IInv, ~Calling, NEW S, NEW k, NEW a, NEW total, Allots(S, k, a, total),
           NEW r \in S, NEW p \in New(r, k[r]), NEW o \in Reqs, NEW q \in 0..(Len0(o)' - 1),
           table'[r][p \div BlockSize + 1] = table'[o][q \div BlockSize + 1], p % BlockSize = q % BlockSize
    PROVE  r = o /\ p = q
<1>1. r \in Reqs /\ p \in 0..(Len0(r)' - 1) /\ p >= Len0(r) /\ p \in Nat /\ Len0(r) \in Nat
  <2>1. r \in Reqs
    BY DEF Allots
  <2>2. Len0(r)' = Len0(r) + k[r] /\ Len0(r) \in Nat /\ k[r] \in Nat
    BY <2>1, RowsAfter
  <2>3. QED
    BY <2>1, <2>2 DEF New
<1>2. p \div BlockSize + 1 \in DOMAIN table'[r] /\ p \div BlockSize \in Nat
  BY <1>1, PlaceAfter
<1>3. q \div BlockSize + 1 \in DOMAIN table'[o] /\ q \div BlockSize \in Nat /\ q \in Nat
  BY PlaceAfter
<1>4. BlockSize \in Nat \ {0}
  BY Natural
<1>5. p = BlockSize * (p \div BlockSize) + (p % BlockSize) /\ q = BlockSize * (q \div BlockSize) + (q % BlockSize)
      /\ p % BlockSize \in 0..(BlockSize - 1)
  <2>1. p \in Int /\ q \in Int
    BY <1>1, <1>3
  <2>2. p = BlockSize * (p \div BlockSize) + (p % BlockSize) /\ p % BlockSize \in 0..(BlockSize - 1)
    BY <2>1, <1>4, DivMod
  <2>3. q = BlockSize * (q \div BlockSize) + (q % BlockSize)
    BY <2>1, <1>4, DivMod
  <2>4. QED
    BY <2>2, <2>3
<1>6. CASE r = o
  <2>1. p \div BlockSize + 1 = q \div BlockSize + 1
    BY <1>1, <1>2, <1>3, <1>6, PagesOnce DEF IsInjective
  <2>2. p \div BlockSize = q \div BlockSize
    BY <1>2, <1>3, <2>1
  <2>3. QED
    BY <1>5, <1>6, <2>2
<1>7. CASE r # o
  <2>1. p \div BlockSize + 1 = 1 /\ Len0(r) >= BlockSize
    BY <1>1, <1>2, <1>3, <1>7, SharedOld
  <2>2. p \div BlockSize = 0
    BY <1>2, <2>1
  <2>3. p = BlockSize * 0 + (p % BlockSize)
    BY <1>5, <2>2
  <2>4. QED
    BY <1>1, <1>4, <1>5, <2>1, <2>3
<1>8. QED
  BY <1>6, <1>7

LEMMA TokenPlace ==
    ASSUME IInv, ~Calling, NEW S, NEW k, NEW a, NEW total, Allots(S, k, a, total),
           NEW r \in S, NEW p \in New(r, k[r])
    PROVE  LET tok == Token(r, p, table')
           IN  /\ tok.slot \in Nat /\ tok.slot \div BlockSize = table'[r][p \div BlockSize + 1]
               /\ tok.slot % BlockSize = p % BlockSize
               /\ tok.slot = table'[r][p \div BlockSize + 1] * BlockSize + (p % BlockSize)
               /\ tok.row = <<r, p, versions[r][p]>> /\ tok.row \in Rows /\ rows'[r][p + 1] = tok.row
               /\ p \in 0..(Len0(r)' - 1) /\ r \in Reqs
<1>1. r \in Reqs /\ p \in 0..(Len0(r)' - 1) /\ <<r, p, versions[r][p]>> \in Rows /\ rows'[r][p + 1] = <<r, p, versions[r][p]>>
  <2>1. r \in Reqs
    BY DEF Allots
  <2>2. Len0(r)' = Len0(r) + k[r] /\ Len0(r) \in Nat /\ k[r] \in Nat /\ p \in Nat
        /\ <<r, p, versions[r][p]>> \in Rows /\ rows'[r][p + 1] = <<r, p, versions[r][p]>>
    BY <2>1, RowsAfter
  <2>3. QED
    BY <2>1, <2>2 DEF New
<1> DEFINE pg == table'[r][p \div BlockSize + 1]
           t == p % BlockSize
<1>2. pg \in Pages /\ t \in Tokens
  BY <1>1, PlaceAfter
<1>3. Token(r, p, table') = [row |-> <<r, p, versions[r][p]>>, slot |-> pg * BlockSize + t]
  BY DEF Token
<1> HIDE DEF pg, t
<1>4. pg * BlockSize + t \in Nat /\ (pg * BlockSize + t) \div BlockSize = pg /\ (pg * BlockSize + t) % BlockSize = t
  <2>1. pg \in Nat /\ t \in 0..(BlockSize - 1) /\ BlockSize \in Nat \ {0}
    BY <1>2, Natural DEF Pages, Tokens
  <2>2. pg * BlockSize \in Nat /\ pg * BlockSize + t \in Nat
    BY <2>1
  <2>3. QED
    BY <2>1, <2>2, DivUnique
<1>5. QED
  BY <1>1, <1>3, <1>4 DEF pg, t

\* A place holds the row that goes there, or what it held.
LEMMA PlaceHolds ==
    ASSUME IInv, ~Calling, NEW S, NEW k, NEW a, NEW total, Allots(S, k, a, total), NEW toks, Stores(S, k, toks),
           NEW pg \in Pages, NEW t \in Tokens
    PROVE  /\ \A r \in S : \A p \in New(r, k[r]) :
                table'[r][p \div BlockSize + 1] = pg /\ p % BlockSize = t
                   => pool'[pg][t] = rows'[r][p + 1] /\ index'[pg][t] = rows'[r][p + 1]
           /\ (\A r \in S : \A p \in New(r, k[r]) : ~(table'[r][p \div BlockSize + 1] = pg /\ p % BlockSize = t))
                => pool'[pg][t] = pool[pg][t] /\ index'[pg][t] = index[pg][t]
           /\ pool'[pg][t] \in Rows \cup {Nothing} /\ index'[pg][t] \in Rows \cup {Nothing}
<1> DEFINE Here(tok) == PageOf(tok) = pg /\ tok.slot % BlockSize = t
           There(tok) == tok.slot = pg * BlockSize + t
           here == {tok \in toks : Here(tok)}
           there == {tok \in toks : There(tok)}
<1>1. /\ pool'[pg][t] = IF here = {} THEN pool[pg][t] ELSE (CHOOSE tok \in here : TRUE).row
      /\ index'[pg][t] = IF there = {} THEN index[pg][t] ELSE (CHOOSE tok \in there : TRUE).row
  BY DEF Stores, InsertTokens, InsertIndex
<1>2. pg \in Nat /\ t \in Nat /\ BlockSize \in Nat \ {0} /\ pg # Nothing /\ pg * BlockSize + t \in Nat
  <2>1. pg \in Nat /\ t \in Nat /\ BlockSize \in Nat \ {0} /\ pg # Nothing
    BY Natural DEF Pages, Tokens
  <2>2. pg * BlockSize + t \in Nat
    BY <2>1
  <2>3. QED
    BY <2>1, <2>2
<1>3. ~Here(PaddingToken) /\ ~There(PaddingToken)
  <2>1. PaddingToken.slot = -1 /\ -1 < 0 /\ -1 \notin Nat
    BY DEF PaddingToken
  <2>2. PageOf(PaddingToken) = Nothing
    BY <2>1 DEF PageOf
  <2>3. QED
    BY <1>2, <2>1, <2>2
<1>4. ASSUME NEW r \in S, NEW p \in New(r, k[r])
      PROVE  /\ Here(Token(r, p, table')) <=> table'[r][p \div BlockSize + 1] = pg /\ p % BlockSize = t
             /\ There(Token(r, p, table')) <=> table'[r][p \div BlockSize + 1] = pg /\ p % BlockSize = t
  <2> DEFINE tok == Token(r, p, table')
  <2>1. /\ tok.slot \in Nat /\ tok.slot \div BlockSize = table'[r][p \div BlockSize + 1]
        /\ tok.slot % BlockSize = p % BlockSize
        /\ tok.slot = table'[r][p \div BlockSize + 1] * BlockSize + (p % BlockSize)
    BY TokenPlace
  <2> HIDE DEF tok
  <2>2. PageOf(tok) = table'[r][p \div BlockSize + 1]
    BY <2>1 DEF PageOf
  <2>3. Here(tok) <=> table'[r][p \div BlockSize + 1] = pg /\ p % BlockSize = t
    BY <2>1, <2>2
  <2>4. There(tok) => table'[r][p \div BlockSize + 1] = pg /\ p % BlockSize = t
    <3>1. t \in 0..(BlockSize - 1) /\ pg \in Int
      BY <1>2 DEF Tokens
    <3>2. (pg * BlockSize + t) \div BlockSize = pg /\ (pg * BlockSize + t) % BlockSize = t
      BY <1>2, <3>1, DivUnique
    <3>3. QED
      BY <2>1, <3>2
  <2>5. table'[r][p \div BlockSize + 1] = pg /\ p % BlockSize = t => There(tok)
    BY <2>1
  <2>6. QED
    BY <2>3, <2>4, <2>5 DEF tok
<1> HIDE DEF Here, There
<1>5. ASSUME NEW r \in S, NEW p \in New(r, k[r]), table'[r][p \div BlockSize + 1] = pg, p % BlockSize = t,
             NEW tok \in toks, Here(tok) \/ There(tok)
      PROVE  tok = Token(r, p, table')
  <2>1. PICK o \in S : \E q \in New(o, k[o]) : tok = Token(o, q, table')
    BY <1>3, <1>5 DEF Stores
  <2>2. PICK q \in New(o, k[o]) : tok = Token(o, q, table')
    BY <2>1
  <2>3. table'[o][q \div BlockSize + 1] = pg /\ q % BlockSize = t
    BY <1>4, <1>5, <2>2
  <2>4. o \in Reqs /\ q \in 0..(Len0(o)' - 1)
    BY <2>2, TokenPlace
  <2>5. r = o /\ p = q
    BY <1>5, <2>3, <2>4, OnePlace
  <2>6. QED
    BY <2>2, <2>5
<1>6. ASSUME NEW r \in S, NEW p \in New(r, k[r]), table'[r][p \div BlockSize + 1] = pg, p % BlockSize = t
      PROVE  pool'[pg][t] = rows'[r][p + 1] /\ index'[pg][t] = rows'[r][p + 1]
  <2>1. Token(r, p, table') \in here /\ Token(r, p, table') \in there
    BY <1>4, <1>6 DEF Stores
  <2>2. (\A tok \in here : tok = Token(r, p, table')) /\ (\A tok \in there : tok = Token(r, p, table'))
    BY <1>5, <1>6
  <2>3. Token(r, p, table').row = rows'[r][p + 1]
    BY TokenPlace
  <2> HIDE DEF here, there
  <2>4. (CHOOSE tok \in here : TRUE) = Token(r, p, table') /\ (CHOOSE tok \in there : TRUE) = Token(r, p, table')
    BY <2>1, <2>2
  <2>5. QED
    BY <1>1, <2>1, <2>3, <2>4
<1>7. ASSUME \A r \in S : \A p \in New(r, k[r]) : ~(table'[r][p \div BlockSize + 1] = pg /\ p % BlockSize = t)
      PROVE  pool'[pg][t] = pool[pg][t] /\ index'[pg][t] = index[pg][t]
  <2>1. \A tok \in toks : ~Here(tok) /\ ~There(tok)
    BY <1>3, <1>4, <1>7 DEF Stores
  <2>2. here = {} /\ there = {}
    BY <2>1
  <2>3. QED
    BY <1>1, <2>2
<1>8. pool'[pg][t] \in Rows \cup {Nothing} /\ index'[pg][t] \in Rows \cup {Nothing}
  <2>1. CASE \E r \in S : \E p \in New(r, k[r]) : table'[r][p \div BlockSize + 1] = pg /\ p % BlockSize = t
    <3>1. PICK r \in S : \E p \in New(r, k[r]) : table'[r][p \div BlockSize + 1] = pg /\ p % BlockSize = t
      BY <2>1
    <3>2. PICK p \in New(r, k[r]) : table'[r][p \div BlockSize + 1] = pg /\ p % BlockSize = t
      BY <3>1
    <3>3. rows'[r][p + 1] \in Rows
      BY TokenPlace
    <3>4. QED
      BY <1>6, <3>2, <3>3
  <2>2. CASE ~(\E r \in S : \E p \in New(r, k[r]) : table'[r][p \div BlockSize + 1] = pg /\ p % BlockSize = t)
    <3>1. pool'[pg][t] = pool[pg][t] /\ index'[pg][t] = index[pg][t]
      BY <1>7, <2>2
    <3>2. pool[pg][t] \in Rows \cup {Nothing} /\ index[pg][t] \in Rows \cup {Nothing}
      BY DEF IInv, TypeOK
    <3>3. QED
      BY <3>1, <3>2
  <2>3. QED
    BY <2>1, <2>2
<1>9. QED
  BY <1>6, <1>7, <1>8

LEMMA InsertInv ==
    ASSUME IInv, NEW S \in (SUBSET Reqs) \ {{}}, NEW lens \in [1..Cardinality(S) -> Nat \ {0}],
           NEW kind \in {"prefill", "decode"}, NEW padding, Insert(kind, Sorted(S), lens, padding)
    PROVE  IInv'
<1>1. /\ call'.phase = "inserted" /\ call'.kind = kind /\ call'.members = Sorted(S) /\ ~Calling
      /\ versions' \in [Reqs -> [0..(MaxBlocks * BlockSize - 1) -> Nat]]
      /\ calls' \in Nat /\ cap' = cap
  BY InsertShape
<1>2. PICK k, a, total, toks : Allots(S, k, a, total) /\ Stores(S, k, toks)
  BY InsertShape
<1>3. ASSUME NEW r \in Reqs
      PROVE  /\ Settled(r) = Len0(r) /\ Len0(r) \in Nat /\ Len0(r)' \in Nat
             /\ Settled(r)' \in Int /\ Settled(r)' >= Len0(r) /\ Len0(r)' <= Settled(r)' + 1
  <2>1. Settled(r) = Len0(r)
    BY <1>1 DEF Settled, Rejectable
  <2>2. Len0(r) \in Nat /\ Len0(r)' \in Nat
    BY <1>2, RowsAfter
  <2>3. CASE r \in S
    <3>1. Len0(r)' = Len0(r) + k[r] /\ k[r] \in Nat \ {0}
      BY <2>3, <1>2, RowsAfter
    <3>2. Settled(r)' = Len0(r)' - 1 \/ Settled(r)' = Len0(r)'
      BY DEF Settled
    <3>3. QED
      BY <2>1, <2>2, <3>1, <3>2
  <2>4. CASE r \notin S
    <3>1. Len0(r)' = Len0(r)
      BY <2>4, <1>2, RowsAfter
    <3>2. Range(Sorted(S)) = S
      BY Members
    <3>3. ~Rejectable(r)'
      <4>1. call'.members = Sorted(S)
        BY <1>1
      <4>2. r \notin Range(call'.members)
        BY <2>4, <3>2, <4>1
      <4>3. QED
        BY <4>2 DEF Rejectable
    <3>4. Settled(r)' = Len0(r)'
      BY <3>3 DEF Settled
    <3>5. QED
      BY <2>1, <2>2, <3>1, <3>4
  <2>5. QED
    BY <2>3, <2>4
<1>4. TypeOK'
  <2>1. table' \in [Reqs -> Seq(Pages)] /\ rows' \in [Reqs -> Seq(Rows)]
    <3>1. \A r \in Reqs : table'[r] \in Seq(Pages) /\ rows'[r] \in Seq(Rows)
      BY <1>2, PageSource, RowsAfter
    <3>2. DOMAIN table' = Reqs /\ DOMAIN rows' = Reqs
      BY <1>2 DEF Allots
    <3>3. table' = [r \in Reqs |-> table'[r]] /\ rows' = [r \in Reqs |-> rows'[r]]
      BY <1>2, <3>2 DEF Allots, Insert
    <3>4. QED
      BY <3>1, <3>3
  <2>2. free' \in Seq(Pages)
    <3>1. total \in 0..Len(free) /\ free' = SubSeq(free, total + 1, Len(free)) /\ free \in Seq(Pages) /\ Len(free) \in Nat
      BY <1>2, LenProperties DEF Allots, IInv, TypeOK
    <3>2. \A i \in (total + 1)..Len(free) : free[i] \in Pages
      BY <3>1, ElementOfSeq
    <3>3. total + 1 \in Int /\ Len(free) \in Int
      BY <3>1
    <3>4. QED
      BY <3>1, <3>2, <3>3, SubSeqProperties
  <2>3. pool' \in [Pages -> [Tokens -> Rows \cup {Nothing}]] /\ index' \in [Pages -> [Tokens -> Rows \cup {Nothing}]]
    <3>1. pool' = InsertTokens(pool, toks) /\ index' = InsertIndex(index, toks)
      BY <1>2 DEF Stores
    <3>2. \A pg \in Pages, t \in Tokens : pool'[pg][t] \in Rows \cup {Nothing} /\ index'[pg][t] \in Rows \cup {Nothing}
      BY <1>1, <1>2, PlaceHolds
    <3>3. pool' = [pg \in Pages |-> [t \in Tokens |-> pool'[pg][t]]]
      BY <3>1 DEF InsertTokens
    <3>4. index' = [pg \in Pages |-> [t \in Tokens |-> index'[pg][t]]]
      BY <3>1 DEF InsertIndex
    <3>5. QED
      BY <3>2, <3>3, <3>4
  <2>4. Calling' /\ call'.kind \in {"prefill", "decode"} /\ \E X \in (SUBSET Reqs) \ {{}} : call'.members = Sorted(X)
    BY <1>1 DEF Calling
  <2>5. QED
    BY <1>1, <2>1, <2>2, <2>3, <2>4 DEF IInv, TypeOK
<1>5. PagesApart'
  <2>1. free \in Seq(Pages) /\ Len(free) \in Nat /\ DOMAIN free = 1..Len(free) /\ total \in 0..Len(free)
        /\ \A i, j \in 1..Len(free) : free[i] = free[j] => i = j
    BY <1>2, LenProperties DEF IInv, TypeOK, PagesApart, IsInjective, Allots
  <2>2. Len(free') = Len(free) - total /\ DOMAIN free' = 1..(Len(free) - total)
        /\ \A i \in 1..(Len(free) - total) : free'[i] = free[total + i] /\ total + i \in 1..Len(free)
    <3>1. free' = SubSeq(free, total + 1, Len(free)) /\ total + 1 \in Int /\ Len(free) \in Int
      BY <1>2, <2>1 DEF Allots
    <3>2. \A i \in 1..(Len(free) - total) : total + i \in 1..Len(free) /\ (total + 1) + i - 1 = total + i
      BY <2>1
    <3>3. \A i \in (total + 1)..Len(free) : free[i] \in Pages
      BY <2>1, ElementOfSeq
    <3>4. /\ free' \in Seq(Pages)
          /\ Len(free') = IF total + 1 <= Len(free) THEN Len(free) - (total + 1) + 1 ELSE 0
          /\ \A i \in 1..(Len(free) - (total + 1) + 1) : free'[i] = free[(total + 1) + i - 1]
      BY <3>1, <3>3, SubSeqProperties
    <3>5. Len(free') = Len(free) - total /\ Len(free) - (total + 1) + 1 = Len(free) - total
      <4>1. Len(free') = IF total + 1 <= Len(free) THEN Len(free) - (total + 1) + 1 ELSE 0
        BY <3>4
      <4>2. \A n \in Nat : \A x \in 0..n :
              /\ (IF x + 1 <= n THEN n - (x + 1) + 1 ELSE 0) = n - x
              /\ n - (x + 1) + 1 = n - x
        OBVIOUS
      <4>3. QED
        BY <2>1, <4>1, <4>2
    <3>6. QED
      BY <3>2, <3>4, <3>5, LenProperties
  <2>3. IsInjective(free')
    <3>1. ASSUME NEW i \in 1..(Len(free) - total), NEW j \in 1..(Len(free) - total), free'[i] = free'[j] PROVE i = j
      <4>1. total + i = total + j
        BY <2>1, <2>2, <3>1
      <4>2. QED
        BY <2>1, <4>1
    <3>2. QED
      BY <2>2, <3>1 DEF IsInjective
  <2>4. ASSUME NEW r \in Reqs PROVE IsInjective(table'[r]) /\ Range(free') \cap Range(table'[r]) = {}
    <3>1. ASSUME NEW i \in 1..(Len(free) - total), NEW j \in DOMAIN table'[r], free'[i] = table'[r][j] PROVE FALSE
      <4>1. free'[i] = free[total + i] /\ total + i \in 1..Len(free)
        BY <2>2
      <4>2. CASE j \in DOMAIN table[r]
        <5>1. j \in 1..Len(table[r])
          BY <1>2, <4>2, PageSource
        <5>2. table'[r][j] = table[r][j]
          BY <1>2, <5>1, PageSource
        <5>3. table[r][j] = free[total + i]
          BY <3>1, <4>1, <5>2
        <5>4. \A q \in 1..Len(free) : table[r][j] # free[q]
          BY <4>2, FreeUnused
        <5>5. QED
          BY <4>1, <5>3, <5>4
      <4>3. CASE j \notin DOMAIN table[r]
        <5>1. PICK q \in 1..Len(free) : q \in 1..total /\ table'[r][j] = free[q]
          BY <1>2, <4>3, PageSource
        <5>2. total + i = q
          BY <2>1, <3>1, <4>1, <5>1
        <5>3. QED
          BY <2>1, <5>1, <5>2
      <4>4. QED
        BY <4>2, <4>3
    <3>2. IsInjective(table'[r])
      BY <1>2, PagesOnce
    <3>3. Range(free') \cap Range(table'[r]) = {}
      BY <2>2, <3>1 DEF Range
    <3>4. QED
      BY <3>2, <3>3
  <2>5. ASSUME NEW r \in Reqs, NEW o \in Reqs, NEW i \in DOMAIN table'[r], NEW j \in DOMAIN table'[o],
               r # o, table'[r][i] = table'[o][j]
        PROVE  i = 1 /\ Settled(r)' >= BlockSize
    <3>1. i = 1 /\ Len0(r) >= BlockSize
      BY <1>1, <1>2, <2>5, SharedOld
    <3>2. QED
      BY <1>3, <3>1, Natural
  <2>6. QED
    BY <2>3, <2>4, <2>5 DEF PagesApart
<1>6. PagesEnough'
  <2>1. ASSUME NEW r \in Reqs
        PROVE  /\ Settled(r)' >= 0 /\ Len0(r)' <= Len(table'[r]) * BlockSize /\ Len0(r)' <= MaxBlocks * BlockSize
               /\ Len(table'[r]) <= BlocksFor(Settled(r)' + 1)
    <3>1. Settled(r)' \in Nat /\ Settled(r) = Len0(r) /\ Len0(r) \in Nat /\ Len0(r)' \in Nat
          /\ Settled(r)' >= Len0(r) /\ Len0(r)' <= Settled(r)' + 1
      BY <1>3
    <3>2. Len0(r)' <= Len(table'[r]) * BlockSize
      BY <1>1, <1>2, PlaceAfter
    <3>3. Len0(r)' <= MaxBlocks * BlockSize
      <4>1. CASE r \in S
        <5>1. Len0(r)' = Len0(r) + k[r]
          BY <1>2, <4>1, RowsAfter
        <5>2. QED
          BY <1>2, <4>1, <5>1 DEF Allots
      <4>2. CASE r \notin S
        <5>1. Len0(r)' = Len0(r)
          BY <1>2, <4>2, RowsAfter
        <5>2. QED
          BY <5>1 DEF IInv, PagesEnough
      <4>3. QED
        BY <4>1, <4>2
    <3>4. Len(table'[r]) <= BlocksFor(Settled(r)' + 1)
      <4>1. CASE r \in S
        <5>1. Len(table'[r]) = BlocksFor(Len0(r)')
          <6>1. Len0(r)' = Len0(r) + k[r] /\ Len(table'[r]) = BlocksFor(Len0(r) + k[r])
            BY <1>2, <4>1, RowsAfter, PageSource
          <6>2. QED
            BY <6>1
        <5>2. QED
          BY <3>1, <5>1, BlocksMono
      <4>2. CASE r \notin S
        <5>1. Len(table'[r]) = Len(table[r]) /\ Len(table[r]) \in Nat
          BY <1>2, <4>2, PageSource
        <5>2. Len(table[r]) <= BlocksFor(Len0(r) + 1)
          BY <3>1 DEF IInv, PagesEnough
        <5>3. Len0(r) + 1 \in Nat /\ Settled(r)' + 1 \in Nat /\ Len0(r) + 1 <= Settled(r)' + 1
          BY <3>1
        <5>4. BlocksFor(Len0(r) + 1) <= BlocksFor(Settled(r)' + 1)
              /\ BlocksFor(Len0(r) + 1) \in Nat /\ BlocksFor(Settled(r)' + 1) \in Nat
          BY <5>3, BlocksMono, BlocksBound
        <5>5. QED
          BY <5>1, <5>2, <5>4
      <4>3. QED
        BY <4>1, <4>2
    <3>5. QED
      BY <3>1, <3>2, <3>3, <3>4
  <2>2. QED
    BY <2>1 DEF PagesEnough
<1>7. Stored'
  <2>1. ASSUME NEW r \in Reqs, NEW p \in 0..(Len0(r)' - 1)
        PROVE  /\ pool'[table'[r][p \div BlockSize + 1]][p % BlockSize] = rows'[r][p + 1]
               /\ index'[table'[r][p \div BlockSize + 1]][p % BlockSize] = rows'[r][p + 1]
    <3> DEFINE pg == table'[r][p \div BlockSize + 1]
               t == p % BlockSize
    <3>1. pg \in Pages /\ t \in Tokens /\ p \in Nat
      BY <1>1, <1>2, PlaceAfter
    <3>2. CASE r \in S /\ p \in New(r, k[r])
      BY <1>1, <1>2, <3>1, <3>2, PlaceHolds
    <3>3. CASE ~(r \in S /\ p \in New(r, k[r]))
      <4>1. p \in 0..(Len0(r) - 1)
        <5>1. Len0(r) \in Nat
          BY <1>3
        <5>2. CASE r \in S
          <6>1. Len0(r)' = Len0(r) + k[r] /\ k[r] \in Nat
            BY <1>2, <5>2, RowsAfter
          <6>2. p \notin Len0(r)..(Len0(r) + k[r] - 1)
            BY <3>3, <5>2 DEF New
          <6>3. QED
            BY <3>1, <5>1, <6>1, <6>2
        <5>3. CASE r \notin S
          <6>1. Len0(r)' = Len0(r)
            BY <1>2, <5>3, RowsAfter
          <6>2. QED
            BY <6>1
        <5>4. QED
          BY <5>2, <5>3
      <4>2. \A o \in S : \A q \in New(o, k[o]) : ~(table'[o][q \div BlockSize + 1] = pg /\ q % BlockSize = t)
        <5>1. ASSUME NEW o \in S, NEW q \in New(o, k[o]), table'[o][q \div BlockSize + 1] = pg, q % BlockSize = t PROVE FALSE
          <6>1. o = r /\ q = p
            BY <1>1, <1>2, <5>1, OnePlace
          <6>2. QED
            BY <3>3, <6>1
        <5>2. QED
          BY <5>1
      <4>3. pool'[pg][t] = pool[pg][t] /\ index'[pg][t] = index[pg][t]
        <5> HIDE DEF pg, t
        <5>1. QED
          BY <1>1, <1>2, <3>1, <4>2, PlaceHolds
      <4>4. pg = table[r][p \div BlockSize + 1]
        <5>1. p \div BlockSize + 1 \in DOMAIN table[r]
          BY <4>1, PlaceOf DEF IInv
        <5>2. p \div BlockSize + 1 \in 1..Len(table[r])
          BY <1>2, <5>1, PageSource
        <5>3. QED
          BY <1>2, <5>2, PageSource
      <4>5. p + 1 \in 1..Len0(r)
        BY <4>1, PlaceOf DEF IInv
      <4>6. rows'[r][p + 1] = rows[r][p + 1]
        BY <1>2, <4>5, RowsAfter
      <4>7. pool[pg][t] = rows[r][p + 1] /\ index[pg][t] = rows[r][p + 1]
        BY <4>1, <4>4 DEF IInv, Stored
      <4>8. QED
        BY <4>3, <4>6, <4>7
    <3>4. QED
      BY <3>2, <3>3
  <2>2. QED
    BY <2>1 DEF Stored
<1>8. QED
  BY <1>4, <1>5, <1>6, <1>7 DEF IInv

LEMMA StepInv == IInv /\ [Next]_vars => IInv'
<1> SUFFICES ASSUME IInv, [Next]_vars PROVE IInv'
  OBVIOUS
<1>1. CASE UNCHANGED vars
  <2>1. \A r \in Reqs : Settled(r)' = Settled(r) /\ Len0(r)' = Len0(r)
    BY <1>1 DEF vars, Settled, Rejectable, Len0, Calling
  <2>2. /\ free' = free /\ table' = table /\ rows' = rows /\ versions' = versions /\ pool' = pool
        /\ index' = index /\ cap' = cap /\ capacity' = capacity /\ call' = call /\ calls' = calls
    BY <1>1 DEF vars
  <2>3. TypeOK'
    BY <2>2 DEF IInv, TypeOK, Calling
  <2>4. PagesApart'
    BY <2>1, <2>2 DEF IInv, PagesApart
  <2>5. PagesEnough'
    BY <2>1, <2>2 DEF IInv, PagesEnough
  <2>6. Stored'
    BY <2>1, <2>2 DEF IInv, Stored
  <2>7. QED
    BY <2>3, <2>4, <2>5, <2>6 DEF IInv
<1>2. ASSUME NEW r \in Reqs, NEW o \in Reqs, Share(r, o) PROVE IInv'
  BY <1>2, ShareInv
<1>3. ASSUME NEW r \in Reqs, Finish(r) PROVE IInv'
  BY <1>3, FinishInv
<1>4. CASE InsertPrefill
  <2>1. PICK members \in {Sorted(X) : X \in (SUBSET Reqs) \ {{}}} :
           \E lens \in [DOMAIN members -> Chunks] : Insert("prefill", members, lens, 0)
    BY <1>4 DEF InsertPrefill
  <2>2. PICK S \in (SUBSET Reqs) \ {{}} : members = Sorted(S)
    BY <2>1
  <2>3. PICK lens \in [DOMAIN members -> Chunks] : Insert("prefill", members, lens, 0)
    BY <2>1
  <2>4. lens \in [1..Cardinality(S) -> Nat \ {0}]
    <3>1. DOMAIN members = 1..Cardinality(S)
      BY <2>2, Members
    <3>2. Chunks \subseteq Nat \ {0}
      BY AttentionAssumption
    <3>3. QED
      BY <2>3, <3>1, <3>2
  <2>5. QED
    BY <2>2, <2>3, <2>4, InsertInv
<1>5. CASE InsertDecode
  <2>1. PICK members \in {Sorted(X) : X \in {T \in (SUBSET Reqs) \ {{}} : \A r \in T : Len0(r) > 0}} :
           \E n \in DecodeLens : Insert("decode", members, [i \in DOMAIN members |-> n], (-Len(members)) % CaptureSize)
    BY <1>5 DEF InsertDecode
  <2>2. PICK S \in (SUBSET Reqs) \ {{}} : members = Sorted(S)
    BY <2>1
  <2>3. PICK n \in DecodeLens : Insert("decode", members, [i \in DOMAIN members |-> n], (-Len(members)) % CaptureSize)
    BY <2>1
  <2>4. [i \in DOMAIN members |-> n] \in [1..Cardinality(S) -> Nat \ {0}]
    <3>1. n \in Nat \ {0}
      BY <2>3, AttentionAssumption
    <3>2. DOMAIN members = 1..Cardinality(S)
      BY <2>2, Members
    <3>3. QED
      BY <3>1, <3>2
  <2> DEFINE lens == [i \in DOMAIN members |-> n]
             padding == (-Len(members)) % CaptureSize
  <2> HIDE DEF lens, padding
  <2>5. Insert("decode", Sorted(S), lens, padding) /\ lens \in [1..Cardinality(S) -> Nat \ {0}]
    BY <2>2, <2>3, <2>4 DEF lens, padding
  <2>6. QED
    BY <2>5, InsertInv
<1>6. CASE Prefill
  BY <1>6, PrefillInv
<1>7. CASE Decode
  BY <1>7, DecodeInv
<1>8. CASE Return
  BY <1>8, ReturnInv
<1>9. QED
  BY <1>1, <1>2, <1>3, <1>4, <1>5, <1>6, <1>7, <1>8 DEF Next

LEMMA Invariance == Spec => []IInv
BY InitInv, StepInv, PTL DEF Spec

-----------------------------------------------------------------------------
(* The forward in progress.                                                *)

\* A forward of k members, the i-th of which brought lens[i] tokens.
Forward(k, lens) ==
    /\ k \in Nat \ {0} /\ lens \in [1..k -> Nat \ {0}]
    /\ call.members \in [1..k -> Reqs]
    /\ PrefixSums(call.cu, k, lens)
    /\ call.prefix \in [1..k -> Nat]
    /\ \A i \in 1..k : Len0(call.members[i]) = call.prefix[i] + lens[i]

\* What an attention call finds was inserted for it.
CallFits ==
    call.phase = "inserted" =>
        \E k \in Nat, n \in Nat \ {0} : \E lens \in [1..k -> Nat \ {0}] :
            /\ Forward(k, lens) /\ call.padding \in Nat
            /\ call.kind = "decode" => lens = [i \in 1..k |-> n]

LEMMA InsertFits ==
    ASSUME IInv, NEW kind, NEW S \in (SUBSET Reqs) \ {{}}, NEW lens \in [1..Cardinality(S) -> Nat \ {0}], NEW padding \in Nat,
           Insert(kind, Sorted(S), lens, padding), kind = "decode" => \E n \in Nat \ {0} : lens = [i \in 1..Cardinality(S) |-> n]
    PROVE  CallFits'
<1> DEFINE k == Cardinality(S)
           members == Sorted(S)
<1>1. /\ members \in [1..k -> S] /\ DOMAIN members = 1..k /\ Range(members) = S /\ k \in Nat
      /\ \A i, j \in 1..k : members[i] = members[j] => i = j
      /\ \A x \in S : \E i \in 1..k : members[i] = x
  BY Members
<1> HIDE DEF k, members
<1>2. k # 0
  <2>1. PICK x : x \in S
    <3>1. S # {}
      OBVIOUS
    <3>2. QED
      BY <3>1
  <2>2. PICK i \in 1..k : members[i] = x
    BY <1>1, <2>1
  <2>3. QED
    BY <1>1, <2>2
<1>3. /\ call'.phase = "inserted" /\ call'.kind = kind /\ call'.members = members /\ call'.padding = padding
      /\ call'.cu = CuSeqlens(lens) /\ call'.prefix = [i \in DOMAIN members |-> Len0(members[i])]
  BY DEF Insert, members
<1>4. PrefixSums(call'.cu, k, lens)
  <2>1. lens \in [1..k -> Nat]
    BY DEF k
  <2>2. QED
    BY <1>1, <1>3, <2>1, CuFacts
<1>5. PICK l, a, total, toks : Allots(S, l, a, total) /\ \A i \in 1..k : l[members[i]] = lens[i]
  <2>1. PICK l, a, total, toks : /\ Allots(S, l, a, total) /\ Stores(S, l, toks)
                                 /\ \A i \in 1..Cardinality(S) : l[Sorted(S)[i]] = lens[i]
    BY InsertShape
  <2>2. QED
    BY <2>1 DEF k, members
<1>6. \A i \in 1..k : members[i] \in S /\ members[i] \in Reqs /\ Len0(members[i]) \in Nat
  BY <1>1, RequestType DEF IInv
<1>7. call'.prefix \in [1..k -> Nat] /\ \A i \in 1..k : Len(rows'[members[i]]) = call'.prefix[i] + lens[i]
  <2>1. call'.prefix \in [1..k -> Nat] /\ \A i \in 1..k : call'.prefix[i] = Len0(members[i])
    BY <1>1, <1>3, <1>6
  <2>2. ASSUME NEW r \in S PROVE Len(rows'[r]) = Len0(r) + l[r]
    BY <1>5, RowsAfter DEF Len0
  <2>3. QED
    BY <1>5, <1>6, <2>1, <2>2
<1>8. Forward(k, lens)'
  <2>1. call'.members \in [1..k -> Reqs]
    BY <1>1, <1>3
  <2>2. k \in Nat \ {0} /\ lens \in [1..k -> Nat \ {0}]
    BY <1>1, <1>2 DEF k
  <2>3. \A i \in 1..k : Len(rows'[call'.members[i]]) = call'.prefix[i] + lens[i]
    BY <1>3, <1>7
  <2>4. QED
    BY <1>4, <1>7, <2>1, <2>2, <2>3 DEF Forward, Len0
<1>9. \E n \in Nat \ {0} : kind = "decode" => lens = [i \in 1..k |-> n]
  BY DEF k
<1>10. QED
  <2>1. PICK n \in Nat \ {0} : kind = "decode" => lens = [i \in 1..k |-> n]
    BY <1>9
  <2>2. lens \in [1..k -> Nat \ {0}] /\ call'.padding \in Nat
    BY <1>3 DEF k
  <2>3. call'.kind = "decode" => lens = [i \in 1..k |-> n]
    BY <1>3, <2>1
  <2>4. \E ls \in [1..k -> Nat \ {0}] : Forward(k, ls)' /\ call'.padding \in Nat /\ (call'.kind = "decode" => ls = [i \in 1..k |-> n])
    BY <1>8, <2>2, <2>3
  <2>5. QED
    BY <1>1, <2>1, <2>4 DEF CallFits

-----------------------------------------------------------------------------
(* The queries of a forward.                                               *)

\* A query belongs to one member, and has a position behind the prefix of it.
LEMMA QueryOf ==
    ASSUME NEW k, NEW lens, Forward(k, lens)
    PROVE  /\ TotalQ = call.cu[k + 1] /\ TotalQ \in Nat \ {0} /\ DOMAIN call.members = 1..k
           /\ \A i \in 1..(k + 1) : call.cu[i] \in Nat /\ call.cu[i] <= TotalQ
           /\ \A i \in 1..k : call.cu[i + 1] = call.cu[i] + lens[i] /\ lens[i] \in Nat \ {0}
           /\ call.cu[1] = 0
           /\ \A q \in 1..TotalQ : /\ MemberOf(q) \in 1..k /\ call.cu[MemberOf(q)] < q /\ q <= call.cu[MemberOf(q) + 1]
                                   /\ \A m \in 1..k : call.cu[m] < q /\ q <= call.cu[m + 1] => m = MemberOf(q)
<1> DEFINE cu == call.cu
           Has(q, m) == cu[m] < q /\ q <= cu[m + 1]
<1>1. /\ k \in Nat \ {0} /\ lens \in [1..k -> Nat \ {0}] /\ lens \in [1..k -> Nat] /\ PrefixSums(cu, k, lens)
      /\ call.members \in [1..k -> Reqs]
  BY DEF Forward
<1>2. /\ cu \in Seq(Nat) /\ Len(cu) = k + 1 /\ cu[1] = 0
      /\ \A i \in 1..k : cu[i + 1] = cu[i] + lens[i] /\ lens[i] \in Nat \ {0}
  BY <1>1 DEF PrefixSums
<1>3. TotalQ = cu[k + 1] /\ DOMAIN call.members = 1..k
  BY <1>1, <1>2 DEF TotalQ, Last
<1> HIDE DEF cu
<1>4. \A i \in 1..(k + 1) : \A j \in i..(k + 1) : cu[i] <= cu[j] /\ cu[i] \in Nat /\ cu[j] \in Nat
  BY <1>1, SumsMono
<1>5. \A i \in 1..(k + 1) : cu[i] \in Nat /\ cu[i] <= TotalQ
  BY <1>1, <1>3, <1>4
<1>6. TotalQ \in Nat \ {0}
  <2>1. cu[2] = cu[1] + lens[1] /\ cu[2] <= TotalQ /\ lens[1] \in Nat \ {0}
    BY <1>1, <1>2, <1>5
  <2>2. QED
    BY <1>1, <1>2, <1>3, <1>5, <2>1
<1>7. ASSUME NEW q \in 1..TotalQ PROVE \E m \in 1..k : Has(q, m)
  <2> DEFINE S == {i \in 0..k : q <= cu[i + 1] => \E m \in 1..k : Has(q, m)}
  <2>1. 0 \in S
    BY <1>2, <1>1
  <2>2. ASSUME NEW i \in 1..k, i - 1 \in S PROVE i \in S
    <3>1. q <= cu[i] => \E m \in 1..k : Has(q, m)
      BY <2>2
    <3>2. cu[i] \in Nat /\ i \in 0..k
      BY <1>1, <1>5
    <3>3. CASE q <= cu[i]
      BY <3>1, <3>2, <3>3
    <3>4. CASE ~(q <= cu[i])
      BY <3>2, <3>4
    <3>5. QED
      BY <3>3, <3>4
  <2> HIDE DEF S
  <2>3. k \in S
    <3>1. \A i \in 0..k : i \in S
      BY <1>1, <2>1, <2>2, StepsInduct
    <3>2. QED
      BY <1>1, <3>1
  <2>4. QED
    BY <1>3, <2>3 DEF S
<1>8. ASSUME NEW q \in 1..TotalQ, NEW m \in 1..k, NEW n \in 1..k, Has(q, m), Has(q, n) PROVE m = n
  <2>1. ASSUME NEW a \in 1..k, NEW b \in 1..k, Has(q, a), Has(q, b) PROVE ~(a < b)
    <3>1. SUFFICES ASSUME a < b PROVE FALSE
      OBVIOUS
    <3>2. a + 1 \in 1..(k + 1) /\ b \in (a + 1)..(k + 1)
      BY <1>1, <3>1
    <3>3. cu[a + 1] <= cu[b] /\ cu[a + 1] \in Nat /\ cu[b] \in Nat
      BY <1>4, <3>2
    <3>4. QED
      BY <2>1, <3>3
  <2>2. ~(m < n) /\ ~(n < m)
    BY <1>8, <2>1
  <2>3. QED
    BY <1>1, <2>2
<1>9. ASSUME NEW q \in 1..TotalQ
      PROVE  MemberOf(q) \in 1..k /\ Has(q, MemberOf(q)) /\ \A m \in 1..k : Has(q, m) => m = MemberOf(q)
  <2>1. MemberOf(q) = CHOOSE m \in 1..k : Has(q, m)
    BY <1>3 DEF MemberOf, cu
  <2>2. MemberOf(q) \in 1..k /\ Has(q, MemberOf(q))
    <3> HIDE DEF Has
    <3>1. QED
      BY <1>7, <2>1
  <2>3. QED
    BY <1>8, <2>2
<1>10. QED
  BY <1>2, <1>3, <1>5, <1>6, <1>9 DEF cu

\* The blocks up to a position.
LEMMA BlocksUpTo ==
    ASSUME NEW pos \in Nat
    PROVE  /\ NBlocks(pos) = BlocksFor(pos + 1) /\ NBlocks(pos) \in Nat \ {0}
           /\ \A p \in 0..pos : p \div BlockSize \in 0..(NBlocks(pos) - 1) /\ p % BlockSize \in Tokens
                                /\ p = (p \div BlockSize) * BlockSize + (p % BlockSize)
           /\ \A m \in Nat : pos < m * BlockSize => NBlocks(pos) <= m
           /\ \A b \in Nat, t \in Tokens : b * BlockSize + t \in Nat /\ (b * BlockSize + t) \div BlockSize = b
                                           /\ (b * BlockSize + t) % BlockSize = t
<1>1. NBlocks(pos) = BlocksFor(pos + 1)
  <2>1. (pos + 1) + BlockSize - 1 = pos + BlockSize
    BY Natural
  <2>2. QED
    BY <2>1 DEF NBlocks, BlocksFor
<1> DEFINE n == NBlocks(pos)
<1>2. n \in Nat /\ pos + 1 <= n * BlockSize /\ n * BlockSize < (pos + 1) + BlockSize /\ n * BlockSize \in Int
  <2>1. BlocksFor(pos + 1) \in Nat /\ pos + 1 <= BlocksFor(pos + 1) * BlockSize
        /\ BlocksFor(pos + 1) * BlockSize < (pos + 1) + BlockSize
    BY BlocksBound
  <2> HIDE DEF n
  <2>2. n \in Nat /\ n * BlockSize \in Int
    BY <1>1, <2>1, Natural, MulMono DEF n
  <2>3. QED
    BY <1>1, <2>1, <2>2 DEF n
<1> HIDE DEF n
<1>3. n # 0
  <2>1. 0 * BlockSize = 0
    BY Natural
  <2>2. QED
    BY <1>2, <2>1
<1>4. ASSUME NEW p \in 0..pos
      PROVE  /\ p \div BlockSize \in 0..(n - 1) /\ p % BlockSize \in Tokens
             /\ p = (p \div BlockSize) * BlockSize + (p % BlockSize)
  <2>1. p \in Nat /\ p < n * BlockSize
    <3> DEFINE z == n * BlockSize
    <3>1. z \in Int /\ pos + 1 <= z
      BY <1>2
    <3> HIDE DEF z
    <3>2. p \in Nat /\ p < z
      BY <3>1
    <3>3. QED
      BY <3>2 DEF z
  <2>2. p \div BlockSize \in 0..(n - 1) /\ p % BlockSize \in Tokens
    BY <1>2, <2>1, BlockAmong
  <2>3. p = BlockSize * (p \div BlockSize) + (p % BlockSize) /\ p \div BlockSize \in Int
    BY <2>1, Natural, DivMod, SMTT(30)
  <2>4. BlockSize * (p \div BlockSize) = (p \div BlockSize) * BlockSize
    BY <2>3, Natural, MulMono
  <2>5. QED
    BY <2>2, <2>3, <2>4
<1>5. ASSUME NEW m \in Nat, pos < m * BlockSize PROVE n <= m
  <2>1. SUFFICES ASSUME m + 1 <= n PROVE FALSE
    BY <1>2
  <2>2. (m + 1) * BlockSize <= n * BlockSize /\ (m + 1) * BlockSize = m * BlockSize + BlockSize
        /\ m * BlockSize \in Int
    BY <2>1, <1>2, Natural, MulMono, SMT
  <2> DEFINE x == m * BlockSize
             y == n * BlockSize
  <2>3. pos < x /\ y < (pos + 1) + BlockSize /\ x + BlockSize <= y /\ x \in Int /\ y \in Int
    BY <1>2, <1>5, <2>2
  <2> HIDE DEF x, y
  <2>4. QED
    BY <2>3, Natural
<1>6. ASSUME NEW b \in Nat, NEW t \in Tokens
      PROVE  b * BlockSize + t \in Nat /\ (b * BlockSize + t) \div BlockSize = b /\ (b * BlockSize + t) % BlockSize = t
  <2>1. b * BlockSize \in Nat /\ t \in 0..(BlockSize - 1) /\ t \in Nat
    BY Natural DEF Tokens
  <2>2. b * BlockSize + t \in Nat
    BY <2>1
  <2>3. QED
    BY <2>1, <2>2, Natural, DivUnique
<1>7. QED
  BY <1>1, <1>2, <1>3, <1>4, <1>5, <1>6 DEF n

-----------------------------------------------------------------------------
(* What is read of a query's request.                                      *)

\* Two readers besides the table's find every token's own row.
LEMMA DecodeReads == ASSUME NEW page, NEW h \in KvHeads, NEW side \in Sides, NEW t \in Tokens
                     PROVE  DecodeRow(page, h, side, t) = page[t]
<1> DEFINE s == Slot(h, side)
<1>1. s \in Slots
  BY SlotOf
<1> HIDE DEF s
<1>2. ASSUME NEW p \in Parts PROVE DecodeAddress[s][t][p] = PackAddress[s][t][p]
  <2>1. \A g : DecodeScaleOffset(s % 2, t, g) = PackScaleOffset(s % 2, t, g)
    <3>1. s % 2 \in {0, 1}
      BY <1>1, SMT DEF Slots
    <3>2. QED
      BY <3>1 DEF DecodeScaleOffset, PackScaleOffset
  <2>2. QED
    BY <1>1, <2>1 DEF DecodeAddress, PackAddress
<1>3. DecodeSees[s][t] = t
  BY <1>1, <1>2, SeesOwn DEF DecodeSees
<1>4. t # Nothing
  BY Natural DEF Tokens
<1>5. QED
  BY <1>3, <1>4 DEF DecodeRow, RowSeen, s

LEMMA StageReads == ASSUME NEW page, NEW h \in KvHeads, NEW side \in Sides, NEW t \in Tokens
                    PROVE  StageRow(page, h, side, t) = page[t]
<1> DEFINE s == Slot(h, side)
<1>1. s \in Slots
  BY SlotOf
<1> HIDE DEF s
<1>2. ASSUME NEW p \in Parts PROVE StageAddress[s][t][p] = PackAddress[s][t][p]
  <2>1. \A g : StageScaleOffset(s % 2, t, g) = PackScaleOffset(s % 2, t, g)
    <3>1. s % 2 \in {0, 1}
      BY <1>1, SMT DEF Slots
    <3>2. QED
      BY <3>1 DEF StageScaleOffset, PackScaleOffset
  <2>2. QED
    BY <1>1, <2>1 DEF StageAddress, PackAddress
<1>3. StageSees[s][t] = t
  BY <1>1, <1>2, SeesOwn DEF StageSees
<1>4. t # Nothing
  BY Natural DEF Tokens
<1>5. QED
  BY <1>3, <1>4 DEF StageRow, RowSeen, s

\* The position of a query was inserted, and its blocks have pages.
LEMMA PositionOf ==
    ASSUME IInv, NEW k, NEW lens, Forward(k, lens), NEW q \in 1..TotalQ, NEW r, r = call.members[MemberOf(q)]
    PROVE  /\ r \in Reqs /\ MemberOf(q) \in 1..k /\ Position(q) \in Nat /\ Position(q) < Len0(r) /\ Len0(r) \in Nat
           /\ Position(q) = call.prefix[MemberOf(q)] + q - call.cu[MemberOf(q)] - 1
           /\ NBlocks(Position(q)) \in 1..MaxBlocks /\ NBlocks(Position(q)) <= Len(table[r])
           /\ table[r] \in Seq(Pages) /\ Len(table[r]) \in Nat
<1> DEFINE m == MemberOf(q)
           pos == Position(q)
<1>1. /\ k \in Nat \ {0} /\ call.members \in [1..k -> Reqs] /\ call.prefix \in [1..k -> Nat]
      /\ \A i \in 1..k : Len0(call.members[i]) = call.prefix[i] + lens[i]
  BY DEF Forward
<1>2. /\ m \in 1..k /\ call.cu[m] < q /\ q <= call.cu[m + 1] /\ call.cu[m + 1] = call.cu[m] + lens[m]
      /\ lens[m] \in Nat \ {0} /\ call.cu[m] \in Nat /\ q \in Nat /\ call.prefix[m] \in Nat
  <2>1. TotalQ \in Nat /\ m \in 1..k /\ call.cu[m] < q /\ q <= call.cu[m + 1]
    BY QueryOf
  <2>2. \A i \in 1..k : call.cu[i + 1] = call.cu[i] + lens[i] /\ lens[i] \in Nat \ {0}
    BY QueryOf
  <2>3. \A i \in 1..(k + 1) : call.cu[i] \in Nat
    BY QueryOf
  <2>4. m \in 1..(k + 1)
    BY <1>1, <2>1
  <2>5. QED
    BY <1>1, <2>1, <2>2, <2>3, <2>4
<1>3. pos = call.prefix[m] + q - call.cu[m] - 1
  BY DEF Position
<1>4. r \in Reqs /\ Len0(r) = call.prefix[m] + lens[m]
  BY <1>1, <1>2
<1> HIDE DEF m, pos
<1>5. pos \in Nat /\ pos < Len0(r) /\ Len0(r) \in Nat
  <2> DEFINE c == call.cu[m]
             p == call.prefix[m]
             l == lens[m]
  <2>1. c < q /\ q <= c + l /\ c \in Nat /\ p \in Nat /\ q \in Nat /\ l \in Nat /\ pos = p + q - c - 1 /\ Len0(r) = p + l
    BY <1>2, <1>3, <1>4
  <2> HIDE DEF c, p, l
  <2>2. QED
    BY <2>1
<1>6. /\ table[r] \in Seq(Pages) /\ Len(table[r]) \in Nat
      /\ Len0(r) <= Len(table[r]) * BlockSize /\ Len0(r) <= MaxBlocks * BlockSize
  BY <1>4, RequestType DEF IInv, PagesEnough
<1>7. NBlocks(pos) \in Nat \ {0} /\ NBlocks(pos) <= Len(table[r]) /\ NBlocks(pos) <= MaxBlocks
  <2>1. MaxBlocks \in Nat
    BY AttentionAssumption
  <2>2. pos < Len(table[r]) * BlockSize
    <3> DEFINE z == Len(table[r]) * BlockSize
    <3>1. z \in Int /\ Len0(r) <= z
      BY <1>6, Natural, MulMono
    <3> HIDE DEF z
    <3>2. pos < z
      BY <1>5, <3>1
    <3>3. QED
      BY <3>2 DEF z
  <2>3. pos < MaxBlocks * BlockSize
    <3> DEFINE z == MaxBlocks * BlockSize
    <3>1. z \in Int /\ Len0(r) <= z
      BY <1>6, <2>1, Natural, MulMono
    <3> HIDE DEF z
    <3>2. pos < z
      BY <1>5, <3>1
    <3>3. QED
      BY <3>2 DEF z
  <2>4. /\ NBlocks(pos) \in Nat \ {0}
        /\ \A n \in Nat : pos < n * BlockSize => NBlocks(pos) <= n
    BY <1>5, BlocksUpTo
  <2>5. QED
    BY <1>6, <2>1, <2>2, <2>3, <2>4
<1>8. NBlocks(pos) \in 1..MaxBlocks
  BY <1>7, AttentionAssumption
<1>9. QED
  BY <1>2, <1>3, <1>4, <1>5, <1>6, <1>7, <1>8 DEF m, pos

\* Padding a block table leaves its pages where they are.
LEMMA PadFront == ASSUME NEW s \in Seq(Pages), NEW i \in 1..Len(s) PROVE Pad(s)[i] = s[i]
<1> DEFINE z == [j \in 1..(MaxBlocks - Len(s)) |-> 0]
<1>1. Len(s) \in Nat /\ MaxBlocks \in Nat
  BY LenProperties, AttentionAssumption
<1>2. z \in Seq(Int) /\ Len(z) \in Nat
  <2>1. CASE MaxBlocks - Len(s) \in Nat
    <3> DEFINE n == MaxBlocks - Len(s)
    <3>1. n \in Nat /\ z = [j \in 1..n |-> 0]
      BY <2>1
    <3> HIDE DEF n
    <3>2. z \in [1..n -> Int]
      BY <3>1
    <3>3. z \in Seq(Int)
      <4>1. \A f \in [1..n -> Int] : f \in Seq(Int)
        BY <3>1
      <4>2. QED
        BY <3>2, <4>1
    <3>4. QED
      BY <3>3, LenProperties
  <2>2. CASE ~(MaxBlocks - Len(s) \in Nat)
    <3>1. DOMAIN z = {}
      BY <1>1, <2>2
    <3>2. z = <<>>
      BY <3>1
    <3>3. QED
      BY <3>2, EmptySeq
  <2>3. QED
    BY <2>1, <2>2
<1>3. s \in Seq(Int)
  <2>1. \A x \in Pages : x \in Int
    BY DEF Pages
  <2>2. Pages \subseteq Int
    BY <2>1
  <2>3. QED
    BY <2>2, SeqMonotonic
<1>4. Pad(s) = s \o z
  BY DEF Pad
<1> HIDE DEF z
<1>5. i \in 1..(Len(s) + Len(z)) /\ i <= Len(s)
  BY <1>1, <1>2
<1>6. (s \o z)[i] = s[i]
  BY <1>2, <1>3, <1>5, ConcatProperties
<1>7. QED
  BY <1>4, <1>6

\* The page that holds a place of a block, and the row there.
LEMMA PoolReads ==
    ASSUME IInv, NEW r \in Reqs, NEW b \in Nat, NEW t \in Tokens, b * BlockSize + t < Len0(r)
    PROVE  /\ b + 1 \in 1..Len(table[r]) /\ Pad(table[r])[b + 1] = table[r][b + 1] /\ table[r][b + 1] \in Pages
           /\ pool[Pad(table[r])[b + 1]][t] = rows[r][b * BlockSize + t + 1]
<1> DEFINE p == b * BlockSize + t
<1>1. t \in Nat
  BY DEF Tokens
<1>2. p \in Nat /\ p \div BlockSize = b /\ p % BlockSize = t
  BY <1>1, BlocksUpTo
<1>3. p < Len0(r) /\ Len0(r) \in Nat
  BY RequestType DEF IInv
<1> HIDE DEF p
<1>4. p \in 0..(Len0(r) - 1)
  BY <1>2, <1>3
<1>5. b + 1 \in DOMAIN table[r] /\ table[r][b + 1] \in Pages
  BY <1>2, <1>4, PlaceOf DEF IInv
<1>6. table[r] \in Seq(Pages) /\ DOMAIN table[r] = 1..Len(table[r])
  BY RequestType DEF IInv
<1>7. pool[table[r][b + 1]][t] = rows[r][p + 1]
  BY <1>2, <1>4 DEF IInv, Stored
<1>8. Pad(table[r])[b + 1] = table[r][b + 1]
  BY <1>5, <1>6, PadFront
<1>9. QED
  BY <1>5, <1>6, <1>7, <1>8 DEF p

-----------------------------------------------------------------------------
(* What the indexer selects.                                               *)

\* What may be selected for queries of so many blocks.
SelectionsOf(blocks) == FoldLeft(LAMBDA acc, m : {Append(s, x) : s \in acc, x \in Picks(m)}, {<<>>}, blocks)

LEMMA SelectionRows ==
    ASSUME NEW n \in Nat, NEW blocks, DOMAIN blocks = 1..n,
           NEW sel \in SelectionsOf(blocks)
    PROVE  \A q \in 1..n : sel[q] \in Picks(blocks[q])
<1> DEFINE U == UNION {Picks(blocks[q]) : q \in 1..n}
           V == SUBSET Seq(U)
           Op(acc, m) == {Append(s, x) : s \in acc, x \in Picks(m)}
           G == [i \in 1..n |-> [v \in V |-> Op(v, blocks[i])]]
           base == {<<>>}
           iter == CHOOSE f : f = [t \in SUBSET (DOMAIN blocks) |->
                                     IF t = {} THEN base ELSE Op(f[t \ {Max(t)}], blocks[Max(t)])]
<1>1. base \in V
  BY EmptySeq
<1>2. ASSUME NEW v \in V, NEW i \in 1..n PROVE Op(v, blocks[i]) \in V
  <2>1. SUFFICES ASSUME NEW s \in v, NEW x \in Picks(blocks[i]) PROVE Append(s, x) \in Seq(U)
    OBVIOUS
  <2>2. s \in Seq(U) /\ x \in U
    OBVIOUS
  <2> HIDE DEF U
  <2>3. QED
    BY <2>2, AppendProperties
<1>3. sel \in iter[DOMAIN blocks]
  BY DEF SelectionsOf, FoldLeft, MapThenFoldSet
<1> HIDE DEF Op, base, V, U
<1>4. G \in [1..n -> [V -> V]] /\ \A v \in V, i \in 1..n : G[i][v] = Op(v, blocks[i])
  BY <1>1, <1>2
<1> HIDE DEF G
<1>5. PICK f : Unfolds(f, V, base, n, G)
  BY <1>1, <1>4, FoldSolution
<1>6. ASSUME NEW t \in SUBSET (1..n), t # {} PROVE f[t] = Op(f[t \ {Max(t)}], blocks[Max(t)])
  <2>1. Max(t) \in 1..n /\ f[t \ {Max(t)}] \in V
    BY <1>1, <1>5, <1>6, MaxIn DEF Unfolds
  <2>2. QED
    BY <1>4, <1>5, <1>6, <2>1 DEF Unfolds
<1>7. f = [t \in SUBSET (1..n) |-> IF t = {} THEN base ELSE Op(f[t \ {Max(t)}], blocks[Max(t)])]
  BY <1>5, <1>6 DEF Unfolds
<1>8. iter = [t \in SUBSET (1..n) |-> IF t = {} THEN base ELSE Op(iter[t \ {Max(t)}], blocks[Max(t)])]
  BY <1>7
<1>14. sel \in iter[1..n]
  BY <1>3
<1> HIDE DEF iter
<1>9. iter[{}] = base /\ \A i \in 1..n : iter[1..i] = Op(iter[1..(i - 1)], blocks[i])
  <2>1. iter[{}] = base
    BY <1>8
  <2>2. ASSUME NEW i \in 1..n PROVE iter[1..i] = Op(iter[1..(i - 1)], blocks[i])
    <3>1. 1..i \in SUBSET (1..n) /\ 1..i # {} /\ Max(1..i) = i /\ (1..i) \ {Max(1..i)} = 1..(i - 1)
      BY <1>1, UpTo
    <3>2. QED
      BY <1>8, <3>1
  <2>3. QED
    BY <2>1, <2>2
<1>10. PICK h : RunsThrough(h, V, base, n, G) /\ h[n] = iter[1..n]
  <2>1. Iterates(iter, V, base, n, G)
    BY <1>4, <1>9 DEF Iterates
  <2>2. G \in [1..n -> [V -> V]]
    BY <1>4
  <2>3. QED
    BY <1>1, <2>1, <2>2, FoldRun, SMTT(60)
<1> DEFINE Right(s, i) == Len(s) = i /\ \A j \in 1..i : s[j] \in Picks(blocks[j])
           S == {i \in 0..n : \A s \in h[i] : Right(s, i)}
<1>11. 0 \in S
  <2>1. h[0] = {<<>>}
    BY <1>10 DEF RunsThrough, base
  <2>2. \A s \in h[0] : Right(s, 0)
    BY <2>1
  <2>3. QED
    BY <2>2
<1>12. ASSUME NEW i \in 1..n, i - 1 \in S PROVE i \in S
  <2>1. h[i - 1] \in V /\ h[i] = Op(h[i - 1], blocks[i]) /\ \A s \in h[i - 1] : Right(s, i - 1)
    BY <1>4, <1>10, <1>12 DEF RunsThrough
  <2>2. ASSUME NEW s \in h[i] PROVE Right(s, i)
    <3>1. PICK z \in h[i - 1], x \in Picks(blocks[i]) : s = Append(z, x)
      BY <2>1, <2>2 DEF Op
    <3>2. z \in Seq(U) /\ x \in U /\ Len(z) = i - 1 /\ \A j \in 1..(i - 1) : z[j] \in Picks(blocks[j])
      BY <2>1, <3>1 DEF V, U
    <3>3. /\ Len(s) = (i - 1) + 1 /\ \A j \in 1..(i - 1) : s[j] = z[j]
          /\ s[(i - 1) + 1] = x
      BY <3>1, <3>2, AppendProperties
    <3>4. ASSUME NEW j \in 1..i PROVE s[j] \in Picks(blocks[j])
      <4>1. CASE j = i
        BY <3>1, <3>3, <4>1
      <4>2. CASE j \in 1..(i - 1)
        BY <3>2, <3>3, <4>2
      <4>3. QED
        BY <4>1, <4>2
    <3>5. QED
      BY <3>3, <3>4
  <2>3. QED
    BY <2>2
<1> HIDE DEF S
<1>13. n \in S
  <2>1. \A i \in 0..n : i \in S
    BY <1>11, <1>12, StepsInduct
  <2>2. QED
    BY <2>1
<1>15. sel \in h[n]
  BY <1>10, <1>14
<1>16. Right(sel, n)
  BY <1>13, <1>15 DEF S
<1>17. QED
  BY <1>16

\* Every query gets a row of topk_idx for its blocks.
LEMMA SelectionOf ==
    ASSUME NEW k, NEW lens, Forward(k, lens), NEW picks \in Selections, NEW q \in 1..TotalQ
    PROVE  picks[q] \in Picks(NBlocks(Position(q)))
<1> DEFINE blocks == [x \in 1..TotalQ |-> NBlocks(Position(x))]
<1>1. TotalQ \in Nat /\ DOMAIN blocks = 1..TotalQ /\ blocks[q] = NBlocks(Position(q))
  BY QueryOf
<1>2. picks \in SelectionsOf(blocks)
  BY DEF Selections, SelectionsOf, FoldLeft, MapThenFoldSet
<1> HIDE DEF blocks
<1>3. picks[q] \in Picks(blocks[q])
  BY <1>1, <1>2, SelectionRows
<1>4. QED
  BY <1>1, <1>3

-----------------------------------------------------------------------------
(* Decode: the chunks of a program.                                        *)

LEMMA OfTwo ==
    ASSUME NEW a \in Int, NEW b \in Int
    PROVE  /\ Max({a, b}) = (IF a >= b THEN a ELSE b) /\ Min({a, b}) = (IF a <= b THEN a ELSE b)
<1> DEFINE u == IF a >= b THEN a ELSE b
           l == IF a <= b THEN a ELSE b
<1>1. u \in {a, b} /\ (\A y \in {a, b} : u >= y) /\ \A x \in {a, b} : (\A y \in {a, b} : x >= y) => x = u
  OBVIOUS
<1>2. l \in {a, b} /\ (\A y \in {a, b} : l <= y) /\ \A x \in {a, b} : (\A y \in {a, b} : x <= y) => x = l
  OBVIOUS
<1> HIDE DEF u, l
<1>3. Max({a, b}) = u
  BY <1>1 DEF Max
<1>4. Min({a, b}) = l
  BY <1>2 DEF Min
<1>5. QED
  BY <1>3, <1>4 DEF u, l

\* Quotient and remainder of a number below a multiple.
LEMMA DivAmong ==
    ASSUME NEW p \in Nat, NEW m \in Nat, NEW w \in Nat \ {0}, p < m * w
    PROVE  p \div w \in 0..(m - 1) /\ p % w \in 0..(w - 1) /\ p = (p \div w) * w + (p % w)
<1> DEFINE d == p \div w
           t == p % w
<1>1. p = w * d + t /\ d \in Nat /\ t \in 0..(w - 1)
  <2>1. p \in Int
    OBVIOUS
  <2>2. p = w * d + t /\ t \in 0..(w - 1)
    BY <2>1, DivMod
  <2>3. d \in Nat
    BY DivNat
  <2>4. QED
    BY <2>2, <2>3
<1> HIDE DEF d, t
<1>2. w * d = d * w /\ d * w \in Int /\ m * w \in Int
  BY <1>1, SMT
<1>3. ASSUME m <= d PROVE FALSE
  <2>1. m * w <= d * w
    BY <1>1, <1>3, MulMono
  <2> DEFINE x == m * w
             y == d * w
  <2>2. x <= y /\ p = y + t /\ p < x /\ x \in Int /\ y \in Int
    BY <1>1, <1>2, <2>1
  <2> HIDE DEF x, y
  <2>3. QED
    BY <1>1, <2>2
<1>4. QED
  BY <1>1, <1>2, <1>3 DEF d, t

LEMMA CeilCovers ==
    ASSUME NEW n \in Nat \ {0}, NEW d \in Nat \ {0}
    PROVE  (n + d - 1) \div d \in Nat \ {0} /\ n <= d * ((n + d - 1) \div d)
<1> DEFINE a == n + d - 1
           w == a \div d
           t == a % d
<1>1. a \in Nat
  OBVIOUS
<1>2. a = d * w + t /\ w \in Nat /\ t \in 0..(d - 1)
  <2> HIDE DEF a
  <2>1. a \in Int
    BY <1>1
  <2>2. a = d * w + t /\ t \in 0..(d - 1)
    BY <2>1, DivMod
  <2>3. w \in Nat
    BY <1>1, DivNat
  <2>4. QED
    BY <2>2, <2>3
<1> HIDE DEF w, t
<1>3. d * w \in Int
  BY <1>2, SMT
<1>4. n <= d * w
  <2> DEFINE x == d * w
  <2>1. a = x + t /\ x \in Int
    BY <1>2, <1>3
  <2> HIDE DEF x
  <2>2. QED
    BY <1>2, <2>1 DEF x
<1>5. w # 0
  <2>1. d * 0 = 0
    OBVIOUS
  <2>2. QED
    BY <1>4, <2>1
<1>6. QED
  BY <1>2, <1>4, <1>5 DEF w

\* Every index into topk that has a block is walked over by one program.
LEMMA ChunksPartition ==
    ASSUME NEW chunks \in Nat \ {0}, NEW n \in Nat
    PROVE  /\ \A c \in 0..(chunks - 1) : \A i \in ChunkIndices(c, chunks, n) : i \in 0..(TopK - 1) /\ i < n
           /\ \A i \in 0..(TopK - 1) : i < n => \E c \in 0..(chunks - 1) : i \in ChunkIndices(c, chunks, n)
           /\ \A c, d \in 0..(chunks - 1) : \A i : i \in ChunkIndices(c, chunks, n) /\ i \in ChunkIndices(d, chunks, n) => c = d
<1> DEFINE w == (TopK + chunks - 1) \div chunks
<1>1. TopK \in Nat \ {0}
  BY AttentionAssumption
<1>2. w \in Nat \ {0} /\ TopK <= chunks * w
  BY <1>1, CeilCovers
<1>3. \A c : ChunkIndices(c, chunks, n) = (c * w)..(Min({c * w + w, Min({TopK, n})}) - 1)
  BY DEF ChunkIndices
<1> HIDE DEF w
<1>4. ASSUME NEW c \in 0..(chunks - 1)
      PROVE  c * w \in Nat /\ \A i : i \in ChunkIndices(c, chunks, n) <=> i \in Nat /\ c * w <= i /\ i < c * w + w /\ i < TopK /\ i < n
  <2> DEFINE x == c * w
  <2>1. x \in Nat
    BY <1>2
  <2>2. ChunkIndices(c, chunks, n) = x..(Min({x + w, Min({TopK, n})}) - 1)
    BY <1>3
  <2> HIDE DEF x
  <2> DEFINE l == Min({TopK, n})
  <2>3. l = IF TopK <= n THEN TopK ELSE n
    BY <1>1, OfTwo
  <2>4. l \in Int
    BY <1>1, <2>3
  <2> HIDE DEF l
  <2>5. Min({x + w, l}) = IF x + w <= l THEN x + w ELSE l
    BY <1>2, <2>1, <2>4, OfTwo
  <2>6. ASSUME NEW i PROVE i \in ChunkIndices(c, chunks, n) <=> i \in Nat /\ x <= i /\ i < x + w /\ i < TopK /\ i < n
    <3>1. i \in ChunkIndices(c, chunks, n) <=> i \in Int /\ x <= i /\ i <= Min({x + w, l}) - 1
      BY <2>2, <2>5, <2>4, <2>1, <1>2 DEF l
    <3>2. QED
      BY <1>1, <1>2, <2>1, <2>3, <2>4, <2>5, <3>1
  <2>7. QED
    BY <2>1, <2>6 DEF x
<1>5. ASSUME NEW c \in 0..(chunks - 1), NEW i \in ChunkIndices(c, chunks, n) PROVE i \in 0..(TopK - 1) /\ i < n
  <2>1. i \in Nat /\ i < TopK /\ i < n
    BY <1>4
  <2>2. QED
    BY <1>1, <2>1
<1>6. ASSUME NEW i \in 0..(TopK - 1), i < n PROVE \E c \in 0..(chunks - 1) : i \in ChunkIndices(c, chunks, n)
  <2> DEFINE c == i \div w
  <2>1. i \in Nat /\ i < TopK
    BY <1>1
  <2>2. i < chunks * w
    <3> DEFINE x == chunks * w
    <3>1. x \in Int /\ TopK <= x
      BY <1>2
    <3> HIDE DEF x
    <3>2. i < x
      BY <1>1, <2>1, <3>1
    <3>3. QED
      BY <3>2 DEF x
  <2>3. c \in 0..(chunks - 1) /\ i % w \in 0..(w - 1) /\ i = c * w + (i % w)
    BY <1>2, <2>1, <2>2, DivAmong
  <2> DEFINE t == i % w
             x == c * w
  <2>4. x \in Nat
    BY <1>4, <2>3
  <2>5. x <= i /\ i < x + w
    <3>1. i = x + t /\ t \in 0..(w - 1)
      BY <2>3
    <3> HIDE DEF x, t
    <3>2. QED
      BY <1>2, <2>4, <3>1
  <2>6. i \in ChunkIndices(c, chunks, n)
    <3> HIDE DEF c
    <3>1. QED
      BY <1>4, <1>6, <2>1, <2>3, <2>5
  <2>7. QED
    BY <2>3, <2>6
<1>7. ASSUME NEW c \in 0..(chunks - 1), NEW d \in 0..(chunks - 1), NEW i,
             i \in ChunkIndices(c, chunks, n), i \in ChunkIndices(d, chunks, n)
      PROVE  c = d
  <2>1. ASSUME NEW a \in 0..(chunks - 1), i \in ChunkIndices(a, chunks, n) PROVE i \in Nat /\ i \div w = a
    <3>1. i \in Nat /\ a * w \in Nat /\ a * w <= i /\ i < a * w + w
      BY <1>4, <2>1
    <3> DEFINE x == a * w
    <3> HIDE DEF x
    <3>2. i - x \in 0..(w - 1) /\ i = x + (i - x)
      BY <1>2, <3>1 DEF x
    <3>3. QED
      BY <1>2, <3>1, <3>2, DivUnique DEF x
  <2>2. QED
    BY <1>7, <2>1
<1>8. QED
  BY <1>5, <1>6, <1>7

\* There is a chunk at least.
LEMMA SomeChunk == ASSUME NEW n \in Nat PROVE NumTopkChunks(n) \in Nat \ {0}
<1> DEFINE b == ProgramBudget \div Max({1, n * NumKvHeads})
           target == Max({1, Min({TopK, b})})
           V == Nat \ {0}
           G == [x \in 1..target |-> [f \in [1..target -> V] |-> IF 2 * x <= target THEN f[2 * x] ELSE x]]
           doubled == CHOOSE f : f = [x \in 1..target |-> IF 2 * x <= target THEN f[2 * x] ELSE x]
<1>1. target \in Nat \ {0}
  <2>1. TopK \in Nat /\ ProgramBudget \in Nat /\ NumKvHeads \in Nat
    BY AttentionAssumption, Natural
  <2>2. Max({1, n * NumKvHeads}) \in Nat \ {0}
    <3> DEFINE x == n * NumKvHeads
    <3>1. x \in Int
      BY <2>1
    <3> HIDE DEF x
    <3>2. Max({1, x}) \in Nat \ {0}
      BY <3>1, OfTwo
    <3>3. QED
      BY <3>2 DEF x
  <2>3. b \in Nat
    BY <2>1, <2>2, DivNat
  <2> HIDE DEF b
  <2>4. Min({TopK, b}) \in Int
    BY <2>1, <2>3, OfTwo
  <2>5. QED
    BY <2>4, OfTwo
<1>2. NumTopkChunks(n) = doubled[1]
  BY DEF NumTopkChunks
<1> HIDE DEF target
<1>3. \A x \in 1..target : 2 * x <= target => 2 * x \in (x + 1)..target /\ 2 * x \in 1..target
  BY <1>1
<1>4. \E f : Descends(f, 1, target, V, G)
  <2>1. G \in [1..target -> [[1..target -> V] -> V]]
    <3>1. ASSUME NEW x \in 1..target, NEW f \in [1..target -> V]
          PROVE  (IF 2 * x <= target THEN f[2 * x] ELSE x) \in V
      BY <1>1, <1>3
    <3> HIDE DEF V
    <3>2. QED
      BY <3>1
  <2>2. \A x \in 1..target : \A f, g \in [1..target -> V] : (\A y \in (x + 1)..target : f[y] = g[y]) => G[x][f] = G[x][g]
    BY <1>3
  <2>3. 1 \in V /\ target \in Int /\ 1 \in Int
    BY <1>1
  <2> HIDE DEF G, V
  <2>4. LooksUp(1, target, V, G)
    BY <2>1, <2>2 DEF LooksUp
  <2>5. QED
    BY <2>3, <2>4, DownSolution
<1>5. PICK f \in [1..target -> V] : \A x \in 1..target : f[x] = G[x][f]
  BY <1>4 DEF Descends
<1>6. f = [x \in 1..target |-> IF 2 * x <= target THEN f[2 * x] ELSE x]
  BY <1>5
<1>7. doubled = [x \in 1..target |-> IF 2 * x <= target THEN doubled[2 * x] ELSE x]
  BY <1>6
<1> HIDE DEF doubled
<1> DEFINE T == {x \in 1..target : doubled[x] \in V}
<1>8. \A x \in 1..target : (\A y \in (x + 1)..target : y \in T) => x \in T
  <2> SUFFICES ASSUME NEW x \in 1..target, \A y \in (x + 1)..target : y \in T PROVE doubled[x] \in V
    OBVIOUS
  <2>1. CASE 2 * x <= target
    <3>1. doubled[x] = doubled[2 * x] /\ 2 * x \in T
      BY <1>3, <1>7, <2>1
    <3>2. QED
      BY <3>1
  <2>2. CASE ~(2 * x <= target)
    BY <1>7, <2>2
  <2>3. QED
    BY <2>1, <2>2
<1> HIDE DEF T
<1>9. 1 \in T
  <2>1. 1 \in Int /\ target \in Int
    BY <1>1
  <2>2. \A x \in 1..target : x \in T
    BY <1>8, <2>1, DownInduct, Zenon
  <2>3. QED
    BY <1>1, <2>2
<1>10. QED
  BY <1>2, <1>9 DEF T

\* What a query is to see: the elements of Expected, and how many there are.
LEMMA ExpectedHas ==
    ASSUME NEW q, NEW x, NEW w, w = rows[call.members[MemberOf(q)]], NEW e
    PROVE  e \in Expected(q, x) <=> \E h \in KvHeads : \E p \in 0..Position(q) :
               p \div BlockSize \in Range(x[h]) /\ e = <<h, p, w[p + 1], w[p + 1]>>
<1> DEFINE P(h) == {p \in 0..Position(q) : (p \div BlockSize) \in Range(x[h])}
           E(h) == {<<h, p, w[p + 1], w[p + 1]>> : p \in P(h)}
<1>1. Expected(q, x) = UNION {E(h) : h \in KvHeads}
  BY DEF Expected
<1>2. \A h : e \in E(h) <=> \E p \in P(h) : e = <<h, p, w[p + 1], w[p + 1]>>
  OBVIOUS
<1> HIDE DEF E
<1>3. e \in Expected(q, x) <=> \E h \in KvHeads : e \in E(h)
  BY <1>1
<1>4. \A h, p : p \in P(h) <=> p \in 0..Position(q) /\ p \div BlockSize \in Range(x[h])
  OBVIOUS
<1> HIDE DEF P
<1>5. QED
  BY <1>2, <1>3, <1>4

\* What a program reads of the request of a query, for a query at position pos.
ChunkElement(y, r, pos, c, chunks, x) ==
    \E h \in KvHeads, b \in Int, t \in Tokens :
        /\ \E i \in ChunkIndices(c, chunks, NBlocks(pos)) : b = x[h][i + 1]
        /\ b >= 0 /\ b < NBlocks(pos) /\ b * BlockSize + t <= pos
        /\ y = <<h, b * BlockSize + t, rows[r][b * BlockSize + t + 1], rows[r][b * BlockSize + t + 1], c>>

LEMMA ChunkHas ==
    ASSUME IInv, NEW r \in Reqs, NEW pos \in 0..(Len0(r) - 1), NEW n \in Int, NEW o \in Int, Len0(r) - n + o = pos,
           NEW c, NEW chunks, NEW x, \A h \in KvHeads, i \in ChunkIndices(c, chunks, NBlocks(pos)) : x[h][i + 1] \in Int, NEW y
    PROVE  y \in ChunkReads(c, chunks, Pad(table[r]), x, Len0(r), n, o) <=> ChunkElement(y, r, pos, c, chunks, x)
<1> DEFINE kvLen == Max({Len0(r) - n + o + 1, 0})
           nb == BlocksFor(kvLen)
           valid(h) == {b \in {x[h][i + 1] : i \in ChunkIndices(c, chunks, nb)} : b >= 0 /\ b < nb}
           row(h, side, z) == DecodeRow(pool[Pad(table[r])[z[1] + 1]], h, side, z[2])
           Z(h) == {z \in valid(h) \X Tokens : z[1] * BlockSize + z[2] < kvLen}
           R(h) == {<<h, z[1] * BlockSize + z[2], row(h, 0, z), row(h, 1, z), c>> : z \in Z(h)}
<1>1. ChunkReads(c, chunks, Pad(table[r]), x, Len0(r), n, o) = UNION {R(h) : h \in KvHeads}
  BY DEF ChunkReads
<1>2. pos \in Nat /\ pos < Len0(r) /\ Len0(r) \in Nat
  BY RequestType DEF IInv
<1>3. kvLen = pos + 1
  BY <1>2, OfTwo
<1>4. nb = NBlocks(pos) /\ nb \in Nat
  BY <1>2, <1>3, BlocksUpTo
<1> HIDE DEF kvLen, nb
<1> DEFINE Walks(h, b) == \E i \in ChunkIndices(c, chunks, NBlocks(pos)) : b = x[h][i + 1]
           Reads(h, b, t) == <<h, b * BlockSize + t, rows[r][b * BlockSize + t + 1], rows[r][b * BlockSize + t + 1], c>>
<1>5. ASSUME NEW h \in KvHeads, NEW z
      PROVE  z \in Z(h) <=> \E b \in Int, t \in Tokens : z = <<b, t>> /\ Walks(h, b) /\ b >= 0 /\ b < NBlocks(pos) /\ b * BlockSize + t <= pos
  <2>1. \A b : b \in valid(h) <=> b \in Int /\ Walks(h, b) /\ b >= 0 /\ b < NBlocks(pos)
    BY <1>4
  <2> HIDE DEF valid
  <2>2. ASSUME NEW b \in Int, NEW t \in Tokens PROVE b * BlockSize + t < kvLen <=> b * BlockSize + t <= pos
    <3> DEFINE s == b * BlockSize + t
    <3>1. s \in Int
      BY Natural DEF Tokens
    <3> HIDE DEF s
    <3>2. s < kvLen <=> s <= pos
      BY <1>2, <1>3, <3>1
    <3>3. QED
      BY <3>2 DEF s
  <2>3. z \in Z(h) <=> \E b \in valid(h), t \in Tokens : z = <<b, t>> /\ b * BlockSize + t < kvLen
    OBVIOUS
  <2> HIDE DEF Z, Walks
  <2>4. QED
    BY <2>1, <2>2, <2>3
<1>6. ASSUME NEW h \in KvHeads, NEW b \in Int, NEW t \in Tokens, b >= 0, b * BlockSize + t <= pos, NEW side \in Sides
      PROVE  row(h, side, <<b, t>>) = rows[r][b * BlockSize + t + 1]
  <2>1. b * BlockSize + t < Len0(r)
    <3> DEFINE s == b * BlockSize + t
    <3>1. s \in Int
      BY Natural DEF Tokens
    <3> HIDE DEF s
    <3>2. s < Len0(r)
      BY <1>2, <1>6, <3>1 DEF s
    <3>3. QED
      BY <3>2 DEF s
  <2>2. pool[Pad(table[r])[b + 1]][t] = rows[r][b * BlockSize + t + 1]
    BY <1>6, <2>1, PoolReads
  <2>3. row(h, side, <<b, t>>) = DecodeRow(pool[Pad(table[r])[b + 1]], h, side, t)
    OBVIOUS
  <2>4. QED
    BY <2>2, <2>3, DecodeReads
<1> HIDE DEF row, Z
<1>7. ASSUME NEW h \in KvHeads
      PROVE  y \in R(h) <=> \E b \in Int, t \in Tokens : /\ Walks(h, b) /\ b >= 0 /\ b < NBlocks(pos) /\ b * BlockSize + t <= pos
                                                       /\ y = Reads(h, b, t)
  <2>1. y \in R(h) <=> \E z \in Z(h) : y = <<h, z[1] * BlockSize + z[2], row(h, 0, z), row(h, 1, z), c>>
    OBVIOUS
  <2>2. ASSUME NEW b \in Int, NEW t \in Tokens, b >= 0, b * BlockSize + t <= pos
        PROVE  <<h, <<b, t>>[1] * BlockSize + <<b, t>>[2], row(h, 0, <<b, t>>), row(h, 1, <<b, t>>), c>> = Reads(h, b, t)
    <3>1. row(h, 0, <<b, t>>) = rows[r][b * BlockSize + t + 1] /\ row(h, 1, <<b, t>>) = rows[r][b * BlockSize + t + 1]
      BY <1>6, <2>2 DEF Sides
    <3>2. QED
      BY <3>1
  <2> HIDE DEF R, Walks, Reads
  <2>3. ASSUME y \in R(h)
        PROVE  \E b \in Int, t \in Tokens : Walks(h, b) /\ b >= 0 /\ b < NBlocks(pos) /\ b * BlockSize + t <= pos /\ y = Reads(h, b, t)
    <3>1. PICK z \in Z(h) : y = <<h, z[1] * BlockSize + z[2], row(h, 0, z), row(h, 1, z), c>>
      BY <2>1, <2>3
    <3>2. PICK b \in Int, t \in Tokens : z = <<b, t>> /\ Walks(h, b) /\ b >= 0 /\ b < NBlocks(pos) /\ b * BlockSize + t <= pos
      BY <1>5, <3>1
    <3>3. y = Reads(h, b, t)
      BY <2>2, <3>1, <3>2
    <3>4. QED
      BY <3>2, <3>3
  <2>4. ASSUME NEW b \in Int, NEW t \in Tokens, Walks(h, b), b >= 0, b < NBlocks(pos), b * BlockSize + t <= pos, y = Reads(h, b, t)
        PROVE  y \in R(h)
    <3>1. <<b, t>> \in Z(h)
      BY <1>5, <2>4
    <3>2. y = <<h, <<b, t>>[1] * BlockSize + <<b, t>>[2], row(h, 0, <<b, t>>), row(h, 1, <<b, t>>), c>>
      BY <2>2, <2>4
    <3>3. QED
      BY <2>1, <3>1, <3>2
  <2>5. QED
    BY <2>3, <2>4
<1> HIDE DEF R
<1>8. y \in ChunkReads(c, chunks, Pad(table[r]), x, Len0(r), n, o) <=> \E h \in KvHeads : y \in R(h)
  BY <1>1
<1> HIDE DEF Walks, Reads
<1>9. y \in ChunkReads(c, chunks, Pad(table[r]), x, Len0(r), n, o) <=> \E h \in KvHeads : \E b \in Int, t \in Tokens :
         Walks(h, b) /\ b >= 0 /\ b < NBlocks(pos) /\ b * BlockSize + t <= pos /\ y = Reads(h, b, t)
  BY <1>7, <1>8
<1>10. QED
  BY <1>9 DEF Walks, Reads, ChunkElement

LEMMA FirstFour == ASSUME NEW a, NEW b, NEW c, NEW d, NEW e PROVE SubSeq(<<a, b, c, d, e>>, 1, 4) = <<a, b, c, d>>
<1> DEFINE S == {a, b, c, d, e}
           s == <<a, b, c, d, e>>
           z == <<a, b, c, d>>
<1>1. \A i \in 1..4 : s[i] \in S /\ s[i] = z[i]
  <2> SUFFICES ASSUME NEW i \in 1..4 PROVE s[i] \in S /\ s[i] = z[i]
    OBVIOUS
  <2>1. i = 1 \/ i = 2 \/ i = 3 \/ i = 4
    OBVIOUS
  <2>2. QED
    BY <2>1
<1>2. z \in Seq(S) /\ Len(z) = 4
  OBVIOUS
<1>3. s[1] = a /\ s[2] = b /\ s[3] = c /\ s[4] = d
  OBVIOUS
<1> HIDE DEF S, s, z
<1>4. /\ SubSeq(s, 1, 4) \in Seq(S) /\ Len(SubSeq(s, 1, 4)) = 4
      /\ \A i \in 1..4 : SubSeq(s, 1, 4)[i] = s[1 + i - 1]
  <2>1. 1 \in Int /\ 4 \in Int /\ 1 <= 4 /\ 4 - 1 + 1 = 4
    OBVIOUS
  <2>2. /\ SubSeq(s, 1, 4) \in Seq(S) /\ Len(SubSeq(s, 1, 4)) = (IF 1 <= 4 THEN 4 - 1 + 1 ELSE 0)
        /\ \A i \in 1..(4 - 1 + 1) : SubSeq(s, 1, 4)[i] = s[1 + i - 1]
    BY <1>1, <2>1, SubSeqProperties
  <2>3. QED
    BY <2>1, <2>2
<1>5. \A i \in 1..4 : SubSeq(s, 1, 4)[i] = z[i]
  <2>1. \A i \in 1..4 : 1 + i - 1 = i
    OBVIOUS
  <2>2. QED
    BY <1>1, <1>4, <2>1
<1>6. SubSeq(s, 1, 4) = z
  BY <1>2, <1>4, <1>5, SeqEqual
<1>7. QED
  BY <1>6 DEF s, z

\* A row of topk_idx: numbers, and distinct blocks among the first ones.
LEMMA PicksType ==
    ASSUME NEW n \in 1..MaxBlocks, NEW x \in Picks(n), NEW h \in KvHeads
    PROVE  /\ x[h] \in [1..TopK -> Int] /\ DOMAIN x[h] = 1..TopK /\ \A i \in 1..TopK : x[h][i] >= -1 /\ x[h][i] < n
           /\ \A i, j \in 1..TopK : x[h][i] >= 0 => i <= n /\ (x[h][i] = x[h][j] => i = j)
<1>1. n \in Int
  OBVIOUS
<1>2. x \in [KvHeads -> [1..TopK -> -1..(n - 1)]]
  BY SelectionAssumption
<1>3. x[h] \in [1..TopK -> -1..(n - 1)]
  BY <1>2
<1>4. \A i, j \in 1..TopK : x[h][i] >= 0 => i <= n /\ (x[h][i] = x[h][j] => i = j)
  BY SelectionAssumption
<1>5. ASSUME NEW i \in 1..TopK PROVE x[h][i] \in Int /\ x[h][i] >= -1 /\ x[h][i] < n
  <2>1. x[h][i] \in -1..(n - 1)
    BY <1>3
  <2>2. QED
    BY <1>1, <2>1
<1>6. QED
  BY <1>3, <1>4, <1>5

\* What the programs of a decode query read.
ReadsOf(q, chunks, x, n, o) ==
    UNION {ChunkReads(c, chunks, Pad(table[call.members[MemberOf(q)]]), x, Len0(call.members[MemberOf(q)]), n, o) :
              c \in 0..(chunks - 1)}

Firsts(seen) == {SubSeq(y, 1, 4) : y \in seen}

\* Query q is the one at place o of the n last ones of its request.
IsLast(q, n, o) == n \in Int /\ o \in Int /\ Len0(call.members[MemberOf(q)]) - n + o = Position(q)

\* The chunks of a decode query together read what it is to see, each element once.
LEMMA DecodeAttends ==
    ASSUME IInv, NEW k, NEW lens, Forward(k, lens), NEW q \in 1..TotalQ, NEW x \in Picks(NBlocks(Position(q))),
           NEW chunks \in Nat \ {0}, NEW n, NEW o, IsLast(q, n, o)
    PROVE  /\ Firsts(ReadsOf(q, chunks, x, n, o)) = Expected(q, x)
           /\ Cardinality(ReadsOf(q, chunks, x, n, o)) = Cardinality(Expected(q, x))
<1>15. PICK r : r = call.members[MemberOf(q)]
  OBVIOUS
<1>16. PICK seen : seen = ReadsOf(q, chunks, x, n, o)
  OBVIOUS
<1>17. seen = UNION {ChunkReads(c, chunks, Pad(table[r]), x, Len0(r), n, o) : c \in 0..(chunks - 1)}
  BY <1>15, <1>16 DEF ReadsOf
<1>18. n \in Int /\ o \in Int /\ Len0(r) - n + o = Position(q)
  BY <1>15 DEF IsLast
<1> DEFINE pos == Position(q)
           nb == NBlocks(pos)
           w == rows[r]
           E == Expected(q, x)
           f == [y \in seen |-> SubSeq(y, 1, 4)]
           Walks(h, b, c) == \E i \in ChunkIndices(c, chunks, nb) : b = x[h][i + 1]
           Row(h, s) == <<h, s, w[s + 1], w[s + 1]>>
           Reads(h, s, c) == <<h, s, w[s + 1], w[s + 1], c>>
<1>1. r \in Reqs /\ pos \in Nat /\ pos \in 0..(Len0(r) - 1) /\ nb \in 1..MaxBlocks /\ nb \in Nat
  BY <1>15, PositionOf
<1>2. \A h \in KvHeads : /\ DOMAIN x[h] = 1..TopK
                         /\ \A i \in 1..TopK : x[h][i] \in Int /\ x[h][i] >= -1 /\ x[h][i] < nb
                         /\ \A i, j \in 1..TopK : x[h][i] >= 0 => i <= nb /\ (x[h][i] = x[h][j] => i = j)
  <2> SUFFICES ASSUME NEW h \in KvHeads
               PROVE  /\ DOMAIN x[h] = 1..TopK
                      /\ \A i \in 1..TopK : x[h][i] \in Int /\ x[h][i] >= -1 /\ x[h][i] < nb
                      /\ \A i, j \in 1..TopK : x[h][i] >= 0 => i <= nb /\ (x[h][i] = x[h][j] => i = j)
    OBVIOUS
  <2>1. /\ x[h] \in [1..TopK -> Int] /\ DOMAIN x[h] = 1..TopK /\ \A i \in 1..TopK : x[h][i] >= -1 /\ x[h][i] < nb
        /\ \A i, j \in 1..TopK : x[h][i] >= 0 => i <= nb /\ (x[h][i] = x[h][j] => i = j)
    BY <1>1, PicksType
  <2> HIDE DEF nb
  <2>2. QED
    BY <2>1
<1>3. /\ \A c \in 0..(chunks - 1) : \A i \in ChunkIndices(c, chunks, nb) : i + 1 \in 1..TopK /\ i \in Int
      /\ \A i \in 1..TopK : i <= nb => \E c \in 0..(chunks - 1) : i - 1 \in ChunkIndices(c, chunks, nb)
      /\ \A c, d \in 0..(chunks - 1) : \A i : i \in ChunkIndices(c, chunks, nb) /\ i \in ChunkIndices(d, chunks, nb) => c = d
  <2>1. TopK \in Nat
    BY AttentionAssumption
  <2>2. /\ \A c \in 0..(chunks - 1) : \A i \in ChunkIndices(c, chunks, nb) : i \in 0..(TopK - 1) /\ i < nb
        /\ \A i \in 0..(TopK - 1) : i < nb => \E c \in 0..(chunks - 1) : i \in ChunkIndices(c, chunks, nb)
        /\ \A c, d \in 0..(chunks - 1) : \A i : i \in ChunkIndices(c, chunks, nb) /\ i \in ChunkIndices(d, chunks, nb) => c = d
    BY <1>1, ChunksPartition
  <2> HIDE DEF nb
  <2>3. \A i \in 0..(TopK - 1) : i \in Int /\ i + 1 \in 1..TopK
    BY <2>1
  <2>4. \A i \in 1..TopK : i <= nb => i - 1 \in 0..(TopK - 1) /\ i - 1 < nb
    BY <1>1, <2>1
  <2>5. QED
    BY <2>2, <2>3, <2>4
<1>4. \A y : y \in seen <=> \E c \in 0..(chunks - 1) : \E h \in KvHeads, b \in Int, t \in Tokens :
                /\ Walks(h, b, c) /\ b >= 0 /\ b < nb /\ b * BlockSize + t <= pos
                /\ y = Reads(h, b * BlockSize + t, c)
  <2>1. ASSUME NEW y, NEW c \in 0..(chunks - 1)
        PROVE  y \in ChunkReads(c, chunks, Pad(table[r]), x, Len0(r), n, o) <=>
                 \E h \in KvHeads, b \in Int, t \in Tokens :
                    /\ Walks(h, b, c) /\ b >= 0 /\ b < nb /\ b * BlockSize + t <= pos
                    /\ y = Reads(h, b * BlockSize + t, c)
    <3>1. \A h \in KvHeads, i \in ChunkIndices(c, chunks, NBlocks(pos)) : x[h][i + 1] \in Int
      BY <1>2, <1>3
    <3>2. y \in ChunkReads(c, chunks, Pad(table[r]), x, Len0(r), n, o) <=> ChunkElement(y, r, pos, c, chunks, x)
      <4> HIDE DEF pos
      <4>1. Len0(r) - n + o = pos /\ n \in Int /\ o \in Int
        BY <1>18 DEF pos
      <4>2. QED
        BY <1>1, <3>1, <4>1, ChunkHas, ZenonT(60)
    <3>3. QED
      BY <3>2 DEF ChunkElement
  <2> HIDE DEF Walks, Reads, nb, pos
  <2>2. \A y : y \in seen <=> \E c \in 0..(chunks - 1) : y \in ChunkReads(c, chunks, Pad(table[r]), x, Len0(r), n, o)
    BY <1>17
  <2>3. QED
    BY <2>1, <2>2
<1>5. \A e : e \in E <=> \E h \in KvHeads : \E p \in 0..pos : p \div BlockSize \in Range(x[h]) /\ e = Row(h, p)
  BY <1>15, ExpectedHas
<1> HIDE DEF pos, nb, E, w, Walks
<1>6. ASSUME NEW y \in seen
      PROVE  \E c \in 0..(chunks - 1) : \E h \in KvHeads, p \in 0..pos :
                y = Reads(h, p, c) /\ f[y] = Row(h, p) /\ p \in Nat /\ p \div BlockSize >= 0 /\ Walks(h, p \div BlockSize, c)
  <2>1. PICK c \in 0..(chunks - 1) : \E h \in KvHeads, b \in Int, t \in Tokens :
                /\ Walks(h, b, c) /\ b >= 0 /\ b < nb /\ b * BlockSize + t <= pos
                /\ y = Reads(h, b * BlockSize + t, c)
    BY <1>4
  <2>2. PICK h \in KvHeads, b \in Int, t \in Tokens :
                /\ Walks(h, b, c) /\ b >= 0 /\ b < nb /\ b * BlockSize + t <= pos
                /\ y = Reads(h, b * BlockSize + t, c)
    BY <2>1
  <2>3. b \in Nat /\ pos \in Nat
    BY <1>1, <2>2
  <2>4. b * BlockSize + t \in Nat /\ (b * BlockSize + t) \div BlockSize = b
    BY <2>3, BlocksUpTo
  <2> DEFINE p == b * BlockSize + t
  <2>5. p \in Nat /\ p <= pos /\ p \div BlockSize = b /\ y = Reads(h, p, c)
    BY <2>2, <2>4
  <2> HIDE DEF p
  <2>6. f[y] = Row(h, p)
    BY <2>5, FirstFour
  <2>7. p \in 0..pos
    BY <2>3, <2>5
  <2>8. QED
    BY <2>2, <2>5, <2>6, <2>7
<1>7. ASSUME NEW c \in 0..(chunks - 1), NEW h \in KvHeads, NEW b, Walks(h, b, c)
      PROVE  b \in Range(x[h]) /\ \E i \in 1..TopK : x[h][i] = b /\ i - 1 \in ChunkIndices(c, chunks, nb)
  <2>1. PICK i \in ChunkIndices(c, chunks, nb) : b = x[h][i + 1]
    BY <1>7 DEF Walks
  <2>2. i + 1 \in 1..TopK /\ i \in Int
    BY <1>3, <2>1
  <2>3. b \in Range(x[h])
    BY <1>2, <2>1, <2>2 DEF Range
  <2>4. (i + 1) - 1 = i
    BY <2>2
  <2>5. QED
    BY <2>1, <2>2, <2>3, <2>4
<1>8. ASSUME NEW y \in seen PROVE f[y] \in E
  <2>1. PICK c \in 0..(chunks - 1) : \E h \in KvHeads, p \in 0..pos :
                y = Reads(h, p, c) /\ f[y] = Row(h, p) /\ p \in Nat /\ p \div BlockSize >= 0 /\ Walks(h, p \div BlockSize, c)
    BY <1>6
  <2>2. PICK h \in KvHeads, p \in 0..pos : f[y] = Row(h, p) /\ Walks(h, p \div BlockSize, c)
    BY <2>1
  <2>3. p \div BlockSize \in Range(x[h])
    BY <1>7, <2>2
  <2> HIDE DEF f, Row
  <2>4. QED
    BY <1>5, <2>2, <2>3
<1>9. ASSUME NEW y \in seen, NEW z \in seen, f[y] = f[z] PROVE y = z
  <2>1. PICK c \in 0..(chunks - 1) : \E h \in KvHeads, p \in 0..pos :
                y = Reads(h, p, c) /\ f[y] = Row(h, p) /\ p \in Nat /\ p \div BlockSize >= 0 /\ Walks(h, p \div BlockSize, c)
    BY <1>6
  <2>2. PICK h \in KvHeads, p \in 0..pos : y = Reads(h, p, c) /\ f[y] = Row(h, p) /\ p \in Nat /\ p \div BlockSize >= 0 /\ Walks(h, p \div BlockSize, c)
    BY <2>1
  <2>3. PICK d \in 0..(chunks - 1) : \E g \in KvHeads, s \in 0..pos :
                z = Reads(g, s, d) /\ f[z] = Row(g, s) /\ s \in Nat /\ s \div BlockSize >= 0 /\ Walks(g, s \div BlockSize, d)
    BY <1>6
  <2>4. PICK g \in KvHeads, s \in 0..pos : z = Reads(g, s, d) /\ f[z] = Row(g, s) /\ Walks(g, s \div BlockSize, d)
    BY <2>3
  <2>5. g = h /\ s = p
    <3> HIDE DEF f
    <3>1. Row(h, p) = Row(g, s)
      BY <1>9, <2>2, <2>4
    <3>2. QED
      BY <3>1
  <2>6. PICK i \in 1..TopK : x[h][i] = p \div BlockSize /\ i - 1 \in ChunkIndices(c, chunks, nb)
    BY <1>7, <2>2
  <2>7. PICK j \in 1..TopK : x[h][j] = p \div BlockSize /\ j - 1 \in ChunkIndices(d, chunks, nb)
    BY <1>7, <2>4, <2>5
  <2>8. x[h][i] >= 0 /\ x[h][i] = x[h][j]
    BY <2>2, <2>6, <2>7
  <2>9. i = j
    BY <1>2, <2>8
  <2>10. c = d
    BY <1>3, <2>6, <2>7, <2>9
  <2>11. QED
    BY <2>2, <2>4, <2>5, <2>10
<1>10. ASSUME NEW e \in E PROVE \E y \in seen : f[y] = e
  <2>1. PICK h \in KvHeads : \E p \in 0..pos : p \div BlockSize \in Range(x[h]) /\ e = Row(h, p)
    BY <1>5
  <2>2. PICK p \in 0..pos : p \div BlockSize \in Range(x[h]) /\ e = Row(h, p)
    BY <2>1
  <2> DEFINE b == p \div BlockSize
             t == p % BlockSize
  <2>3. b \in 0..(nb - 1) /\ t \in Tokens /\ p = b * BlockSize + t
    BY <1>1, BlocksUpTo DEF nb
  <2>4. PICK i \in 1..TopK : x[h][i] = b
    BY <1>2, <2>2 DEF Range
  <2> HIDE DEF b, t
  <2>5. b \in Int /\ b >= 0 /\ b < nb
    BY <1>1, <2>3
  <2>6. i <= nb
    BY <1>2, <2>4, <2>5
  <2>7. PICK c \in 0..(chunks - 1) : i - 1 \in ChunkIndices(c, chunks, nb)
    BY <1>3, <2>6
  <2>8. Walks(h, b, c)
    <3>1. (i - 1) + 1 = i
      OBVIOUS
    <3>2. QED
      BY <2>4, <2>7, <3>1 DEF Walks
  <2>9. b * BlockSize + t <= pos
    <3>1. p <= pos
      BY <1>1
    <3>2. QED
      BY <2>3, <3>1
  <2>10. Reads(h, b * BlockSize + t, c) \in seen
    <3> HIDE DEF Reads
    <3>1. QED
      BY <1>4, <2>3, <2>5, <2>8, <2>9
  <2>11. Reads(h, p, c) \in seen
    BY <2>3, <2>10
  <2>12. f[Reads(h, p, c)] = Row(h, p)
    BY <2>11, FirstFour
  <2>13. QED
    BY <2>2, <2>11, <2>12
<1>11. {SubSeq(y, 1, 4) : y \in seen} = E
  <2>1. \A y \in seen : f[y] = SubSeq(y, 1, 4)
    OBVIOUS
  <2> HIDE DEF f
  <2>2. \A y \in seen : SubSeq(y, 1, 4) \in E
    BY <1>8, <2>1
  <2>3. \A e \in E : \E y \in seen : SubSeq(y, 1, 4) = e
    BY <1>10, <2>1
  <2>4. QED
    BY <2>2, <2>3
<1>12. IsFiniteSet(E)
  <2> DEFINE g == [e \in E |-> <<e[1], e[2]>>]
             D == KvHeads \X (0..pos)
  <2>1. \A e \in E : \E h \in KvHeads, p \in 0..pos : e = Row(h, p)
    BY <1>5
  <2>2. \A e \in E : g[e] \in D /\ e = Row(e[1], e[2])
    BY <2>1
  <2>3. g \in Injection(E, D)
    <3>1. g \in [E -> D]
      BY <2>2
    <3>2. ASSUME NEW d \in E, NEW e \in E, g[d] = g[e] PROVE d = e
      <4>1. d[1] = e[1] /\ d[2] = e[2]
        BY <3>2
      <4> HIDE DEF Row
      <4>2. d = Row(d[1], d[2]) /\ e = Row(e[1], e[2])
        BY <2>2
      <4>3. QED
        BY <4>1, <4>2
    <3>3. QED
      BY <3>1, <3>2 DEF Injection, IsInjective
  <2>4. IsFiniteSet(D)
    <3>1. IsFiniteSet(KvHeads) /\ IsFiniteSet(0..pos)
      BY <1>1, Natural, FS_Interval DEF KvHeads
    <3>2. QED
      BY <3>1, FS_Product
  <2> HIDE DEF g, D
  <2>5. QED
    BY <2>3, <2>4, FS_Injection
<1>13. Cardinality(seen) = Cardinality(E)
  <2>1. f \in [seen -> E]
    BY <1>8
  <2>2. f \in Injection(seen, E)
    <3> HIDE DEF f
    <3>1. QED
      BY <1>9, <2>1 DEF Injection, IsInjective
  <2>3. f \in Surjection(seen, E)
    <3> HIDE DEF f
    <3>1. QED
      BY <1>10, <2>1 DEF Surjection
  <2> HIDE DEF f
  <2>4. QED
    BY <1>12, <2>2, <2>3, FS_Injection
<1>14. QED
  BY <1>11, <1>13, <1>16 DEF E, Firsts

-----------------------------------------------------------------------------
(* The property as one of the forward's record and the rows.               *)

MemberIn(members, cu, q) == CHOOSE m \in DOMAIN members : cu[m] < q /\ q <= cu[m + 1]
PositionIn(members, cu, prefix, q) == prefix[MemberIn(members, cu, q)] + q - cu[MemberIn(members, cu, q)] - 1
ExpectedIn(members, cu, prefix, all, q, picks) ==
    UNION {{<<h, p, all[members[MemberIn(members, cu, q)]][p + 1], all[members[MemberIn(members, cu, q)]][p + 1]>> :
               p \in {x \in 0..PositionIn(members, cu, prefix, q) : (x \div BlockSize) \in Range(picks[h])}} : h \in KvHeads}

AttendsOwn(c, all) ==
    /\ c.phase = "served" /\ c.kind = "prefill" =>
         /\ ~c.refused
         /\ \A q \in 1..Last(c.cu) : c.out[q] = ExpectedIn(c.members, c.cu, c.prefix, all, q, c.picks[q])
    /\ c.phase = "served" /\ c.kind = "decode" =>
         /\ c.padded = {}
         /\ \A q \in 1..Last(c.cu) :
              /\ Firsts(c.out[q]) = ExpectedIn(c.members, c.cu, c.prefix, all, q, c.picks[q])
              /\ Cardinality(c.out[q]) = Cardinality(ExpectedIn(c.members, c.cu, c.prefix, all, q, c.picks[q]))

LEMMA AttendsIs ==
    /\ QueriesAttendOwnTokens <=> AttendsOwn(call, rows)
    /\ QueriesAttendOwnTokens' <=> AttendsOwn(call', rows')
<1>1. QueriesAttendOwnTokens <=> AttendsOwn(call, rows)
  BY DEF QueriesAttendOwnTokens, AttendsOwn, Served, Firsts, TotalQ, Expected, ExpectedIn, Position, PositionIn, MemberOf, MemberIn
<1>2. QueriesAttendOwnTokens' <=> AttendsOwn(call', rows')
  BY DEF QueriesAttendOwnTokens, AttendsOwn, Served, Firsts, TotalQ, Expected, ExpectedIn, Position, PositionIn, MemberOf, MemberIn
<1>3. QED
  BY <1>1, <1>2

LEMMA ExpectedIs ==
    \A q, x : Expected(q, x) = ExpectedIn(call.members, call.cu, call.prefix, rows, q, x)
BY DEF Expected, ExpectedIn, Position, PositionIn, MemberOf, MemberIn

-----------------------------------------------------------------------------
(* Decode.                                                                 *)

\* Every member of a decode batch brought n tokens.
LEMMA DecodeShape ==
    ASSUME IInv, NEW k \in Nat, NEW n \in Nat \ {0}, NEW lens, \A i \in 1..k : lens[i] = n, Forward(k, lens)
    PROVE  /\ call.cu[2] = n
           /\ \A q \in 1..TotalQ : /\ (q - 1) % n \in 0..(n - 1)
                                   /\ Len0(call.members[MemberOf(q)]) - n + ((q - 1) % n) = Position(q)
<1>1. /\ k \in Nat \ {0} /\ TotalQ \in Nat \ {0} /\ call.cu[1] = 0
      /\ \A i \in 1..k : call.cu[i + 1] = call.cu[i] + n
  <2>1. \A i \in 1..k : call.cu[i + 1] = call.cu[i] + lens[i] /\ lens[i] \in Nat \ {0}
    BY QueryOf
  <2>2. TotalQ \in Nat \ {0} /\ call.cu[1] = 0
    BY QueryOf
  <2>3. k \in Nat \ {0}
    BY DEF Forward
  <2>4. QED
    BY <2>1, <2>2, <2>3
<1> DEFINE S == {i \in 0..k : call.cu[i + 1] = i * n}
<1>2. \A i \in 0..k : i \in S
  <2>1. 0 \in S
    BY <1>1
  <2>2. ASSUME NEW i \in 1..k, i - 1 \in S PROVE i \in S
    <3>1. call.cu[i] = (i - 1) * n
      <4>1. (i - 1) + 1 = i
        OBVIOUS
      <4>2. QED
        BY <2>2, <4>1
    <3>2. (i - 1) * n + n = i * n /\ i \in 0..k
      OBVIOUS
    <3>3. QED
      BY <1>1, <3>1, <3>2
  <2> HIDE DEF S
  <2>3. QED
    BY <2>1, <2>2, StepsInduct
<1>3. call.cu[2] = n
  <2>1. call.cu[1 + 1] = call.cu[1] + n
    BY <1>1
  <2>2. QED
    BY <1>1, <2>1
<1>4. ASSUME NEW q \in 1..TotalQ
      PROVE  (q - 1) % n \in 0..(n - 1) /\ Len0(call.members[MemberOf(q)]) - n + ((q - 1) % n) = Position(q)
  <2> DEFINE m == MemberOf(q)
             z == call.cu[m]
  <2>1. m \in 1..k /\ z < q /\ q <= call.cu[m + 1] /\ q \in Nat
    BY <1>1, QueryOf
  <2>2. call.cu[m + 1] = z + n
    BY <1>1, <2>1
  <2>3. z = (m - 1) * n
    <3>1. m - 1 \in 0..k /\ (m - 1) + 1 = m
      BY <1>1, <2>1
    <3>2. QED
      BY <1>2, <3>1
  <2>4. z \in Nat
    <3>1. \A i \in 1..(k + 1) : call.cu[i] \in Nat
      BY QueryOf
    <3>2. m \in 1..(k + 1)
      BY <2>1
    <3>3. QED
      BY <3>1, <3>2
  <2>5. Position(q) = call.prefix[m] + q - z - 1 /\ Len0(call.members[m]) = call.prefix[m] + n /\ call.prefix[m] \in Nat
    <3>1. Position(q) = call.prefix[m] + q - z - 1
      BY DEF Position
    <3>2. Len0(call.members[m]) = call.prefix[m] + lens[m] /\ call.prefix[m] \in Nat
      BY <2>1 DEF Forward
    <3>3. lens[m] = n
      BY <2>1
    <3>4. QED
      BY <3>1, <3>2, <3>3
  <2> HIDE DEF m, z
  <2>6. (q - 1) - z \in 0..(n - 1) /\ q - 1 = z + ((q - 1) - z)
    BY <2>1, <2>2, <2>4
  <2>7. (q - 1) % n = (q - 1) - z
    <3> DEFINE d == m - 1
    <3>1. d \in Int /\ q - 1 \in Int /\ q - 1 = d * n + ((q - 1) - z)
      BY <2>1, <2>3, <2>6
    <3> HIDE DEF d
    <3>2. QED
      BY <2>6, <3>1, DivUnique
  <2> DEFINE p == call.prefix[m]
             o == (q - 1) % n
  <2>8. o \in 0..(n - 1) /\ o = q - 1 - z /\ Position(q) = p + q - z - 1 /\ Len0(call.members[m]) = p + n /\ p \in Nat
    BY <2>5, <2>6, <2>7
  <2> HIDE DEF p, o
  <2>9. (p + n) - n + o = p + q - z - 1
    BY <2>1, <2>4, <2>8
  <2>10. QED
    BY <2>8, <2>9 DEF o, m
<1>5. QED
  BY <1>3, <1>4

\* A padding request has no blocks, so its programs read nothing.
LEMMA PaddingReads ==
    ASSUME NEW c \in Nat, NEW chunks \in Nat \ {0}, NEW tab, NEW x, NEW n \in Nat, NEW o \in 0..(n - 1)
    PROVE  ChunkReads(c, chunks, tab, x, 0, n, o) = {}
<1> DEFINE kvLen == Max({0 - n + o + 1, 0})
           nb == BlocksFor(kvLen)
           valid(h) == {b \in {x[h][i + 1] : i \in ChunkIndices(c, chunks, nb)} : b >= 0 /\ b < nb}
           row(h, side, z) == DecodeRow(pool[tab[z[1] + 1]], h, side, z[2])
           Z(h) == {z \in valid(h) \X Tokens : z[1] * BlockSize + z[2] < kvLen}
           R(h) == {<<h, z[1] * BlockSize + z[2], row(h, 0, z), row(h, 1, z), c>> : z \in Z(h)}
<1>1. ChunkReads(c, chunks, tab, x, 0, n, o) = UNION {R(h) : h \in KvHeads}
  BY DEF ChunkReads
<1>2. kvLen = 0
  <2>1. 0 - n + o + 1 \in Int /\ 0 - n + o + 1 <= 0
    OBVIOUS
  <2> DEFINE a == 0 - n + o + 1
  <2> HIDE DEF a
  <2>2. a \in Int /\ a <= 0
    BY <2>1 DEF a
  <2>3. Max({a, 0}) = 0
    BY <2>2, OfTwo
  <2>4. QED
    BY <2>3 DEF a
<1>3. nb = 0
  <2>1. BlocksFor(0) \in Nat /\ BlocksFor(0) * BlockSize < 0 + BlockSize
    BY BlocksBound
  <2> DEFINE b == BlocksFor(0)
  <2> HIDE DEF b
  <2>2. ASSUME b >= 1 PROVE FALSE
    <3>1. 1 * BlockSize <= b * BlockSize /\ 1 * BlockSize = BlockSize /\ b * BlockSize \in Int
      BY <2>1, <2>2, Natural, MulMono DEF b
    <3> DEFINE y == b * BlockSize
    <3>2. BlockSize <= y /\ y < BlockSize /\ y \in Int
      BY <2>1, <3>1, Natural DEF b
    <3> HIDE DEF y
    <3>3. QED
      BY <3>2, Natural
  <2>3. b = 0
    BY <2>1, <2>2 DEF b
  <2>4. QED
    BY <1>2, <2>3 DEF b
<1> HIDE DEF kvLen, nb
<1>4. ChunkIndices(c, chunks, nb) = {}
  <2> DEFINE w == (TopK + chunks - 1) \div chunks
             y == c * w
  <2>1. TopK \in Nat \ {0}
    BY AttentionAssumption
  <2>2. w \in Nat
    BY <2>1, CeilCovers
  <2>3. ChunkIndices(c, chunks, nb) = y..(Min({y + w, Min({TopK, nb})}) - 1)
    BY DEF ChunkIndices
  <2> HIDE DEF w
  <2>4. y \in Nat
    BY <2>2
  <2> HIDE DEF y
  <2>5. Min({TopK, nb}) = 0
    BY <1>3, <2>1, OfTwo
  <2>6. Min({y + w, 0}) = 0
    BY <2>2, <2>4, OfTwo
  <2>7. ChunkIndices(c, chunks, nb) = y..(0 - 1)
    BY <2>3, <2>5, <2>6
  <2>8. QED
    BY <2>4, <2>7
<1>5. \A h : valid(h) = {}
  BY <1>4
<1> HIDE DEF valid
<1>6. \A h : Z(h) = {}
  BY <1>5
<1> HIDE DEF Z
<1>7. \A h : R(h) = {}
  BY <1>6
<1> HIDE DEF R
<1>8. QED
  BY <1>1, <1>7

LEMMA DecodeOwn == ASSUME IInv, CallFits, Decode PROVE QueriesAttendOwnTokens'
<1>1. call.phase = "inserted" /\ call.kind = "decode"
  BY DEF Decode
<1>2. PICK k \in Nat, n \in Nat \ {0} : \E l \in [1..k -> Nat \ {0}] :
            Forward(k, l) /\ call.padding \in Nat /\ l = [i \in 1..k |-> n]
  BY <1>1 DEF CallFits
<1> DEFINE lens == [i \in 1..k |-> n]
<1>3. Forward(k, lens) /\ call.padding \in Nat /\ lens \in [1..k -> Nat \ {0}]
  BY <1>2
<1> DEFINE num == call.cu[2]
           chunks == NumTopkChunks(TotalQ + call.padding * num)
           seen(picks, q) == UNION {ChunkReads(c, chunks, Pad(table[call.members[MemberOf(q)]]), picks[q],
                                               Len0(call.members[MemberOf(q)]), num, (q - 1) % num) :
                                    c \in 0..(chunks - 1)}
<1>14. PICK picks \in Selections : call' =
            [phase |-> "served", kind |-> "decode", members |-> call.members,
             cu |-> call.cu, prefix |-> call.prefix, picks |-> picks, out |-> [q \in 1..TotalQ |-> seen(picks, q)],
             padded |-> IF call.padding = 0 THEN {} ELSE PaddedReads(chunks, picks[1], num)]
  BY DEF Decode
<1> HIDE DEF seen, chunks, num
<1>4. /\ call'.phase = "served" /\ call'.kind = "decode" /\ call'.members = call.members /\ call'.cu = call.cu
         /\ call'.prefix = call.prefix /\ call'.picks = picks
         /\ call'.out = [q \in 1..TotalQ |-> seen(picks, q)]
         /\ call'.padded = IF call.padding = 0 THEN {} ELSE PaddedReads(chunks, picks[1], num)
  BY <1>14
<1>5. rows' = rows
  BY DEF Decode
<1>15. \A i \in 1..k : lens[i] = n
  OBVIOUS
<1> HIDE DEF lens
<1>6. num = n /\ TotalQ \in Nat
  BY <1>3, <1>15, DecodeShape, QueryOf DEF num
<1>7. chunks \in Nat \ {0}
  <2>1. TotalQ + call.padding * num \in Nat
    BY <1>3, <1>6
  <2>2. QED
    BY <2>1, SomeChunk DEF chunks
<1>8. call'.padded = {}
  <2>1. ASSUME NEW c \in 0..(chunks - 1), NEW o \in 0..(num - 1)
        PROVE  ChunkReads(c, chunks, Pad(<<>>), picks[1], 0, num, o) = {}
    BY <1>6, <1>7, PaddingReads
  <2>2. PaddedReads(chunks, picks[1], num) = {}
    BY <2>1 DEF PaddedReads
  <2>3. QED
    BY <1>4, <2>2
<1>9. ASSUME NEW q \in 1..TotalQ
      PROVE  /\ Firsts(call'.out[q]) = Expected(q, picks[q])
             /\ Cardinality(call'.out[q]) = Cardinality(Expected(q, picks[q]))
  <2> DEFINE r == call.members[MemberOf(q)]
             o == (q - 1) % num
  <2>1. picks[q] \in Picks(NBlocks(Position(q)))
    BY <1>3, <1>4, SelectionOf
  <2>2. num \in Int /\ o \in Int /\ Len0(r) - num + o = Position(q)
    <3>1. (q - 1) % n \in 0..(n - 1) /\ Len0(r) - n + ((q - 1) % n) = Position(q)
      BY <1>3, <1>15, DecodeShape
    <3>2. QED
      BY <1>6, <3>1
  <2>3. call'.out[q] = ReadsOf(q, chunks, picks[q], num, o)
    BY <1>4 DEF seen, ReadsOf
  <2>4. IsLast(q, num, o)
    BY <2>2 DEF IsLast
  <2> HIDE DEF r, o
  <2>5. /\ Firsts(ReadsOf(q, chunks, picks[q], num, o)) = Expected(q, picks[q])
        /\ Cardinality(ReadsOf(q, chunks, picks[q], num, o)) = Cardinality(Expected(q, picks[q]))
    BY <1>3, <1>7, <2>1, <2>4, DecodeAttends
  <2>6. QED
    BY <2>3, <2>5
<1>10. AttendsOwn(call', rows')
  <2>1. ASSUME NEW q \in 1..Last(call'.cu)
        PROVE  /\ Firsts(call'.out[q]) = ExpectedIn(call'.members, call'.cu, call'.prefix, rows', q, call'.picks[q])
               /\ Cardinality(call'.out[q]) = Cardinality(ExpectedIn(call'.members, call'.cu, call'.prefix, rows', q, call'.picks[q]))
    <3>1. q \in 1..TotalQ
      BY <1>4 DEF TotalQ
    <3>2. ExpectedIn(call'.members, call'.cu, call'.prefix, rows', q, call'.picks[q]) = Expected(q, picks[q])
      BY <1>4, <1>5, ExpectedIs
    <3>3. QED
      BY <1>9, <3>1, <3>2
  <2>2. call'.kind # "prefill"
    BY <1>4
  <2>3. QED
    BY <1>8, <2>1, <2>2 DEF AttendsOwn
<1>11. QED
  BY <1>10, AttendsIs

-----------------------------------------------------------------------------
(* Ranges of rows.                                                         *)

\* The greatest and the least of some numbers between bounds.
LEMMA Extremes ==
    ASSUME NEW lo \in Int, NEW hi \in Int, NEW S \in SUBSET (lo..hi), S # {}
    PROVE  /\ Max(S) \in S /\ \A y \in S : y <= Max(S)
           /\ Min(S) \in S /\ \A y \in S : Min(S) <= y
<1> DEFINE Top == {n \in Nat : \A X \in SUBSET (lo..(lo + n)) : X # {} => \E x \in X : \A y \in X : x >= y}
           Bot == {n \in Nat : \A X \in SUBSET ((hi - n)..hi) : X # {} => \E x \in X : \A y \in X : x <= y}
<1>1. 0 \in Top /\ \A n \in Nat : n \in Top => n + 1 \in Top
  <2>1. 0 \in Top
    <3>1. ASSUME NEW X \in SUBSET (lo..(lo + 0)), X # {} PROVE \E x \in X : \A y \in X : x >= y
      <4>1. \A y \in X : y = lo
        OBVIOUS
      <4>2. PICK x : x \in X
        BY <3>1
      <4>3. \A y \in X : x >= y
        BY <4>1, <4>2
      <4>4. QED
        BY <4>2, <4>3
    <3>2. QED
      BY <3>1
  <2>2. ASSUME NEW n \in Nat, n \in Top, NEW X \in SUBSET (lo..(lo + (n + 1))), X # {}
        PROVE  \E x \in X : \A y \in X : x >= y
    <3>1. CASE lo + (n + 1) \in X
      BY <3>1
    <3>2. CASE lo + (n + 1) \notin X
      <4>1. X \in SUBSET (lo..(lo + n))
        BY <3>2
      <4>2. QED
        BY <2>2, <4>1
    <3>3. QED
      BY <3>1, <3>2
  <2>3. QED
    BY <2>1, <2>2
<1>2. 0 \in Bot /\ \A n \in Nat : n \in Bot => n + 1 \in Bot
  <2>1. 0 \in Bot
    <3>1. ASSUME NEW X \in SUBSET ((hi - 0)..hi), X # {} PROVE \E x \in X : \A y \in X : x <= y
      <4>1. \A y \in X : y = hi
        OBVIOUS
      <4>2. PICK x : x \in X
        BY <3>1
      <4>3. \A y \in X : x <= y
        BY <4>1, <4>2
      <4>4. QED
        BY <4>2, <4>3
    <3>2. QED
      BY <3>1
  <2>2. ASSUME NEW n \in Nat, n \in Bot, NEW X \in SUBSET ((hi - (n + 1))..hi), X # {}
        PROVE  \E x \in X : \A y \in X : x <= y
    <3>1. CASE hi - (n + 1) \in X
      BY <3>1
    <3>2. CASE hi - (n + 1) \notin X
      <4>1. X \in SUBSET ((hi - n)..hi)
        BY <3>2
      <4>2. QED
        BY <2>2, <4>1
    <3>3. QED
      BY <3>1, <3>2
  <2>3. QED
    BY <2>1, <2>2
<1> DEFINE d == hi - lo
<1>3. d \in Nat /\ lo + d = hi /\ hi - d = lo
  <2>1. PICK x : x \in S
    OBVIOUS
  <2>2. QED
    BY <2>1
<1> HIDE DEF Top, Bot
<1>4. d \in Top /\ d \in Bot
  <2>1. \A n \in Nat : n \in Top
    BY <1>1, NatInduct
  <2>2. \A n \in Nat : n \in Bot
    BY <1>2, NatInduct
  <2>3. QED
    BY <1>3, <2>1, <2>2
<1>5. (\E x \in S : \A y \in S : x >= y) /\ (\E x \in S : \A y \in S : x <= y)
  <2> HIDE DEF d
  <2>1. QED
    BY <1>3, <1>4 DEF Top, Bot
<1>6. Max(S) \in S /\ \A y \in S : Max(S) >= y
  BY <1>5 DEF Max
<1>7. Min(S) \in S /\ \A y \in S : Min(S) <= y
  BY <1>5 DEF Min
<1>8. \A x \in S : x \in Int
  OBVIOUS
<1>9. QED
  BY <1>6, <1>7, <1>8

\* R cuts a..n: range i ends with the last of its first row, range i + 1 begins behind it.
Cuts(R, a, n, last) ==
    /\ R \in Seq(Nat \X Nat)
    /\ a > n => R = <<>>
    /\ a <= n => /\ Len(R) >= 1 /\ R[1][1] = a /\ R[Len(R)][2] = n
                 /\ \A i \in 1..Len(R) : R[i][1] \in a..n /\ R[i][2] = last[R[i][1]]
                 /\ \A i \in 1..Len(R) : i > 1 => R[i][1] = R[i - 1][2] + 1

LEMMA RangesCut ==
    ASSUME NEW n \in Nat, NEW last \in [1..n -> 1..n], \A a \in 1..n : last[a] >= a
    PROVE  Cuts(Ranges(n, last), 1, n, last)
<1> DEFINE V == Seq(Nat \X Nat)
           N == n + 1
           G == [a \in 1..N |-> [f \in [1..N -> V] |-> IF a > n THEN <<>> ELSE <<<<a, last[a]>>>> \o f[last[a] + 1]]]
           from == CHOOSE f : f = [a \in 1..(n + 1) |-> IF a > n THEN <<>> ELSE <<<<a, last[a]>>>> \o f[last[a] + 1]]
<1>1. \A a \in 1..N : ~(a > n) => a \in 1..n /\ last[a] \in 1..n /\ last[a] + 1 \in (a + 1)..N /\ last[a] + 1 \in 1..N
                                  /\ a \in Nat /\ last[a] \in Nat
  OBVIOUS
<1>2. Ranges(n, last) = from[1]
  BY DEF Ranges
<1>3. <<>> \in V /\ \A a \in Nat, b \in Nat, v \in V :
          /\ <<<<a, b>>>> \o v \in V /\ Len(<<<<a, b>>>> \o v) = Len(v) + 1 /\ Len(v) \in Nat
          /\ (<<<<a, b>>>> \o v)[1] = <<a, b>>
          /\ \A i \in 1..Len(v) : (<<<<a, b>>>> \o v)[i + 1] = v[i]
  <2>1. <<>> \in V
    BY EmptySeq
  <2>2. ASSUME NEW a \in Nat, NEW b \in Nat, NEW v \in V
        PROVE  /\ <<<<a, b>>>> \o v \in V /\ Len(<<<<a, b>>>> \o v) = Len(v) + 1 /\ Len(v) \in Nat
               /\ (<<<<a, b>>>> \o v)[1] = <<a, b>>
               /\ \A i \in 1..Len(v) : (<<<<a, b>>>> \o v)[i + 1] = v[i]
    <3> DEFINE S == Nat \X Nat
               u == <<<<a, b>>>>
    <3>1. u \in Seq(S) /\ Len(u) = 1 /\ u[1] = <<a, b>>
      OBVIOUS
    <3>2. v \in Seq(S) /\ Len(v) \in Nat
      BY LenProperties
    <3> HIDE DEF u, S
    <3>3. /\ u \o v \in Seq(S) /\ Len(u \o v) = Len(u) + Len(v)
          /\ \A i \in 1..(Len(u) + Len(v)) : (u \o v)[i] = IF i <= Len(u) THEN u[i] ELSE v[i - Len(u)]
      BY <3>1, <3>2, ConcatProperties
    <3>4. \A i \in 1..Len(v) : i + 1 \in 1..(Len(u) + Len(v)) /\ ~(i + 1 <= Len(u)) /\ (i + 1) - Len(u) = i
      BY <3>1, <3>2
    <3>5. \A i \in 1..Len(v) : (u \o v)[i + 1] = v[i]
      BY <3>3, <3>4
    <3>6. (u \o v)[1] = u[1]
      BY <3>1, <3>2, <3>3
    <3>7. QED
      BY <3>1, <3>2, <3>3, <3>5, <3>6 DEF u, S
  <2> HIDE DEF V
  <2>3. QED
    BY <2>1, <2>2
<1>4. \E f : Descends(f, 1, N, V, G)
  <2>1. G \in [1..N -> [[1..N -> V] -> V]]
    <3>1. ASSUME NEW a \in 1..N, NEW f \in [1..N -> V]
          PROVE  (IF a > n THEN <<>> ELSE <<<<a, last[a]>>>> \o f[last[a] + 1]) \in V
      <4> HIDE DEF V, N
      <4>1. QED
        BY <1>1, <1>3
    <3> HIDE DEF V, N
    <3>2. QED
      BY <3>1
  <2>2. \A x \in 1..N : \A f, g \in [1..N -> V] : (\A y \in (x + 1)..N : f[y] = g[y]) => G[x][f] = G[x][g]
    <3> HIDE DEF V, N
    <3>1. QED
      BY <1>1
  <2>3. N \in Int /\ 1 \in Int
    OBVIOUS
  <2> HIDE DEF G, V, N
  <2>4. LooksUp(1, N, V, G)
    BY <2>1, <2>2 DEF LooksUp
  <2>5. QED
    BY <1>3, <2>3, <2>4, DownSolution
<1> HIDE DEF V
<1>5. PICK f \in [1..N -> V] : \A a \in 1..N : f[a] = G[a][f]
  BY <1>4 DEF Descends
<1>6. f = [a \in 1..(n + 1) |-> IF a > n THEN <<>> ELSE <<<<a, last[a]>>>> \o f[last[a] + 1]]
  BY <1>5
<1>7. from = [a \in 1..(n + 1) |-> IF a > n THEN <<>> ELSE <<<<a, last[a]>>>> \o from[last[a] + 1]]
  BY <1>6
<1> HIDE DEF from
<1> DEFINE T == {a \in 1..N : Cuts(from[a], a, n, last)}
<1>8. ASSUME NEW a \in 1..N, \A b \in (a + 1)..N : b \in T PROVE a \in T
  <2>1. CASE a > n
    <3>1. from[a] = <<>>
      BY <1>7, <2>1
    <3>2. Cuts(<<>>, a, n, last)
      BY <1>3, <2>1 DEF Cuts, V
    <3>3. QED
      BY <3>1, <3>2
  <2>2. CASE ~(a > n)
    <3> DEFINE b == last[a] + 1
               v == from[b]
               u == from[a]
    <3>1. b \in T /\ b \in 1..N /\ b \in (a + 1)..N /\ a \in Nat /\ last[a] \in Nat /\ a \in 1..n /\ last[a] \in 1..n
      BY <1>1, <1>8, <2>2
    <3>2. Cuts(v, b, n, last) /\ v \in V
      BY <3>1 DEF Cuts, V
    <3>3. u = <<<<a, last[a]>>>> \o v
      BY <1>7, <2>2
    <3> HIDE DEF b, v, u
    <3>4. /\ u \in V /\ Len(u) = Len(v) + 1 /\ Len(v) \in Nat /\ u[1] = <<a, last[a]>>
          /\ \A i \in 1..Len(v) : u[i + 1] = v[i]
      BY <1>3, <3>1, <3>2, <3>3
    <3>5. \A i \in 1..Len(u) : i = 1 \/ (i > 1 /\ i - 1 \in 1..Len(v) /\ u[i] = v[i - 1])
      <4>1. ASSUME NEW i \in 1..Len(u), i # 1 PROVE i > 1 /\ i - 1 \in 1..Len(v) /\ u[i] = v[i - 1]
        <5>1. Len(u) = Len(v) + 1 /\ Len(v) \in Nat
          BY <3>4
        <5>2. i > 1 /\ i - 1 \in 1..Len(v) /\ (i - 1) + 1 = i
          BY <4>1, <5>1
        <5>3. u[(i - 1) + 1] = v[i - 1]
          BY <3>4, <5>2
        <5>4. QED
          BY <5>2, <5>3
      <4>2. QED
        BY <4>1
    <3>6. CASE b > n
      <4>1. v = <<>> /\ Len(v) = 0 /\ last[a] = n
        BY <3>1, <3>2, <3>6 DEF Cuts, b
      <4>8. Len(v) = 0
        BY <4>1
      <4>5. Len(u) = 1
        BY <3>4, <4>8
      <4>6. u[1][1] = a /\ u[1][2] = last[a]
        BY <3>4
      <4>2. Len(u) = 1 /\ u[1][1] = a /\ u[1][2] = last[a]
        BY <4>5, <4>6
      <4>3. \A i \in 1..Len(u) : i = 1
        BY <4>2
      <4>4. Cuts(u, a, n, last)
        <5>1. u[Len(u)][2] = n /\ Len(u) >= 1
          BY <4>1, <4>2
        <5>2. \A i \in 1..Len(u) : u[i][1] \in a..n /\ u[i][2] = last[u[i][1]]
          <6>1. a \in a..n
            BY <3>1
          <6>2. QED
            BY <4>2, <4>3, <6>1
        <5>3. \A i \in 1..Len(u) : ~(i > 1)
          BY <4>3
        <5>4. u \in Seq(Nat \X Nat)
          BY <3>4 DEF V
        <5>5. QED
          BY <2>2, <4>2, <5>1, <5>2, <5>3, <5>4 DEF Cuts
      <4>7. QED
        BY <4>4 DEF u
    <3>7. CASE b <= n
      <4>1. /\ Len(v) >= 1 /\ v[1][1] = b /\ v[Len(v)][2] = n
            /\ \A i \in 1..Len(v) : v[i][1] \in b..n /\ v[i][2] = last[v[i][1]]
            /\ \A i \in 1..Len(v) : i > 1 => v[i][1] = v[i - 1][2] + 1
        BY <3>2, <3>7 DEF Cuts
      <4>2. u[1][1] = a /\ u[1][2] = last[a]
        BY <3>4
      <4>3. u[Len(u)][2] = n
        <5>1. Len(v) \in 1..Len(v)
          BY <3>4, <4>1
        <5>2. u[Len(v) + 1] = v[Len(v)]
          BY <3>4, <5>1
        <5>3. QED
          BY <3>4, <4>1, <5>2
      <4>4. \A i \in 1..Len(u) : u[i][1] \in a..n /\ u[i][2] = last[u[i][1]]
        <5>1. \A x \in b..n : x \in a..n
          BY <3>1
        <5>2. SUFFICES ASSUME NEW i \in 1..Len(u) PROVE u[i][1] \in a..n /\ u[i][2] = last[u[i][1]]
          OBVIOUS
        <5>3. CASE i = 1
          <6>1. a \in a..n
            BY <3>1
          <6>2. QED
            BY <4>2, <5>3, <6>1
        <5>4. CASE i # 1
          <6>1. i - 1 \in 1..Len(v) /\ u[i] = v[i - 1]
            BY <3>5, <5>4
          <6>2. v[i - 1][1] \in b..n /\ v[i - 1][2] = last[v[i - 1][1]]
            BY <4>1, <6>1
          <6>3. QED
            BY <5>1, <6>1, <6>2
        <5>5. QED
          BY <5>3, <5>4
      <4>5. ASSUME NEW i \in 1..Len(u), i > 1 PROVE u[i][1] = u[i - 1][2] + 1
        <5>1. i - 1 \in 1..Len(v) /\ u[i] = v[i - 1]
          BY <3>5, <4>5
        <5>2. CASE i = 2
          BY <4>1, <4>2, <5>1, <5>2 DEF b
        <5>3. CASE i # 2
          <6>1. i - 1 \in 1..Len(u) /\ i - 1 # 1 /\ i - 1 > 1
            BY <3>4, <4>5, <5>1, <5>3
          <6>2. u[i - 1] = v[(i - 1) - 1]
            BY <3>5, <6>1
          <6>3. v[i - 1][1] = v[(i - 1) - 1][2] + 1
            BY <4>1, <5>1, <6>1
          <6>4. QED
            BY <5>1, <6>2, <6>3
        <5>4. QED
          BY <5>2, <5>3
      <4>6. Cuts(u, a, n, last)
        BY <2>2, <3>4, <4>1, <4>2, <4>3, <4>4, <4>5 DEF Cuts, V
      <4>7. QED
        BY <4>6 DEF u
    <3>8. QED
      BY <3>1, <3>6, <3>7
  <2>3. QED
    BY <2>1, <2>2
<1> HIDE DEF T
<1>9. 1 \in T
  <2>1. 1 \in Int /\ N \in Int /\ 1 \in 1..N
    OBVIOUS
  <2>2. \A a \in 1..N : a \in T
    BY <1>8, <2>1, DownInduct, Zenon
  <2>3. QED
    BY <2>1, <2>2
<1>10. QED
  BY <1>2, <1>9 DEF T

-----------------------------------------------------------------------------
(* How far a range goes.                                                   *)

\* The rows from a that fit go to e; a first row that does not fit is alone.
Furthest(bitmap, max, a, e) ==
    /\ e \in a..Len(bitmap)
    /\ IF Covers(bitmap, max, a, a)
       THEN Covers(bitmap, max, a, e) /\ (e < Len(bitmap) => ~Covers(bitmap, max, a, e + 1))
       ELSE e = a

LEMMA CoversMono ==
    ASSUME NEW bitmap \in Seq(SUBSET Pages), NEW max \in Int, NEW a \in 1..Len(bitmap), NEW e \in a..Len(bitmap), NEW b \in a..e,
           Covers(bitmap, max, a, e)
    PROVE  Covers(bitmap, max, a, b)
<1> DEFINE X == UNION {bitmap[i] : i \in a..b}
           Y == UNION {bitmap[i] : i \in a..e}
<1>1. Len(bitmap) \in Nat /\ \A i \in 1..Len(bitmap) : bitmap[i] \in SUBSET Pages
  BY LenProperties, ElementOfSeq
<1>2. \A i \in a..b : i \in a..e
  BY <1>1
<1>3. \A i \in a..e : i \in 1..Len(bitmap)
  BY <1>1
<1>4. X \subseteq Y /\ Y \subseteq Pages
  BY <1>1, <1>2, <1>3
<1>5. IsFiniteSet(Pages)
  BY Natural, FS_Interval DEF Pages
<1>6. Cardinality(Y) <= max
  BY DEF Covers
<1> HIDE DEF X, Y
<1>7. IsFiniteSet(Y) /\ IsFiniteSet(X)
  BY <1>4, <1>5, FS_Subset
<1>8. Cardinality(X) \in Nat /\ Cardinality(Y) \in Nat /\ Cardinality(X) <= Cardinality(Y)
  BY <1>4, <1>7, FS_Subset, FS_CardinalityType
<1>9. Cardinality(X) <= max
  BY <1>6, <1>8
<1>10. QED
  BY <1>9 DEF Covers, X

LEMMA OneFurthest ==
    ASSUME NEW bitmap \in Seq(SUBSET Pages), NEW max \in Int, NEW a \in 1..Len(bitmap), NEW d, NEW e,
           Furthest(bitmap, max, a, d), Furthest(bitmap, max, a, e)
    PROVE  d = e
<1> DEFINE n == Len(bitmap)
<1>1. n \in Nat /\ d \in a..n /\ e \in a..n /\ a \in 1..n
  BY LenProperties DEF Furthest
<1> HIDE DEF n
<1>2. ASSUME NEW x \in a..n, NEW y \in a..n, Furthest(bitmap, max, a, x), Furthest(bitmap, max, a, y), x < y PROVE FALSE
  <2>1. CASE Covers(bitmap, max, a, a)
    <3>1. Covers(bitmap, max, a, y) /\ ~Covers(bitmap, max, a, x + 1)
      BY <1>1, <1>2, <2>1 DEF Furthest, n
    <3>2. x + 1 \in a..y
      BY <1>1, <1>2
    <3>3. QED
      BY <3>1, <3>2, <1>2, CoversMono DEF n
  <2>2. CASE ~Covers(bitmap, max, a, a)
    <3>1. x = a /\ y = a
      BY <1>2, <2>2 DEF Furthest
    <3>2. QED
      BY <1>1, <1>2, <3>1
  <2>3. QED
    BY <2>1, <2>2
<1>3. ~(d < e) /\ ~(e < d)
  BY <1>1, <1>2
<1>4. QED
  BY <1>1, <1>3

\* The probing planner goes that far.
LEMMA ProbedFurthest ==
    ASSUME NEW bitmap \in Seq(SUBSET Pages), NEW max \in Int, NEW a \in 1..Len(bitmap)
    PROVE  Furthest(bitmap, max, a, LastProbed(bitmap, max, a))
<1> DEFINE n == Len(bitmap)
           nothing == Max({})
           V == [1..MaxProbe -> (a..n) \cup {nothing}]
           nxt(e, step) == Min({e + step, n})
           fit(e, step) == {i \in e..nxt(e, step) : Covers(bitmap, max, a, i)}
           Grow(e, g) == [step \in 1..MaxProbe |->
                            IF e = n THEN n
                            ELSE IF Covers(bitmap, max, a, nxt(e, step)) THEN g[nxt(e, step)][Min({2 * step, MaxProbe})]
                            ELSE Max(fit(e, step))]
           G == [e \in a..n |-> [g \in [a..n -> V] |-> Grow(e, g)]]
           grow == CHOOSE g : g = [e \in a..n |-> Grow(e, g)]
<1>1. LastProbed(bitmap, max, a) = IF Covers(bitmap, max, a, a) THEN grow[a][ProbeStep] ELSE a
  BY DEF LastProbed
<1>2. n \in Nat /\ a \in 1..n
  BY LenProperties
<1>3. MaxProbe \in Nat \ {0} /\ ProbeStep \in 1..MaxProbe
  BY AttentionAssumption
<1> HIDE DEF n, nothing
<1>4. ASSUME NEW e \in a..n, NEW step \in 1..MaxProbe
      PROVE  /\ Min({2 * step, MaxProbe}) \in 1..MaxProbe
             /\ nxt(e, step) \in e..n /\ (e # n => nxt(e, step) \in (e + 1)..n) /\ nxt(e, step) \in a..n
             /\ fit(e, step) \in SUBSET (a..n)
             /\ fit(e, step) # {} => Max(fit(e, step)) \in fit(e, step) /\ \A y \in fit(e, step) : y <= Max(fit(e, step))
  <2>1. Min({2 * step, MaxProbe}) \in 1..MaxProbe
    <3>1. 2 * step \in Int /\ MaxProbe \in Int /\ 2 * step >= 1
      BY <1>3
    <3>2. Min({2 * step, MaxProbe}) = IF 2 * step <= MaxProbe THEN 2 * step ELSE MaxProbe
      BY <3>1, OfTwo
    <3>3. QED
      BY <1>3, <3>1, <3>2
  <2>2. nxt(e, step) \in e..n /\ (e # n => nxt(e, step) \in (e + 1)..n)
    <3>1. e + step \in Int /\ n \in Int /\ e + step >= e + 1 /\ e <= n
      BY <1>2, <1>3
    <3>2. Min({e + step, n}) = IF e + step <= n THEN e + step ELSE n
      BY <3>1, OfTwo
    <3>3. QED
      BY <1>2, <1>3, <3>1, <3>2
  <2>3. nxt(e, step) \in a..n
    BY <1>2, <2>2
  <2>4. fit(e, step) \in SUBSET (a..n)
    <3> HIDE DEF nxt
    <3>1. \A i \in e..nxt(e, step) : i \in a..n
      BY <1>2, <2>2
    <3>2. QED
      BY <3>1
  <2>5. fit(e, step) # {} => Max(fit(e, step)) \in fit(e, step) /\ \A y \in fit(e, step) : y <= Max(fit(e, step))
    <3> HIDE DEF fit
    <3>1. a \in Int /\ n \in Int
      BY <1>2
    <3>2. QED
      BY <2>4, <3>1, Extremes
  <2>6. QED
    BY <2>1, <2>2, <2>3, <2>4, <2>5
<1>5. ASSUME NEW e \in a..n, NEW step \in 1..MaxProbe, NEW g \in [a..n -> V]
      PROVE  Grow(e, g)[step] \in (a..n) \cup {nothing}
  <2>1. CASE e = n
    BY <1>2, <2>1
  <2>2. CASE e # n /\ Covers(bitmap, max, a, nxt(e, step))
    <3>1. Grow(e, g)[step] = g[nxt(e, step)][Min({2 * step, MaxProbe})]
      BY <2>2
    <3>2. g[nxt(e, step)] \in V
      BY <1>4
    <3> DEFINE s == Min({2 * step, MaxProbe})
    <3>3. s \in 1..MaxProbe
      BY <1>4
    <3> HIDE DEF s
    <3>4. g[nxt(e, step)][s] \in (a..n) \cup {nothing}
      BY <3>2, <3>3
    <3> HIDE DEF Grow, nxt
    <3>5. QED
      BY <3>1, <3>4 DEF s
  <2>3. CASE e # n /\ ~Covers(bitmap, max, a, nxt(e, step))
    <3>1. Grow(e, g)[step] = Max(fit(e, step))
      BY <2>3
    <3> HIDE DEF Grow, fit
    <3>2. CASE fit(e, step) = {}
      BY <3>1, <3>2 DEF nothing
    <3>3. CASE fit(e, step) # {}
      BY <1>4, <3>1, <3>3
    <3>4. QED
      BY <3>2, <3>3
  <2>4. QED
    BY <2>1, <2>2, <2>3
<1>6. \E g : Descends(g, a, n, V, G)
  <2>1. G \in [a..n -> [[a..n -> V] -> V]]
    <3>1. ASSUME NEW e \in a..n, NEW g \in [a..n -> V] PROVE Grow(e, g) \in V
      <4>1. DOMAIN Grow(e, g) = 1..MaxProbe /\ Grow(e, g) = [step \in 1..MaxProbe |-> Grow(e, g)[step]]
        OBVIOUS
      <4> HIDE DEF Grow
      <4>2. \A step \in 1..MaxProbe : Grow(e, g)[step] \in (a..n) \cup {nothing}
        BY <1>5
      <4>3. QED
        BY <4>1, <4>2
    <3> HIDE DEF V, Grow
    <3>2. QED
      BY <3>1
  <2>2. ASSUME NEW e \in a..n, NEW f \in [a..n -> V], NEW g \in [a..n -> V], \A y \in (e + 1)..n : f[y] = g[y]
        PROVE  G[e][f] = G[e][g]
    <3>1. \A step \in 1..MaxProbe : e # n => f[nxt(e, step)] = g[nxt(e, step)]
      BY <1>4, <2>2
    <3>2. Grow(e, f) = Grow(e, g)
      <4> HIDE DEF nxt, fit, V
      <4>1. QED
        BY <3>1
    <3>3. QED
      BY <3>2
  <2>3. a \in Int /\ n \in Int
    BY <1>2
  <2>4. [step \in 1..MaxProbe |-> nothing] \in V
    OBVIOUS
  <2> HIDE DEF G, V
  <2>5. LooksUp(a, n, V, G)
    BY <2>1, <2>2 DEF LooksUp
  <2>6. QED
    BY <2>3, <2>4, <2>5, DownSolution
<1>7. PICK g \in [a..n -> V] : \A e \in a..n : g[e] = G[e][g]
  BY <1>6 DEF Descends
<1>8. g = [e \in a..n |-> Grow(e, g)]
  BY <1>7
<1>9. grow = [e \in a..n |-> Grow(e, grow)]
  BY <1>8
<1> HIDE DEF grow
<1> DEFINE Good(e, x) == /\ x \in e..n /\ Covers(bitmap, max, a, x) /\ (x < n => ~Covers(bitmap, max, a, x + 1))
           T == {e \in a..n : Covers(bitmap, max, a, e) => \A step \in 1..MaxProbe : Good(e, grow[e][step])}
<1>10. ASSUME NEW e \in a..n, \A y \in (e + 1)..n : y \in T PROVE e \in T
  <2>1. SUFFICES ASSUME Covers(bitmap, max, a, e), NEW step \in 1..MaxProbe PROVE Good(e, grow[e][step])
    OBVIOUS
  <2> DEFINE v == grow[e][step]
  <2>2. CASE e = n
    <3>1. v = n
      BY <1>9, <2>2
    <3> HIDE DEF v
    <3>2. QED
      BY <1>2, <2>1, <2>2, <3>1 DEF v
  <2>3. CASE e # n /\ Covers(bitmap, max, a, nxt(e, step))
    <3>1. v = grow[nxt(e, step)][Min({2 * step, MaxProbe})]
      BY <1>9, <2>3
    <3> HIDE DEF v
    <3> DEFINE y == nxt(e, step)
               s == Min({2 * step, MaxProbe})
    <3>2. y \in (e + 1)..n /\ s \in 1..MaxProbe /\ y \in e..n
      BY <1>4, <2>3
    <3>3. y \in T
      BY <1>10, <3>2
    <3>4. Covers(bitmap, max, a, y)
      BY <2>3
    <3> HIDE DEF y, s, Good
    <3>5. Good(y, grow[y][s])
      BY <3>2, <3>3, <3>4
    <3>6. Good(y, v)
      BY <3>1, <3>5 DEF y, s
    <3>7. Good(e, v)
      BY <1>2, <3>2, <3>6 DEF Good
    <3>8. QED
      BY <3>7 DEF v
  <2>4. CASE e # n /\ ~Covers(bitmap, max, a, nxt(e, step))
    <3>1. v = Max(fit(e, step))
      BY <1>9, <2>4
    <3> HIDE DEF v
    <3>2. e \in fit(e, step)
      <4>1. e \in e..nxt(e, step)
        <5>1. nxt(e, step) \in e..n
          BY <1>4
        <5> HIDE DEF nxt
        <5>2. QED
          BY <1>2, <5>1
      <4>2. QED
        BY <2>1, <4>1
    <3>3. v \in fit(e, step) /\ \A y \in fit(e, step) : y <= v
      <4> HIDE DEF fit
      <4>1. QED
        BY <1>4, <3>1, <3>2
    <3> DEFINE y == nxt(e, step)
    <3>4. y \in e..n
      BY <1>4
    <3>5. v \in e..y /\ Covers(bitmap, max, a, v) /\ ~Covers(bitmap, max, a, y)
      BY <2>4, <3>3
    <3>6. \A i \in e..y : Covers(bitmap, max, a, i) => i <= v
      BY <3>3
    <3> HIDE DEF y, nxt, fit
    <3>7. v # y
      BY <3>5
    <3>8. v + 1 \in e..y /\ ~(v + 1 <= v) /\ v \in e..n
      BY <1>2, <3>4, <3>5, <3>7
    <3>9. ~Covers(bitmap, max, a, v + 1)
      BY <3>6, <3>8
    <3>10. QED
      BY <3>5, <3>8, <3>9 DEF v
  <2>5. QED
    BY <2>2, <2>3, <2>4
<1> HIDE DEF T
<1>11. a \in T
  <2>1. a \in Int /\ n \in Int /\ a \in a..n
    BY <1>2
  <2>2. \A e \in a..n : e \in T
    BY <1>10, <2>1, DownInduct, Zenon
  <2>3. QED
    BY <2>1, <2>2
<1>12. CASE Covers(bitmap, max, a, a)
  <2>1. Good(a, grow[a][ProbeStep])
    BY <1>3, <1>11, <1>12 DEF T
  <2>2. LastProbed(bitmap, max, a) = grow[a][ProbeStep]
    BY <1>1, <1>12
  <2>3. QED
    BY <1>12, <2>1, <2>2 DEF Furthest, n
<1>13. CASE ~Covers(bitmap, max, a, a)
  <2>1. LastProbed(bitmap, max, a) = a /\ a \in a..n
    BY <1>1, <1>2, <1>13
  <2>2. QED
    BY <1>13, <2>1 DEF Furthest, n
<1>14. QED
  BY <1>12, <1>13

\* The curve of first rows counts the pages of the first k rows.
LEMMA CurveCounts ==
    ASSUME NEW bitmap \in Seq(SUBSET Pages), NEW max \in Int, NEW a \in 1..Len(bitmap), NEW k \in 0..(Len(bitmap) + 1 - a)
    PROVE  UnionCurve(FirstRow(bitmap, a), a, k) <= max <=> Covers(bitmap, max, a, a + k - 1)
<1> DEFINE n == Len(bitmap)
           first == FirstRow(bitmap, a)
           at(pg) == {i \in a..n : pg \in bitmap[i]} \cup {n + 1}
           X == {pg \in Pages : first[pg] < a + k}
           Y == UNION {bitmap[i] : i \in a..(a + k - 1)}
<1>1. n \in Nat /\ a \in 1..n /\ k \in 0..(n + 1 - a)
  BY LenProperties
<1>2. \A i \in 1..n : bitmap[i] \in SUBSET Pages
  BY ElementOfSeq
<1>3. \A pg \in Pages : first[pg] = Min(at(pg))
  BY DEF FirstRow
<1> HIDE DEF n, first
<1>4. ASSUME NEW pg \in Pages
      PROVE  first[pg] \in at(pg) /\ (\A y \in at(pg) : first[pg] <= y) /\ first[pg] \in Int
  <2>1. at(pg) \in SUBSET (a..(n + 1)) /\ at(pg) # {}
    BY <1>1
  <2>2. a \in Int /\ n + 1 \in Int
    BY <1>1
  <2> HIDE DEF at
  <2>3. first[pg] \in at(pg) /\ \A y \in at(pg) : first[pg] <= y
    BY <1>3, <2>1, <2>2, Extremes
  <2>4. QED
    BY <1>1, <2>1, <2>3
<1>5. ASSUME NEW pg \in X PROVE pg \in Y
  <2>1. pg \in Pages /\ first[pg] < a + k /\ first[pg] \in at(pg) /\ first[pg] \in Int
    BY <1>4
  <2>2. first[pg] # n + 1
    BY <1>1, <2>1
  <2>3. first[pg] \in a..(a + k - 1) /\ pg \in bitmap[first[pg]]
    BY <1>1, <2>1, <2>2
  <2>4. QED
    BY <2>3
<1>6. ASSUME NEW pg \in Y PROVE pg \in X
  <2>1. PICK i \in a..(a + k - 1) : pg \in bitmap[i]
    OBVIOUS
  <2>2. i \in a..n /\ i \in 1..n /\ i < a + k
    BY <1>1
  <2>3. pg \in Pages /\ i \in at(pg)
    BY <1>2, <2>1, <2>2
  <2>4. first[pg] <= i /\ first[pg] \in Int
    BY <1>4, <2>3
  <2>5. first[pg] < a + k
    BY <1>1, <2>2, <2>4
  <2>6. QED
    BY <2>3, <2>5
<1>7. X = Y
  BY <1>5, <1>6
<1>8. UnionCurve(FirstRow(bitmap, a), a, k) = Cardinality(X)
  BY DEF UnionCurve, first
<1>9. Covers(bitmap, max, a, a + k - 1) <=> Cardinality(Y) <= max
  BY DEF Covers
<1> HIDE DEF X, Y
<1>10. QED
  BY <1>7, <1>8, <1>9

\* The planner over the curve goes as far as the probing one.
LEMMA CurveFurthest ==
    ASSUME NEW bitmap \in Seq(SUBSET Pages), NEW max \in Int, NEW a \in 1..Len(bitmap)
    PROVE  Furthest(bitmap, max, a, LastOnCurve(bitmap, max, a, FirstRow(bitmap, a)))
<1> DEFINE n == Len(bitmap)
           first == FirstRow(bitmap, a)
           K == {k \in 0..(n + 1 - a) : UnionCurve(first, a, k) <= max}
           m == Max({1} \cup K)
           e == a - 1 + m
<1>1. n \in Nat /\ a \in 1..n
  BY LenProperties
<1>2. LastOnCurve(bitmap, max, a, first) = e
  BY DEF LastOnCurve
<1>3. \A k \in 0..(n + 1 - a) : k \in K <=> Covers(bitmap, max, a, a + k - 1)
  BY CurveCounts
<1> HIDE DEF first
<1>4. m \in {1} \cup K /\ (\A y \in {1} \cup K : y <= m) /\ m \in 0..(n + 1 - a) /\ m >= 1
  <2>1. {1} \cup K \in SUBSET (0..(n + 1 - a)) /\ {1} \cup K # {} /\ 0 \in Int /\ n + 1 - a \in Int
    BY <1>1
  <2> HIDE DEF K, n
  <2>2. m \in {1} \cup K /\ \A y \in {1} \cup K : y <= m
    BY <2>1, Extremes
  <2>3. QED
    BY <2>1, <2>2
<1> HIDE DEF K, n, m
<1>5. e \in a..n
  BY <1>1, <1>4
<1>6. CASE Covers(bitmap, max, a, a)
  <2>1. 1 \in K
    <3>1. 1 \in 0..(n + 1 - a) /\ a + 1 - 1 = a
      BY <1>1
    <3>2. QED
      BY <1>3, <1>6, <3>1
  <2>2. m \in K
    BY <1>4, <2>1
  <2>3. Covers(bitmap, max, a, e)
    <3>1. a + m - 1 = e
      BY <1>1, <1>4
    <3>2. QED
      BY <1>3, <1>4, <2>2, <3>1
  <2>4. ASSUME e < n PROVE ~Covers(bitmap, max, a, e + 1)
    <3>1. m + 1 \in 0..(n + 1 - a) /\ a + (m + 1) - 1 = e + 1
      BY <1>1, <1>4, <2>4
    <3>2. ~(m + 1 <= m)
      BY <1>4
    <3>3. m + 1 \notin K
      BY <1>4, <3>2
    <3>4. QED
      BY <1>3, <3>1, <3>3
  <2>5. QED
    BY <1>2, <1>5, <1>6, <2>3, <2>4 DEF Furthest, n, first
<1>7. CASE ~Covers(bitmap, max, a, a)
  <2>1. ASSUME m # 1 PROVE FALSE
    <3>1. m \in K /\ m > 1
      BY <1>4, <2>1
    <3>2. Covers(bitmap, max, a, a + m - 1)
      BY <1>3, <1>4, <3>1
    <3>3. a + m - 1 \in a..n /\ a \in a..(a + m - 1)
      BY <1>1, <1>4, <3>1
    <3>4. Covers(bitmap, max, a, a)
      BY <3>2, <3>3, CoversMono DEF n
    <3>5. QED
      BY <1>7, <3>4
  <2>2. e = a
    BY <1>1, <2>1
  <2>3. QED
    BY <1>2, <1>5, <1>7, <2>2 DEF Furthest, n, first
<1>8. QED
  BY <1>6, <1>7

\* Both planners make the same ranges: as few as the cap allows, from the first row on.
Greedy(bitmap, max, R) ==
    \E last \in [1..Len(bitmap) -> 1..Len(bitmap)] :
        /\ \A a \in 1..Len(bitmap) : last[a] >= a /\ Furthest(bitmap, max, a, last[a])
        /\ Cuts(R, 1, Len(bitmap), last)

LEMMA BothGreedy ==
    ASSUME NEW bitmap \in Seq(SUBSET Pages), NEW max \in Int
    PROVE  /\ GreedyRowSlices(bitmap, max) = GreedyRowSlicesFast(bitmap, max)
           /\ Greedy(bitmap, max, GreedyRowSlices(bitmap, max))
<1> DEFINE n == Len(bitmap)
           slow == [a \in 1..n |-> LastProbed(bitmap, max, a)]
           fast == [a \in 1..n |-> LastOnCurve(bitmap, max, a, FirstRow(bitmap, a))]
<1>1. n \in Nat
  BY LenProperties
<1>2. GreedyRowSlices(bitmap, max) = Ranges(n, slow) /\ GreedyRowSlicesFast(bitmap, max) = Ranges(n, fast)
  BY DEF GreedyRowSlices, GreedyRowSlicesFast
<1>3. ASSUME NEW a \in 1..n PROVE Furthest(bitmap, max, a, slow[a]) /\ Furthest(bitmap, max, a, fast[a])
  BY ProbedFurthest, CurveFurthest
<1>4. DOMAIN slow = 1..n /\ DOMAIN fast = 1..n /\ slow = [a \in 1..n |-> slow[a]] /\ fast = [a \in 1..n |-> fast[a]]
  OBVIOUS
<1> HIDE DEF slow, fast
<1>5. \A a \in 1..n : slow[a] = fast[a]
  BY <1>3, OneFurthest
<1>6. slow = fast
  BY <1>4, <1>5
<1>7. \A a \in 1..n : slow[a] \in a..n
  BY <1>3 DEF Furthest
<1> HIDE DEF n
<1>8. slow \in [1..n -> 1..n] /\ \A a \in 1..n : slow[a] >= a
  <2>1. \A a \in 1..n : slow[a] \in 1..n /\ slow[a] >= a
    BY <1>1, <1>7
  <2>2. QED
    BY <1>4, <2>1
<1>9. Cuts(Ranges(n, slow), 1, n, slow)
  BY <1>1, <1>8, RangesCut
<1>10. Greedy(bitmap, max, Ranges(n, slow))
  BY <1>3, <1>8, <1>9 DEF Greedy, n
<1>11. QED
  BY <1>2, <1>6, <1>10

-----------------------------------------------------------------------------
(* The slice plan.                                                         *)

Joined(parts) == FoldLeft(LAMBDA slices, part : slices \o part, <<>>, parts)

JoinsThrough(h, U, n, parts) ==
    h \in [0..n -> Seq(U)] /\ h[0] = <<>> /\ (\A i \in 1..n : h[i] = h[i - 1] \o parts[i]) /\ Joined(parts) = h[n]

\* A plan is joined part by part.
LEMMA JoinRun ==
    ASSUME NEW U, NEW n \in Nat, NEW parts, DOMAIN parts = 1..n, \A i \in 1..n : parts[i] \in Seq(U)
    PROVE  \E h : JoinsThrough(h, U, n, parts)
<1> DEFINE V == Seq(U)
           Op(acc, m) == acc \o m
           G == [i \in 1..n |-> [v \in V |-> Op(v, parts[i])]]
           base == <<>>
           iter == CHOOSE f : f = [t \in SUBSET (DOMAIN parts) |->
                                     IF t = {} THEN base ELSE Op(f[t \ {Max(t)}], parts[Max(t)])]
<1>1. base \in V
  BY EmptySeq
<1>2. ASSUME NEW v \in V, NEW i \in 1..n PROVE Op(v, parts[i]) \in V
  BY ConcatProperties
<1>3. Joined(parts) = iter[DOMAIN parts]
  BY DEF Joined, FoldLeft, MapThenFoldSet
<1> HIDE DEF Op, base, V
<1>4. G \in [1..n -> [V -> V]] /\ \A v \in V, i \in 1..n : G[i][v] = Op(v, parts[i])
  BY <1>1, <1>2
<1> HIDE DEF G
<1>5. PICK f : Unfolds(f, V, base, n, G)
  BY <1>1, <1>4, FoldSolution
<1>6. ASSUME NEW t \in SUBSET (1..n), t # {} PROVE f[t] = Op(f[t \ {Max(t)}], parts[Max(t)])
  <2>1. Max(t) \in 1..n /\ f[t \ {Max(t)}] \in V
    BY <1>1, <1>5, <1>6, MaxIn DEF Unfolds
  <2>2. QED
    BY <1>4, <1>5, <1>6, <2>1 DEF Unfolds
<1>7. f = [t \in SUBSET (1..n) |-> IF t = {} THEN base ELSE Op(f[t \ {Max(t)}], parts[Max(t)])]
  BY <1>5, <1>6 DEF Unfolds
<1>8. iter = [t \in SUBSET (1..n) |-> IF t = {} THEN base ELSE Op(iter[t \ {Max(t)}], parts[Max(t)])]
  BY <1>7
<1>9. Joined(parts) = iter[1..n]
  BY <1>3
<1> HIDE DEF iter
<1>10. iter[{}] = base /\ \A i \in 1..n : iter[1..i] = Op(iter[1..(i - 1)], parts[i])
  <2>1. iter[{}] = base
    BY <1>8
  <2>2. ASSUME NEW i \in 1..n PROVE iter[1..i] = Op(iter[1..(i - 1)], parts[i])
    <3>1. 1..i \in SUBSET (1..n) /\ 1..i # {} /\ Max(1..i) = i /\ (1..i) \ {Max(1..i)} = 1..(i - 1)
      BY <1>1, UpTo, ZenonT(60)
    <3>2. QED
      BY <1>8, <3>1
  <2>3. QED
    BY <2>1, <2>2
<1>11. PICK h : RunsThrough(h, V, base, n, G) /\ h[n] = iter[1..n]
  <2>1. Iterates(iter, V, base, n, G)
    BY <1>4, <1>10 DEF Iterates
  <2>2. G \in [1..n -> [V -> V]]
    BY <1>4
  <2>3. QED
    BY <1>1, <2>1, <2>2, FoldRun, SMTT(60)
<1>12. h \in [0..n -> V] /\ h[0] = base /\ \A i \in 1..n : h[i] = Op(h[i - 1], parts[i])
  <2>1. h \in [0..n -> V] /\ h[0] = base /\ \A i \in 1..n : h[i] = G[i][h[i - 1]]
    BY <1>11 DEF RunsThrough
  <2>2. \A i \in 1..n : h[i - 1] \in V
    <3>1. \A i \in 1..n : i - 1 \in 0..n
      OBVIOUS
    <3>2. QED
      BY <2>1, <3>1
  <2>3. QED
    BY <1>4, <2>1, <2>2
<1>13. QED
  BY <1>9, <1>11, <1>12 DEF base, Op, V, JoinsThrough

\* Slices one behind the other, from query lo to query hi.
Abuts(S, lo, hi) ==
    /\ Len(S) >= 1 /\ S[1].lo = lo /\ S[Len(S)].hi = hi
    /\ \A i \in 1..Len(S) : i > 1 => S[i].lo = S[i - 1].hi + 1

LEMMA AbutsJoin ==
    ASSUME NEW U, NEW u \in Seq(U), NEW v \in Seq(U), NEW a, NEW m, NEW b, NEW c, Abuts(u, a, m), Abuts(v, b, c), b = m + 1
    PROVE  Abuts(u \o v, a, c)
<1> DEFINE w == u \o v
<1>1. /\ Len(u) \in Nat /\ Len(v) \in Nat /\ Len(w) = Len(u) + Len(v)
      /\ \A i \in 1..(Len(u) + Len(v)) : w[i] = IF i <= Len(u) THEN u[i] ELSE v[i - Len(u)]
  BY LenProperties, ConcatProperties
<1>2. /\ Len(u) >= 1 /\ Len(v) >= 1 /\ u[1].lo = a /\ u[Len(u)].hi = m /\ v[1].lo = b /\ v[Len(v)].hi = c
      /\ \A i \in 1..Len(u) : i > 1 => u[i].lo = u[i - 1].hi + 1
      /\ \A i \in 1..Len(v) : i > 1 => v[i].lo = v[i - 1].hi + 1
  BY DEF Abuts
<1> HIDE DEF w
<1>3. w[1] = u[1]
  BY <1>1, <1>2
<1>4. w[Len(w)] = v[Len(v)]
  <2>1. Len(w) \in 1..(Len(u) + Len(v)) /\ ~(Len(w) <= Len(u)) /\ Len(w) - Len(u) = Len(v)
    BY <1>1, <1>2
  <2>2. QED
    BY <1>1, <2>1
<1>5. ASSUME NEW i \in 1..Len(w), i > 1 PROVE w[i].lo = w[i - 1].hi + 1
  <2>1. i \in 1..(Len(u) + Len(v)) /\ i - 1 \in 1..(Len(u) + Len(v))
    BY <1>1, <1>5
  <2>2. CASE i <= Len(u)
    <3>1. w[i] = u[i] /\ w[i - 1] = u[i - 1] /\ i \in 1..Len(u)
      BY <1>1, <2>1, <2>2
    <3>2. QED
      BY <1>2, <1>5, <3>1
  <2>3. CASE i = Len(u) + 1
    <3>1. w[i] = v[1] /\ w[i - 1] = u[Len(u)]
      BY <1>1, <2>1, <2>3
    <3>2. QED
      BY <1>2, <3>1
  <2>4. CASE i > Len(u) + 1
    <3>1. w[i] = v[i - Len(u)] /\ w[i - 1] = v[(i - 1) - Len(u)]
      BY <1>1, <2>1, <2>4
    <3>2. i - Len(u) \in 1..Len(v) /\ i - Len(u) > 1 /\ (i - 1) - Len(u) = (i - Len(u)) - 1
      BY <1>1, <2>1, <2>4
    <3>3. v[i - Len(u)].lo = v[(i - Len(u)) - 1].hi + 1
      BY <1>2, <3>2
    <3>4. QED
      BY <3>1, <3>2, <3>3
  <2>5. QED
    BY <1>1, <2>1, <2>2, <2>3, <2>4
<1>6. QED
  BY <1>1, <1>2, <1>3, <1>4, <1>5 DEF Abuts, w

\* plan_prefill_slices by its steps.
GreedyOf(bitmap, fast) == IF fast THEN GreedyRowSlicesFast(bitmap, cap) ELSE GreedyRowSlices(bitmap, cap)
OfReq(pagesOf) == <<>> \o [m \in DOMAIN call.members |-> UNION {pagesOf[q] : q \in (call.cu[m] + 1)..call.cu[m + 1]}]
WholeOf(a, b, pagesOf) == Slice(Run(a, b), call.cu[a] + 1, call.cu[b + 1], pagesOf)
CutOf(m, fast, pagesOf) ==
    LET ranges == GreedyOf(SubSeq(pagesOf, call.cu[m] + 1, call.cu[m + 1]), fast)
    IN  [i \in DOMAIN ranges |-> Slice(Run(m, m), call.cu[m] + ranges[i][1], call.cu[m] + ranges[i][2], pagesOf)]
PartOf(a, b, fast, pagesOf) ==
    IF a = b /\ Cardinality(OfReq(pagesOf)[a]) > cap THEN CutOf(a, fast, pagesOf) ELSE <<WholeOf(a, b, pagesOf)>>
PartsOf(pagesOf, fast) ==
    LET ranges == GreedyOf(OfReq(pagesOf), fast)
    IN  <<>> \o [i \in DOMAIN ranges |-> PartOf(ranges[i][1], ranges[i][2], fast, pagesOf)]

LEMMA PlanJoins == \A pagesOf : \A fast \in BOOLEAN : PlanSlices(pagesOf, fast) = Joined(PartsOf(pagesOf, fast))
BY SMT DEF PlanSlices, Joined, PartsOf, PartOf, CutOf, WholeOf, OfReq, GreedyOf, FoldLeft, MapThenFoldSet

\* The pages of member m, query by query.
RowsOf(bitmap, m, pagesOf) ==
    /\ bitmap \in Seq(SUBSET Pages) /\ Len(bitmap) = call.cu[m + 1] - call.cu[m]
    /\ \A i \in 1..(call.cu[m + 1] - call.cu[m]) : bitmap[i] = pagesOf[call.cu[m] + i]

\* The pages of the members' queries.
LEMMA ReqPages ==
    ASSUME NEW k, NEW lens, Forward(k, lens), NEW pagesOf \in Seq(SUBSET Pages), Len(pagesOf) = TotalQ
    PROVE  /\ OfReq(pagesOf) \in Seq(SUBSET Pages) /\ Len(OfReq(pagesOf)) = k
           /\ \A m \in 1..k : OfReq(pagesOf)[m] = UNION {pagesOf[q] : q \in (call.cu[m] + 1)..call.cu[m + 1]}
           /\ \A m \in 1..k : RowsOf(SubSeq(pagesOf, call.cu[m] + 1, call.cu[m + 1]), m, pagesOf)
<1>1. /\ TotalQ \in Nat /\ k \in Nat /\ DOMAIN call.members = 1..k
      /\ \A i \in 1..(k + 1) : call.cu[i] \in Nat /\ call.cu[i] <= TotalQ
      /\ \A i \in 1..k : call.cu[i + 1] = call.cu[i] + lens[i] /\ lens[i] \in Nat \ {0}
  <2>1. k \in Nat
    BY DEF Forward
  <2>2. QED
    BY <2>1, QueryOf
<1>2. ASSUME NEW m \in 1..k
      PROVE  /\ call.cu[m] \in Nat /\ call.cu[m + 1] \in Nat /\ call.cu[m] < call.cu[m + 1] /\ call.cu[m + 1] <= TotalQ
  <2>1. m \in 1..(k + 1) /\ m + 1 \in 1..(k + 1)
    BY <1>1
  <2>2. call.cu[m + 1] = call.cu[m] + lens[m] /\ lens[m] \in Nat \ {0}
    BY <1>1
  <2>3. QED
    BY <1>1, <2>1, <2>2
<1>3. \A q \in 1..TotalQ : pagesOf[q] \in SUBSET Pages
  BY ElementOfSeq
<1> DEFINE f == [m \in 1..k |-> UNION {pagesOf[q] : q \in (call.cu[m] + 1)..call.cu[m + 1]}]
<1>4. f \in Seq(SUBSET Pages) /\ Len(f) = k
  <2>1. ASSUME NEW m \in 1..k PROVE f[m] \in SUBSET Pages
    <3>1. \A q \in (call.cu[m] + 1)..call.cu[m + 1] : q \in 1..TotalQ
      BY <1>1, <1>2
    <3>2. \A q \in (call.cu[m] + 1)..call.cu[m + 1] : pagesOf[q] \in SUBSET Pages
      BY <1>3, <3>1
    <3>3. QED
      BY <3>2
  <2>2. f \in [1..k -> SUBSET Pages]
    BY <2>1
  <2>3. \A g \in [1..k -> SUBSET Pages] : g \in Seq(SUBSET Pages) /\ Len(g) = k
    BY <1>1
  <2>4. QED
    BY <2>2, <2>3
<1>5. OfReq(pagesOf) = f
  <2>1. OfReq(pagesOf) = <<>> \o f
    BY <1>1 DEF OfReq
  <2> HIDE DEF f
  <2>2. QED
    BY <1>4, <2>1, ConcatEmptySeq
<1>6. ASSUME NEW m \in 1..k
      PROVE  RowsOf(SubSeq(pagesOf, call.cu[m] + 1, call.cu[m + 1]), m, pagesOf)
  <2> DEFINE x == call.cu[m]
             y == call.cu[m + 1]
  <2>1. x \in Nat /\ y \in Nat /\ x < y /\ y <= TotalQ
    BY <1>2
  <2> HIDE DEF x, y
  <2>2. x + 1 \in 1..(Len(pagesOf) + 1) /\ y \in 0..Len(pagesOf) /\ x + 1 <= y /\ x + 1 \in 1..Len(pagesOf)
        /\ y \in (x + 1 - 1)..Len(pagesOf) /\ y - (x + 1) + 1 = y - x
        /\ \A i \in 1..(y - x) : (x + 1) + i - 1 = x + i
    BY <1>1, <2>1
  <2>3. /\ SubSeq(pagesOf, x + 1, y) \in Seq(SUBSET Pages)
        /\ Len(SubSeq(pagesOf, x + 1, y)) = (IF x + 1 <= y THEN y - (x + 1) + 1 ELSE 0)
        /\ \A i \in 1..(y - (x + 1) + 1) : SubSeq(pagesOf, x + 1, y)[i] = pagesOf[(x + 1) + i - 1]
    BY <2>2, SubSeqProperties
  <2>4. SubSeq(pagesOf, x + 1, y) \in Seq(SUBSET Pages) /\ Len(SubSeq(pagesOf, x + 1, y)) = y - x
        /\ \A i \in 1..(y - x) : SubSeq(pagesOf, x + 1, y)[i] = pagesOf[x + i]
    BY <2>2, <2>3
  <2>5. QED
    BY <2>4 DEF x, y, RowsOf
<1>7. QED
  BY <1>4, <1>5, <1>6

\* Both planners cut the same slices.
LEMMA PlansAgree ==
    ASSUME NEW k, NEW lens, Forward(k, lens), NEW pagesOf \in Seq(SUBSET Pages), Len(pagesOf) = TotalQ, cap \in Nat
    PROVE  PlanSlices(pagesOf, TRUE) = PlanSlices(pagesOf, FALSE)
<1>1. \A bitmap \in Seq(SUBSET Pages) : GreedyOf(bitmap, TRUE) = GreedyOf(bitmap, FALSE)
  <2>1. cap \in Int
    OBVIOUS
  <2>2. QED
    BY <2>1, BothGreedy DEF GreedyOf
<1>2. GreedyOf(OfReq(pagesOf), TRUE) = GreedyOf(OfReq(pagesOf), FALSE)
  BY <1>1, ReqPages
<1>3. ASSUME NEW m \in 1..k PROVE CutOf(m, TRUE, pagesOf) = CutOf(m, FALSE, pagesOf)
  <2>1. GreedyOf(SubSeq(pagesOf, call.cu[m] + 1, call.cu[m + 1]), TRUE) = GreedyOf(SubSeq(pagesOf, call.cu[m] + 1, call.cu[m + 1]), FALSE)
    BY <1>1, ReqPages DEF RowsOf
  <2>2. QED
    BY <2>1 DEF CutOf
<1> DEFINE R == GreedyOf(OfReq(pagesOf), FALSE)
<1>4. \A i \in DOMAIN R : R[i][1] \in 1..k
  <2>1. OfReq(pagesOf) \in Seq(SUBSET Pages) /\ Len(OfReq(pagesOf)) = k
    BY ReqPages
  <2>2. cap \in Int /\ k \in Nat \ {0}
    BY DEF Forward
  <2>3. Greedy(OfReq(pagesOf), cap, R)
    BY <2>1, <2>2, BothGreedy DEF GreedyOf
  <2> HIDE DEF R
  <2>4. PICK last : Cuts(R, 1, k, last)
    BY <2>1, <2>3 DEF Greedy
  <2>5. R \in Seq(Nat \X Nat) /\ \A i \in 1..Len(R) : R[i][1] \in 1..k
    BY <2>2, <2>4 DEF Cuts
  <2>6. QED
    BY <2>5, LenProperties
<1>5. \A i \in DOMAIN R : PartOf(R[i][1], R[i][2], TRUE, pagesOf) = PartOf(R[i][1], R[i][2], FALSE, pagesOf)
  BY <1>3, <1>4 DEF PartOf
<1>6. PartsOf(pagesOf, TRUE) = <<>> \o [i \in DOMAIN R |-> PartOf(R[i][1], R[i][2], TRUE, pagesOf)]
  BY <1>2 DEF PartsOf
<1>7. PartsOf(pagesOf, FALSE) = <<>> \o [i \in DOMAIN R |-> PartOf(R[i][1], R[i][2], FALSE, pagesOf)]
  BY DEF PartsOf
<1> HIDE DEF R
<1>8. PartsOf(pagesOf, TRUE) = PartsOf(pagesOf, FALSE)
  BY <1>5, <1>6, <1>7
<1>9. QED
  BY <1>8, PlanJoins

\* A slice serves whole members, or some queries of one.
SliceShape(k, s) ==
    \E a \in 1..k : \E b \in a..k :
        /\ s.reqs = Run(a, b) /\ call.cu[a] < s.lo /\ s.hi <= call.cu[b + 1]
        /\ a # b => s.lo = call.cu[a] + 1 /\ s.hi = call.cu[b + 1]

\* It stages what its queries select, and fits the cap unless it is one query.
SliceFits(k, pagesOf, s) ==
    /\ s.lo \in 1..TotalQ /\ s.hi \in s.lo..TotalQ
    /\ s.pages = Sorted(UNION {pagesOf[q] : q \in s.lo..s.hi}) /\ s.n = Len(s.pages)
    /\ s.n <= cap \/ s.lo = s.hi
    /\ SliceShape(k, s)

FitSlices(k, pagesOf) ==
    {s \in [reqs : Seq(Nat), lo : Nat, hi : Nat, pages : Seq(Pages), n : Nat] : SliceFits(k, pagesOf, s)}

LEMMA FinitePages == IsFiniteSet(Pages) /\ Pages \in SUBSET Int
<1>1. NumPages - 1 \in Int
  BY Natural
<1>2. IsFiniteSet(0..(NumPages - 1))
  BY <1>1, FS_Interval
<1>3. QED
  BY <1>1, <1>2 DEF Pages

\* A set of pages, in order and each once.
PagesListed(X) ==
    /\ X \in SUBSET Pages /\ IsFiniteSet(X) /\ Cardinality(X) \in Nat
    /\ Sorted(X) \in Seq(Pages) /\ Len(Sorted(X)) = Cardinality(X)
    /\ \A i, j \in 1..Len(Sorted(X)) : Sorted(X)[i] = Sorted(X)[j] => i = j
    /\ \A x \in X : \E i \in 1..Len(Sorted(X)) : Sorted(X)[i] = x

LEMMA SlicePages ==
    ASSUME NEW pagesOf \in Seq(SUBSET Pages), NEW lo \in 1..Len(pagesOf), NEW hi \in lo..Len(pagesOf), NEW X,
           X = UNION {pagesOf[q] : q \in lo..hi}
    PROVE  PagesListed(X)
<1>1. X \in SUBSET Pages
  <2>1. \A q \in lo..hi : q \in 1..Len(pagesOf)
    BY LenProperties
  <2>2. \A q \in lo..hi : pagesOf[q] \in SUBSET Pages
    BY <2>1, ElementOfSeq
  <2>3. QED
    BY <2>2
<1>2. IsFiniteSet(X) /\ X \in SUBSET Int
  BY <1>1, FinitePages, FS_Subset
<1>3. /\ Cardinality(X) \in Nat /\ Sorted(X) \in [1..Cardinality(X) -> X]
      /\ \A i, j \in 1..Cardinality(X) : Sorted(X)[i] = Sorted(X)[j] => i = j
      /\ \A x \in X : \E i \in 1..Cardinality(X) : Sorted(X)[i] = x
  BY <1>2, SortedLists
<1>4. Sorted(X) \in Seq(Pages) /\ Len(Sorted(X)) = Cardinality(X)
  <2> DEFINE c == Cardinality(X)
  <2>1. Sorted(X) \in [1..c -> Pages] /\ c \in Nat
    BY <1>1, <1>3
  <2> HIDE DEF c
  <2>2. \A f \in [1..c -> Pages] : f \in Seq(Pages) /\ Len(f) = c
    BY <2>1
  <2>3. QED
    BY <2>1, <2>2 DEF c
<1>5. QED
  BY <1>1, <1>2, <1>3, <1>4 DEF PagesListed

\* s is the slice lo..hi of members a..b.
Serves(s, a, b, lo, hi, pagesOf) ==
    /\ s \in [reqs : Seq(Nat), lo : Nat, hi : Nat, pages : Seq(Pages), n : Nat]
    /\ s.reqs = Run(a, b) /\ s.lo = lo /\ s.hi = hi
    /\ s.pages = Sorted(UNION {pagesOf[q] : q \in lo..hi}) /\ s.n = Len(s.pages)
    /\ s.n = Cardinality(UNION {pagesOf[q] : q \in lo..hi})

LEMMA SliceIs ==
    ASSUME NEW pagesOf \in Seq(SUBSET Pages), NEW lo \in 1..Len(pagesOf), NEW hi \in lo..Len(pagesOf),
           NEW a \in Nat, NEW b \in Nat, a >= 1, a <= b, NEW s, s = Slice(Run(a, b), lo, hi, pagesOf)
    PROVE  Serves(s, a, b, lo, hi, pagesOf)
<1> DEFINE X == UNION {pagesOf[q] : q \in lo..hi}
<1>1. s = [reqs |-> Run(a, b), lo |-> lo, hi |-> hi, pages |-> Sorted(X), n |-> Len(Sorted(X))]
  BY DEF Slice
<1>2. Sorted(X) \in Seq(Pages) /\ Len(Sorted(X)) = Cardinality(X) /\ Cardinality(X) \in Nat
  <2>1. PagesListed(X)
    BY SlicePages
  <2>2. QED
    BY <2>1 DEF PagesListed
<1>3. Run(a, b) \in Seq(Nat)
  <2>1. Run(a, b) \in [1..(b + 1 - a) -> Nat]
    BY DEF Run
  <2>2. b + 1 - a \in Nat
    OBVIOUS
  <2>3. \A f \in [1..(b + 1 - a) -> Nat] : f \in Seq(Nat)
    BY <2>2
  <2>4. QED
    BY <2>1, <2>3
<1>4. lo \in Nat /\ hi \in Nat
  OBVIOUS
<1> HIDE DEF X
<1>5. /\ s \in [reqs : Seq(Nat), lo : Nat, hi : Nat, pages : Seq(Pages), n : Nat]
      /\ s.reqs = Run(a, b) /\ s.lo = lo /\ s.hi = hi /\ s.pages = Sorted(X) /\ s.n = Len(s.pages) /\ s.n = Cardinality(X)
  BY <1>1, <1>2, <1>3, <1>4
<1>6. QED
  BY <1>5 DEF X, Serves

\* The ranges of a greedy cut of n rows.
RangesOf(R, n, bitmap) ==
    /\ Len(R) \in Nat /\ Len(R) >= 1 /\ DOMAIN R = 1..Len(R) /\ R[1][1] = 1 /\ R[Len(R)][2] = n
    /\ \A i \in 1..Len(R) : /\ R[i][1] \in 1..n /\ R[i][2] \in R[i][1]..n
                            /\ Covers(bitmap, cap, R[i][1], R[i][2]) \/ R[i][1] = R[i][2]
                            /\ i > 1 => R[i][1] = R[i - 1][2] + 1

LEMMA GreedyRanges ==
    ASSUME NEW bitmap \in Seq(SUBSET Pages), Len(bitmap) >= 1, cap \in Nat, NEW fast \in BOOLEAN
    PROVE  RangesOf(GreedyOf(bitmap, fast), Len(bitmap), bitmap)
<1> DEFINE n == Len(bitmap)
<1>1. PICK R : R = GreedyOf(bitmap, fast)
  OBVIOUS
<1>2. n \in Nat /\ n >= 1 /\ cap \in Int
  BY LenProperties
<1>3. Greedy(bitmap, cap, R)
  BY <1>1, <1>2, BothGreedy DEF GreedyOf
<1>4. PICK last \in [1..n -> 1..n] : (\A a \in 1..n : last[a] >= a /\ Furthest(bitmap, cap, a, last[a])) /\ Cuts(R, 1, n, last)
  BY <1>3 DEF Greedy
<1>5. /\ R \in Seq(Nat \X Nat) /\ Len(R) >= 1 /\ R[1][1] = 1 /\ R[Len(R)][2] = n
      /\ \A i \in 1..Len(R) : R[i][1] \in 1..n /\ R[i][2] = last[R[i][1]]
      /\ \A i \in 1..Len(R) : i > 1 => R[i][1] = R[i - 1][2] + 1
  BY <1>2, <1>4 DEF Cuts
<1>6. Len(R) \in Nat /\ DOMAIN R = 1..Len(R)
  BY <1>5, LenProperties
<1> HIDE DEF n
<1>7. ASSUME NEW i \in 1..Len(R)
      PROVE  R[i][2] \in R[i][1]..n /\ (Covers(bitmap, cap, R[i][1], R[i][2]) \/ R[i][1] = R[i][2])
  <2>1. R[i][1] \in 1..n /\ R[i][2] = last[R[i][1]]
    BY <1>5
  <2>2. Furthest(bitmap, cap, R[i][1], R[i][2]) /\ R[i][2] >= R[i][1] /\ R[i][2] \in 1..n
    BY <1>4, <2>1
  <2>3. R[i][2] \in R[i][1]..n
    BY <1>2, <2>1, <2>2
  <2>4. Covers(bitmap, cap, R[i][1], R[i][2]) \/ R[i][1] = R[i][2]
    BY <2>2 DEF Furthest
  <2>5. QED
    BY <2>3, <2>4
<1>8. RangesOf(R, n, bitmap)
  BY <1>5, <1>6, <1>7 DEF RangesOf
<1>9. QED
  BY <1>1, <1>8 DEF n

\* The bounds of the members in the queries.
LEMMA CuBounds ==
    ASSUME NEW k, NEW lens, Forward(k, lens)
    PROVE  /\ k \in Nat \ {0} /\ TotalQ \in Nat /\ TotalQ >= 1 /\ call.cu[1] = 0 /\ call.cu[k + 1] = TotalQ
           /\ \A a \in 1..k : \A b \in a..k :
                call.cu[a] \in Nat /\ call.cu[b + 1] \in Nat /\ call.cu[a] < call.cu[b + 1] /\ call.cu[b + 1] <= TotalQ
<1>1. /\ k \in Nat \ {0} /\ lens \in [1..k -> Nat] /\ PrefixSums(call.cu, k, lens)
  BY DEF Forward
<1>2. /\ TotalQ = call.cu[k + 1] /\ TotalQ \in Nat \ {0} /\ call.cu[1] = 0
      /\ \A i \in 1..(k + 1) : call.cu[i] \in Nat /\ call.cu[i] <= TotalQ
      /\ \A i \in 1..k : call.cu[i + 1] = call.cu[i] + lens[i] /\ lens[i] \in Nat \ {0}
  BY QueryOf
<1>3. ASSUME NEW a \in 1..k, NEW b \in a..k
      PROVE  call.cu[a] \in Nat /\ call.cu[b + 1] \in Nat /\ call.cu[a] < call.cu[b + 1] /\ call.cu[b + 1] <= TotalQ
  <2>1. a + 1 \in 1..(k + 1) /\ b + 1 \in (a + 1)..(k + 1) /\ a \in 1..(k + 1) /\ b + 1 \in 1..(k + 1)
    BY <1>1
  <2>2. call.cu[a + 1] <= call.cu[b + 1]
    BY <1>1, <2>1, SumsMono
  <2>3. call.cu[a + 1] = call.cu[a] + lens[a] /\ lens[a] \in Nat \ {0}
    BY <1>2
  <2>4. call.cu[a] \in Nat /\ call.cu[b + 1] \in Nat /\ call.cu[a + 1] \in Nat /\ call.cu[b + 1] <= TotalQ
    BY <1>2, <2>1
  <2>5. call.cu[a] < call.cu[a + 1]
    BY <2>3, <2>4
  <2>6. \A u, v, w \in Nat : u < v /\ v <= w => u < w
    OBVIOUS
  <2>7. call.cu[a] < call.cu[b + 1]
    BY <2>2, <2>4, <2>5, <2>6
  <2>8. QED
    BY <2>4, <2>7
<1>4. k \in Nat \ {0} /\ TotalQ \in Nat /\ TotalQ >= 1 /\ call.cu[1] = 0 /\ call.cu[k + 1] = TotalQ
  BY <1>1, <1>2
<1>5. QED
  BY <1>3, <1>4, ZenonT(60)

\* The slices of one member.
LEMMA CutFits ==
    ASSUME NEW k, NEW lens, Forward(k, lens), NEW pagesOf \in Seq(SUBSET Pages), Len(pagesOf) = TotalQ, cap \in Nat,
           NEW fast \in BOOLEAN, NEW m \in 1..k
    PROVE  CutOf(m, fast, pagesOf) \in Seq(FitSlices(k, pagesOf)) /\ Abuts(CutOf(m, fast, pagesOf), call.cu[m] + 1, call.cu[m + 1])
<1>1. PICK x, y : x = call.cu[m] /\ y = call.cu[m + 1]
  OBVIOUS
<1>2. PICK bitmap : bitmap = SubSeq(pagesOf, x + 1, y)
  OBVIOUS
<1>3. /\ bitmap \in Seq(SUBSET Pages) /\ Len(bitmap) = y - x
      /\ \A i \in 1..(y - x) : bitmap[i] = pagesOf[x + i]
  <2>1. RowsOf(SubSeq(pagesOf, call.cu[m] + 1, call.cu[m + 1]), m, pagesOf)
    BY ReqPages
  <2>2. QED
    BY <1>1, <1>2, <2>1 DEF RowsOf
<1>4. x \in Nat /\ y \in Nat /\ x < y /\ y <= TotalQ /\ TotalQ \in Nat /\ m \in m..k /\ m \in Nat /\ m >= 1 /\ k \in Nat
  <2>1. k \in Nat \ {0} /\ TotalQ \in Nat
    BY CuBounds
  <2>2. m \in m..k /\ m \in Nat /\ m >= 1
    BY <2>1
  <2>3. QED
    BY <1>1, <2>1, <2>2, CuBounds
<1>5. PICK R : R = GreedyOf(bitmap, fast)
  OBVIOUS
<1>6. RangesOf(R, y - x, bitmap)
  <2>1. Len(bitmap) >= 1
    BY <1>3, <1>4
  <2>2. QED
    BY <1>3, <1>5, <2>1, GreedyRanges
<1>7. /\ Len(R) \in Nat /\ Len(R) >= 1 /\ DOMAIN R = 1..Len(R) /\ R[1][1] = 1 /\ R[Len(R)][2] = y - x
      /\ \A i \in 1..Len(R) : /\ R[i][1] \in 1..(y - x) /\ R[i][2] \in R[i][1]..(y - x)
                              /\ Covers(bitmap, cap, R[i][1], R[i][2]) \/ R[i][1] = R[i][2]
                              /\ i > 1 => R[i][1] = R[i - 1][2] + 1
  BY <1>6 DEF RangesOf
<1> DEFINE C == CutOf(m, fast, pagesOf)
           S(i) == Slice(Run(m, m), x + R[i][1], x + R[i][2], pagesOf)
<1>8. C = [i \in 1..Len(R) |-> S(i)]
  BY <1>1, <1>2, <1>5, <1>7 DEF CutOf
<1>9. ASSUME NEW i \in 1..Len(R)
      PROVE  S(i) \in FitSlices(k, pagesOf) /\ S(i).lo = x + R[i][1] /\ S(i).hi = x + R[i][2]
  <2>1. PICK c, d : c = R[i][1] /\ d = R[i][2]
    OBVIOUS
  <2>2. c \in 1..(y - x) /\ d \in c..(y - x) /\ (Covers(bitmap, cap, c, d) \/ c = d)
    BY <1>7, <2>1
  <2>3. /\ x + c \in 1..TotalQ /\ x + d \in (x + c)..TotalQ /\ x < x + c /\ x + d <= y /\ (c = d => x + c = x + d)
    BY <1>4, <2>2
  <2>4. PICK s : s = Slice(Run(m, m), x + c, x + d, pagesOf)
    OBVIOUS
  <2>5. /\ s \in [reqs : Seq(Nat), lo : Nat, hi : Nat, pages : Seq(Pages), n : Nat]
        /\ s.reqs = Run(m, m) /\ s.lo = x + c /\ s.hi = x + d
        /\ s.pages = Sorted(UNION {pagesOf[q] : q \in (x + c)..(x + d)}) /\ s.n = Len(s.pages)
        /\ s.n = Cardinality(UNION {pagesOf[q] : q \in (x + c)..(x + d)})
    <3>1. x + c \in 1..Len(pagesOf) /\ x + d \in (x + c)..Len(pagesOf) /\ m \in Nat /\ m >= 1 /\ m <= m
      BY <1>4, <2>3
    <3> DEFINE lo == x + c
               hi == x + d
    <3> HIDE DEF lo, hi
    <3>2. lo \in 1..Len(pagesOf) /\ hi \in lo..Len(pagesOf) /\ m \in Nat /\ m >= 1 /\ m <= m /\ s = Slice(Run(m, m), lo, hi, pagesOf)
      BY <2>4, <3>1 DEF lo, hi
    <3>3. Serves(s, m, m, lo, hi, pagesOf)
      BY <3>2, SliceIs
    <3>4. QED
      BY <3>3 DEF lo, hi, Serves
  <2>6. UNION {pagesOf[q] : q \in (x + c)..(x + d)} = UNION {bitmap[j] : j \in c..d}
    <3>1. \A j \in c..d : j \in 1..(y - x) /\ x + j \in (x + c)..(x + d)
      BY <1>4, <2>2
    <3>2. \A j \in c..d : bitmap[j] = pagesOf[x + j]
      BY <1>3, <3>1
    <3>3. \A q \in (x + c)..(x + d) : q - x \in c..d /\ x + (q - x) = q
      BY <1>4, <2>2
    <3>4. \A q \in (x + c)..(x + d) : \E j \in c..d : pagesOf[q] = bitmap[j]
      BY <3>2, <3>3
    <3>5. \A j \in c..d : \E q \in (x + c)..(x + d) : pagesOf[q] = bitmap[j]
      BY <3>1, <3>2
    <3>6. QED
      BY <3>4, <3>5
  <2>7. s.n <= cap \/ s.lo = s.hi
    BY <2>2, <2>3, <2>5, <2>6 DEF Covers
  <2>8. SliceShape(k, s)
    BY <1>1, <1>4, <2>3, <2>5 DEF SliceShape
  <2>9. SliceFits(k, pagesOf, s)
    BY <2>3, <2>5, <2>7, <2>8 DEF SliceFits
  <2>10. QED
    BY <2>1, <2>4, <2>5, <2>9 DEF FitSlices
<1>10. C \in Seq(FitSlices(k, pagesOf)) /\ Len(C) = Len(R)
  <2> HIDE DEF C, S
  <2>1. PICK n : n = Len(R)
    OBVIOUS
  <2>2. C \in [1..n -> FitSlices(k, pagesOf)] /\ n \in Nat
    BY <1>7, <1>8, <1>9, <2>1
  <2>3. \A f \in [1..n -> FitSlices(k, pagesOf)] : f \in Seq(FitSlices(k, pagesOf)) /\ Len(f) = n
    BY <2>2
  <2>4. QED
    BY <2>1, <2>2, <2>3
<1>11. \A i \in 1..Len(C) : C[i].lo = x + R[i][1] /\ C[i].hi = x + R[i][2]
  <2> HIDE DEF C, S
  <2>1. QED
    BY <1>8, <1>9, <1>10
<1> HIDE DEF C
<1>12. Abuts(C, x + 1, y)
  <2>1. 1 \in 1..Len(C) /\ Len(C) \in 1..Len(C) /\ Len(C) >= 1
    BY <1>7, <1>10
  <2>2. C[1].lo = x + 1
    BY <1>7, <1>11, <2>1
  <2>3. C[Len(C)].hi = y
    <3>1. C[Len(C)].hi = x + R[Len(R)][2]
      BY <1>10, <1>11, <2>1
    <3>2. QED
      BY <1>4, <1>7, <3>1
  <2>4. ASSUME NEW i \in 1..Len(C), i > 1 PROVE C[i].lo = C[i - 1].hi + 1
    <3>1. i - 1 \in 1..Len(C) /\ i \in 1..Len(R) /\ i - 1 \in 1..Len(R)
      BY <1>7, <1>10, <2>4
    <3>2. C[i].lo = x + R[i][1] /\ C[i - 1].hi = x + R[i - 1][2]
      BY <1>11, <3>1
    <3>3. R[i][1] = R[i - 1][2] + 1
      BY <1>7, <2>4, <3>1
    <3>4. R[i - 1][2] \in Int
      <4>1. R[i - 1][1] \in 1..(y - x) /\ R[i - 1][2] \in R[i - 1][1]..(y - x)
        BY <1>7, <3>1
      <4>2. QED
        BY <1>4, <4>1
    <3>5. QED
      BY <1>4, <3>2, <3>3, <3>4
  <2>5. QED
    BY <2>1, <2>2, <2>3, <2>4 DEF Abuts
<1>13. QED
  BY <1>1, <1>10, <1>12 DEF C

\* A slice of whole members a..b.
LEMMA WholeFits ==
    ASSUME NEW k, NEW lens, Forward(k, lens), NEW pagesOf \in Seq(SUBSET Pages), Len(pagesOf) = TotalQ, cap \in Nat,
           NEW a \in 1..k, NEW b \in a..k, Cardinality(UNION {OfReq(pagesOf)[m] : m \in a..b}) <= cap
    PROVE  <<WholeOf(a, b, pagesOf)>> \in Seq(FitSlices(k, pagesOf))
           /\ Abuts(<<WholeOf(a, b, pagesOf)>>, call.cu[a] + 1, call.cu[b + 1])
<1>1. /\ k \in Nat \ {0} /\ TotalQ \in Nat
      /\ \A c \in 1..k : \A d \in c..k :
           call.cu[c] \in Nat /\ call.cu[d + 1] \in Nat /\ call.cu[c] < call.cu[d + 1] /\ call.cu[d + 1] <= TotalQ
  BY CuBounds
<1>2. PICK x, y : x = call.cu[a] /\ y = call.cu[b + 1]
  OBVIOUS
<1>3. x \in Nat /\ y \in Nat /\ x < y /\ y <= TotalQ
  BY <1>1, <1>2
<1>4. PICK s : s = WholeOf(a, b, pagesOf)
  OBVIOUS
<1>5. Serves(s, a, b, x + 1, y, pagesOf)
  <2> DEFINE lo == x + 1
  <2>0. s = Slice(Run(a, b), lo, y, pagesOf)
    BY <1>2, <1>4 DEF WholeOf
  <2>1. lo \in 1..Len(pagesOf) /\ y \in lo..Len(pagesOf) /\ s = Slice(Run(a, b), lo, y, pagesOf)
    <3>1. lo \in Nat /\ lo >= 1 /\ lo <= y /\ Len(pagesOf) = TotalQ /\ TotalQ \in Nat
      BY <1>1, <1>3
    <3>2. QED
      BY <1>3, <2>0, <3>1
  <2>2. a \in Nat /\ b \in Nat /\ a >= 1 /\ a <= b
    BY <1>1
  <2> HIDE DEF lo
  <2>3. Serves(s, a, b, lo, y, pagesOf)
    BY <2>1, <2>2, SliceIs
  <2>4. QED
    BY <2>3 DEF lo
<1>6. UNION {pagesOf[q] : q \in (x + 1)..y} = UNION {OfReq(pagesOf)[m] : m \in a..b}
  <2> DEFINE B == OfReq(pagesOf)
  <2>1. \A m \in 1..k : B[m] = UNION {pagesOf[q] : q \in (call.cu[m] + 1)..call.cu[m + 1]}
    BY ReqPages
  <2> HIDE DEF B
  <2>2. ASSUME NEW m \in a..b, NEW q \in (call.cu[m] + 1)..call.cu[m + 1] PROVE q \in (x + 1)..y /\ m \in 1..k
    <3>1. m \in 1..k /\ m \in a..k /\ b \in m..k /\ m \in m..k
      BY <1>1
    <3>2. call.cu[m] \in Nat /\ call.cu[m + 1] \in Nat /\ call.cu[m + 1] <= y
      <4>1. CASE m = b
        BY <1>1, <1>2, <1>3, <3>1, <4>1
      <4>2. CASE m < b
        <5>1. m + 1 \in 1..k /\ b \in (m + 1)..k
          BY <1>1, <3>1, <4>2
        <5>2. call.cu[m + 1] < call.cu[b + 1] /\ call.cu[m + 1] \in Nat
          BY <1>1, <5>1
        <5>3. call.cu[m] \in Nat
          BY <1>1, <3>1
        <5>4. QED
          BY <1>2, <1>3, <5>2, <5>3
      <4>3. QED
        BY <1>1, <4>1, <4>2
    <3>3. x <= call.cu[m]
      <4>1. CASE m = a
        BY <1>2, <1>3, <4>1
      <4>2. CASE m > a
        <5>1. m - 1 \in a..k /\ (m - 1) + 1 = m
          BY <1>1, <3>1, <4>2
        <5>2. call.cu[a] < call.cu[(m - 1) + 1]
          BY <1>1, <5>1
        <5>3. x < call.cu[m]
          BY <1>2, <5>1, <5>2
        <5>4. QED
          BY <1>3, <3>2, <5>3
      <4>3. QED
        BY <1>1, <4>1, <4>2
    <3>4. \A c, d \in Nat : x <= c /\ d <= y => \A p \in (c + 1)..d : p \in (x + 1)..y
      BY <1>3
    <3>5. q \in (x + 1)..y
      BY <3>2, <3>3, <3>4
    <3>6. QED
      BY <3>1, <3>5
  <2>3. ASSUME NEW q \in (x + 1)..y PROVE \E m \in a..b : m \in 1..k /\ q \in (call.cu[m] + 1)..call.cu[m + 1]
    <3>1. q \in 1..TotalQ
      BY <1>1, <1>3
    <3>2. PICK m : m = MemberOf(q)
      OBVIOUS
    <3>3. m \in 1..k /\ call.cu[m] < q /\ q <= call.cu[m + 1]
      BY <3>1, <3>2, QueryOf
    <3>4. call.cu[m] \in Nat /\ call.cu[m + 1] \in Nat
      <4>1. m \in m..k
        BY <1>1, <3>3
      <4>2. QED
        BY <1>1, <3>3, <4>1
    <3>5. m >= a
      <4>1. SUFFICES ASSUME m < a PROVE FALSE
        BY <1>1, <3>3
      <4>2. CASE m + 1 = a
        BY <1>2, <1>3, <3>1, <3>3, <4>2
      <4>3. CASE m + 1 < a
        <5>1. m + 1 \in 1..k /\ a - 1 \in (m + 1)..k /\ (a - 1) + 1 = a
          BY <1>1, <3>3, <4>3
        <5>2. call.cu[m + 1] < call.cu[(a - 1) + 1]
          BY <1>1, <5>1
        <5>3. call.cu[m + 1] < x
          BY <1>2, <5>1, <5>2
        <5>4. QED
          BY <1>3, <3>1, <3>3, <3>4, <5>3
      <4>4. QED
        BY <1>1, <3>3, <4>1, <4>2, <4>3
    <3>6. m <= b
      <4>1. SUFFICES ASSUME b < m PROVE FALSE
        BY <1>1, <3>3
      <4>2. CASE m = b + 1
        BY <1>2, <1>3, <3>1, <3>3, <4>2
      <4>3. CASE m > b + 1
        <5>1. b + 1 \in 1..k /\ m - 1 \in (b + 1)..k /\ (m - 1) + 1 = m
          BY <1>1, <3>3, <4>3
        <5>2. call.cu[b + 1] < call.cu[(m - 1) + 1]
          BY <1>1, <5>1
        <5>3. y < call.cu[m]
          BY <1>2, <5>1, <5>2
        <5>4. QED
          BY <1>3, <3>1, <3>3, <3>4, <5>3
      <4>4. QED
        BY <1>1, <3>3, <4>1, <4>2, <4>3
    <3>7. m \in a..b
      BY <1>1, <3>3, <3>5, <3>6
    <3>8. q \in (call.cu[m] + 1)..call.cu[m + 1]
      BY <3>1, <3>3, <3>4
    <3>9. QED
      BY <3>3, <3>7, <3>8
  <2>4. \A e : e \in UNION {pagesOf[q] : q \in (x + 1)..y} <=> \E q \in (x + 1)..y : e \in pagesOf[q]
    OBVIOUS
  <2>5. \A e : e \in UNION {B[m] : m \in a..b} <=> \E m \in a..b : e \in B[m]
    OBVIOUS
  <2>6. \A m \in 1..k : \A e : e \in B[m] <=> \E q \in (call.cu[m] + 1)..call.cu[m + 1] : e \in pagesOf[q]
    BY <2>1
  <2>7. \A e : e \in UNION {pagesOf[q] : q \in (x + 1)..y} <=> e \in UNION {B[m] : m \in a..b}
    <3> SUFFICES ASSUME NEW e PROVE (\E q \in (x + 1)..y : e \in pagesOf[q]) <=> \E m \in a..b : e \in B[m]
      BY <2>4, <2>5
    <3>1. ASSUME NEW q \in (x + 1)..y, e \in pagesOf[q] PROVE \E m \in a..b : e \in B[m]
      BY <2>3, <2>6, <3>1
    <3>2. ASSUME NEW m \in a..b, e \in B[m] PROVE \E q \in (x + 1)..y : e \in pagesOf[q]
      <4>1. m \in 1..k
        BY <1>1
      <4>2. PICK q \in (call.cu[m] + 1)..call.cu[m + 1] : e \in pagesOf[q]
        BY <2>6, <3>2, <4>1
      <4>3. QED
        BY <2>2, <4>2
    <3>3. QED
      BY <3>1, <3>2
  <2>8. QED
    BY <2>7 DEF B
<1>7. s \in FitSlices(k, pagesOf) /\ s.lo = x + 1 /\ s.hi = y
  <2>1. /\ s \in [reqs : Seq(Nat), lo : Nat, hi : Nat, pages : Seq(Pages), n : Nat]
        /\ s.reqs = Run(a, b) /\ s.lo = x + 1 /\ s.hi = y
        /\ s.pages = Sorted(UNION {pagesOf[q] : q \in (x + 1)..y}) /\ s.n = Len(s.pages)
        /\ s.n = Cardinality(UNION {pagesOf[q] : q \in (x + 1)..y})
    BY <1>5 DEF Serves
  <2>2. s.n <= cap
    BY <1>6, <2>1
  <2>3. x + 1 \in 1..TotalQ /\ y \in (x + 1)..TotalQ /\ x < x + 1 /\ y <= y
    BY <1>1, <1>3
  <2>4. SliceShape(k, s)
    BY <1>2, <2>1, <2>3 DEF SliceShape
  <2>5. QED
    BY <2>1, <2>2, <2>3, <2>4 DEF FitSlices, SliceFits
<1>8. <<s>> \in Seq(FitSlices(k, pagesOf)) /\ Len(<<s>>) = 1 /\ <<s>>[1] = s
  BY <1>7
<1>9. Abuts(<<s>>, x + 1, y)
  BY <1>7, <1>8 DEF Abuts
<1>10. QED
  BY <1>2, <1>4, <1>8, <1>9

\* A plan cuts all queries into slices that fit.
LEMMA PlanFits ==
    ASSUME NEW k, NEW lens, Forward(k, lens), NEW pagesOf \in Seq(SUBSET Pages), Len(pagesOf) = TotalQ, cap \in Nat,
           NEW fast \in BOOLEAN
    PROVE  PlanSlices(pagesOf, fast) \in Seq(FitSlices(k, pagesOf)) /\ Abuts(PlanSlices(pagesOf, fast), 1, TotalQ)
<1>1. k \in Nat \ {0} /\ TotalQ \in Nat /\ TotalQ >= 1 /\ call.cu[1] = 0 /\ call.cu[k + 1] = TotalQ
  BY CuBounds
<1> DEFINE B == OfReq(pagesOf)
           U == FitSlices(k, pagesOf)
<1>2. B \in Seq(SUBSET Pages) /\ Len(B) = k
  BY ReqPages
<1>3. PICK R : R = GreedyOf(B, fast)
  OBVIOUS
<1>4. RangesOf(R, k, B)
  <2>1. Len(B) >= 1
    BY <1>1, <1>2
  <2> HIDE DEF B
  <2>2. QED
    BY <1>2, <1>3, <2>1, GreedyRanges
<1>5. /\ Len(R) \in Nat /\ Len(R) >= 1 /\ DOMAIN R = 1..Len(R) /\ R[1][1] = 1 /\ R[Len(R)][2] = k
      /\ \A i \in 1..Len(R) : /\ R[i][1] \in 1..k /\ R[i][2] \in R[i][1]..k
                              /\ Covers(B, cap, R[i][1], R[i][2]) \/ R[i][1] = R[i][2]
                              /\ i > 1 => R[i][1] = R[i - 1][2] + 1
  BY <1>4 DEF RangesOf
<1> DEFINE part(i) == PartOf(R[i][1], R[i][2], fast, pagesOf)
<1>6. ASSUME NEW i \in 1..Len(R)
      PROVE  part(i) \in Seq(U) /\ Abuts(part(i), call.cu[R[i][1]] + 1, call.cu[R[i][2] + 1])
  <2>1. PICK a, b : a = R[i][1] /\ b = R[i][2]
    OBVIOUS
  <2>2. a \in 1..k /\ b \in a..k /\ (Covers(B, cap, a, b) \/ a = b)
    BY <1>5, <2>1
  <2>3. CASE a = b /\ Cardinality(B[a]) > cap
    <3>1. part(i) = CutOf(a, fast, pagesOf)
      BY <2>1, <2>3 DEF PartOf
    <3>2. CutOf(a, fast, pagesOf) \in Seq(FitSlices(k, pagesOf)) /\ Abuts(CutOf(a, fast, pagesOf), call.cu[a] + 1, call.cu[a + 1])
      BY <2>2, CutFits
    <3>3. QED
      BY <2>1, <2>3, <3>1, <3>2
  <2>4. CASE ~(a = b /\ Cardinality(B[a]) > cap)
    <3>1. part(i) = <<WholeOf(a, b, pagesOf)>>
      BY <2>1, <2>4 DEF PartOf
    <3>2. Cardinality(UNION {B[m] : m \in a..b}) <= cap
      <4>1. CASE Covers(B, cap, a, b)
        BY <4>1 DEF Covers
      <4>2. CASE a = b
        <5>1. UNION {B[m] : m \in a..b} = B[a]
          <6>1. a..b = {a}
            BY <1>1, <2>2, <4>2
          <6> HIDE DEF B
          <6>2. QED
            BY <6>1
        <5>2. Cardinality(B[a]) \in Nat
          <6>1. B[a] \in SUBSET Pages
            BY <1>2, <2>2, ElementOfSeq
          <6>2. QED
            BY <6>1, FinitePages, FS_Subset, FS_CardinalityType
        <5>3. Cardinality(B[a]) <= cap
          BY <2>4, <4>2, <5>2
        <5>4. QED
          BY <5>1, <5>3
      <4>3. QED
        BY <2>2, <4>1, <4>2
    <3>3. /\ <<WholeOf(a, b, pagesOf)>> \in Seq(FitSlices(k, pagesOf))
          /\ Abuts(<<WholeOf(a, b, pagesOf)>>, call.cu[a] + 1, call.cu[b + 1])
      BY <2>2, <3>2, WholeFits
    <3>4. QED
      BY <2>1, <3>1, <3>3
  <2>5. QED
    BY <2>3, <2>4
<1> DEFINE P == [i \in 1..Len(R) |-> part(i)]
<1>7. PartsOf(pagesOf, fast) = P
  <2>1. PartsOf(pagesOf, fast) = <<>> \o P
    BY <1>3, <1>5 DEF PartsOf
  <2> HIDE DEF part, U
  <2>2. P \in Seq(Seq(U))
    <3>1. PICK n : n = Len(R)
      OBVIOUS
    <3>2. P \in [1..n -> Seq(U)] /\ n \in Nat
      BY <1>5, <1>6, <3>1
    <3>3. \A f \in [1..n -> Seq(U)] : f \in Seq(Seq(U))
      BY <3>2
    <3>4. QED
      BY <3>2, <3>3
  <2> HIDE DEF P
  <2>3. QED
    BY <2>1, <2>2, ConcatEmptySeq
<1> HIDE DEF part, U
<1>8. PICK n : n = Len(R)
  OBVIOUS
<1>9. /\ n \in Nat /\ n >= 1 /\ DOMAIN P = 1..n
      /\ \A i \in 1..n : P[i] \in Seq(U) /\ Abuts(P[i], call.cu[R[i][1]] + 1, call.cu[R[i][2] + 1])
  BY <1>5, <1>6, <1>8
<1> HIDE DEF P
<1>15. PICK h : JoinsThrough(h, U, n, P)
  <2>1. n \in Nat /\ DOMAIN P = 1..n
    BY <1>9
  <2>2. \A i \in 1..n : P[i] \in Seq(U)
    BY <1>9
  <2>3. QED
    BY <2>1, <2>2, JoinRun
<1>10. h \in [0..n -> Seq(U)] /\ h[0] = <<>> /\ (\A i \in 1..n : h[i] = h[i - 1] \o P[i]) /\ Joined(P) = h[n]
  BY <1>15 DEF JoinsThrough
<1> DEFINE S == {i \in 0..n : i >= 1 => Abuts(h[i], 1, call.cu[R[i][2] + 1])}
<1>11. \A i \in 0..n : i \in S
  <2>1. 0 \in S
    BY <1>9
  <2>2. ASSUME NEW i \in 1..n, i - 1 \in S PROVE i \in S
    <3>1. P[i] \in Seq(U) /\ Abuts(P[i], call.cu[R[i][1]] + 1, call.cu[R[i][2] + 1]) /\ h[i] = h[i - 1] \o P[i]
      BY <1>9, <1>10
    <3>2. CASE i = 1
      <4>1. h[i - 1] = <<>>
        BY <1>10, <3>2
      <4>2. h[i] = P[i]
        BY <3>1, <4>1, ConcatEmptySeq
      <4>3. call.cu[R[i][1]] + 1 = 1
        BY <1>1, <1>5, <3>2
      <4>4. Abuts(h[i], 1, call.cu[R[i][2] + 1])
        BY <3>1, <4>2, <4>3
      <4>5. QED
        BY <4>4, <1>9
    <3>3. CASE i # 1
      <4>1. i - 1 \in 1..n /\ i - 1 \in 0..n /\ i > 1 /\ i \in 0..n /\ i \in 1..Len(R)
        BY <1>8, <1>9, <3>3
      <4>2. Abuts(h[i - 1], 1, call.cu[R[i - 1][2] + 1])
        BY <2>2, <4>1
      <4>3. R[i][1] = R[i - 1][2] + 1
        BY <1>5, <4>1
      <4>4. PICK u, m, b, c : /\ u = h[i - 1] /\ m = call.cu[R[i - 1][2] + 1]
                              /\ b = call.cu[R[i][1]] + 1 /\ c = call.cu[R[i][2] + 1]
        OBVIOUS
      <4>5. u \in Seq(U) /\ b = m + 1 /\ Abuts(u, 1, m) /\ Abuts(P[i], b, c)
        <5>1. u \in Seq(U)
          BY <1>10, <4>1, <4>4
        <5>2. QED
          BY <3>1, <4>2, <4>3, <4>4, <5>1
      <4>6. Abuts(u \o P[i], 1, c)
        BY <3>1, <4>5, AbutsJoin
      <4>7. Abuts(h[i], 1, call.cu[R[i][2] + 1])
        BY <3>1, <4>4, <4>6
      <4>8. QED
        BY <4>1, <4>7
    <3>4. QED
      BY <3>2, <3>3
  <2> HIDE DEF S
  <2>3. QED
    BY <1>9, <2>1, <2>2, StepsInduct
<1>12. Abuts(h[n], 1, TotalQ) /\ h[n] \in Seq(U)
  <2>1. n \in 0..n
    BY <1>9
  <2>2. Abuts(h[n], 1, call.cu[R[n][2] + 1])
    BY <1>9, <1>11, <2>1
  <2>3. R[n][2] = k
    BY <1>5, <1>8
  <2>4. h[n] \in Seq(U)
    BY <1>10, <2>1
  <2>5. QED
    BY <1>1, <2>2, <2>3, <2>4
<1>13. PlanSlices(pagesOf, fast) = h[n]
  BY <1>7, <1>10, PlanJoins
<1>14. QED
  BY <1>12, <1>13 DEF U

-----------------------------------------------------------------------------
(* What a staged slice serves.                                             *)

\* Both fills leave, for a staged page, its rows.
LEMMA StagedRows ==
    ASSUME NEW slice, slice.n \in Int, NEW j \in Int, j <= slice.n, NEW h \in KvHeads, NEW t \in Tokens,
           NEW u, u = pool[slice.pages[j]][t]
    PROVE  StagePages(slice, j, h, t) = <<u, u>> /\ FillStagingBuffer(slice, j, h, t) = <<u, u>>
<1>1. PICK page : page = pool[slice.pages[j]]
  OBVIOUS
<1>2. 0 \in Sides /\ 1 \in Sides
  BY DEF Sides
<1>3. /\ StageRow(page, h, 0, t) = u /\ StageRow(page, h, 1, t) = u
      /\ TableRow(page, h, 0, t) = u /\ TableRow(page, h, 1, t) = u
  BY <1>1, <1>2, StageReads, TableReads
<1>4. ~(j > slice.n)
  OBVIOUS
<1>5. QED
  BY <1>1, <1>3, <1>4 DEF StagePages, FillStagingBuffer

\* The fake table leads from a block to the staged copy of its page.
Lists(slice, pg) ==
    slice.pages \in Seq(Pages) /\ slice.n = Len(slice.pages) /\ \E i \in 1..slice.n : slice.pages[i] = pg
LeadsTo(m, slice, b, pg) ==
    \E j \in 1..slice.n : slice.pages[j] = pg /\ FakeBlockTable(m, slice)[b + 1] = j - 1

LEMMA FakeEntry ==
    ASSUME NEW m, NEW slice, NEW b \in 0..(MaxBlocks - 1), NEW pg \in Pages, pg = Pad(table[call.members[m]])[b + 1],
           Lists(slice, pg)
    PROVE  LeadsTo(m, slice, b, pg)
<1> DEFINE entry == Pad(table[call.members[m]])
           lookup == [p \in Pages |-> IF \E i \in 1..slice.n : slice.pages[i] = p
                                      THEN (CHOOSE i \in 1..slice.n : slice.pages[i] = p) - 1
                                      ELSE slice.n]
           f == [c \in 1..MaxBlocks |-> lookup[Max({entry[c], 0})]]
           S == {lookup[Max({entry[c], 0})] : c \in 1..MaxBlocks}
           at == CHOOSE i \in 1..slice.n : slice.pages[i] = pg
<1>1. FakeBlockTable(m, slice) = <<>> \o f
  BY DEF FakeBlockTable
<1>2. MaxBlocks \in Nat \ {0} /\ b + 1 \in 1..MaxBlocks
  BY AttentionAssumption
<1>3. Max({pg, 0}) = pg
  <2>1. pg \in Int /\ pg >= 0
    BY Natural DEF Pages
  <2>2. QED
    BY <2>1, OfTwo
<1>4. lookup[pg] = at - 1 /\ at \in 1..slice.n /\ slice.pages[at] = pg
  BY DEF Lists
<1> HIDE DEF lookup, at
<1>5. f[b + 1] = at - 1
  BY <1>2, <1>3, <1>4
<1>6. <<>> \o f = f
  <2>1. f \in [1..MaxBlocks -> S]
    OBVIOUS
  <2> HIDE DEF S, f
  <2>2. \A g \in [1..MaxBlocks -> S] : g \in Seq(S)
    BY <1>2
  <2>3. f \in Seq(S)
    BY <2>1, <2>2
  <2>4. QED
    BY <2>3, ConcatEmptySeq
<1> HIDE DEF f
<1>7. QED
  BY <1>1, <1>4, <1>5, <1>6 DEF LeadsTo

LEMMA TwoAndTwo == ASSUME NEW g, NEW p, NEW u PROVE <<g, p>> \o <<u, u>> = <<g, p, u, u>>
<1> DEFINE S == {g, p, u}
           a == <<g, p>>
           b == <<u, u>>
           z == <<g, p, u, u>>
<1>1. /\ a \in Seq(S) /\ b \in Seq(S) /\ z \in Seq(S) /\ Len(a) = 2 /\ Len(b) = 2 /\ Len(z) = 4
      /\ a[1] = z[1] /\ a[2] = z[2] /\ b[1] = z[3] /\ b[2] = z[4]
  OBVIOUS
<1> HIDE DEF a, b, z, S
<1>2. /\ a \o b \in Seq(S) /\ Len(a \o b) = Len(a) + Len(b)
      /\ \A i \in 1..(Len(a) + Len(b)) : (a \o b)[i] = IF i <= Len(a) THEN a[i] ELSE b[i - Len(a)]
  BY <1>1, ConcatProperties
<1> DEFINE w == a \o b
<1> HIDE DEF w
<1>3. w \in Seq(S) /\ Len(w) = 4 /\ \A i \in 1..4 : w[i] = IF i <= 2 THEN a[i] ELSE b[i - 2]
  BY <1>1, <1>2 DEF w
<1>4. ASSUME NEW i \in 1..4 PROVE w[i] = z[i]
  <2>1. i = 1 \/ i = 2 \/ (i = 3 /\ i - 2 = 1 /\ ~(i <= 2)) \/ (i = 4 /\ i - 2 = 2 /\ ~(i <= 2))
    OBVIOUS
  <2>2. w[i] = IF i <= 2 THEN a[i] ELSE b[i - 2]
    BY <1>3
  <2>3. QED
    BY <1>1, <2>1, <2>2
<1>5. w = z
  BY <1>1, <1>3, <1>4, SeqEqual
<1>6. QED
  BY <1>5 DEF w, a, b, z

\* What one query reads of a slice that stages the pages it selects.
KernelElement(e, r, pos, x) ==
    \E h \in KvHeads, b \in Int, t \in Tokens :
        /\ \E i \in 1..TopK : i <= NBlocks(pos) /\ b = x[h][i]
        /\ b >= 0 /\ b * BlockSize + t <= pos
        /\ e = <<h, b * BlockSize + t, rows[r][b * BlockSize + t + 1], rows[r][b * BlockSize + t + 1]>>

\* The slice stages the pages of the blocks that x selects for member m up to a position.
Stages(slice, m, pos, x) ==
    /\ slice.pages \in Seq(Pages) /\ slice.n = Len(slice.pages)
    /\ \A h \in KvHeads, i \in 1..TopK :
         x[h][i] >= 0 => \E j \in 1..slice.n : slice.pages[j] = Pad(table[call.members[m]])[x[h][i] + 1]

LEMMA KernelHas ==
    ASSUME IInv, NEW m, NEW r \in Reqs, r = call.members[m], NEW pos \in 0..(Len0(r) - 1), NBlocks(pos) \in 1..MaxBlocks,
           NEW slice, NEW fast \in BOOLEAN, NEW x \in Picks(NBlocks(pos)), Stages(slice, m, pos, x), NEW e
    PROVE  e \in KernelReads(slice, fast, FakeBlockTable(m, slice), x, pos, Len0(r)) <=> KernelElement(e, r, pos, x)
<1> DEFINE bt == FakeBlockTable(m, slice)
           realTopk == Min({TopK, NBlocks(pos)})
           blocks(h) == {b \in {x[h][i] : i \in 1..realTopk} : b >= 0 /\ bt[b + 1] >= 0}
           staged(h, b, t) == IF fast THEN StagePages(slice, bt[b + 1] + 1, h, t)
                              ELSE FillStagingBuffer(slice, bt[b + 1] + 1, h, t)
           Z(h) == {y \in blocks(h) \X Tokens : y[1] * BlockSize + y[2] <= pos /\ y[1] * BlockSize + y[2] < Len0(r)}
           R(h) == {<<h, z[1] * BlockSize + z[2]>> \o staged(h, z[1], z[2]) : z \in Z(h)}
           Walks(h, b) == \E i \in 1..TopK : i <= NBlocks(pos) /\ b = x[h][i]
           Reads(h, b, t) == <<h, b * BlockSize + t, rows[r][b * BlockSize + t + 1], rows[r][b * BlockSize + t + 1]>>
<1>1. KernelReads(slice, fast, bt, x, pos, Len0(r)) = UNION {R(h) : h \in KvHeads}
  BY DEF KernelReads
<1>2. pos \in Nat /\ pos < Len0(r) /\ Len0(r) \in Nat
  BY RequestType DEF IInv
<1>3. \A i : i \in 1..realTopk <=> i \in 1..TopK /\ i <= NBlocks(pos)
  <2> DEFINE nb == NBlocks(pos)
  <2>1. TopK \in Int /\ nb \in Int
    BY AttentionAssumption
  <2> HIDE DEF nb
  <2>2. Min({TopK, nb}) = IF TopK <= nb THEN TopK ELSE nb
    BY <2>1, OfTwo
  <2>3. realTopk = IF TopK <= nb THEN TopK ELSE nb
    BY <2>2 DEF nb
  <2> HIDE DEF realTopk
  <2>4. \A i : i \in 1..realTopk <=> i \in 1..TopK /\ i <= nb
    BY <2>1, <2>3
  <2>5. QED
    BY <2>4 DEF nb
<1> HIDE DEF realTopk
<1>4. ASSUME NEW h \in KvHeads, NEW i \in 1..TopK, NEW b, b = x[h][i], b >= 0
      PROVE  /\ b \in Nat /\ b < NBlocks(pos)
             /\ \E j \in 1..slice.n : slice.pages[j] = Pad(table[r])[b + 1] /\ bt[b + 1] = j - 1
  <2>1. x[h][i] \in Int /\ x[h][i] < NBlocks(pos)
    <3>1. PICK nb : nb = NBlocks(pos)
      OBVIOUS
    <3>2. nb \in 1..MaxBlocks /\ x \in Picks(nb)
      BY <3>1
    <3>3. /\ x[h] \in [1..TopK -> Int] /\ DOMAIN x[h] = 1..TopK /\ \A c \in 1..TopK : x[h][c] >= -1 /\ x[h][c] < nb
          /\ \A c, d \in 1..TopK : x[h][c] >= 0 => c <= nb /\ (x[h][c] = x[h][d] => c = d)
      BY <3>2, PicksType
    <3>4. QED
      BY <3>1, <3>3
  <2>2. b \in Nat /\ b < NBlocks(pos) /\ NBlocks(pos) <= MaxBlocks /\ NBlocks(pos) \in Nat /\ MaxBlocks \in Nat
    <3>1. MaxBlocks \in Nat
      BY AttentionAssumption
    <3>2. QED
      BY <1>4, <2>1, <3>1
  <2>3. b \in 0..(MaxBlocks - 1)
    BY <2>2
  <2>4. \E j \in 1..slice.n : slice.pages[j] = Pad(table[r])[b + 1]
    BY <1>4 DEF Stages
  <2>5. PICK pg : pg = Pad(table[r])[b + 1]
    OBVIOUS
  <2>6. slice.pages \in Seq(Pages) /\ slice.n = Len(slice.pages)
    BY DEF Stages
  <2>7. pg \in Pages
    BY <2>4, <2>5, <2>6, ElementOfSeq
  <2>8. Lists(slice, pg)
    BY <2>4, <2>5, <2>6 DEF Lists
  <2>9. pg = Pad(table[call.members[m]])[b + 1]
    BY <2>5
  <2>10. LeadsTo(m, slice, b, pg)
    BY <2>3, <2>7, <2>8, <2>9, FakeEntry
  <2>11. QED
    BY <2>2, <2>5, <2>10 DEF LeadsTo
<1>5. slice.n \in Nat
  BY LenProperties DEF Stages
<1> HIDE DEF bt
<1>6. ASSUME NEW h \in KvHeads, NEW z
      PROVE  z \in Z(h) <=> \E b \in Int, t \in Tokens : z = <<b, t>> /\ Walks(h, b) /\ b >= 0 /\ b * BlockSize + t <= pos
  <2>1. \A b : b \in blocks(h) <=> b \in Int /\ Walks(h, b) /\ b >= 0
    <3>1. ASSUME NEW b, b \in blocks(h) PROVE b \in Int /\ Walks(h, b) /\ b >= 0
      <4>1. PICK i \in 1..realTopk : b = x[h][i]
        BY <3>1
      <4>2. i \in 1..TopK /\ i <= NBlocks(pos) /\ b >= 0
        BY <1>3, <3>1, <4>1
      <4>3. b \in Nat
        BY <1>4, <4>1, <4>2
      <4>4. QED
        BY <4>1, <4>2, <4>3
    <3>2. ASSUME NEW b, b \in Int, Walks(h, b), b >= 0 PROVE b \in blocks(h)
      <4>1. PICK i \in 1..TopK : i <= NBlocks(pos) /\ b = x[h][i]
        BY <3>2
      <4>2. PICK j \in 1..slice.n : bt[b + 1] = j - 1
        BY <1>4, <3>2, <4>1
      <4>3. bt[b + 1] >= 0
        BY <1>5, <4>2
      <4>4. i \in 1..realTopk
        BY <1>3, <4>1
      <4>5. QED
        BY <3>2, <4>1, <4>3, <4>4
    <3>3. QED
      BY <3>1, <3>2
  <2> HIDE DEF blocks
  <2>2. ASSUME NEW b \in Int, NEW t \in Tokens, b * BlockSize + t <= pos PROVE b * BlockSize + t < Len0(r)
    <3> DEFINE s == b * BlockSize + t
    <3>1. s \in Int
      BY Natural DEF Tokens
    <3> HIDE DEF s
    <3>2. s <= pos => s < Len0(r)
      BY <1>2, <3>1
    <3>3. QED
      BY <2>2, <3>2 DEF s
  <2>3. z \in Z(h) <=> \E b \in blocks(h), t \in Tokens : z = <<b, t>> /\ b * BlockSize + t <= pos /\ b * BlockSize + t < Len0(r)
    OBVIOUS
  <2> HIDE DEF Z, Walks
  <2>4. QED
    BY <2>1, <2>2, <2>3
<1>7. ASSUME NEW h \in KvHeads, NEW b \in Int, NEW t \in Tokens, Walks(h, b), b >= 0, b * BlockSize + t <= pos
      PROVE  staged(h, b, t) = <<rows[r][b * BlockSize + t + 1], rows[r][b * BlockSize + t + 1]>>
  <2>1. b * BlockSize + t < Len0(r)
    <3> DEFINE s == b * BlockSize + t
    <3>1. s \in Int
      BY Natural DEF Tokens
    <3> HIDE DEF s
    <3>2. s < Len0(r)
      BY <1>2, <1>7, <3>1 DEF s
    <3>3. QED
      BY <3>2 DEF s
  <2>2. b \in Nat
    BY <1>7
  <2>3. pool[Pad(table[r])[b + 1]][t] = rows[r][b * BlockSize + t + 1]
    BY <2>1, <2>2, PoolReads
  <2>4. PICK j \in 1..slice.n : slice.pages[j] = Pad(table[r])[b + 1] /\ bt[b + 1] = j - 1
    BY <1>4, <1>7
  <2>5. bt[b + 1] + 1 = j /\ j \in Int /\ j <= slice.n /\ slice.n \in Int
    BY <1>5, <2>4
  <2>6. PICK u : u = rows[r][b * BlockSize + t + 1]
    OBVIOUS
  <2>7. u = pool[slice.pages[j]][t]
    BY <2>3, <2>4, <2>6
  <2>8. StagePages(slice, j, h, t) = <<u, u>> /\ FillStagingBuffer(slice, j, h, t) = <<u, u>>
    BY <2>5, <2>7, StagedRows
  <2>9. QED
    BY <2>5, <2>6, <2>8
<1> HIDE DEF staged, Z
<1>8. \A g, p, u : <<g, p>> \o <<u, u>> = <<g, p, u, u>>
  BY TwoAndTwo
<1>9. ASSUME NEW h \in KvHeads
      PROVE  e \in R(h) <=> \E b \in Int, t \in Tokens : Walks(h, b) /\ b >= 0 /\ b * BlockSize + t <= pos /\ e = Reads(h, b, t)
  <2>1. e \in R(h) <=> \E z \in Z(h) : e = <<h, z[1] * BlockSize + z[2]>> \o staged(h, z[1], z[2])
    OBVIOUS
  <2>2. ASSUME NEW b \in Int, NEW t \in Tokens, Walks(h, b), b >= 0, b * BlockSize + t <= pos
        PROVE  <<h, <<b, t>>[1] * BlockSize + <<b, t>>[2]>> \o staged(h, <<b, t>>[1], <<b, t>>[2]) = Reads(h, b, t)
    <3>1. staged(h, b, t) = <<rows[r][b * BlockSize + t + 1], rows[r][b * BlockSize + t + 1]>>
      BY <1>7, <2>2
    <3>2. <<b, t>>[1] = b /\ <<b, t>>[2] = t
      OBVIOUS
    <3>3. QED
      BY <1>8, <3>1, <3>2
  <2> HIDE DEF R, Walks, Reads
  <2>3. ASSUME e \in R(h)
        PROVE  \E b \in Int, t \in Tokens : Walks(h, b) /\ b >= 0 /\ b * BlockSize + t <= pos /\ e = Reads(h, b, t)
    <3>1. PICK z \in Z(h) : e = <<h, z[1] * BlockSize + z[2]>> \o staged(h, z[1], z[2])
      BY <2>1, <2>3
    <3>2. PICK b \in Int, t \in Tokens : z = <<b, t>> /\ Walks(h, b) /\ b >= 0 /\ b * BlockSize + t <= pos
      BY <1>6, <3>1
    <3>3. e = Reads(h, b, t)
      BY <2>2, <3>1, <3>2
    <3>4. QED
      BY <3>2, <3>3
  <2>4. ASSUME NEW b \in Int, NEW t \in Tokens, Walks(h, b), b >= 0, b * BlockSize + t <= pos, e = Reads(h, b, t)
        PROVE  e \in R(h)
    <3>1. <<b, t>> \in Z(h)
      BY <1>6, <2>4
    <3>2. e = <<h, <<b, t>>[1] * BlockSize + <<b, t>>[2]>> \o staged(h, <<b, t>>[1], <<b, t>>[2])
      BY <2>2, <2>4
    <3>3. QED
      BY <2>1, <3>1, <3>2
  <2>5. QED
    BY <2>3, <2>4
<1> HIDE DEF R
<1>10. e \in KernelReads(slice, fast, bt, x, pos, Len0(r)) <=> \E h \in KvHeads : e \in R(h)
  BY <1>1
<1> HIDE DEF Walks, Reads
<1>11. e \in KernelReads(slice, fast, bt, x, pos, Len0(r)) <=> \E h \in KvHeads : \E b \in Int, t \in Tokens :
         Walks(h, b) /\ b >= 0 /\ b * BlockSize + t <= pos /\ e = Reads(h, b, t)
  BY <1>9, <1>10
<1>12. QED
  BY <1>11 DEF Walks, Reads, KernelElement, bt

\* A query that begins a slice late keeps its position.
LEMMA SlicePosition ==
    ASSUME IInv, NEW k, NEW lens, Forward(k, lens), NEW q \in 1..TotalQ, NEW slice, slice.lo \in Nat, NEW m, m = MemberOf(q)
    PROVE  SlicePrefix(m, slice) + SliceOffset(m, slice, q) = Position(q)
<1>1. m \in 1..k /\ Position(q) = call.prefix[m] + q - call.cu[m] - 1 /\ Position(q) \in Nat
  BY PositionOf
<1>2. call.prefix[m] \in Nat /\ call.cu[m] \in Nat /\ q \in Nat
  <2>1. call.prefix[m] \in Nat
    BY <1>1 DEF Forward
  <2>2. k \in Nat /\ TotalQ \in Nat
    BY CuBounds
  <2>3. m \in m..k /\ q \in Nat
    BY <1>1, <2>2
  <2>4. call.cu[m] \in Nat
    BY <1>1, <2>3, CuBounds
  <2>5. QED
    BY <2>1, <2>3, <2>4
<1>3. PICK x, p, z : x = call.cu[m] /\ p = call.prefix[m] /\ z = Max({call.cu[m], slice.lo - 1})
  OBVIOUS
<1>4. z \in Int
  <2>1. x \in Int /\ slice.lo - 1 \in Int
    BY <1>2, <1>3
  <2>2. Max({x, slice.lo - 1}) \in Int
    BY <2>1, OfTwo
  <2>3. QED
    BY <1>3, <2>2
<1>5. SlicePrefix(m, slice) = p + z - x /\ SliceOffset(m, slice, q) = q - 1 - z
  BY <1>3 DEF SlicePrefix, SliceOffset
<1>6. (p + z - x) + (q - 1 - z) = p + q - x - 1
  BY <1>2, <1>3, <1>4
<1>7. QED
  BY <1>1, <1>3, <1>5, <1>6

\* A slice stages what its queries select.
LEMMA SliceStages ==
    ASSUME IInv, NEW k, NEW lens, Forward(k, lens), NEW q \in 1..TotalQ, NEW x \in Picks(NBlocks(Position(q))),
           NEW pagesOf \in Seq(SUBSET Pages), Len(pagesOf) = TotalQ, pagesOf[q] = SelectedPages(q, x),
           NEW slice \in FitSlices(k, pagesOf), slice.lo <= q, q <= slice.hi
    PROVE  Stages(slice, MemberOf(q), Position(q), x)
<1>1. PICK r, m, pos, nb : r = call.members[MemberOf(q)] /\ m = MemberOf(q) /\ pos = Position(q) /\ nb = NBlocks(Position(q))
  OBVIOUS
<1>2. r \in Reqs /\ nb \in 1..MaxBlocks /\ nb <= Len(table[r]) /\ table[r] \in Seq(Pages) /\ Len(table[r]) \in Nat
  BY <1>1, PositionOf
<1>3. /\ slice.pages \in Seq(Pages) /\ slice.n = Len(slice.pages)
      /\ slice.lo \in 1..TotalQ /\ slice.hi \in slice.lo..TotalQ /\ slice.lo \in Nat /\ slice.hi \in Nat
      /\ slice.pages = Sorted(UNION {pagesOf[c] : c \in slice.lo..slice.hi})
  BY DEF FitSlices, SliceFits
<1>4. ASSUME NEW h \in KvHeads, NEW i \in 1..TopK, x[h][i] >= 0
      PROVE  \E j \in 1..slice.n : slice.pages[j] = Pad(table[r])[x[h][i] + 1]
  <2>1. PICK b : b = x[h][i]
    OBVIOUS
  <2>2. DOMAIN x[h] = 1..TopK /\ b \in Int /\ b < nb
    <3>1. nb \in 1..MaxBlocks /\ x \in Picks(nb)
      BY <1>1, <1>2
    <3>2. /\ x[h] \in [1..TopK -> Int] /\ DOMAIN x[h] = 1..TopK /\ \A c \in 1..TopK : x[h][c] >= -1 /\ x[h][c] < nb
          /\ \A c, d \in 1..TopK : x[h][c] >= 0 => c <= nb /\ (x[h][c] = x[h][d] => c = d)
      BY <3>1, PicksType
    <3>3. QED
      BY <2>1, <3>2
  <2>3. b \in Nat /\ b < MaxBlocks /\ b + 1 \in 1..Len(table[r])
    <3>1. MaxBlocks \in Nat
      BY AttentionAssumption
    <3>2. QED
      BY <1>2, <1>4, <2>1, <2>2, <3>1
  <2>4. PICK pg : pg = Pad(table[r])[b + 1]
    OBVIOUS
  <2>5. pg \in Pages
    <3>1. pg = table[r][b + 1]
      BY <1>2, <2>3, <2>4, PadFront
    <3>2. QED
      BY <1>2, <2>3, <3>1, ElementOfSeq
  <2>6. b \in UNION {Range(x[g]) : g \in KvHeads}
    <3>1. b \in Range(x[h])
      BY <2>1, <2>2 DEF Range
    <3>2. QED
      BY <3>1
  <2>7. pg \in SelectedPages(q, x)
    <3>1. b >= 0 /\ b < MaxBlocks
      BY <2>3
    <3>2. QED
      BY <1>1, <2>4, <2>5, <2>6, <3>1 DEF SelectedPages
  <2> DEFINE X == UNION {pagesOf[c] : c \in slice.lo..slice.hi}
  <2>8. q \in slice.lo..slice.hi
    <3>1. TotalQ \in Nat
      BY CuBounds
    <3>2. QED
      BY <1>3, <3>1
  <2>9. pg \in X
    BY <2>7, <2>8
  <2>10. slice.lo \in 1..Len(pagesOf) /\ slice.hi \in slice.lo..Len(pagesOf)
    BY <1>3
  <2>11. PICK lo, hi : lo = slice.lo /\ hi = slice.hi
    OBVIOUS
  <2>12. lo \in 1..Len(pagesOf) /\ hi \in lo..Len(pagesOf) /\ X = UNION {pagesOf[c] : c \in lo..hi}
    BY <2>10, <2>11
  <2> HIDE DEF X
  <2>13. \A p \in X : \E j \in 1..Len(Sorted(X)) : Sorted(X)[j] = p
    <3>1. PagesListed(X)
      BY <2>12, SlicePages
    <3>2. QED
      BY <3>1 DEF PagesListed
  <2>14. slice.pages = Sorted(X)
    BY <1>3 DEF X
  <2>15. QED
    BY <1>3, <2>1, <2>4, <2>9, <2>13, <2>14, ZenonT(60)
<1>5. QED
  BY <1>1, <1>3, <1>4 DEF Stages

\* Whatever slice a query is in, it reads what it is to see.
LEMMA SliceServes ==
    ASSUME IInv, NEW k, NEW lens, Forward(k, lens), NEW q \in 1..TotalQ, NEW x \in Picks(NBlocks(Position(q))),
           NEW pagesOf \in Seq(SUBSET Pages), Len(pagesOf) = TotalQ, pagesOf[q] = SelectedPages(q, x),
           NEW slice \in FitSlices(k, pagesOf), slice.lo <= q, q <= slice.hi, NEW fast \in BOOLEAN
    PROVE  SliceReads(slice, fast, q, x) = Expected(q, x)
<1>1. PICK r, m, pos, nb : r = call.members[MemberOf(q)] /\ m = MemberOf(q) /\ pos = Position(q) /\ nb = NBlocks(Position(q))
  OBVIOUS
<1>2. r \in Reqs /\ pos \in Nat /\ pos \in 0..(Len0(r) - 1) /\ nb \in 1..MaxBlocks /\ nb \in Nat
  <2>1. /\ r \in Reqs /\ pos \in Nat /\ pos < Len0(r) /\ Len0(r) \in Nat /\ nb \in 1..MaxBlocks
    BY <1>1, PositionOf
  <2>2. MaxBlocks \in Nat
    BY AttentionAssumption
  <2>3. QED
    BY <2>1, <2>2
<1>3. slice.lo \in Nat
  BY DEF FitSlices
<1>4. SliceReads(slice, fast, q, x) = KernelReads(slice, fast, FakeBlockTable(m, slice), x, pos, Len0(r))
  <2>1. SlicePrefix(m, slice) + SliceOffset(m, slice, q) = pos
    BY <1>1, <1>3, SlicePosition
  <2>2. QED
    BY <1>1, <2>1 DEF SliceReads
<1>5. Stages(slice, m, pos, x)
  BY <1>1, SliceStages
<1>6. \A e : e \in KernelReads(slice, fast, FakeBlockTable(m, slice), x, pos, Len0(r)) <=> KernelElement(e, r, pos, x)
  <2>1. r = call.members[m] /\ NBlocks(pos) \in 1..MaxBlocks /\ x \in Picks(NBlocks(pos))
    BY <1>1, <1>2
  <2>2. QED
    BY <1>2, <1>5, <2>1, KernelHas
<1> DEFINE w == rows[r]
           Row(h, s) == <<h, s, w[s + 1], w[s + 1]>>
<1>7. \A e : e \in Expected(q, x) <=> \E h \in KvHeads : \E p \in 0..pos : p \div BlockSize \in Range(x[h]) /\ e = Row(h, p)
  BY <1>1, ExpectedHas
<1>8. \A h \in KvHeads : /\ DOMAIN x[h] = 1..TopK
                         /\ \A i \in 1..TopK : x[h][i] \in Int /\ (x[h][i] >= 0 => i <= nb)
  <2> SUFFICES ASSUME NEW h \in KvHeads
               PROVE  DOMAIN x[h] = 1..TopK /\ \A i \in 1..TopK : x[h][i] \in Int /\ (x[h][i] >= 0 => i <= nb)
    OBVIOUS
  <2>1. nb \in 1..MaxBlocks /\ x \in Picks(nb)
    BY <1>1, <1>2
  <2>2. /\ x[h] \in [1..TopK -> Int] /\ DOMAIN x[h] = 1..TopK /\ \A c \in 1..TopK : x[h][c] >= -1 /\ x[h][c] < nb
        /\ \A c, d \in 1..TopK : x[h][c] >= 0 => c <= nb /\ (x[h][c] = x[h][d] => c = d)
    BY <2>1, PicksType
  <2>3. QED
    BY <2>2
<1>9. ASSUME NEW e, KernelElement(e, r, pos, x)
      PROVE  \E h \in KvHeads : \E p \in 0..pos : p \div BlockSize \in Range(x[h]) /\ e = Row(h, p)
  <2>1. PICK h \in KvHeads, b \in Int, t \in Tokens :
          /\ \E i \in 1..TopK : i <= NBlocks(pos) /\ b = x[h][i]
          /\ b >= 0 /\ b * BlockSize + t <= pos
          /\ e = Row(h, b * BlockSize + t)
    BY <1>9 DEF KernelElement
  <2>2. PICK i \in 1..TopK : b = x[h][i]
    BY <2>1
  <2>3. b \in Range(x[h])
    BY <1>8, <2>2 DEF Range
  <2>4. b \in Nat
    BY <2>1
  <2> DEFINE p == b * BlockSize + t
  <2>5. p \in Nat /\ p \div BlockSize = b
    BY <2>4, BlocksUpTo
  <2>6. p <= pos /\ e = Row(h, p)
    BY <2>1
  <2> HIDE DEF p, Row
  <2>7. p \in 0..pos
    BY <1>2, <2>5, <2>6
  <2>8. p \div BlockSize \in Range(x[h])
    BY <2>3, <2>5
  <2>9. QED
    BY <2>6, <2>7, <2>8
<1>10. ASSUME NEW e, NEW h \in KvHeads, NEW p \in 0..pos, p \div BlockSize \in Range(x[h]), e = Row(h, p)
       PROVE  KernelElement(e, r, pos, x)
  <2> DEFINE b == p \div BlockSize
             t == p % BlockSize
  <2>1. b \in 0..(nb - 1) /\ t \in Tokens /\ p = b * BlockSize + t
    BY <1>1, <1>2, BlocksUpTo
  <2>2. PICK i \in 1..TopK : x[h][i] = b
    BY <1>8, <1>10 DEF Range
  <2> HIDE DEF b, t
  <2>3. b \in Int /\ b >= 0 /\ p <= pos
    BY <1>2, <2>1
  <2>4. i <= NBlocks(pos)
    BY <1>1, <1>8, <2>2, <2>3
  <2>5. e = Row(h, b * BlockSize + t) /\ b * BlockSize + t <= pos
    BY <1>10, <2>1, <2>3
  <2>6. QED
    BY <2>1, <2>2, <2>3, <2>4, <2>5 DEF KernelElement
<1> HIDE DEF Row
<1>11. \A e : KernelElement(e, r, pos, x) <=> e \in Expected(q, x)
  BY <1>7, <1>9, <1>10
<1>12. QED
  BY <1>4, <1>6, <1>11

\* A slice covers a whole number of queries of each member: none is refused.
LEMMA SliceAccepted ==
    ASSUME NEW k, NEW lens, Forward(k, lens), NEW pagesOf, NEW slice \in FitSlices(k, pagesOf)
    PROVE  ~SliceRefused(slice)
<1>1. /\ k \in Nat \ {0} /\ TotalQ \in Nat
      /\ \A c \in 1..k : \A d \in c..k :
           call.cu[c] \in Nat /\ call.cu[d + 1] \in Nat /\ call.cu[c] < call.cu[d + 1] /\ call.cu[d + 1] <= TotalQ
  BY CuBounds
<1>2. PICK lo, hi : lo = slice.lo /\ hi = slice.hi
  OBVIOUS
<1>3. lo \in Nat /\ hi \in Nat /\ lo >= 1 /\ lo <= hi /\ SliceShape(k, slice)
  <2>1. lo \in 1..TotalQ /\ hi \in lo..TotalQ /\ SliceShape(k, slice)
    BY <1>2 DEF FitSlices, SliceFits
  <2>2. QED
    BY <1>1, <2>1
<1>4. PICK a \in 1..k : \E b \in a..k : /\ slice.reqs = Run(a, b) /\ call.cu[a] < lo /\ hi <= call.cu[b + 1]
                                        /\ a # b => lo = call.cu[a] + 1 /\ hi = call.cu[b + 1]
  BY <1>2, <1>3 DEF SliceShape
<1>5. PICK b \in a..k : /\ slice.reqs = Run(a, b) /\ call.cu[a] < lo /\ hi <= call.cu[b + 1]
                        /\ a # b => lo = call.cu[a] + 1 /\ hi = call.cu[b + 1]
  BY <1>4
<1> DEFINE n == b + 1 - a
           covered(m) == Min({call.cu[m + 1], hi}) - Max({call.cu[m], lo - 1})
           ls == [i \in 1..n |-> covered(a + i - 1)]
<1>6. n \in Nat \ {0} /\ a \in Nat /\ b \in Nat
  BY <1>1
<1>7. slice.reqs = [i \in 1..n |-> a + i - 1]
  BY <1>5 DEF Run
<1>8. SliceRefused(slice) <=> Last(CuSeqlens(ls)) # hi - lo + 1 \/ \E i \in 1..n : ls[i] <= 0
  <2>1. [i \in DOMAIN slice.reqs |-> Min({call.cu[slice.reqs[i] + 1], slice.hi}) - Max({call.cu[slice.reqs[i]], slice.lo - 1})] = ls
    BY <1>2, <1>7
  <2> HIDE DEF covered
  <2>2. DOMAIN ls = 1..n
    OBVIOUS
  <2> HIDE DEF ls
  <2>3. QED
    BY <1>2, <2>1, <2>2 DEF SliceRefused
<1> HIDE DEF n
<1>9. ASSUME NEW i \in 1..n
      PROVE  /\ call.cu[a + i - 1] \in Nat /\ call.cu[a + i] \in Nat /\ call.cu[a + i - 1] < call.cu[a + i]
             /\ a + i - 1 \in a..b /\ (a + i - 1) + 1 = a + i
  <2>1. a + i - 1 \in a..b /\ a + i - 1 \in 1..k /\ (a + i - 1) + 1 = a + i
    BY <1>1, <1>6 DEF n
  <2>2. PICK c : c = a + i - 1
    OBVIOUS
  <2>3. c \in 1..k /\ c \in c..k /\ c + 1 = a + i
    BY <1>1, <2>1, <2>2
  <2>4. call.cu[c] \in Nat /\ call.cu[c + 1] \in Nat /\ call.cu[c] < call.cu[c + 1]
    BY <1>1, <2>3
  <2>5. QED
    BY <2>1, <2>2, <2>3, <2>4
<1>10. CASE a # b
  <2>1. lo = call.cu[a] + 1 /\ hi = call.cu[b + 1]
    BY <1>5, <1>10
  <2>2. ASSUME NEW i \in 1..n PROVE ls[i] = call.cu[a + i] - call.cu[a + i - 1] /\ ls[i] \in Nat /\ ls[i] > 0
    <3>1. PICK u, v, y, z : u = call.cu[a + i - 1] /\ v = call.cu[a + i] /\ y = call.cu[a] /\ z = call.cu[b + 1]
      OBVIOUS
    <3>2. u \in Nat /\ v \in Nat /\ u < v /\ a + i - 1 \in a..b /\ (a + i - 1) + 1 = a + i
      BY <1>9, <3>1
    <3>3. y \in Nat /\ z \in Nat
      BY <1>1, <3>1
    <3>4. y <= u
      <4>1. CASE i = 1
        BY <1>6, <3>1, <3>3, <4>1
      <4>2. CASE i # 1
        <5>1. a + i - 2 \in a..k /\ (a + i - 2) + 1 = a + i - 1
          BY <1>1, <1>6, <3>2, <4>2
        <5>2. call.cu[a] < call.cu[(a + i - 2) + 1]
          BY <1>1, <5>1
        <5>3. y < u
          BY <3>1, <5>1, <5>2
        <5>4. QED
          BY <3>2, <3>3, <5>3
      <4>3. QED
        BY <4>1, <4>2
    <3>5. v <= z
      <4>1. CASE a + i = b + 1
        BY <3>1, <3>3, <4>1
      <4>2. CASE a + i # b + 1
        <5>1. a + i \in 1..k /\ b \in (a + i)..k
          BY <1>1, <1>6, <3>2, <4>2
        <5>2. call.cu[a + i] < call.cu[b + 1]
          BY <1>1, <5>1
        <5>3. v < z
          BY <3>1, <5>2
        <5>4. QED
          BY <3>2, <3>3, <5>3
      <4>3. QED
        BY <4>1, <4>2
    <3>6. ls[i] = Min({v, z}) - Max({u, y})
      <4>1. ls[i] = Min({call.cu[(a + i - 1) + 1], hi}) - Max({call.cu[a + i - 1], lo - 1})
        OBVIOUS
      <4>2. lo - 1 = y /\ hi = z
        BY <2>1, <3>1, <3>3
      <4>3. QED
        BY <3>1, <3>2, <4>1, <4>2
    <3>7. Min({v, z}) = v /\ Max({u, y}) = u
      <4> HIDE DEF ls
      <4>4. u \in Int /\ v \in Int /\ y \in Int /\ z \in Int
        BY <3>2, <3>3
      <4>1. Min({v, z}) = IF v <= z THEN v ELSE z
        BY <4>4, OfTwo
      <4>2. Max({u, y}) = IF u >= y THEN u ELSE y
        BY <4>4, OfTwo
      <4>3. QED
        BY <3>2, <3>3, <3>4, <3>5, <4>1, <4>2
    <3> HIDE DEF ls
    <3>8. QED
      BY <3>1, <3>2, <3>6, <3>7
  <2>3. ls \in [1..n -> Nat]
    BY <2>2
  <2> HIDE DEF ls
  <2>4. PrefixSums(CuSeqlens(ls), n, ls)
    BY <1>6, <2>3, CuFacts
  <2>5. PICK cs : cs = CuSeqlens(ls)
    OBVIOUS
  <2>6. cs \in Seq(Nat) /\ Len(cs) = n + 1 /\ cs[1] = 0 /\ \A j \in 1..n : cs[j + 1] = cs[j] + ls[j]
    BY <2>4, <2>5 DEF PrefixSums
  <2> DEFINE S == {i \in 0..n : cs[i + 1] = call.cu[a + i] - call.cu[a]}
  <2>7. \A i \in 0..n : i \in S
    <3>1. 0 \in S
      <4>1. call.cu[a + 0] - call.cu[a] = 0
        <5>1. call.cu[a] \in Nat /\ a + 0 = a
          BY <1>1, <1>6
        <5>2. QED
          BY <5>1
      <4>2. QED
        BY <1>6, <2>6, <4>1
    <3>2. ASSUME NEW i \in 1..n, i - 1 \in S PROVE i \in S
      <4>1. PICK u, v, y : u = call.cu[a + i - 1] /\ v = call.cu[a + i] /\ y = call.cu[a]
        OBVIOUS
      <4>2. u \in Nat /\ v \in Nat /\ y \in Nat
        BY <1>1, <1>9, <4>1
      <4>3. cs[i] = u - y
        <5>1. (i - 1) + 1 = i /\ a + (i - 1) = a + i - 1
          BY <1>6
        <5>2. QED
          BY <3>2, <4>1, <5>1
      <4>4. cs[i + 1] = cs[i] + ls[i] /\ ls[i] = v - u
        BY <2>2, <2>6, <4>1
      <4>5. cs[i + 1] = v - y
        BY <4>2, <4>3, <4>4
      <4>6. i \in 0..n
        BY <1>6
      <4>7. QED
        BY <4>1, <4>5, <4>6
    <3> HIDE DEF S
    <3>3. QED
      BY <1>6, <3>1, <3>2, StepsInduct
  <2>8. Last(cs) = hi - lo + 1
    <3>1. n \in 0..n /\ a + n = b + 1
      BY <1>6 DEF n
    <3>2. cs[n + 1] = call.cu[a + n] - call.cu[a]
      BY <2>7, <3>1
    <3>3. Last(cs) = cs[n + 1]
      BY <2>6 DEF Last
    <3>4. call.cu[a] \in Nat /\ call.cu[b + 1] \in Nat
      BY <1>1
    <3>5. QED
      BY <2>1, <3>1, <3>2, <3>3, <3>4
  <2>9. \A i \in 1..n : ~(ls[i] <= 0)
    BY <2>2
  <2>10. QED
    BY <1>8, <2>5, <2>8, <2>9
<1>11. CASE a = b
  <2>1. n = 1
    BY <1>6, <1>11 DEF n
  <2>2. ls[1] = hi - lo + 1 /\ ls[1] \in Nat /\ ls[1] > 0
    <3>1. PICK u, v : u = call.cu[a] /\ v = call.cu[a + 1]
      OBVIOUS
    <3>2. u \in Nat /\ v \in Nat /\ u < lo /\ hi <= v
      <4>1. a \in a..k
        BY <1>1
      <4>2. QED
        BY <1>1, <1>5, <1>11, <3>1, <4>1
    <3>3. a + 1 - 1 = a /\ (a + 1 - 1) + 1 = a + 1
      BY <1>6
    <3>4. ls[1] = Min({v, hi}) - Max({u, lo - 1})
      <4>1. 1 \in 1..n
        BY <2>1
      <4>2. ls[1] = Min({call.cu[(a + 1 - 1) + 1], hi}) - Max({call.cu[a + 1 - 1], lo - 1})
        BY <4>1
      <4> HIDE DEF ls
      <4>3. QED
        BY <3>1, <3>3, <4>2
    <3>5. Min({v, hi}) = hi /\ Max({u, lo - 1}) = lo - 1
      <4>1. Min({v, hi}) = IF v <= hi THEN v ELSE hi
        BY <1>3, <3>2, OfTwo
      <4>2. lo - 1 \in Int
        BY <1>3
      <4>3. Max({u, lo - 1}) = IF u >= lo - 1 THEN u ELSE lo - 1
        BY <3>2, <4>2, OfTwo
      <4>4. QED
        BY <1>3, <3>2, <4>1, <4>3
    <3> HIDE DEF ls
    <3>6. QED
      BY <1>3, <3>4, <3>5
  <2> HIDE DEF covered
  <2>3. ls \in [1..n -> Nat]
    <3>1. \A i \in 1..n : ls[i] = ls[1]
      BY <2>1
    <3>2. \A i \in 1..n : ls[i] \in Nat
      BY <2>2, <3>1
    <3>3. QED
      BY <3>2
  <2> HIDE DEF ls
  <2>4. PrefixSums(CuSeqlens(ls), n, ls)
    BY <1>6, <2>3, CuFacts
  <2>5. PICK cs : cs = CuSeqlens(ls)
    OBVIOUS
  <2>6. cs \in Seq(Nat) /\ Len(cs) = n + 1 /\ cs[1] = 0 /\ \A j \in 1..n : cs[j + 1] = cs[j] + ls[j]
    BY <2>4, <2>5 DEF PrefixSums
  <2>7. Last(cs) = hi - lo + 1
    <3>1. Last(cs) = cs[1 + 1]
      BY <2>1, <2>6 DEF Last
    <3>2. cs[1 + 1] = 0 + ls[1]
      BY <2>1, <2>6
    <3>3. QED
      BY <2>2, <3>1, <3>2
  <2>8. \A i \in 1..n : ~(ls[i] <= 0)
    BY <2>1, <2>2
  <2>9. QED
    BY <1>8, <2>5, <2>7, <2>8
<1>12. QED
  BY <1>10, <1>11

\* Slices one behind the other have every query between their ends.
LEMMA AbutsCovers ==
    ASSUME NEW U, NEW S \in Seq(U), \A s \in U : s.lo \in Nat /\ s.hi \in Nat, NEW lo \in Nat, NEW hi \in Nat, Abuts(S, lo, hi),
           NEW q \in lo..hi
    PROVE  \E i \in 1..Len(S) : S[i].lo <= q /\ q <= S[i].hi
<1>1. /\ Len(S) \in Nat /\ Len(S) >= 1 /\ S[1].lo = lo /\ S[Len(S)].hi = hi
      /\ \A i \in 1..Len(S) : S[i].lo \in Nat /\ S[i].hi \in Nat /\ (i > 1 => S[i].lo = S[i - 1].hi + 1)
  <2>1. Len(S) \in Nat
    BY LenProperties
  <2>2. \A i \in 1..Len(S) : S[i] \in U
    BY ElementOfSeq
  <2>3. QED
    BY <2>1, <2>2 DEF Abuts
<1> DEFINE Found == \E i \in 1..Len(S) : S[i].lo <= q /\ q <= S[i].hi
           D == {i \in 0..Len(S) : i >= 1 /\ q <= S[i].hi => Found}
<1>2. 0 \in D
  BY <1>1
<1>3. ASSUME NEW i \in 1..Len(S), i - 1 \in D PROVE i \in D
  <2>1. i \in 0..Len(S)
    BY <1>1
  <2>2. SUFFICES ASSUME q <= S[i].hi PROVE Found
    BY <2>1
  <2>3. CASE S[i].lo <= q
    BY <2>2, <2>3
  <2>4. CASE ~(S[i].lo <= q)
    <3>1. i # 1
      BY <1>1, <2>4
    <3>2. i > 1 /\ i - 1 \in 1..Len(S) /\ i - 1 >= 1
      BY <1>1, <3>1
    <3>3. S[i].lo = S[i - 1].hi + 1 /\ S[i].lo \in Nat /\ S[i - 1].hi \in Nat
      BY <1>1, <3>2
    <3>4. q <= S[i - 1].hi
      BY <2>4, <3>3
    <3>5. QED
      BY <1>3, <3>2, <3>4
  <2>5. QED
    BY <2>3, <2>4
<1> HIDE DEF D
<1>4. Len(S) \in D
  <2>1. \A i \in 0..Len(S) : i \in D
    BY <1>1, <1>2, <1>3, StepsInduct
  <2>2. QED
    BY <1>1, <2>1
<1>5. q <= S[Len(S)].hi
  BY <1>1
<1>6. QED
  BY <1>1, <1>4, <1>5 DEF D

\* What the queries of a forward select, query by query.
PagesOf(picks) == <<>> \o [q \in 1..TotalQ |-> SelectedPages(q, picks[q])]

LEMMA PagesOfIs ==
    ASSUME NEW k, NEW lens, Forward(k, lens), NEW picks
    PROVE  /\ PagesOf(picks) \in Seq(SUBSET Pages) /\ Len(PagesOf(picks)) = TotalQ
           /\ \A q \in 1..TotalQ : PagesOf(picks)[q] = SelectedPages(q, picks[q])
<1> DEFINE f == [q \in 1..TotalQ |-> SelectedPages(q, picks[q])]
<1>1. TotalQ \in Nat
  BY CuBounds
<1>2. \A q : SelectedPages(q, picks[q]) \in SUBSET Pages
  BY DEF SelectedPages
<1>3. PICK n : n = TotalQ
  OBVIOUS
<1>4. f \in [1..n -> SUBSET Pages] /\ n \in Nat
  BY <1>1, <1>2, <1>3
<1>5. \A q \in 1..n : f[q] = SelectedPages(q, picks[q])
  BY <1>3
<1>6. PagesOf(picks) = <<>> \o f
  BY DEF PagesOf
<1> HIDE DEF f
<1>7. \A g \in [1..n -> SUBSET Pages] : g \in Seq(SUBSET Pages) /\ Len(g) = n
  BY <1>4
<1>8. f \in Seq(SUBSET Pages) /\ Len(f) = n
  BY <1>4, <1>7
<1>9. PagesOf(picks) = f
  BY <1>6, <1>8, ConcatEmptySeq
<1>10. QED
  BY <1>3, <1>5, <1>8, <1>9

\* A slice stages no more pages than there are.
LEMMA SliceSize ==
    ASSUME NEW k, NEW lens, Forward(k, lens), NEW pagesOf \in Seq(SUBSET Pages), Len(pagesOf) = TotalQ,
           NEW slice \in FitSlices(k, pagesOf)
    PROVE  slice.n \in 0..NumPages
<1>1. PICK lo, hi : lo = slice.lo /\ hi = slice.hi
  OBVIOUS
<1>2. lo \in 1..Len(pagesOf) /\ hi \in lo..Len(pagesOf) /\ slice.n = Len(slice.pages)
      /\ slice.pages = Sorted(UNION {pagesOf[q] : q \in lo..hi})
  BY <1>1 DEF FitSlices, SliceFits
<1>3. PICK X : X = UNION {pagesOf[q] : q \in lo..hi}
  OBVIOUS
<1>4. PagesListed(X)
  BY <1>2, <1>3, SlicePages
<1>5. X \in SUBSET Pages /\ slice.n = Cardinality(X) /\ Cardinality(X) \in Nat
  BY <1>2, <1>3, <1>4 DEF PagesListed
<1>6. Cardinality(Pages) = NumPages
  <2>1. NumPages - 1 \in Int /\ 0 <= NumPages - 1 /\ (NumPages - 1) - 0 + 1 = NumPages /\ 0 \in Int
    BY Natural
  <2> DEFINE z == NumPages - 1
  <2>2. Cardinality(0..z) = IF 0 > z THEN 0 ELSE z - 0 + 1
    <3> HIDE DEF z
    <3>1. z \in Int
      BY <2>1 DEF z
    <3>2. QED
      BY <3>1, FS_Interval
  <2>3. QED
    BY <2>1, <2>2 DEF Pages
<1>7. Cardinality(X) <= Cardinality(Pages)
  BY <1>5, FinitePages, FS_Subset
<1>8. QED
  BY <1>5, <1>6, <1>7, Natural

\* The staging buffer, grown for the largest slice, holds every one and the zero page.
LEMMA GrownHolds ==
    ASSUME NEW sizes \in SUBSET (0..NumPages), sizes # {}, capacity \in Nat, cap \in Nat
    PROVE  /\ Max(sizes) \in sizes /\ Grown(Max(sizes)) \in Nat /\ ~(Max(sizes) > Grown(Max(sizes)) - 1)
           /\ \A n \in sizes : n < Grown(Max(sizes))
<1>1. Max(sizes) \in sizes /\ \A y \in sizes : y <= Max(sizes)
  <2>1. 0 \in Int /\ NumPages \in Int
    BY Natural
  <2>2. QED
    BY <2>1, Extremes
<1>2. PICK x : x = Max(sizes)
  OBVIOUS
<1>3. x \in Nat /\ \A y \in sizes : y \in Int /\ y <= x
  <2>1. \A y \in sizes : y \in Nat
    BY Natural
  <2>2. x \in sizes /\ \A y \in sizes : y <= x
    BY <1>1, <1>2
  <2>3. \A y \in sizes : y \in Int
    BY <2>1
  <2>4. QED
    BY <2>1, <2>2, <2>3
<1>4. PICK z : z = Max({cap, x})
  OBVIOUS
<1>5. z \in Nat /\ x <= z
  <2>1. cap \in Int /\ x \in Int
    BY <1>3
  <2>2. Max({cap, x}) = IF cap >= x THEN cap ELSE x
    BY <2>1, OfTwo
  <2>3. QED
    BY <1>3, <1>4, <2>2
<1>6. Grown(x) = IF capacity < z + 1 THEN z + 1 ELSE capacity
  BY <1>4 DEF Grown
<1>7. Grown(x) \in Nat /\ ~(x > Grown(x) - 1) /\ \A y \in sizes : y < Grown(x)
  <2>1. PICK g : g = Grown(x)
    OBVIOUS
  <2>2. g \in Nat /\ z + 1 <= g
    BY <1>5, <1>6, <2>1
  <2>3. ~(x > g - 1) /\ \A y \in sizes : y < g
    BY <1>3, <1>5, <2>2
  <2>4. QED
    BY <2>1, <2>2, <2>3
<1>8. QED
  BY <1>1, <1>2, <1>7

\* What a prefill leaves.
Prefilled(k, picks, fast, slices) ==
    /\ slices = PlanSlices(PagesOf(picks), fast)
    /\ slices \in Seq(FitSlices(k, PagesOf(picks))) /\ Abuts(slices, 1, TotalQ)
    /\ capacity' = Grown(Max({slices[i].n : i \in DOMAIN slices}))
    /\ \A i \in DOMAIN slices : slices[i].n < capacity'
    /\ call'.phase = "served" /\ call'.kind = "prefill" /\ call'.members = call.members /\ call'.cu = call.cu
    /\ call'.prefix = call.prefix /\ call'.picks = picks /\ call'.slices = slices
    /\ call'.refused = FALSE
    /\ call'.out = [q \in 1..TotalQ |-> UNION {SliceReads(slices[i], fast, q, picks[q]) :
                                               i \in {j \in DOMAIN slices : slices[j].lo <= q /\ q <= slices[j].hi}}]

LEMMA PrefillShape ==
    ASSUME IInv, NEW k, NEW lens, Forward(k, lens), Prefill, capacity \in Nat
    PROVE  \E picks \in Selections, fast \in BOOLEAN : \E slices : Prefilled(k, picks, fast, slices)
<1>1. PICK picks \in Selections, fast \in BOOLEAN :
         \E slices \in {PlanSlices(PagesOf(picks), fast)} : PrefillSlices(picks, fast, slices)
  BY DEF Prefill, PagesOf
<1>2. PICK slices : slices = PlanSlices(PagesOf(picks), fast) /\ PrefillSlices(picks, fast, slices)
  BY <1>1
<1>3. cap \in Nat
  BY AttentionAssumption DEF IInv, TypeOK
<1>4. slices \in Seq(FitSlices(k, PagesOf(picks))) /\ Abuts(slices, 1, TotalQ)
  <2>1. PagesOf(picks) \in Seq(SUBSET Pages) /\ Len(PagesOf(picks)) = TotalQ
    BY PagesOfIs
  <2>2. QED
    BY <1>2, <1>3, <2>1, PlanFits
<1> DEFINE sizes == {slices[i].n : i \in DOMAIN slices}
<1>5. sizes \in SUBSET (0..NumPages) /\ sizes # {} /\ DOMAIN slices = 1..Len(slices)
      /\ \A i \in DOMAIN slices : slices[i] \in FitSlices(k, PagesOf(picks)) /\ slices[i].n \in sizes
  <2>1. DOMAIN slices = 1..Len(slices) /\ Len(slices) \in Nat
    BY <1>4, LenProperties
  <2>2. \A i \in DOMAIN slices : slices[i] \in FitSlices(k, PagesOf(picks))
    BY <1>4, <2>1, ElementOfSeq
  <2>3. \A i \in DOMAIN slices : slices[i].n \in 0..NumPages
    <3>1. PagesOf(picks) \in Seq(SUBSET Pages) /\ Len(PagesOf(picks)) = TotalQ
      BY PagesOfIs
    <3>2. QED
      BY <2>2, <3>1, SliceSize
  <2>4. 1 \in DOMAIN slices
    BY <1>4, <2>1 DEF Abuts
  <2>5. QED
    BY <2>1, <2>2, <2>3, <2>4
<1> DEFINE refused == \/ Max(sizes) > Grown(Max(sizes)) - 1
                      \/ Len(slices) > 1 /\ \E i \in DOMAIN slices : SliceRefused(slices[i])
           out == [q \in 1..TotalQ |-> UNION {SliceReads(slices[i], fast, q, picks[q]) :
                                              i \in {j \in DOMAIN slices : slices[j].lo <= q /\ q <= slices[j].hi}}]
<1>6. /\ capacity' = Grown(Max(sizes))
      /\ call' = [phase |-> "served", kind |-> "prefill", members |-> call.members,
                  cu |-> call.cu, prefix |-> call.prefix, picks |-> picks, fast |-> fast, refused |-> refused,
                  slices |-> slices, out |-> IF refused THEN <<>> ELSE out]
  BY <1>2 DEF PrefillSlices
<1> HIDE DEF sizes, out
<1>7. ~(Max(sizes) > Grown(Max(sizes)) - 1) /\ \A n \in sizes : n < Grown(Max(sizes))
  BY <1>3, <1>5, GrownHolds
<1>8. \A i \in DOMAIN slices : ~SliceRefused(slices[i])
  BY <1>5, SliceAccepted
<1>9. refused = FALSE
  BY <1>7, <1>8
<1> HIDE DEF refused
<1>10. /\ call'.phase = "served" /\ call'.kind = "prefill" /\ call'.members = call.members /\ call'.cu = call.cu
       /\ call'.prefix = call.prefix /\ call'.picks = picks /\ call'.slices = slices
       /\ call'.refused = FALSE /\ call'.out = out
  BY <1>6, <1>9
<1>11. \A i \in DOMAIN slices : slices[i].n < capacity'
  BY <1>5, <1>6, <1>7
<1>12. Prefilled(k, picks, fast, slices)
  BY <1>2, <1>4, <1>6, <1>10, <1>11 DEF sizes, out, Prefilled
<1>13. QED
  BY <1>12

LEMMA PrefillOwn == ASSUME IInv, CallFits, capacity \in Nat, Prefill PROVE QueriesAttendOwnTokens'
<1>1. call.phase = "inserted"
  BY DEF Prefill
<1>2. PICK k \in Nat, n \in Nat \ {0} : \E l \in [1..k -> Nat \ {0}] : Forward(k, l)
  BY <1>1 DEF CallFits
<1>3. PICK lens \in [1..k -> Nat \ {0}] : Forward(k, lens)
  BY <1>2
<1>3a. PICK picks \in Selections, fast \in BOOLEAN : \E slices : Prefilled(k, picks, fast, slices)
  BY <1>3, PrefillShape
<1>4. PICK slices : Prefilled(k, picks, fast, slices)
  BY <1>3a
<1>5. slices \in Seq(FitSlices(k, PagesOf(picks))) /\ Abuts(slices, 1, TotalQ)
  BY <1>4 DEF Prefilled
<1>6. /\ call'.phase = "served" /\ call'.kind = "prefill" /\ call'.members = call.members /\ call'.cu = call.cu
      /\ call'.prefix = call.prefix /\ call'.picks = picks /\ call'.refused = FALSE
      /\ call'.out = [q \in 1..TotalQ |-> UNION {SliceReads(slices[i], fast, q, picks[q]) :
                                                 i \in {j \in DOMAIN slices : slices[j].lo <= q /\ q <= slices[j].hi}}]
  BY <1>4 DEF Prefilled
<1>7. rows' = rows
  BY DEF Prefill
<1>8. PICK pagesOf : pagesOf = PagesOf(picks)
  OBVIOUS
<1>9. /\ pagesOf \in Seq(SUBSET Pages) /\ Len(pagesOf) = TotalQ
      /\ \A q \in 1..TotalQ : pagesOf[q] = SelectedPages(q, picks[q])
  BY <1>3, <1>8, PagesOfIs
<1>10. /\ Len(slices) \in Nat /\ DOMAIN slices = 1..Len(slices)
       /\ \A i \in DOMAIN slices : slices[i] \in FitSlices(k, pagesOf)
  <2>1. Len(slices) \in Nat /\ DOMAIN slices = 1..Len(slices)
    BY <1>5, LenProperties
  <2>2. QED
    BY <1>5, <1>8, <2>1, ElementOfSeq
<1>11. ASSUME NEW q \in 1..TotalQ PROVE call'.out[q] = Expected(q, picks[q])
  <2> DEFINE at == {j \in DOMAIN slices : slices[j].lo <= q /\ q <= slices[j].hi}
  <2>1. call'.out[q] = UNION {SliceReads(slices[i], fast, q, picks[q]) : i \in at}
    BY <1>6
  <2>2. picks[q] \in Picks(NBlocks(Position(q)))
    BY <1>3, <1>4, SelectionOf
  <2>3. ASSUME NEW i \in at PROVE SliceReads(slices[i], fast, q, picks[q]) = Expected(q, picks[q])
    <3>1. PICK slice, x : slice = slices[i] /\ x = picks[q]
      OBVIOUS
    <3>2. slice \in FitSlices(k, pagesOf) /\ slice.lo <= q /\ q <= slice.hi
      BY <1>10, <3>1
    <3>3. x \in Picks(NBlocks(Position(q))) /\ pagesOf[q] = SelectedPages(q, x)
      BY <1>9, <2>2, <3>1
    <3>4. SliceReads(slice, fast, q, x) = Expected(q, x)
      BY <1>3, <1>9, <3>2, <3>3, SliceServes
    <3>5. QED
      BY <3>1, <3>4
  <2>4. at # {}
    <3>1. \A s \in FitSlices(k, pagesOf) : s.lo \in Nat /\ s.hi \in Nat
      BY DEF FitSlices
    <3>2. TotalQ \in Nat
      BY <1>3, CuBounds
    <3>3. PICK U, hi : U = FitSlices(k, pagesOf) /\ hi = TotalQ
      OBVIOUS
    <3>4. slices \in Seq(U) /\ Abuts(slices, 1, hi) /\ q \in 1..hi /\ hi \in Nat /\ 1 \in Nat
          /\ \A s \in U : s.lo \in Nat /\ s.hi \in Nat
      BY <1>5, <1>8, <3>1, <3>2, <3>3
    <3>5. \E i \in 1..Len(slices) : slices[i].lo <= q /\ q <= slices[i].hi
      BY <3>4, AbutsCovers
    <3>6. QED
      BY <1>10, <3>5
  <2> HIDE DEF at
  <2>5. QED
    BY <2>1, <2>3, <2>4
<1>12. AttendsOwn(call', rows')
  <2>1. ASSUME NEW q \in 1..Last(call'.cu)
        PROVE  call'.out[q] = ExpectedIn(call'.members, call'.cu, call'.prefix, rows', q, call'.picks[q])
    <3>1. q \in 1..TotalQ
      BY <1>6 DEF TotalQ
    <3>2. ExpectedIn(call'.members, call'.cu, call'.prefix, rows', q, call'.picks[q]) = Expected(q, picks[q])
      BY <1>6, <1>7, ExpectedIs
    <3>3. QED
      BY <1>11, <3>1, <3>2
  <2>2. call'.kind # "decode" /\ ~call'.refused
    BY <1>6
  <2>3. QED
    BY <2>1, <2>2 DEF AttendsOwn
<1>13. QED
  BY <1>12, AttendsIs

-----------------------------------------------------------------------------
(* The two layouts of a page.                                              *)

\* A number of two digits, the lower one below b.
LEMMA Digits ==
    ASSUME NEW b \in Nat \ {0}, NEW n \in Nat, NEW q \in 0..(n - 1), NEW t \in 0..(b - 1)
    PROVE  q * b + t \in 0..(n * b - 1)
<1>1. (q + 1) * b <= n * b /\ (q + 1) * b = q * b + b /\ q * b \in Int /\ n * b \in Int
  BY MulMono, SMT
<1>2. 0 * b <= q * b /\ 0 * b = 0
  BY MulMono, SMT
<1> DEFINE x == q * b
           y == n * b
<1>3. x + b <= y /\ x \in Int /\ y \in Int /\ 0 <= x
  BY <1>1, <1>2
<1> HIDE DEF x, y
<1>4. x + t \in 0..(y - 1)
  BY <1>3
<1>5. QED
  BY <1>4 DEF x, y

LEMMA DigitsApart ==
    ASSUME NEW b \in Nat \ {0}, NEW q \in Int, NEW t \in 0..(b - 1), NEW r \in Int, NEW u \in 0..(b - 1), q * b + t = r * b + u
    PROVE  q = r /\ t = u
<1>1. PICK a : a = q * b + t
  OBVIOUS
<1>2. a \in Int
  BY <1>1, SMT
<1>3. a \div b = q /\ a % b = t
  BY <1>1, <1>2, DivUnique
<1>4. a \div b = r /\ a % b = u
  <2>1. a = r * b + u
    BY <1>1
  <2>2. QED
    BY <1>2, <2>1, DivUnique
<1>5. QED
  BY <1>3, <1>4

\* A quotient of a number below n * b is below n.
LEMMA DivBelow ==
    ASSUME NEW b \in Nat \ {0}, NEW n \in Nat, NEW a \in 0..(n * b - 1)
    PROVE  a \div b \in 0..(n - 1) /\ a % b \in 0..(b - 1) /\ a = (a \div b) * b + (a % b)
<1> DEFINE q == a \div b
           t == a % b
<1>1. a = b * q + t /\ q \in Int /\ t \in 0..(b - 1)
  <2>1. a \in Int
    BY SMT
  <2>2. QED
    BY <2>1, DivMod
<1> HIDE DEF q, t
<1>2. b * q = q * b /\ q * b \in Int /\ n * b \in Int
  BY <1>1, SMT
<1>3. q >= 0
  <2>1. SUFFICES ASSUME q < 0 PROVE FALSE
    BY <1>1
  <2>2. (q + 1) * b <= 0 * b /\ (q + 1) * b = q * b + b /\ 0 * b = 0
    BY <1>1, <2>1, MulMono, SMT
  <2>3. PICK x, y : x = q * b /\ y = n * b
    OBVIOUS
  <2>4. x \in Int /\ y \in Int /\ a \in 0..(y - 1) /\ a = x + t /\ x + b <= 0
    BY <1>1, <1>2, <2>2, <2>3
  <2>5. QED
    BY <1>1, <2>4
<1>4. q < n
  <2>1. SUFFICES ASSUME n <= q PROVE FALSE
    BY <1>1
  <2>2. n * b <= q * b
    BY <1>1, <2>1, MulMono
  <2>3. PICK x, y : x = q * b /\ y = n * b
    OBVIOUS
  <2>4. x \in Int /\ y \in Int /\ a \in 0..(y - 1) /\ a = x + t /\ y <= x
    BY <1>1, <1>2, <2>2, <2>3
  <2>5. QED
    BY <1>1, <2>4
<1>5. q \in 0..(n - 1) /\ t \in 0..(b - 1) /\ a = q * b + t
  BY <1>1, <1>2, <1>3, <1>4
<1>6. QED
  BY <1>5 DEF q, t

\* Scales and tokens come in whole quads.
LEMMA QuadsWhole ==
    /\ PerQuad \in Nat /\ ScaleBytes = PerQuad * Quad /\ ScaleBytes = Quad * PerQuad /\ PerQuad # 0
    /\ BlockSize \div Quad \in Nat /\ BlockSize = (BlockSize \div Quad) * Quad
<1>1. /\ Quad \in Nat \ {0} /\ BlockSize \in Nat \ {0} /\ ScaleBytes \in Nat \ {0}
      /\ BlockSize % Quad = 0 /\ ScaleBytes % Quad = 0
  BY LayoutAssumption
<1>2. PerQuad \in Nat /\ BlockSize \div Quad \in Nat
  BY <1>1, DivNat DEF PerQuad
<1>3. ScaleBytes = Quad * PerQuad + 0
  <2>1. ScaleBytes \in Int
    BY <1>1
  <2>2. ScaleBytes = Quad * (ScaleBytes \div Quad) + (ScaleBytes % Quad)
    BY <1>1, <2>1, DivMod
  <2>3. QED
    BY <1>1, <2>2 DEF PerQuad
<1>4. BlockSize = Quad * (BlockSize \div Quad) + 0
  <2>1. BlockSize \in Int
    BY <1>1
  <2>2. BlockSize = Quad * (BlockSize \div Quad) + (BlockSize % Quad)
    BY <1>1, <2>1, DivMod
  <2>3. QED
    BY <1>1, <2>2
<1>5. PICK p, m : p = PerQuad /\ m = BlockSize \div Quad
  OBVIOUS
<1>6. p \in Nat /\ m \in Nat /\ Quad \in Nat
  BY <1>1, <1>2, <1>5
<1>7. Quad * p + 0 = p * Quad /\ Quad * m + 0 = m * Quad /\ Quad * p = p * Quad /\ Quad * 0 = 0
  BY <1>6, SMT
<1>8. ScaleBytes = p * Quad /\ ScaleBytes = Quad * p /\ BlockSize = m * Quad
  BY <1>3, <1>4, <1>5, <1>7
<1>9. p # 0
  <2>1. SUFFICES ASSUME p = 0 PROVE FALSE
    OBVIOUS
  <2>2. ScaleBytes = Quad * 0
    BY <1>8, <2>1
  <2>3. QED
    BY <1>1, <1>7, <2>2
<1>10. QED
  BY <1>2, <1>5, <1>8, <1>9

\* The digits of a scale's offset: a row of the scale block and a column.
ScaleRow(side, t, g) == IF side = 0 THEN t ELSE (t \div Quad) * Quad + g \div PerQuad
ScaleColumn(side, t, g) == IF side = 0 THEN g ELSE (g % PerQuad) * Quad + (t % Quad)

LEMMA ScaleDigits ==
    ASSUME NEW side \in Sides, NEW t \in Tokens, NEW g \in Groups
    PROVE  /\ ScaleRow(side, t, g) \in 0..(BlockSize - 1) /\ ScaleColumn(side, t, g) \in 0..(ScaleBytes - 1)
           /\ PackScaleOffset(side, t, g) = ScaleRow(side, t, g) * ScaleBytes + ScaleColumn(side, t, g)
<1>1. CASE side = 0
  BY <1>1 DEF ScaleRow, ScaleColumn, PackScaleOffset, Tokens, Groups
<1>2. CASE side # 0
  <2> DEFINE m == BlockSize \div Quad
             tq == t \div Quad
             tr == t % Quad
             gq == g \div PerQuad
             gr == g % PerQuad
  <2>1. m \in Nat /\ PerQuad \in Nat \ {0} /\ Quad \in Nat \ {0}
    BY QuadsWhole, Natural
  <2>2. tq \in 0..(m - 1) /\ tr \in 0..(Quad - 1)
    <3>1. t \in 0..(m * Quad - 1)
      BY QuadsWhole DEF Tokens
    <3> HIDE DEF m
    <3>2. QED
      BY <2>1, <3>1, DivBelow
  <2>3. gq \in 0..(Quad - 1) /\ gr \in 0..(PerQuad - 1)
    <3>1. g \in 0..(Quad * PerQuad - 1)
      BY QuadsWhole DEF Groups
    <3>2. Quad \in Nat
      BY <2>1
    <3>3. QED
      BY <2>1, <3>1, <3>2, DivBelow
  <2>4. tq * Quad + gq \in 0..(BlockSize - 1)
    <3>1. BlockSize = m * Quad
      BY QuadsWhole
    <3> HIDE DEF m, tq, gq
    <3>2. QED
      BY <2>1, <2>2, <2>3, <3>1, Digits
  <2>5. gr * Quad + tr \in 0..(ScaleBytes - 1)
    <3>1. ScaleBytes = PerQuad * Quad
      BY QuadsWhole
    <3>2. PerQuad \in Nat
      BY <2>1
    <3> HIDE DEF gr, tr
    <3>3. QED
      BY <2>1, <2>2, <2>3, <3>1, <3>2, Digits
  <2>6. ScaleRow(side, t, g) = tq * Quad + gq /\ ScaleColumn(side, t, g) = gr * Quad + tr
    BY <1>2 DEF ScaleRow, ScaleColumn
  <2>7. PackScaleOffset(side, t, g) = (tq * Quad + gq) * ScaleBytes + gr * Quad + tr
    BY <1>2 DEF PackScaleOffset
  <2>8. gr * Quad \in Int /\ tr \in Int /\ (tq * Quad + gq) * ScaleBytes \in Int
    <3>1. tq * Quad + gq \in Int
      BY <2>4, Natural
    <3>2. gr \in Int /\ tr \in Int /\ Quad \in Int
      BY <2>1, <2>2, <2>3
    <3> HIDE DEF tq, gq, gr, tr
    <3>3. QED
      BY <3>1, <3>2, Natural, SMT
  <2>9. PackScaleOffset(side, t, g) = (tq * Quad + gq) * ScaleBytes + (gr * Quad + tr)
    <3>1. PICK u, v, w : u = (tq * Quad + gq) * ScaleBytes /\ v = gr * Quad /\ w = tr
      OBVIOUS
    <3>2. u \in Int /\ v \in Int /\ w \in Int
      BY <2>8, <3>1
    <3>3. u + v + w = u + (v + w)
      BY <3>2
    <3>4. QED
      BY <2>7, <3>1, <3>3
  <2> HIDE DEF m, tq, tr, gq, gr
  <2>10. QED
    BY <2>4, <2>5, <2>6, <2>9
<1>3. QED
  BY <1>1, <1>2

LEMMA ScalesApart ==
    ASSUME NEW side \in Sides, NEW t \in Tokens, NEW g \in Groups, NEW u \in Tokens, NEW f \in Groups,
           PackScaleOffset(side, t, g) = PackScaleOffset(side, u, f)
    PROVE  t = u /\ g = f
<1>1. ScaleRow(side, t, g) = ScaleRow(side, u, f) /\ ScaleColumn(side, t, g) = ScaleColumn(side, u, f)
  <2>1. PICK a, b, c, d : a = ScaleRow(side, t, g) /\ b = ScaleColumn(side, t, g) /\ c = ScaleRow(side, u, f) /\ d = ScaleColumn(side, u, f)
    OBVIOUS
  <2>2. a \in Int /\ c \in Int /\ b \in 0..(ScaleBytes - 1) /\ d \in 0..(ScaleBytes - 1)
    <3>1. a \in 0..(BlockSize - 1) /\ c \in 0..(BlockSize - 1) /\ b \in 0..(ScaleBytes - 1) /\ d \in 0..(ScaleBytes - 1)
      BY <2>1, ScaleDigits
    <3>2. QED
      BY <3>1
  <2>3. a * ScaleBytes + b = c * ScaleBytes + d
    BY <2>1, ScaleDigits
  <2>4. a = c /\ b = d
    BY <2>2, <2>3, Natural, DigitsApart
  <2>5. QED
    BY <2>1, <2>4
<1>2. CASE side = 0
  BY <1>1, <1>2 DEF ScaleRow, ScaleColumn
<1>3. CASE side # 0
  <2> DEFINE m == BlockSize \div Quad
  <2>1. m \in Nat /\ PerQuad \in Nat \ {0} /\ Quad \in Nat \ {0} /\ Quad \in Nat
    BY QuadsWhole, Natural
  <2>2. t \in 0..(m * Quad - 1) /\ u \in 0..(m * Quad - 1) /\ g \in 0..(Quad * PerQuad - 1) /\ f \in 0..(Quad * PerQuad - 1)
    BY QuadsWhole DEF Tokens, Groups
  <2> HIDE DEF m
  <2>3. PICK tq, tr, uq, ur : tq = t \div Quad /\ tr = t % Quad /\ uq = u \div Quad /\ ur = u % Quad
    OBVIOUS
  <2>4. PICK gq, gr, fq, fr : gq = g \div PerQuad /\ gr = g % PerQuad /\ fq = f \div PerQuad /\ fr = f % PerQuad
    OBVIOUS
  <2>5. /\ tq \in 0..(m - 1) /\ tr \in 0..(Quad - 1) /\ t = tq * Quad + tr
        /\ uq \in 0..(m - 1) /\ ur \in 0..(Quad - 1) /\ u = uq * Quad + ur
    BY <2>1, <2>2, <2>3, DivBelow
  <2>6. /\ gq \in 0..(Quad - 1) /\ gr \in 0..(PerQuad - 1) /\ g = gq * PerQuad + gr
        /\ fq \in 0..(Quad - 1) /\ fr \in 0..(PerQuad - 1) /\ f = fq * PerQuad + fr
    BY <2>1, <2>2, <2>4, DivBelow
  <2>7. tq * Quad + gq = uq * Quad + fq /\ gr * Quad + tr = fr * Quad + ur
    BY <1>1, <1>3, <2>3, <2>4 DEF ScaleRow, ScaleColumn
  <2>8. tq \in Int /\ uq \in Int /\ gr \in Int /\ fr \in Int
    BY <2>5, <2>6
  <2>9. tq = uq /\ gq = fq
    BY <2>1, <2>6, <2>7, <2>8, DigitsApart
  <2>10. gr = fr /\ tr = ur
    BY <2>1, <2>5, <2>7, <2>8, DigitsApart
  <2>11. QED
    BY <2>5, <2>6, <2>9, <2>10
<1>4. QED
  BY <1>2, <1>3

\* The offset of a byte of a row in its slot.
RowOffset(s, t, p) ==
    IF p < DataBytes THEN t * DataBytes + p ELSE DataRegion + PackScaleOffset(s % 2, t, p - DataBytes)

LEMMA PartKinds ==
    ASSUME NEW s \in Slots, NEW t \in Tokens, NEW p \in Parts
    PROVE  /\ p < DataBytes => p \in 0..(DataBytes - 1) /\ RowOffset(s, t, p) = t * DataBytes + p
                               /\ RowOffset(s, t, p) \in 0..(DataRegion - 1)
           /\ ~(p < DataBytes) => /\ p - DataBytes \in Groups
                                  /\ RowOffset(s, t, p) = DataRegion + PackScaleOffset(s % 2, t, p - DataBytes)
                                  /\ PackScaleOffset(s % 2, t, p - DataBytes) \in 0..(BlockSize * ScaleBytes - 1)
           /\ s % 2 \in Sides /\ DataRegion \in Nat /\ BlockSize * ScaleBytes \in Nat /\ p \in Int
<1>1. s % 2 \in Sides
  BY Natural, SMT DEF Slots, Sides
<1>2. DataRegion \in Nat /\ BlockSize * ScaleBytes \in Nat /\ p \in Int
  BY Natural, SMT DEF DataRegion, Parts
<1>3. ASSUME p < DataBytes
      PROVE  p \in 0..(DataBytes - 1) /\ RowOffset(s, t, p) = t * DataBytes + p /\ RowOffset(s, t, p) \in 0..(DataRegion - 1)
  <2>1. p \in 0..(DataBytes - 1) /\ t \in 0..(BlockSize - 1) /\ BlockSize \in Nat
    BY <1>3, Natural DEF Parts, Tokens
  <2>2. t * DataBytes + p \in 0..(BlockSize * DataBytes - 1)
    BY <2>1, Natural, Digits
  <2>3. QED
    BY <1>3, <2>1, <2>2 DEF RowOffset, DataRegion
<1>4. ASSUME ~(p < DataBytes)
      PROVE  /\ p - DataBytes \in Groups /\ RowOffset(s, t, p) = DataRegion + PackScaleOffset(s % 2, t, p - DataBytes)
             /\ PackScaleOffset(s % 2, t, p - DataBytes) \in 0..(BlockSize * ScaleBytes - 1)
  <2>1. p - DataBytes \in Groups
    BY <1>4, Natural DEF Parts, Groups
  <2>2. PICK a, b : a = ScaleRow(s % 2, t, p - DataBytes) /\ b = ScaleColumn(s % 2, t, p - DataBytes)
    OBVIOUS
  <2>3. /\ a \in 0..(BlockSize - 1) /\ b \in 0..(ScaleBytes - 1)
        /\ PackScaleOffset(s % 2, t, p - DataBytes) = a * ScaleBytes + b
    BY <1>1, <2>1, <2>2, ScaleDigits
  <2>4. BlockSize \in Nat
    BY Natural
  <2>5. a * ScaleBytes + b \in 0..(BlockSize * ScaleBytes - 1)
    BY <2>3, <2>4, Natural, Digits
  <2>6. RowOffset(s, t, p) = DataRegion + PackScaleOffset(s % 2, t, p - DataBytes)
    BY <1>4 DEF RowOffset
  <2>7. QED
    BY <2>1, <2>3, <2>5, <2>6
<1>5. QED
  BY <1>1, <1>2, <1>3, <1>4

LEMMA OffsetInSlot ==
    ASSUME NEW s \in Slots, NEW t \in Tokens, NEW p \in Parts
    PROVE  RowOffset(s, t, p) \in 0..(SlotBytes - 1) /\ PackAddress[s][t][p] = s * SlotBytes + RowOffset(s, t, p)
<1>1. PICK d, e, z : d = DataRegion /\ e = BlockSize * ScaleBytes /\ z = RowOffset(s, t, p)
  OBVIOUS
<1>2. d \in Nat /\ e \in Nat /\ SlotBytes = d + e
  BY <1>1, PartKinds DEF SlotBytes
<1>3. e > 0 /\ d > 0
  <2>1. 1 * ScaleBytes <= BlockSize * ScaleBytes /\ 1 * ScaleBytes = ScaleBytes /\ 1 * DataBytes <= BlockSize * DataBytes /\ 1 * DataBytes = DataBytes
    BY Natural, MulMono, SMT
  <2>2. QED
    BY <1>1, <1>2, <2>1, Natural DEF DataRegion
<1>4. z \in 0..(d + e - 1)
  <2>1. CASE p < DataBytes
    <3>1. z \in 0..(d - 1)
      BY <1>1, <2>1, PartKinds
    <3>2. QED
      BY <1>2, <1>3, <3>1
  <2>2. CASE ~(p < DataBytes)
    <3>1. PICK y : y = PackScaleOffset(s % 2, t, p - DataBytes)
      OBVIOUS
    <3>2. z = d + y /\ y \in 0..(e - 1)
      BY <1>1, <2>2, <3>1, PartKinds
    <3>3. QED
      BY <1>2, <3>2
  <2>3. QED
    BY <2>1, <2>2
<1>5. PackAddress[s][t][p] = s * SlotBytes + RowOffset(s, t, p)
  BY DEF PackAddress, RowOffset
<1>6. QED
  BY <1>1, <1>2, <1>4, <1>5

LEMMA OffsetsApart ==
    ASSUME NEW s \in Slots, NEW t \in Tokens, NEW p \in Parts, NEW u \in Tokens, NEW v \in Parts,
           RowOffset(s, t, p) = RowOffset(s, u, v)
    PROVE  t = u /\ p = v
<1>1. PICK d, x, y : d = DataRegion /\ x = RowOffset(s, t, p) /\ y = RowOffset(s, u, v)
  OBVIOUS
<1>2. d \in Nat /\ p \in Int /\ v \in Int /\ x = y /\ s % 2 \in Sides /\ DataBytes \in Int
  BY <1>1, Natural, PartKinds
<1>3. CASE p < DataBytes /\ v < DataBytes
  <2>1. t * DataBytes + p = u * DataBytes + v /\ p \in 0..(DataBytes - 1) /\ v \in 0..(DataBytes - 1)
    BY <1>3, PartKinds
  <2>2. t \in Int /\ u \in Int
    BY DEF Tokens
  <2>3. QED
    BY <2>1, <2>2, Natural, DigitsApart
<1>4. CASE ~(p < DataBytes) /\ ~(v < DataBytes)
  <2>1. PICK a, b : a = PackScaleOffset(s % 2, t, p - DataBytes) /\ b = PackScaleOffset(s % 2, u, v - DataBytes)
    OBVIOUS
  <2>2. PICK e : e = BlockSize * ScaleBytes
    OBVIOUS
  <2>3. x = d + a /\ a \in 0..(e - 1) /\ p - DataBytes \in Groups
    BY <1>1, <1>4, <2>1, <2>2, PartKinds
  <2>4. y = d + b /\ b \in 0..(e - 1) /\ v - DataBytes \in Groups
    BY <1>1, <1>4, <2>1, <2>2, PartKinds
  <2>5. a = b
    <3>1. e \in Int
      BY <2>2, PartKinds
    <3>2. a \in Int /\ b \in Int
      BY <2>3, <2>4, <3>1
    <3>3. x = d + a /\ y = d + b
      BY <2>3, <2>4
    <3>4. d \in Int /\ x = y
      BY <1>2
    <3>5. d + a = d + b
      BY <3>3, <3>4
    <3>6. QED
      BY <3>2, <3>4, <3>5
  <2>6. t = u /\ p - DataBytes = v - DataBytes
    BY <1>2, <2>1, <2>3, <2>4, <2>5, ScalesApart
  <2>7. QED
    BY <1>2, <2>6
<1>5. CASE p < DataBytes /\ ~(v < DataBytes)
  <2>1. PICK b, e : b = PackScaleOffset(s % 2, u, v - DataBytes) /\ e = BlockSize * ScaleBytes
    OBVIOUS
  <2>2. x \in 0..(d - 1)
    BY <1>1, <1>5, PartKinds
  <2>3. y = d + b /\ b \in 0..(e - 1)
    BY <1>1, <1>5, <2>1, PartKinds
  <2>4. QED
    BY <1>2, <2>2, <2>3
<1>6. CASE ~(p < DataBytes) /\ v < DataBytes
  <2>1. PICK b, e : b = PackScaleOffset(s % 2, t, p - DataBytes) /\ e = BlockSize * ScaleBytes
    OBVIOUS
  <2>2. y \in 0..(d - 1)
    BY <1>1, <1>6, PartKinds
  <2>3. x = d + b /\ b \in 0..(e - 1)
    BY <1>1, <1>6, <2>1, PartKinds
  <2>4. QED
    BY <1>2, <2>2, <2>3
<1>7. QED
  BY <1>3, <1>4, <1>5, <1>6

\* No byte of a page belongs to two rows.
LEMMA BytesApart == RowsApart
<1>1. ASSUME NEW s \in Slots, NEW t \in Tokens, NEW p \in Parts, NEW r \in Slots, NEW u \in Tokens, NEW v \in Parts,
             PackAddress[s][t][p] = PackAddress[r][u][v]
      PROVE  s = r /\ t = u /\ p = v
  <2>1. PICK x, y, b : x = RowOffset(s, t, p) /\ y = RowOffset(r, u, v) /\ b = SlotBytes
    OBVIOUS
  <2>2. x \in 0..(b - 1) /\ y \in 0..(b - 1) /\ s * b + x = r * b + y
    BY <1>1, <2>1, OffsetInSlot
  <2>3. s \in Int /\ r \in Int /\ b \in Int
    <3>1. SlotBytes \in Int
      BY Natural, SMT DEF SlotBytes, DataRegion
    <3>2. QED
      BY <2>1, <3>1 DEF Slots
  <2>4. b \in Nat \ {0}
    BY <2>2, <2>3
  <2>5. s = r /\ x = y
    BY <2>2, <2>3, <2>4, DigitsApart
  <2>6. RowOffset(s, t, p) = RowOffset(s, u, v)
    BY <2>1, <2>5
  <2>7. t = u /\ p = v
    BY <2>6, OffsetsApart
  <2>8. QED
    BY <2>5, <2>7
<1>2. ASSUME NEW x \in Slots \X Tokens \X Parts, NEW y \in Slots \X Tokens \X Parts,
             PackAddress[x[1]][x[2]][x[3]] = PackAddress[y[1]][y[2]][y[3]]
      PROVE  x = y
  <2>1. /\ x = <<x[1], x[2], x[3]>> /\ x[1] \in Slots /\ x[2] \in Tokens /\ x[3] \in Parts
        /\ y = <<y[1], y[2], y[3]>> /\ y[1] \in Slots /\ y[2] \in Tokens /\ y[3] \in Parts
    OBVIOUS
  <2>2. x[1] = y[1] /\ x[2] = y[2] /\ x[3] = y[3]
    BY <1>1, <1>2, <2>1
  <2>3. QED
    BY <2>1, <2>2
<1>3. QED
  BY <1>2 DEF RowsApart

\* The write kernel and the table of the reference address the same bytes.
LEMMA SameAddress == PackAddress = TableAddress
<1>1. ASSUME NEW s \in Slots, NEW t \in Tokens
      PROVE  PackAddress[s][t] = TableAddress[s][t]
  <2>1. \A p \in Parts : PackAddress[s][t][p] = TableAddress[s][t][p]
    BY TableIsPack
  <2>2. /\ PackAddress[s][t] = [p \in Parts |-> PackAddress[s][t][p]]
        /\ TableAddress[s][t] = [p \in Parts |-> TableAddress[s][t][p]]
    BY DEF PackAddress, TableAddress
  <2>3. QED
    BY <2>1, <2>2
<1>2. ASSUME NEW s \in Slots PROVE PackAddress[s] = TableAddress[s]
  <2>1. /\ PackAddress[s] = [t \in Tokens |-> PackAddress[s][t]]
        /\ TableAddress[s] = [t \in Tokens |-> TableAddress[s][t]]
    BY DEF PackAddress, TableAddress
  <2>2. QED
    BY <1>1, <2>1
<1>3. /\ PackAddress = [s \in Slots |-> PackAddress[s]]
      /\ TableAddress = [s \in Slots |-> TableAddress[s]]
  BY DEF PackAddress, TableAddress
<1>4. QED
  BY <1>2, <1>3

\* Both fills leave the same rows in the buffer.
LEMMA SameFill ==
    ASSUME NEW slice, NEW j, NEW h \in KvHeads, NEW t \in Tokens
    PROVE  StagePages(slice, j, h, t) = FillStagingBuffer(slice, j, h, t)
<1>1. \A page : \A side \in Sides : StageRow(page, h, side, t) = TableRow(page, h, side, t)
  BY StageReads, TableReads
<1>2. 0 \in Sides /\ 1 \in Sides
  BY DEF Sides
<1>3. QED
  BY <1>1, <1>2 DEF StagePages, FillStagingBuffer

\* What was served was a forward.
ServedFits == Served("prefill") => \E k \in Nat : \E lens \in [1..k -> Nat \ {0}] : Forward(k, lens)

LEMMA BothPaths == ASSUME IInv, ServedFits PROVE PathsAgree
<1>1. ASSUME Served("prefill")
      PROVE  PlanSlices(PagesOf(call.picks), TRUE) = PlanSlices(PagesOf(call.picks), FALSE)
  <2>1. PICK k \in Nat : \E lens \in [1..k -> Nat \ {0}] : Forward(k, lens)
    BY <1>1 DEF ServedFits
  <2>2. PICK lens \in [1..k -> Nat \ {0}] : Forward(k, lens)
    BY <2>1
  <2>3. PICK pagesOf : pagesOf = PagesOf(call.picks)
    OBVIOUS
  <2>4. pagesOf \in Seq(SUBSET Pages) /\ Len(pagesOf) = TotalQ
    BY <2>2, <2>3, PagesOfIs
  <2>5. cap \in Nat
    BY AttentionAssumption DEF IInv, TypeOK
  <2>6. QED
    BY <2>2, <2>3, <2>4, <2>5, PlansAgree
<1>2. \A s, j : \A h \in KvHeads, t \in Tokens : StagePages(s, j, h, t) = FillStagingBuffer(s, j, h, t)
  BY SameFill
<1>3. QED
  BY <1>1, <1>2, SameAddress, BytesApart DEF PathsAgree, PagesOf

-----------------------------------------------------------------------------
(* The staging buffer.                                                     *)

\* A query selects at most TopK pages per head.
LEMMA SelectedFew ==
    ASSUME IInv, NEW q, NEW n \in 1..MaxBlocks, NEW x \in Picks(n)
    PROVE  IsFiniteSet(SelectedPages(q, x)) /\ Cardinality(SelectedPages(q, x)) <= TopK * NumKvHeads
<1> DEFINE entry == Pad(table[call.members[MemberOf(q)]])
           X == SelectedPages(q, x)
           D == KvHeads \X (1..TopK)
           At(d, pg) == entry[x[d[1]][d[2]] + 1] = pg
<1>1. ASSUME NEW pg \in X PROVE \E d \in D : At(d, pg)
  <2>1. PICK b \in UNION {Range(x[h]) : h \in KvHeads} : entry[b + 1] = pg
    BY <1>1 DEF SelectedPages
  <2>2. PICK h \in KvHeads : b \in Range(x[h])
    BY <2>1
  <2>3. DOMAIN x[h] = 1..TopK
    BY <2>2, PicksType
  <2>4. PICK i \in 1..TopK : x[h][i] = b
    BY <2>2, <2>3 DEF Range
  <2>5. <<h, i>> \in D /\ At(<<h, i>>, pg)
    BY <2>1, <2>2, <2>4
  <2>6. QED
    BY <2>5
<1>2. IsFiniteSet(D) /\ Cardinality(D) = NumKvHeads * TopK
  <2>1. NumKvHeads - 1 \in Int /\ TopK \in Nat \ {0} /\ 0 \in Int /\ 1 \in Int
    BY Natural, AttentionAssumption
  <2>2. PICK z : z = NumKvHeads - 1
    OBVIOUS
  <2>3. IsFiniteSet(0..z) /\ Cardinality(0..z) = IF 0 > z THEN 0 ELSE z - 0 + 1
    BY <2>1, <2>2, FS_Interval
  <2>4. IsFiniteSet(1..TopK) /\ Cardinality(1..TopK) = IF 1 > TopK THEN 0 ELSE TopK - 1 + 1
    BY <2>1, FS_Interval
  <2>5. IsFiniteSet(KvHeads) /\ Cardinality(KvHeads) = NumKvHeads
    BY <2>2, <2>3, Natural DEF KvHeads
  <2>6. Cardinality(1..TopK) = TopK
    BY <2>1, <2>4
  <2>7. QED
    BY <2>4, <2>5, <2>6, FS_Product
<1> HIDE DEF At, D, X
<1> DEFINE f == [pg \in X |-> CHOOSE d \in D : At(d, pg)]
<1>3. \A pg \in X : f[pg] \in D /\ At(f[pg], pg)
  BY <1>1
<1>4. ASSUME NEW a \in X, NEW b \in X, f[a] = f[b] PROVE a = b
  <2>1. At(f[a], a) /\ At(f[a], b)
    BY <1>3, <1>4
  <2>2. QED
    BY <2>1 DEF At
<1>5. f \in Injection(X, D)
  <2>1. f \in [X -> D]
    BY <1>3
  <2> HIDE DEF f
  <2>2. IsInjective(f)
    BY <1>4, <2>1 DEF IsInjective
  <2>3. QED
    BY <2>1, <2>2 DEF Injection
<1>6. IsFiniteSet(X) /\ Cardinality(X) <= Cardinality(D)
  BY <1>2, <1>5, FS_Injection
<1>7. NumKvHeads * TopK = TopK * NumKvHeads
  BY Natural, AttentionAssumption, SMT
<1>8. QED
  BY <1>2, <1>6, <1>7 DEF X

\* The most a slice may stage: the cap, or what one query can select.
MostPages == Max({cap, TopK * NumKvHeads})

LEMMA MostIs == ASSUME IInv PROVE MostPages \in Nat /\ cap <= MostPages /\ TopK * NumKvHeads <= MostPages /\ cap \in Nat
<1>1. cap \in Nat
  BY AttentionAssumption DEF IInv, TypeOK
<1>2. TopK * NumKvHeads \in Nat
  BY Natural, AttentionAssumption, SMT
<1>3. PICK z : z = TopK * NumKvHeads
  OBVIOUS
<1>4. Max({cap, z}) = IF cap >= z THEN cap ELSE z
  <2>1. cap \in Int /\ z \in Int
    BY <1>1, <1>2, <1>3
  <2>2. QED
    BY <2>1, OfTwo
<1>5. MostPages = Max({cap, z})
  BY <1>3 DEF MostPages
<1>6. QED
  BY <1>1, <1>2, <1>3, <1>4, <1>5

LEMMA SliceFew ==
    ASSUME IInv, NEW k, NEW lens, Forward(k, lens), NEW picks \in Selections, NEW slice \in FitSlices(k, PagesOf(picks))
    PROVE  slice.n <= MostPages
<1>1. PICK pagesOf : pagesOf = PagesOf(picks)
  OBVIOUS
<1>2. /\ pagesOf \in Seq(SUBSET Pages) /\ Len(pagesOf) = TotalQ
      /\ \A q \in 1..TotalQ : pagesOf[q] = SelectedPages(q, picks[q])
  BY <1>1, PagesOfIs
<1>3. PICK lo, hi : lo = slice.lo /\ hi = slice.hi
  OBVIOUS
<1>4. /\ lo \in 1..TotalQ /\ hi \in lo..TotalQ /\ slice.n = Len(slice.pages) /\ slice.n \in Nat
      /\ slice.pages = Sorted(UNION {pagesOf[q] : q \in lo..hi}) /\ (slice.n <= cap \/ lo = hi)
  BY <1>1, <1>3 DEF FitSlices, SliceFits
<1>5. CASE slice.n <= cap
  BY <1>4, <1>5, MostIs
<1>6. CASE lo = hi
  <2>1. lo \in Int
    BY <1>4
  <2>2. UNION {pagesOf[q] : q \in lo..hi} = pagesOf[lo]
    <3>1. lo..hi = {lo}
      BY <1>6, <2>1
    <3>2. QED
      BY <3>1
  <2>3. PICK X : X = UNION {pagesOf[q] : q \in lo..hi}
    OBVIOUS
  <2>4. PagesListed(X)
    BY <1>2, <1>4, <2>3, SlicePages
  <2>5. slice.n = Cardinality(X)
    BY <1>4, <2>3, <2>4 DEF PagesListed
  <2>6. X = SelectedPages(lo, picks[lo])
    BY <1>2, <1>4, <2>2, <2>3
  <2>7. PICK nb, x : nb = NBlocks(Position(lo)) /\ x = picks[lo]
    OBVIOUS
  <2>8. x \in Picks(nb)
    BY <1>4, <2>7, SelectionOf
  <2>9. nb \in 1..MaxBlocks
    BY <1>4, <2>7, PositionOf
  <2>10. Cardinality(SelectedPages(lo, x)) <= TopK * NumKvHeads
    BY <2>8, <2>9, SelectedFew
  <2>11. PICK z : z = TopK * NumKvHeads
    OBVIOUS
  <2>12. z \in Nat /\ z <= MostPages /\ MostPages \in Nat
    BY <2>11, MostIs, Natural, AttentionAssumption, SMT
  <2>13. slice.n <= z
    BY <2>5, <2>6, <2>7, <2>10, <2>11
  <2>14. QED
    BY <1>4, <2>12, <2>13
<1>7. QED
  BY <1>4, <1>5, <1>6

\* The buffer never grows past what a slice may stage.
CapBound == capacity \in Nat /\ capacity <= MostPages + 1

LEMMA GrownBound ==
    ASSUME IInv, CapBound, NEW x \in Nat, x <= MostPages
    PROVE  Grown(x) \in Nat /\ Grown(x) <= MostPages + 1
<1>1. PICK z, b : z = Max({cap, x}) /\ b = MostPages
  OBVIOUS
<1>2. b \in Nat /\ cap \in Nat /\ cap <= b /\ x <= b /\ capacity \in Nat /\ capacity <= b + 1
  BY <1>1, MostIs DEF CapBound
<1>3. z = IF cap >= x THEN cap ELSE x
  <2>1. cap \in Int /\ x \in Int
    BY <1>2
  <2>2. QED
    BY <1>1, <2>1, OfTwo
<1>4. z \in Nat /\ z <= b
  BY <1>2, <1>3
<1>5. Grown(x) = IF capacity < z + 1 THEN z + 1 ELSE capacity
  BY <1>1 DEF Grown
<1>6. QED
  BY <1>1, <1>2, <1>4, <1>5

\* The slices of a call that was served lie one behind the other.
LEMMA PrefillCuts == ASSUME IInv, CallFits, CapBound, Prefill PROVE SlicesFit' /\ ServedFits' /\ CapBound'
<1>1. call.phase = "inserted" /\ capacity \in Nat
  BY DEF Prefill, CapBound
<1>2. PICK k \in Nat, n \in Nat \ {0} : \E l \in [1..k -> Nat \ {0}] : Forward(k, l)
  BY <1>1 DEF CallFits
<1>3. PICK lens \in [1..k -> Nat \ {0}] : Forward(k, lens)
  BY <1>2
<1>3a. PICK picks \in Selections, fast \in BOOLEAN : \E slices : Prefilled(k, picks, fast, slices)
  BY <1>1, <1>3, PrefillShape
<1>4. PICK slices : Prefilled(k, picks, fast, slices)
  BY <1>3a
<1>5. PICK U, last : U = FitSlices(k, PagesOf(picks)) /\ last = TotalQ
  OBVIOUS
<1>6. /\ slices \in Seq(U) /\ Abuts(slices, 1, last)
      /\ capacity' = Grown(Max({slices[i].n : i \in DOMAIN slices}))
      /\ \A i \in DOMAIN slices : slices[i].n < capacity'
      /\ call'.phase = "served" /\ call'.kind = "prefill" /\ call'.members = call.members /\ call'.cu = call.cu
      /\ call'.prefix = call.prefix /\ call'.slices = slices
  BY <1>4, <1>5 DEF Prefilled
<1>7. rows' = rows /\ cap' = cap
  BY DEF Prefill
<1>8. /\ Len(slices) \in Nat /\ Len(slices) >= 1 /\ DOMAIN slices = 1..Len(slices)
      /\ \A i \in DOMAIN slices : slices[i] \in U
  <2>1. Len(slices) \in Nat /\ DOMAIN slices = 1..Len(slices)
    BY <1>6, LenProperties
  <2>2. QED
    BY <1>6, <2>1, ElementOfSeq DEF Abuts
<1>9. ASSUME NEW s \in U PROVE s.lo <= s.hi /\ (s.n <= cap \/ s.lo = s.hi) /\ s.n \in 0..NumPages /\ s.n <= MostPages
  <2>1. s \in FitSlices(k, PagesOf(picks))
    BY <1>5
  <2>2. PICK pagesOf : pagesOf = PagesOf(picks)
    OBVIOUS
  <2>3. pagesOf \in Seq(SUBSET Pages) /\ Len(pagesOf) = TotalQ
    BY <1>3, <2>2, PagesOfIs
  <2>4. s.n \in 0..NumPages
    BY <1>3, <2>1, <2>2, <2>3, SliceSize
  <2>5. s.n <= MostPages
    BY <1>3, <2>1, SliceFew
  <2>6. s.lo \in 1..TotalQ /\ s.hi \in s.lo..TotalQ /\ (s.n <= cap \/ s.lo = s.hi)
    BY <2>1 DEF FitSlices, SliceFits
  <2>7. s.lo <= s.hi
    BY <2>6
  <2>8. QED
    BY <2>4, <2>5, <2>6, <2>7
<1> DEFINE sizes == {slices[i].n : i \in DOMAIN slices}
<1>10. Max(sizes) \in sizes
  <2>1. sizes \in SUBSET (0..NumPages)
    BY <1>8, <1>9
  <2>2. 1 \in DOMAIN slices
    BY <1>8
  <2>3. sizes # {}
    BY <2>2
  <2> HIDE DEF sizes
  <2>4. 0 \in Int /\ NumPages \in Int
    BY Natural
  <2>5. QED
    BY <2>1, <2>3, <2>4, Extremes
<1>11. PICK x : x = Max(sizes)
  OBVIOUS
<1>12. x \in Nat /\ x <= MostPages
  <2>1. \A y \in sizes : y \in 0..NumPages /\ y <= MostPages
    BY <1>8, <1>9
  <2>2. QED
    BY <1>10, <1>11, <2>1, Natural
<1>13. capacity' \in Nat /\ capacity' <= MostPages + 1
  BY <1>6, <1>11, <1>12, GrownBound
<1>14. MostPages' = MostPages
  BY <1>7 DEF MostPages
<1>15. CapBound'
  BY <1>13, <1>14 DEF CapBound
<1>16. ServedFits'
  <2>1. Forward(k, lens)'
    BY <1>3, <1>6, <1>7 DEF Forward, Len0
  <2>2. QED
    BY <2>1 DEF ServedFits
<1>17. SlicesFit'
  <2>1. call'.slices = slices /\ TotalQ' = last
    BY <1>5, <1>6 DEF TotalQ
  <2>2. slices[1].lo = 1 /\ Last(slices).hi = last
    BY <1>6 DEF Abuts, Last
  <2>3. ASSUME NEW i \in DOMAIN slices
        PROVE  /\ slices[i].lo <= slices[i].hi /\ slices[i].n < capacity' /\ (slices[i].n <= cap' \/ slices[i].lo = slices[i].hi)
               /\ i > 1 => slices[i].lo = slices[i - 1].hi + 1
    <3>1. i > 1 => slices[i].lo = slices[i - 1].hi + 1
      BY <1>6, <1>8 DEF Abuts
    <3>2. QED
      BY <1>6, <1>7, <1>8, <1>9, <3>1
  <2>4. capacity' <= Max({cap', TopK * NumKvHeads}) + 1
    BY <1>7, <1>13 DEF MostPages
  <2>5. QED
    BY <2>1, <2>2, <2>3, <2>4 DEF SlicesFit
<1>18. QED
  BY <1>15, <1>16, <1>17

-----------------------------------------------------------------------------
(* The forward as an invariant.                                            *)

JInv == IInv /\ CallFits /\ ServedFits /\ SlicesFit /\ CapBound /\ QueriesAttendOwnTokens

LEMMA NothingServed == ASSUME call'.phase # "served" PROVE ServedFits' /\ SlicesFit' /\ QueriesAttendOwnTokens'
<1>1. ServedFits' /\ SlicesFit'
  BY DEF ServedFits, SlicesFit, Served
<1>2. AttendsOwn(call', rows')
  BY DEF AttendsOwn
<1>3. QED
  BY <1>1, <1>2, AttendsIs

LEMMA CapKept == ASSUME CapBound, UNCHANGED <<cap, capacity>> PROVE CapBound'
BY DEF CapBound, MostPages

LEMMA JInit == Init => JInv
<1> SUFFICES ASSUME Init PROVE JInv
  OBVIOUS
<1>1. call.phase = "idle" /\ capacity = 0
  BY DEF Init, Idle
<1>2. IInv
  BY InitInv
<1>3. CallFits /\ ServedFits /\ SlicesFit
  BY <1>1 DEF CallFits, ServedFits, SlicesFit, Served
<1>4. CapBound
  BY <1>1, <1>2, MostIs DEF CapBound
<1>5. AttendsOwn(call, rows)
  BY <1>1 DEF AttendsOwn
<1>6. QED
  BY <1>2, <1>3, <1>4, <1>5, AttendsIs DEF JInv

LEMMA JStep == JInv /\ [Next]_vars => JInv'
<1> SUFFICES ASSUME JInv, [Next]_vars PROVE JInv'
  OBVIOUS
<1>1. IInv /\ IInv' /\ CallFits /\ CapBound
  BY StepInv DEF JInv
<1>2. CASE UNCHANGED vars
  <2>1. call' = call /\ rows' = rows /\ cap' = cap /\ capacity' = capacity
    BY <1>2 DEF vars
  <2>2. \A k, lens : Forward(k, lens)' <=> Forward(k, lens)
    BY <2>1 DEF Forward, Len0
  <2>3. CallFits'
    BY <1>1, <2>1, <2>2 DEF CallFits
  <2>4. ServedFits'
    BY <2>1, <2>2 DEF JInv, ServedFits, Served
  <2>5. SlicesFit'
    BY <2>1 DEF JInv, SlicesFit, Served, TotalQ
  <2>6. CapBound'
    BY <1>1, <2>1, CapKept
  <2>7. QueriesAttendOwnTokens'
    <3>1. AttendsOwn(call, rows)
      BY AttendsIs DEF JInv
    <3>2. AttendsOwn(call', rows')
      BY <2>1, <3>1
    <3>3. QED
      BY <3>2, AttendsIs
  <2>8. QED
    BY <1>1, <2>3, <2>4, <2>5, <2>6, <2>7 DEF JInv
<1>3. ASSUME call'.phase = "idle", UNCHANGED <<cap, capacity>> PROVE JInv'
  <2>1. CallFits'
    BY <1>3 DEF CallFits
  <2>2. ServedFits' /\ SlicesFit' /\ QueriesAttendOwnTokens'
    BY <1>3, NothingServed
  <2>3. QED
    BY <1>1, <1>3, <2>1, <2>2, CapKept DEF JInv
<1>4. ASSUME NEW r \in Reqs, NEW o \in Reqs, Share(r, o) PROVE JInv'
  <2>1. call'.phase = "idle" /\ UNCHANGED <<cap, capacity>>
    BY <1>4 DEF Share
  <2>2. QED
    BY <1>3, <2>1
<1>5. ASSUME NEW r \in Reqs, Finish(r) PROVE JInv'
  <2>1. call'.phase = "idle" /\ UNCHANGED <<cap, capacity>>
    BY <1>5 DEF Finish
  <2>2. QED
    BY <1>3, <2>1
<1>6. CASE Return
  <2>1. call'.phase = "idle" /\ UNCHANGED <<cap, capacity>>
    BY <1>6 DEF Return, Idle
  <2>2. QED
    BY <1>3, <2>1
<1>7. ASSUME NEW kind, NEW S \in (SUBSET Reqs) \ {{}}, NEW lens \in [1..Cardinality(S) -> Nat \ {0}], NEW padding \in Nat,
             Insert(kind, Sorted(S), lens, padding),
             kind = "decode" => \E n \in Nat \ {0} : lens = [i \in 1..Cardinality(S) |-> n]
      PROVE  JInv'
  <2>1. call'.phase = "inserted" /\ UNCHANGED <<cap, capacity>>
    BY <1>7 DEF Insert
  <2>2. CallFits'
    BY <1>1, <1>7, InsertFits
  <2>3. ServedFits' /\ SlicesFit' /\ QueriesAttendOwnTokens'
    BY <2>1, NothingServed
  <2>4. QED
    BY <1>1, <2>1, <2>2, <2>3, CapKept DEF JInv
<1>8. CASE InsertPrefill
  <2>1. PICK members \in {Sorted(X) : X \in (SUBSET Reqs) \ {{}}} :
           \E lens \in [DOMAIN members -> Chunks] : Insert("prefill", members, lens, 0)
    BY <1>8 DEF InsertPrefill
  <2>2. PICK S \in (SUBSET Reqs) \ {{}} : members = Sorted(S)
    BY <2>1
  <2>3. PICK lens \in [DOMAIN members -> Chunks] : Insert("prefill", members, lens, 0)
    BY <2>1
  <2>4. lens \in [1..Cardinality(S) -> Nat \ {0}]
    <3>1. DOMAIN members = 1..Cardinality(S)
      BY <2>2, Members
    <3>2. Chunks \subseteq Nat \ {0}
      BY AttentionAssumption
    <3>3. QED
      BY <2>3, <3>1, <3>2
  <2>5. "prefill" # "decode" /\ 0 \in Nat
    OBVIOUS
  <2>6. QED
    BY <1>7, <2>2, <2>3, <2>4, <2>5
<1>9. CASE InsertDecode
  <2>1. PICK members \in {Sorted(X) : X \in {T \in (SUBSET Reqs) \ {{}} : \A r \in T : Len0(r) > 0}} :
           \E n \in DecodeLens : Insert("decode", members, [i \in DOMAIN members |-> n], (-Len(members)) % CaptureSize)
    BY <1>9 DEF InsertDecode
  <2>2. PICK S \in (SUBSET Reqs) \ {{}} : members = Sorted(S)
    BY <2>1
  <2>3. PICK n \in DecodeLens : Insert("decode", members, [i \in DOMAIN members |-> n], (-Len(members)) % CaptureSize)
    BY <2>1
  <2>4. n \in Nat \ {0} /\ DOMAIN members = 1..Cardinality(S) /\ members \in [1..Cardinality(S) -> S] /\ Cardinality(S) \in Nat
    BY <2>2, <2>3, AttentionAssumption, Members
  <2>5. (-Len(members)) % CaptureSize \in Nat
    <3>1. PICK c : c = Cardinality(S)
      OBVIOUS
    <3>2. members \in [1..c -> S] /\ c \in Nat
      BY <2>4, <3>1
    <3>3. \A f \in [1..c -> S] : Len(f) = c
      BY <3>2
    <3>4. Len(members) = c
      BY <3>2, <3>3
    <3>5. -c \in Int /\ CaptureSize \in Nat \ {0}
      BY <3>2, AttentionAssumption
    <3>6. (-c) % CaptureSize \in 0..(CaptureSize - 1)
      BY <3>5, DivMod
    <3>7. (-c) % CaptureSize \in Nat
      BY <3>6
    <3>8. QED
      BY <3>4, <3>7
  <2> DEFINE lens == [i \in DOMAIN members |-> n]
             padding == (-Len(members)) % CaptureSize
  <2>6. lens = [i \in 1..Cardinality(S) |-> n]
    BY <2>4
  <2>7. lens \in [1..Cardinality(S) -> Nat \ {0}]
    BY <2>4
  <2> HIDE DEF lens, padding
  <2>8. Insert("decode", Sorted(S), lens, padding) /\ padding \in Nat
    BY <2>2, <2>3, <2>5 DEF lens, padding
  <2>9. QED
    BY <1>7, <2>4, <2>6, <2>7, <2>8
<1>10. CASE Prefill
  <2>1. call'.phase = "served"
    BY <1>10 DEF Prefill, PrefillSlices
  <2>2. CallFits'
    BY <2>1 DEF CallFits
  <2>3. SlicesFit' /\ ServedFits' /\ CapBound'
    BY <1>1, <1>10, PrefillCuts
  <2>4. capacity \in Nat
    BY <1>1 DEF CapBound
  <2>5. QueriesAttendOwnTokens'
    BY <1>1, <1>10, <2>4, PrefillOwn
  <2>6. QED
    BY <1>1, <2>2, <2>3, <2>5 DEF JInv
<1>11. CASE Decode
  <2>1. call'.phase = "served" /\ call'.kind = "decode" /\ UNCHANGED <<cap, capacity>>
    BY <1>11 DEF Decode
  <2>2. CallFits' /\ ServedFits' /\ SlicesFit'
    BY <2>1 DEF CallFits, ServedFits, SlicesFit, Served
  <2>3. QueriesAttendOwnTokens'
    BY <1>1, <1>11, DecodeOwn
  <2>4. QED
    BY <1>1, <2>1, <2>2, <2>3, CapKept DEF JInv
<1>12. QED
  BY <1>2, <1>4, <1>5, <1>6, <1>8, <1>9, <1>10, <1>11 DEF Next

LEMMA JInvariance == Spec => []JInv
BY JInit, JStep, PTL DEF Spec

-----------------------------------------------------------------------------
(* Results.                                                                *)

\* The state of the engine, the pool and the forward is well formed: tables of
\* pages, pages of rows, a batch of requests in order.
THEOREM TypeCorrect == Spec => []TypeOK
<1>1. IInv => TypeOK
  BY DEF IInv
<1>2. QED
  BY <1>1, Invariance, PTL

\* Whatever was inserted, shared, freed, reused and rejected, every position of
\* a request reads back as the row last written for it: in K and in V of every
\* head, and in the index cache.
THEOREM PoolKeepsLatest == Spec => []PoolHoldsLatest
BY ReadsLatest, Invariance, PTL

\* Through slices, staged pages, moved prefixes and chunks, with pages shared
\* and reused, every query attends to the positions of its selected blocks up
\* to its own, each once, with the rows last written there.
THEOREM QueriesAttend == Spec => []QueriesAttendOwnTokens
<1>1. JInv => QueriesAttendOwnTokens
  BY DEF JInv
<1>2. QED
  BY <1>1, JInvariance, PTL

\* The slices of a chunk leave no gap and fit the cap and the buffer, which
\* stays bounded; both planners cut the same ones, both fills stage the same
\* rows, and no two rows of a page share a byte.
THEOREM SlicesRight == Spec => []PrefillSlicesRight
<1>1. JInv => PrefillSlicesRight
  BY BothPaths DEF JInv, PrefillSlicesRight
<1>2. QED
  BY <1>1, JInvariance, PTL

=============================================================================
