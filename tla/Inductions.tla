----------------------------- MODULE Inductions -----------------------------
(* Induction for the provers: over the numbers, with a set in the place of a *)
(* predicate, and the recursion that a fold over a sequence goes through.    *)
EXTENDS SequencesExt, FiniteSetTheorems, SequenceTheorems, TLAPS

\* A set that has 0 and the successor of each of its numbers has all numbers: of the
\* numbers up to m that it misses, none would be the first.
LEMMA NatInduct ==
    ASSUME NEW S, 0 \in S, \A n \in Nat : n \in S => n + 1 \in S
    PROVE  \A m \in Nat : m \in S
<1> SUFFICES ASSUME NEW m \in Nat, m \notin S PROVE FALSE
  OBVIOUS
<1> DEFINE T == {x \in 0..m : x \notin S}
           pred == [x \in T |-> x - 1]
<1>1. \A x \in T : x - 1 \in T \ {m}
  <2> SUFFICES ASSUME NEW x \in T PROVE x - 1 \in T \ {m}
    OBVIOUS
  <2>1. x # 0 /\ x \in 0..m
    OBVIOUS
  <2>2. x - 1 \in Nat /\ x - 1 \in 0..m /\ x - 1 # m /\ (x - 1) + 1 = x
    BY <2>1
  <2>3. QED
    BY <2>2
<1>2. pred \in Injection(T, T \ {m})
  <2>1. pred \in [T -> T \ {m}]
    BY <1>1
  <2>2. \A x, y \in T : pred[x] = pred[y] => x = y
    OBVIOUS
  <2>3. QED
    BY <2>1, <2>2 DEF Injection, IsInjective
<1>3. IsFiniteSet(T) /\ m \in T
  <2>1. IsFiniteSet(0..m) /\ T \in SUBSET (0..m) /\ m \in T
    BY FS_Interval
  <2>2. QED
    BY <2>1, FS_Subset
<1> HIDE DEF T, pred
<1>4. IsFiniteSet(T \ {m}) /\ Cardinality(T \ {m}) = Cardinality(T) - 1 /\ Cardinality(T) \in Nat
  BY <1>3, FS_RemoveElement, FS_CardinalityType
<1>5. Cardinality(T) <= Cardinality(T \ {m})
  BY <1>2, <1>4, FS_Injection
<1>6. QED
  BY <1>4, <1>5

\* f is the recursion of a fold that starts from base and takes step i with G[i]:
\* it consumes the greatest number of a set last.
Unfolds(f, V, base, n, G) ==
    /\ f \in [SUBSET (1..n) -> V]
    /\ \A s \in SUBSET (1..n) : f[s] = IF s = {} THEN base ELSE G[Max(s)][f[s \ {Max(s)}]]

\* h has the values that such a fold goes through.
RunsThrough(h, V, base, n, G) ==
    h \in [0..n -> V] /\ h[0] = base /\ \A i \in 1..n : h[i] = G[i][h[i - 1]]

\* The recursion of a fold, seen on 1..0, 1..1, ... 1..n.
Iterates(iter, V, base, n, G) ==
    iter[{}] = base /\ \A i \in 1..n : iter[1..(i - 1)] \in V => iter[1..i] = G[i][iter[1..(i - 1)]]

\* The recursion of a fold has a solution.
LEMMA FoldSolution ==
    ASSUME NEW V, NEW base \in V, NEW n \in Nat, NEW G \in [1..n -> [V -> V]]
    PROVE  \E f : Unfolds(f, V, base, n, G)
<1> DEFINE Solves(f, m) ==
             \A s \in SUBSET (1..m) : f[s] = IF s = {} THEN base ELSE G[Max(s)][f[s \ {Max(s)}]]
           Solvable(m) == \E f \in [SUBSET (1..m) -> V] : Solves(f, m)
           S == {m \in Nat : m <= n => Solvable(m)}
<1>1. Solvable(0)
  <2>1. SUBSET (1..0) = {{}}
    OBVIOUS
  <2>2. [s \in SUBSET (1..0) |-> base] \in [SUBSET (1..0) -> V] /\ Solves([s \in SUBSET (1..0) |-> base], 0)
    BY <2>1
  <2>3. QED
    BY <2>2
<1>2. ASSUME NEW m \in Nat, m + 1 <= n, Solvable(m) PROVE Solvable(m + 1)
  <2>1. PICK f \in [SUBSET (1..m) -> V] : Solves(f, m)
    BY <1>2
  <2> DEFINE g == [s \in SUBSET (1..(m + 1)) |->
                     IF m + 1 \in s THEN G[m + 1][f[s \ {m + 1}]] ELSE f[s]]
  <2>2. ASSUME NEW s \in SUBSET (1..(m + 1)) PROVE s \ {m + 1} \in SUBSET (1..m) /\ (m + 1 \notin s => s \in SUBSET (1..m))
    OBVIOUS
  <2>3. m + 1 \in 1..n
    BY <1>2
  <2>4. g \in [SUBSET (1..(m + 1)) -> V]
    BY <2>1, <2>2, <2>3
  <2>5. ASSUME NEW s \in SUBSET (1..(m + 1))
        PROVE  g[s] = IF s = {} THEN base ELSE G[Max(s)][g[s \ {Max(s)}]]
    <3>1. CASE m + 1 \in s
      <4>1. \A y \in s : m + 1 >= y
        OBVIOUS
      <4>2. Max(s) = m + 1
        <5>1. \A x \in s : (\A y \in s : x >= y) => x = m + 1
          BY <3>1, <4>1
        <5>2. QED
          BY <3>1, <4>1, <5>1 DEF Max
      <4>3. g[s \ {m + 1}] = f[s \ {m + 1}] /\ g[s] = G[m + 1][f[s \ {m + 1}]]
        BY <2>2, <3>1
      <4>4. QED
        BY <3>1, <4>2, <4>3
    <3>2. CASE m + 1 \notin s
      <4>1. s \in SUBSET (1..m) /\ g[s] = f[s]
        BY <2>2, <3>2
      <4>2. s \ {Max(s)} \in SUBSET (1..m) /\ m + 1 \notin s \ {Max(s)} /\ s \ {Max(s)} \in SUBSET (1..(m + 1))
        BY <3>2, <4>1
      <4>3. g[s \ {Max(s)}] = f[s \ {Max(s)}]
        BY <4>2
      <4>4. f[s] = IF s = {} THEN base ELSE G[Max(s)][f[s \ {Max(s)}]]
        BY <2>1, <4>1
      <4>5. QED
        BY <4>1, <4>3, <4>4
    <3>3. QED
      BY <3>1, <3>2
  <2>6. QED
    BY <2>4, <2>5
<1> HIDE DEF Solvable
<1>3. 0 \in S /\ \A m \in Nat : m \in S => m + 1 \in S
  BY <1>1, <1>2
<1> HIDE DEF S
<1>4. n \in S
  BY <1>3, NatInduct
<1>5. Solvable(n)
  BY <1>4 DEF S
<1>6. PICK f \in [SUBSET (1..n) -> V] : Solves(f, n)
  BY <1>5 DEF Solvable
<1>7. Unfolds(f, V, base, n, G)
  BY <1>6 DEF Unfolds
<1>8. QED
  BY <1>7

\* A set of numbers up to n has a greatest.
LEMMA MaxIn ==
    ASSUME NEW n \in Nat
    PROVE  \A t \in SUBSET (1..n) : t # {} => Max(t) \in t /\ \A y \in t : Max(t) >= y
<1> DEFINE Has(t) == \E x \in t : \A y \in t : x >= y
           All(m) == \A t \in SUBSET (1..m) : t # {} => Has(t)
           S == {m \in Nat : All(m)}
<1>1. \A t \in SUBSET (1..0) : t = {}
  <2>1. 1..0 = {}
    OBVIOUS
  <2>2. QED
    BY <2>1
<1>2. ASSUME NEW m \in Nat, \A t \in SUBSET (1..m) : t # {} => Has(t),
             NEW t \in SUBSET (1..(m + 1)), t # {}
      PROVE  Has(t)
  <2>1. CASE m + 1 \in t
    BY <2>1
  <2>2. CASE m + 1 \notin t
    <3>1. t \in SUBSET (1..m)
      BY <2>2
    <3>2. QED
      BY <1>2, <3>1
  <2>3. QED
    BY <2>1, <2>2
<1> HIDE DEF Has
<1>3. All(0) /\ \A m \in Nat : All(m) => All(m + 1)
  BY <1>1, <1>2
<1> HIDE DEF All
<1>4. 0 \in S /\ \A m \in Nat : m \in S => m + 1 \in S
  BY <1>3
<1> HIDE DEF S
<1>5. n \in S
  BY <1>4, NatInduct
<1>6. \A t \in SUBSET (1..n) : t # {} => Has(t)
  BY <1>5 DEF S, All
<1>7. QED
  BY <1>6 DEF Has, Max

\* The numbers up to i, and without the greatest.
LEMMA UpTo ==
    ASSUME NEW n \in Nat
    PROVE  /\ 1..0 = {}
           /\ \A i \in 0..n : 1..i \in SUBSET (1..n)
           /\ \A i \in 1..n : 1..i # {} /\ Max(1..i) = i /\ (1..i) \ {Max(1..i)} = 1..(i - 1) /\ i - 1 \in 0..n
<1>1. ASSUME NEW i \in 0..n PROVE 1..i \in SUBSET (1..n)
  <2>1. \A x \in 1..i : x \in 1..n
    OBVIOUS
  <2>2. QED
    BY <2>1
<1>2. ASSUME NEW i \in 1..n
      PROVE  1..i # {} /\ Max(1..i) = i /\ (1..i) \ {i} = 1..(i - 1) /\ i - 1 \in 0..n
  <2>1. i \in 1..i /\ \A y \in 1..i : i >= y
    OBVIOUS
  <2>2. Max(1..i) = i
    <3>1. \A x \in 1..i : (\A y \in 1..i : x >= y) => x = i
      BY <2>1
    <3>2. QED
      BY <2>1, <3>1 DEF Max
  <2>3. QED
    BY <2>1, <2>2
<1>3. 1..0 = {}
  OBVIOUS
<1>4. \A i \in 0..n : 1..i \in SUBSET (1..n)
  BY <1>1
<1>5. \A i \in 1..n : 1..i # {} /\ Max(1..i) = i /\ (1..i) \ {Max(1..i)} = 1..(i - 1) /\ i - 1 \in 0..n
  <2> SUFFICES ASSUME NEW i \in 1..n
               PROVE  1..i # {} /\ Max(1..i) = i /\ (1..i) \ {Max(1..i)} = 1..(i - 1) /\ i - 1 \in 0..n
    OBVIOUS
  <2>1. 1..i # {} /\ Max(1..i) = i /\ (1..i) \ {i} = 1..(i - 1) /\ i - 1 \in 0..n
    BY <1>2
  <2>2. QED
    BY <2>1
<1>6. QED
  BY <1>3, <1>4, <1>5

\* What holds at the start and is kept by every step up to n holds at n.
LEMMA StepsInduct ==
    ASSUME NEW n \in Nat, NEW S, 0 \in S, \A i \in 1..n : i - 1 \in S => i \in S
    PROVE  \A i \in 0..n : i \in S
<1> DEFINE T == {i \in Nat : i <= n => i \in S}
<1>1. 0 \in T
  OBVIOUS
<1>2. ASSUME NEW i \in Nat, i \in T PROVE i + 1 \in T
  <2> SUFFICES ASSUME i + 1 <= n PROVE i + 1 \in S
    OBVIOUS
  <2>1. i \in S
    BY <1>2
  <2>2. i + 1 \in 1..n /\ (i + 1) - 1 = i
    OBVIOUS
  <2>3. QED
    BY <2>1, <2>2
<1> HIDE DEF T
<1>3. \A i \in Nat : i \in T
  BY <1>1, <1>2, NatInduct
<1>4. QED
  BY <1>3 DEF T

\* The values a fold goes through: those of its recursion on 1..0, 1..1, ... 1..n.
LEMMA FoldRun ==
    ASSUME NEW V, NEW base \in V, NEW n \in Nat, NEW G \in [1..n -> [V -> V]], NEW iter,
           Iterates(iter, V, base, n, G)
    PROVE  \E h : RunsThrough(h, V, base, n, G) /\ h[n] = iter[1..n]
<1> DEFINE h == [i \in 0..n |-> iter[1..i]]
           T == {i \in 0..n : h[i] \in V}
<1>1. h[0] = base /\ h[n] = iter[1..n]
  BY UpTo DEF Iterates
<1>2. ASSUME NEW i \in 1..n, h[i - 1] \in V PROVE h[i] = G[i][h[i - 1]] /\ h[i] \in V
  <2>1. i \in 0..n /\ i - 1 \in 0..n
    OBVIOUS
  <2>2. h[i] = iter[1..i] /\ h[i - 1] = iter[1..(i - 1)]
    BY <2>1
  <2>3. QED
    BY <1>2, <2>2 DEF Iterates
<1> HIDE DEF h
<1>3. 0 \in T /\ \A i \in 1..n : i - 1 \in T => i \in T
  <2>1. 0 \in T
    BY <1>1
  <2>2. ASSUME NEW i \in 1..n, i - 1 \in T PROVE i \in T
    <3>1. i \in 0..n /\ h[i - 1] \in V
      BY <2>2
    <3>2. QED
      BY <1>2, <3>1
  <2>3. QED
    BY <2>1, <2>2
<1> HIDE DEF T
<1>4. \A i \in 0..n : i \in T
  BY <1>3, StepsInduct
<1>5. \A i \in 0..n : h[i] \in V
  BY <1>4 DEF T
<1>6. h \in [0..n -> V]
  BY <1>5 DEF h
<1>7. \A i \in 1..n : h[i] = G[i][h[i - 1]]
  BY <1>2, <1>5
<1>8. RunsThrough(h, V, base, n, G)
  BY <1>1, <1>6, <1>7 DEF RunsThrough
<1>9. QED
  BY <1>1, <1>8

-----------------------------------------------------------------------------
(* The elements of a sequence.                                             *)

LEMMA EmptyElements == ToSet(<<>>) = {} /\ IsInjective(<<>>) /\ Len(<<>>) = 0
BY DEF ToSet, IsInjective

LEMMA AppendElement ==
    ASSUME NEW S, NEW s \in Seq(S), NEW x \in S
    PROVE  /\ Append(s, x) \in Seq(S) /\ Len(Append(s, x)) = Len(s) + 1 /\ Len(s) \in Nat
           /\ ToSet(Append(s, x)) = ToSet(s) \cup {x}
           /\ IsInjective(s) /\ x \notin ToSet(s) => IsInjective(Append(s, x))
<1> DEFINE a == Append(s, x)
<1>1. /\ a \in Seq(S) /\ Len(s) \in Nat /\ Len(a) = Len(s) + 1 /\ a[Len(s) + 1] = x
      /\ \A i \in 1..Len(s) : a[i] = s[i]
  BY AppendProperties, LenProperties
<1>2. DOMAIN s = 1..Len(s) /\ DOMAIN a = 1..Len(a)
  BY <1>1, LenProperties
<1> HIDE DEF a
<1>3. ToSet(a) = ToSet(s) \cup {x}
  <2>1. \A y \in ToSet(a) : y \in ToSet(s) \cup {x}
    BY <1>1, <1>2 DEF ToSet
  <2>2. \A y \in ToSet(s) : y \in ToSet(a)
    BY <1>1, <1>2 DEF ToSet
  <2>3. x \in ToSet(a)
    BY <1>1, <1>2 DEF ToSet
  <2>4. QED
    BY <2>1, <2>2, <2>3
<1>4. ASSUME IsInjective(s), x \notin ToSet(s) PROVE IsInjective(a)
  BY <1>1, <1>2, <1>4 DEF IsInjective, ToSet
<1>5. QED
  BY <1>1, <1>3, <1>4 DEF a

LEMMA TailElement ==
    ASSUME NEW S, NEW s \in Seq(S), s # <<>>
    PROVE  /\ Tail(s) \in Seq(S) /\ Len(Tail(s)) = Len(s) - 1 /\ Len(s) \in Nat /\ Len(s) > 0
           /\ ToSet(Tail(s)) \subseteq ToSet(s)
           /\ IsInjective(s) => IsInjective(Tail(s))
<1> DEFINE t == Tail(s)
<1>1. t \in Seq(S) /\ Len(s) \in Nat /\ Len(s) > 0 /\ Len(t) = Len(s) - 1 /\ \A i \in 1..Len(t) : t[i] = s[i + 1]
  BY HeadTailProperties, EmptySeq, LenProperties
<1>2. DOMAIN s = 1..Len(s) /\ DOMAIN t = 1..Len(t)
  BY <1>1, LenProperties
<1> HIDE DEF t
<1>3. \A i \in 1..Len(t) : i + 1 \in 1..Len(s)
  BY <1>1
<1>4. \A y \in ToSet(t) : y \in ToSet(s)
  BY <1>1, <1>2, <1>3 DEF ToSet
<1>5. ASSUME IsInjective(s), NEW i \in 1..Len(t), NEW j \in 1..Len(t), t[i] = t[j] PROVE i = j
  <2>1. i + 1 = j + 1
    BY <1>1, <1>2, <1>3, <1>5 DEF IsInjective
  <2>2. QED
    BY <2>1
<1>6. IsInjective(s) => IsInjective(t)
  BY <1>2, <1>5 DEF IsInjective
<1>7. QED
  BY <1>1, <1>4, <1>6 DEF t

LEMMA ConcatElement ==
    ASSUME NEW S, NEW s \in Seq(S), NEW t \in Seq(S)
    PROVE  /\ s \o t \in Seq(S) /\ ToSet(s \o t) = ToSet(s) \cup ToSet(t)
           /\ IsInjective(s) /\ IsInjective(t) /\ ToSet(s) \cap ToSet(t) = {} => IsInjective(s \o t)
<1> DEFINE w == s \o t
<1>1. /\ w \in Seq(S) /\ Len(s) \in Nat /\ Len(t) \in Nat /\ Len(w) = Len(s) + Len(t)
      /\ \A i \in 1..Len(w) : w[i] = IF i <= Len(s) THEN s[i] ELSE t[i - Len(s)]
  BY ConcatProperties, LenProperties
<1>2. DOMAIN s = 1..Len(s) /\ DOMAIN t = 1..Len(t) /\ DOMAIN w = 1..Len(w)
  BY <1>1, LenProperties
<1> HIDE DEF w
<1>3. \A i \in 1..Len(w) : \/ i \in 1..Len(s) /\ w[i] = s[i]
                           \/ i > Len(s) /\ i - Len(s) \in 1..Len(t) /\ w[i] = t[i - Len(s)]
  BY <1>1
<1>4. ToSet(w) = ToSet(s) \cup ToSet(t)
  <2>1. \A y \in ToSet(w) : y \in ToSet(s) \cup ToSet(t)
    BY <1>2, <1>3 DEF ToSet
  <2>2. \A i \in 1..Len(s) : i \in 1..Len(w) /\ w[i] = s[i]
    BY <1>1
  <2>3. ASSUME NEW i \in 1..Len(t) PROVE i + Len(s) \in 1..Len(w) /\ w[i + Len(s)] = t[i]
    <3>1. i + Len(s) \in 1..Len(w) /\ (i + Len(s)) - Len(s) = i /\ ~(i + Len(s) <= Len(s))
      BY <1>1
    <3>2. QED
      BY <1>1, <3>1
  <2>4. \A y \in ToSet(s) : y \in ToSet(w)
    BY <1>2, <2>2 DEF ToSet
  <2>5. \A y \in ToSet(t) : y \in ToSet(w)
    BY <1>2, <2>3 DEF ToSet
  <2>6. QED
    BY <2>1, <2>4, <2>5
<1>5. ASSUME IsInjective(s), IsInjective(t), ToSet(s) \cap ToSet(t) = {},
             NEW i \in 1..Len(w), NEW j \in 1..Len(w), w[i] = w[j]
      PROVE  i = j
  <2>1. \A x \in 1..Len(s), y \in 1..Len(t) : s[x] # t[y]
    BY <1>2, <1>5 DEF ToSet
  <2>2. CASE i <= Len(s)
    <3>1. i \in 1..Len(s) /\ w[i] = s[i]
      BY <1>1, <1>3, <2>2
    <3>2. j <= Len(s)
      <4> SUFFICES ASSUME j > Len(s) PROVE FALSE
        BY <1>1
      <4>1. j - Len(s) \in 1..Len(t) /\ w[j] = t[j - Len(s)]
        BY <1>1, <1>3
      <4>2. QED
        BY <1>5, <2>1, <3>1, <4>1
    <3>3. j \in 1..Len(s) /\ w[j] = s[j]
      BY <1>1, <1>3, <3>2
    <3>4. QED
      BY <1>2, <1>5, <3>1, <3>3 DEF IsInjective
  <2>3. CASE i > Len(s)
    <3>1. /\ i - Len(s) \in 1..Len(t) /\ w[i] = t[i - Len(s)]
          /\ j - Len(s) \in 1..Len(t) /\ w[j] = t[j - Len(s)]
      BY <1>1, <1>3, <1>5, <2>1, <2>3
    <3>2. i - Len(s) = j - Len(s)
      BY <1>2, <1>5, <3>1 DEF IsInjective
    <3>3. QED
      BY <1>1, <3>2
  <2>4. QED
    BY <1>1, <2>2, <2>3
<1>6. ASSUME IsInjective(s), IsInjective(t), ToSet(s) \cap ToSet(t) = {} PROVE IsInjective(w)
  BY <1>2, <1>5, <1>6 DEF IsInjective
<1>7. QED
  BY <1>1, <1>4, <1>6 DEF w

\* A sequence without repetitions is as long as it has elements.
LEMMA InjectiveLength ==
    ASSUME NEW S, NEW s \in Seq(S), IsInjective(s)
    PROVE  IsFiniteSet(ToSet(s)) /\ Cardinality(ToSet(s)) = Len(s)
<1>1. Len(s) \in Nat /\ DOMAIN s = 1..Len(s) /\ s \in [1..Len(s) -> S]
  BY LenProperties
<1>2. s \in [1..Len(s) -> ToSet(s)] /\ \A y \in ToSet(s) : \E i \in 1..Len(s) : s[i] = y
  BY <1>1 DEF ToSet
<1>3. s \in Bijection(1..Len(s), ToSet(s))
  BY <1>1, <1>2 DEF Bijection, Injection, Surjection, IsInjective
<1>4. IsFiniteSet(1..Len(s)) /\ Cardinality(1..Len(s)) = Len(s)
  BY <1>1, FS_Interval
<1>5. ExistsBijection(1..Len(s), ToSet(s))
  BY <1>3 DEF ExistsBijection
<1>6. QED
  BY <1>4, <1>5, FS_Bijection

\* Induction down from hi: a set that has each number above which it has all has all.
LEMMA DownInduct ==
    ASSUME NEW lo \in Int, NEW hi \in Int, NEW S,
           \A x \in lo..hi : (\A y \in (x + 1)..hi : y \in S) => x \in S
    PROVE  \A x \in lo..hi : x \in S
<1> DEFINE T == {n \in Nat : \A x \in lo..hi : hi - x < n => x \in S}
<1>1. 0 \in T
  OBVIOUS
<1>2. ASSUME NEW n \in Nat, n \in T PROVE n + 1 \in T
  <2>1. ASSUME NEW x \in lo..hi, hi - x < n + 1 PROVE x \in S
    <3>1. \A y \in (x + 1)..hi : y \in lo..hi /\ hi - y < n
      BY <2>1
    <3>2. \A y \in (x + 1)..hi : y \in S
      BY <3>1, <1>2
    <3>3. QED
      BY <3>2
  <2>2. QED
    BY <2>1
<1> HIDE DEF T
<1>3. \A n \in Nat : n \in T
  BY <1>1, <1>2, NatInduct
<1>4. ASSUME NEW x \in lo..hi PROVE x \in S
  <2>1. (hi - x) + 1 \in T /\ hi - x < (hi - x) + 1
    BY <1>3
  <2>2. QED
    BY <2>1 DEF T
<1>5. QED
  BY <1>4

\* A recursion over lo..hi that looks only at greater numbers: G[x] makes the value
\* at x of the values above x.
LooksUp(lo, hi, V, G) ==
    /\ G \in [lo..hi -> [[lo..hi -> V] -> V]]
    /\ \A x \in lo..hi : \A f, g \in [lo..hi -> V] :
         (\A y \in (x + 1)..hi : f[y] = g[y]) => G[x][f] = G[x][g]

Descends(f, lo, hi, V, G) == f \in [lo..hi -> V] /\ \A x \in lo..hi : f[x] = G[x][f]

\* It has a solution.
LEMMA DownSolution ==
    ASSUME NEW lo \in Int, NEW hi \in Int, NEW V, NEW base \in V, NEW G, LooksUp(lo, hi, V, G)
    PROVE  \E f : Descends(f, lo, hi, V, G)
<1> USE DEF LooksUp, Descends
<1> DEFINE Solves(f, n) == \A x \in lo..hi : hi - x < n => f[x] = G[x][f]
           T == {n \in Nat : \E f \in [lo..hi -> V] : Solves(f, n)}
<1>1. 0 \in T
  <2>1. [x \in lo..hi |-> base] \in [lo..hi -> V] /\ Solves([x \in lo..hi |-> base], 0)
    OBVIOUS
  <2>2. QED
    BY <2>1
<1>2. ASSUME NEW n \in Nat, n \in T PROVE n + 1 \in T
  <2>1. PICK f \in [lo..hi -> V] : Solves(f, n)
    BY <1>2
  <2> DEFINE g == [x \in lo..hi |-> IF hi - x = n THEN G[x][f] ELSE f[x]]
  <2>2. g \in [lo..hi -> V]
    BY <2>1
  <2>3. ASSUME NEW x \in lo..hi, hi - x < n + 1 PROVE g[x] = G[x][g]
    <3>1. \A y \in (x + 1)..hi : y \in lo..hi /\ hi - y # n
      BY <2>3
    <3>2. \A y \in (x + 1)..hi : f[y] = g[y]
      BY <3>1
    <3>3. G[x][f] = G[x][g]
      <4> HIDE DEF g
      <4>1. QED
        BY <2>1, <2>2, <3>2
    <3>4. CASE hi - x = n
      BY <3>3, <3>4
    <3>5. CASE hi - x # n
      <4>1. g[x] = f[x] /\ hi - x < n
        BY <2>3, <3>5
      <4>2. QED
        BY <2>1, <3>3, <4>1
    <3>6. QED
      BY <3>4, <3>5
  <2> HIDE DEF g
  <2>4. QED
    BY <2>2, <2>3
<1> HIDE DEF T
<1>3. \A n \in Nat : n \in T
  BY <1>1, <1>2, NatInduct
<1>4. CASE lo > hi
  <2>1. lo..hi = {}
    BY <1>4
  <2>2. [x \in lo..hi |-> base] \in [lo..hi -> V]
    OBVIOUS
  <2>3. QED
    BY <2>1, <2>2
<1>5. CASE lo <= hi
  <2>1. (hi - lo) + 1 \in Nat /\ \A x \in lo..hi : hi - x < (hi - lo) + 1
    BY <1>5
  <2>2. (hi - lo) + 1 \in T
    BY <2>1, <1>3
  <2>3. PICK f \in [lo..hi -> V] : Solves(f, (hi - lo) + 1)
    BY <2>2 DEF T
  <2>4. \A x \in lo..hi : f[x] = G[x][f]
    BY <2>1, <2>3
  <2>5. QED
    BY <2>4
<1>6. QED
  BY <1>4, <1>5

\* The numbers up to n.
LEMMA UpToFinite ==
    ASSUME NEW n \in Nat
    PROVE  IsFiniteSet(1..n) /\ Cardinality(1..n) = n
<1>1. PICK a : a = 1
  OBVIOUS
<1>2. a \in Int /\ n \in Int
  BY <1>1
<1>3. IsFiniteSet(a..n) /\ Cardinality(a..n) = IF a > n THEN 0 ELSE n - a + 1
  BY <1>2, FS_Interval
<1>4. QED
  BY <1>1, <1>3

\* A sequence is its head and its tail.
LEMMA HeadElements ==
    ASSUME NEW S, NEW s \in Seq(S), s # <<>>
    PROVE  ToSet(s) = {Head(s)} \cup ToSet(Tail(s)) /\ Tail(s) \in Seq(ToSet(Tail(s)))
<1> DEFINE t == Tail(s)
<1>1. t \in Seq(S) /\ Len(s) \in Nat /\ Len(s) > 0 /\ Len(t) = Len(s) - 1 /\ \A i \in 1..Len(t) : t[i] = s[i + 1]
  BY HeadTailProperties, EmptySeq, LenProperties
<1>2. DOMAIN s = 1..Len(s) /\ DOMAIN t = 1..Len(t) /\ Head(s) = s[1]
  BY <1>1, LenProperties
<1>3. t = [i \in 1..Len(t) |-> t[i]]
  BY <1>1, LenProperties
<1> HIDE DEF t
<1>4. \A x : x \in ToSet(s) <=> x = Head(s) \/ x \in ToSet(t)
  <2>1. ASSUME NEW x \in ToSet(s) PROVE x = Head(s) \/ x \in ToSet(t)
    <3>1. PICK i \in 1..Len(s) : x = s[i]
      BY <1>2 DEF ToSet
    <3>2. CASE i = 1
      BY <1>2, <3>1, <3>2
    <3>3. CASE i # 1
      <4>1. i - 1 \in 1..Len(t) /\ (i - 1) + 1 = i
        BY <1>1, <3>3
      <4>2. t[i - 1] = x
        BY <1>1, <3>1, <4>1
      <4>3. QED
        BY <1>2, <4>1, <4>2 DEF ToSet
    <3>4. QED
      BY <3>2, <3>3
  <2>2. Head(s) \in ToSet(s)
    BY <1>1, <1>2 DEF ToSet
  <2>3. ASSUME NEW x \in ToSet(t) PROVE x \in ToSet(s)
    <3>1. PICK i \in 1..Len(t) : x = t[i]
      BY <1>2 DEF ToSet
    <3>2. i + 1 \in 1..Len(s) /\ x = s[i + 1]
      BY <1>1, <3>1
    <3>3. QED
      BY <1>2, <3>2 DEF ToSet
  <2>4. QED
    BY <2>1, <2>2, <2>3
<1>5. \A i \in 1..Len(t) : t[i] \in ToSet(t)
  BY <1>2 DEF ToSet
<1> DEFINE T == ToSet(t)
<1> HIDE DEF T
<1>6. t \in Seq(T)
  <2>1. t \in [1..Len(t) -> T] /\ Len(t) \in Nat
    BY <1>1, <1>3, <1>5 DEF T
  <2>2. QED
    BY <2>1
<1>7. QED
  BY <1>4, <1>6 DEF t, T

\* The elements of a flattened sequence are those of its parts.
LEMMA FlattenElements ==
    ASSUME NEW S, NEW n \in Nat \ {0}, NEW ss \in [1..n -> Seq(S)]
    PROVE  FlattenSeq(ss) \in Seq(S) /\ ToSet(FlattenSeq(ss)) = UNION {ToSet(ss[i]) : i \in 1..n}
<1> DEFINE V == Seq(S)
           base == <<>>
           G == [i \in 1..n |-> [v \in V |-> v \o ss[i]]]
           fl == CHOOSE g : g = [i \in 1..n |-> IF i = 1 THEN ss[i] ELSE g[i - 1] \o ss[i]]
           Parts(i) == UNION {ToSet(ss[j]) : j \in 1..i}
<1>1. base \in V /\ \A v \in V : base \o v = v
  OBVIOUS
<1>2. \A i \in 1..n : ss[i] \in V
  OBVIOUS
<1>3. G \in [1..n -> [V -> V]] /\ \A i \in 1..n : \A v \in V : G[i][v] = v \o ss[i]
  BY <1>2, ConcatProperties
<1> HIDE DEF base, G, V
<1>4. PICK f : Unfolds(f, V, base, n, G)
  BY <1>1, <1>3, FoldSolution
<1>5. ASSUME NEW i \in 1..n
      PROVE  f[1..i] = f[1..(i - 1)] \o ss[i] /\ f[1..i] \in V
  <2>1. 1..i \in SUBSET (1..n) /\ 1..i # {} /\ Max(1..i) = i /\ (1..i) \ {Max(1..i)} = 1..(i - 1) /\ 1..(i - 1) \in SUBSET (1..n)
    <3>1. i \in 0..n /\ i - 1 \in 0..n
      OBVIOUS
    <3>2. QED
      BY <3>1, UpTo
  <2>2. f[1..i] = G[i][f[1..(i - 1)]] /\ f[1..(i - 1)] \in V /\ f[1..i] \in V
    BY <1>4, <2>1 DEF Unfolds
  <2>3. QED
    BY <1>3, <2>2
<1>6. f[1..1] = ss[1]
  <2>1. 1 \in 1..n /\ 1..(1 - 1) = {} /\ {} \in SUBSET (1..n)
    OBVIOUS
  <2>2. f[{}] = base
    BY <1>4, <2>1 DEF Unfolds
  <2>3. f[1..1] = base \o ss[1]
    BY <1>5, <2>1, <2>2
  <2>4. QED
    BY <1>1, <1>2, <2>1, <2>3
<1>7. fl = [i \in 1..n |-> IF i = 1 THEN ss[i] ELSE fl[i - 1] \o ss[i]]
  <2> DEFINE h == [i \in 1..n |-> f[1..i]]
  <2>1. ASSUME NEW i \in 1..n PROVE h[i] = IF i = 1 THEN ss[i] ELSE h[i - 1] \o ss[i]
    <3>1. h[i] = f[1..i]
      OBVIOUS
    <3>2. i # 1 => h[i - 1] = f[1..(i - 1)]
      <4>1. i # 1 => i - 1 \in 1..n
        OBVIOUS
      <4>2. QED
        BY <4>1
    <3> HIDE DEF h
    <3>3. QED
      BY <1>5, <1>6, <3>1, <3>2
  <2>2. h = [i \in 1..n |-> h[i]]
    OBVIOUS
  <2> HIDE DEF h
  <2>3. [i \in 1..n |-> h[i]] = [i \in 1..n |-> IF i = 1 THEN ss[i] ELSE h[i - 1] \o ss[i]]
    BY <2>1, Zenon
  <2>4. h = [i \in 1..n |-> IF i = 1 THEN ss[i] ELSE h[i - 1] \o ss[i]]
    BY <2>2, <2>3, Zenon
  <2>5. QED
    BY <2>4, Zenon
<1>8. Len(ss) = n
  <2>1. DOMAIN ss = 1..n /\ n \in Nat
    OBVIOUS
  <2>2. QED
    BY <2>1
<1>9. FlattenSeq(ss) = fl[n]
  BY <1>8 DEF FlattenSeq
<1> HIDE DEF fl
<1>10. \A i \in 1..n : fl[i] = IF i = 1 THEN ss[i] ELSE fl[i - 1] \o ss[i]
  BY <1>7
<1> DEFINE T == {i \in 0..n : i # 0 => fl[i] \in Seq(S) /\ ToSet(fl[i]) = Parts(i)}
<1>11. 0 \in T
  OBVIOUS
<1>12. ASSUME NEW i \in 1..n, i - 1 \in T PROVE i \in T
  <2>1. ss[i] \in Seq(S)
    BY <1>2 DEF V
  <2>2. i = 1 => Parts(i) = ToSet(ss[i])
    <3>1. 1..1 = {1}
      OBVIOUS
    <3>2. QED
      BY <3>1
  <2>3. i # 1 => Parts(i) = Parts(i - 1) \cup ToSet(ss[i])
    <3>1. i # 1 => 1..i = 1..(i - 1) \cup {i}
      OBVIOUS
    <3>2. QED
      BY <3>1
  <2> HIDE DEF Parts
  <2>4. CASE i = 1
    BY <1>10, <2>1, <2>2, <2>4
  <2>5. CASE i # 1
    <3>1. fl[i - 1] \in Seq(S) /\ ToSet(fl[i - 1]) = Parts(i - 1)
      BY <1>12, <2>5
    <3>2. fl[i] = fl[i - 1] \o ss[i]
      BY <1>10, <2>5
    <3>3. fl[i] \in Seq(S) /\ ToSet(fl[i]) = ToSet(fl[i - 1]) \cup ToSet(ss[i])
      BY <2>1, <3>1, <3>2, ConcatElement
    <3>4. i \in 0..n /\ ToSet(fl[i]) = Parts(i)
      BY <2>3, <2>5, <3>1, <3>3
    <3>5. QED
      BY <3>3, <3>4
  <2>6. QED
    BY <2>4, <2>5
<1> HIDE DEF T
<1>13. \A i \in 0..n : i \in T
  BY <1>11, <1>12, StepsInduct
<1>14. n \in 0..n /\ n # 0
  OBVIOUS
<1>15. n \in T
  BY <1>13, <1>14
<1>16. QED
  BY <1>9, <1>14, <1>15 DEF T

\* Multiples of a number, and the multiple below a number.
LEMMA ProductRises ==
    ASSUME NEW T \in Nat \ {0}, NEW x \in Int, NEW y \in Int
    PROVE  /\ x * T \in Int /\ y * T \in Int /\ (x + 1) * T = x * T + T /\ (x - 1) * T = x * T - T
           /\ x <= y => x * T <= y * T
           /\ x < y => x * T + T <= y * T
<1>1. x * T \in Int /\ y * T \in Int /\ (x + 1) * T = x * T + T /\ (x - 1) * T = x * T - T
  BY SMT
<1>2. \A u, v \in Int : u <= v => u * T <= v * T
  BY SMT
<1>3. x < y => (x + 1) * T <= y * T
  BY <1>2
<1>4. QED
  BY <1>1, <1>2, <1>3

LEMMA Divided ==
    ASSUME NEW a \in Nat, NEW T \in Nat \ {0}
    PROVE  a \div T \in Nat /\ (a \div T) * T <= a /\ a < (a \div T) * T + T /\ (a \div T) * T \in Nat
<1>1. a = T * (a \div T) + (a % T) /\ a \div T \in Int /\ a % T \in 0..(T - 1)
  BY Z3
<1>2. a \div T \in Nat
  BY SMT
<1> DEFINE q == a \div T
<1>3. T * q = q * T /\ q * T \in Nat
  BY <1>2, SMT
<1> HIDE DEF q
<1>4. q * T <= a /\ a < q * T + T
  <2>1. a = q * T + (a % T)
    BY <1>1, <1>3 DEF q
  <2>2. QED
    BY <1>1, <1>3, <2>1
<1>5. QED
  BY <1>2, <1>3, <1>4 DEF q

=============================================================================
