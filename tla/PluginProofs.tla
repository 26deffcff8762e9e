---------------------------- MODULE PluginProofs ----------------------------
(* Registration, the overlay's bindings and scales, and the loads of models, *)
(* for any copies of the package, objects, addresses and setups.             *)
EXTENDS Plugin, Inductions

-----------------------------------------------------------------------------
(* The tables of the overlay.                                              *)

LEMMA AllSites ==
    /\ Sites = {<<"custom_ops", "w1">>, <<"ops_sparse", "prefill">>, <<"ops_sparse", "decode">>,
                <<"ops", "prefill">>, <<"ops", "decode">>, <<"sparse_attention", "selector">>,
                <<"sparse_attention", "prefill">>, <<"sparse_attention", "decode">>,
                <<"nvidia_model", "selector">>, <<"msa", "decode">>, <<"amd_model", "selector">>,
                <<"amd_ops", "prefill">>, <<"amd_ops", "decode">>}
    /\ BindingSites \in Seq(Sites) /\ \A s \in Sites : \E i \in 1..Len(BindingSites) : BindingSites[i] = s
<1> DEFINE S == {<<"custom_ops", "w1">>, <<"ops_sparse", "prefill">>, <<"ops_sparse", "decode">>,
                <<"ops", "prefill">>, <<"ops", "decode">>, <<"sparse_attention", "selector">>,
                <<"sparse_attention", "prefill">>, <<"sparse_attention", "decode">>,
                <<"nvidia_model", "selector">>, <<"msa", "decode">>, <<"amd_model", "selector">>,
                <<"amd_ops", "prefill">>, <<"amd_ops", "decode">>}
<1>1. Required \in Seq(S) /\ Len(Required) = 9
  <2>1. Len(Required) = 9
    BY DEF Required
  <2>2. Required \in Seq(S)
    BY DEF Required
  <2>3. QED
    BY <2>1, <2>2
<1>2. Optional \in Seq(S) /\ Len(Optional) = 4
  <2>1. Len(Optional) = 4
    BY DEF Optional
  <2>2. Optional \in Seq(S)
    BY DEF Optional
  <2>3. QED
    BY <2>1, <2>2
<1>3. \A s \in S : (\E i \in 1..9 : Required[i] = s) \/ (\E i \in 1..4 : Optional[i] = s)
  BY DEF Required, Optional
<1> HIDE DEF S
<1>4. /\ BindingSites \in Seq(S) /\ Len(BindingSites) = Len(Required) + Len(Optional)
      /\ \A i \in 1..(Len(Required) + Len(Optional)) :
            BindingSites[i] = IF i <= Len(Required) THEN Required[i] ELSE Optional[i - Len(Required)]
  BY <1>1, <1>2, ConcatProperties DEF BindingSites
<1>5. Len(BindingSites) = 13 /\ \A i \in 1..13 : BindingSites[i] = IF i <= 9 THEN Required[i] ELSE Optional[i - 9]
  <2>1. Len(Required) + Len(Optional) = 13
    BY <1>1, <1>2
  <2>2. QED
    BY <1>1, <1>4, <2>1
<1>6. DOMAIN BindingSites = 1..13 /\ \A i \in 1..13 : BindingSites[i] \in S
  BY <1>4, <1>5, LenProperties, ElementOfSeq
<1>7. ASSUME NEW s \in S PROVE \E i \in 1..13 : BindingSites[i] = s
  <2>1. \A i \in 1..9 : i \in 1..13 /\ BindingSites[i] = Required[i]
    BY <1>5
  <2>2. \A i \in 1..4 : i + 9 \in 1..13 /\ BindingSites[i + 9] = Optional[i]
    BY <1>5
  <2>3. QED
    BY <1>3, <2>1, <2>2
<1>8. Sites = S
  BY <1>6, <1>7 DEF Sites, Range
<1>9. QED
  BY <1>4, <1>5, <1>7, <1>8 DEF S

LEMMA SiteFacts ==
    /\ \A s \in Sites : /\ s[1] \in Modules /\ s[2] \in Hooks
                        /\ s # Defining[s[2]] => From(s) \in Sites
    /\ \A h \in Hooks : Defining[h] \in Sites /\ Defining[h][2] = h
<1>1. \A s \in Sites : s[1] \in Modules
  BY DEF Modules
<1>2. \A s \in Sites : s[2] \in Hooks
  BY AllSites DEF Hooks
<1>3. /\ Defining["w1"] = <<"custom_ops", "w1">> /\ Defining["selector"] = <<"sparse_attention", "selector">>
      /\ Defining["prefill"] = <<"ops_sparse", "prefill">> /\ Defining["decode"] = <<"ops_sparse", "decode">>
  BY DEF Defining
<1>4. \A h \in Hooks : Defining[h] \in Sites /\ Defining[h][2] = h
  <2>1. /\ Defining["w1"] \in Sites /\ Defining["selector"] \in Sites /\ Defining["prefill"] \in Sites
        /\ Defining["decode"] \in Sites
    BY <1>3, AllSites
  <2>2. /\ Defining["w1"][2] = "w1" /\ Defining["selector"][2] = "selector" /\ Defining["prefill"][2] = "prefill"
        /\ Defining["decode"][2] = "decode"
    BY <1>3
  <2>3. QED
    BY <2>1, <2>2 DEF Hooks
<1>5. ASSUME NEW s \in Sites, s # Defining[s[2]] PROVE From(s) \in Sites
  <2>1. CASE s[1] = "sparse_attention"
    <3>1. From(s) = <<"ops", s[2]>>
      BY <2>1 DEF From
    <3>2. \/ s = <<"sparse_attention", "selector">> \/ s = <<"sparse_attention", "prefill">>
          \/ s = <<"sparse_attention", "decode">>
      BY <2>1, AllSites, SMTT(30)
    <3>3. s[2] = "prefill" \/ s[2] = "decode"
      BY <1>3, <1>5, <3>2
    <3>4. <<"ops", "prefill">> \in Sites /\ <<"ops", "decode">> \in Sites
      BY AllSites
    <3>5. QED
      BY <3>1, <3>3, <3>4
  <2>2. CASE s[1] # "sparse_attention"
    <3>1. From(s) = Defining[s[2]]
      BY <2>2 DEF From
    <3>2. QED
      BY <1>2, <1>4, <3>1
  <2>3. QED
    BY <2>1, <2>2
<1>6. QED
  BY <1>1, <1>2, <1>4, <1>5

\* What a module imports is imported with it in full.
LEMMA ImportFacts ==
    \A m \in Modules : /\ Imports[m] \in Seq(Modules)
                       /\ \A x \in Range(Imports[m]) : Range(Imports[x]) \subseteq Range(Imports[m])
<1>1. Modules = {"custom_ops", "ops_sparse", "ops", "sparse_attention", "nvidia_model", "msa", "amd_model", "amd_ops"}
  BY AllSites DEF Modules
<1>2. /\ Imports["custom_ops"] = <<>> /\ Imports["ops_sparse"] = <<>> /\ Imports["ops"] = <<"ops_sparse">>
      /\ Imports["sparse_attention"] = <<"ops_sparse", "ops">> /\ Imports["msa"] = <<"ops_sparse">>
      /\ Imports["nvidia_model"] = <<"custom_ops", "ops_sparse", "ops", "sparse_attention">>
      /\ Imports["amd_model"] = <<"custom_ops", "ops_sparse", "ops", "sparse_attention">>
      /\ Imports["amd_ops"] = <<"ops_sparse">>
  BY DEF Imports
<1>3. ASSUME NEW m \in Modules PROVE Imports[m] \in Seq(Modules)
  <2>1. /\ "custom_ops" \in Modules /\ "ops_sparse" \in Modules /\ "ops" \in Modules
        /\ "sparse_attention" \in Modules
    BY <1>1
  <2>2. /\ <<>> \in Seq(Modules) /\ <<"ops_sparse">> \in Seq(Modules) /\ <<"ops_sparse", "ops">> \in Seq(Modules)
        /\ <<"custom_ops", "ops_sparse", "ops", "sparse_attention">> \in Seq(Modules)
    BY <2>1
  <2>3. QED
    BY <1>1, <1>2, <2>2
<1>4. /\ Range(<<>>) = {} /\ Range(<<"ops_sparse">>) = {"ops_sparse"}
      /\ Range(<<"ops_sparse", "ops">>) = {"ops_sparse", "ops"}
      /\ Range(<<"custom_ops", "ops_sparse", "ops", "sparse_attention">>) = {"custom_ops", "ops_sparse", "ops", "sparse_attention"}
  BY DEF Range
<1>5. ASSUME NEW m \in Modules, NEW x \in Range(Imports[m]) PROVE Range(Imports[x]) \subseteq Range(Imports[m])
  BY <1>1, <1>2, <1>4
<1>6. QED
  BY <1>3, <1>5

-----------------------------------------------------------------------------
(* The folds of install().                                                 *)

ImportStep(acc, s) == IF ~acc.ok THEN acc
                      ELSE IF Importable(s[1]) THEN [acc EXCEPT !.b = Import(@, s[1])]
                      ELSE [acc EXCEPT !.ok = s \notin Range(Required)]

PatchStep(b, acc, s) == IF ~acc.ok \/ ~Importable(s[1]) THEN acc
                        ELSE IF acc.b[s] = Absent THEN [acc EXCEPT !.ok = FALSE]
                        ELSE [acc EXCEPT !.b[s] = Wrapper(b, s[2])]

\* h holds the values that PatchSites goes through.
Patches(h, V, b) ==
    /\ h \in [0..Len(BindingSites) -> V] /\ h[0] = [b |-> b, ok |-> TRUE]
    /\ \A i \in 1..Len(BindingSites) : /\ i - 1 \in 0..Len(BindingSites)
                                       /\ h[i] = PatchStep(b, h[i - 1], BindingSites[i])

\* An import keeps what each of its loads keeps.
LEMMA ImportIn ==
    ASSUME NEW V, NEW b \in V, NEW m \in Modules,
           \A v \in V, x \in {m} \cup Range(Imports[m]) : LoadModule(v, x) \in V
    PROVE  Import(b, m) \in V
<1> DEFINE s == Append(Imports[m], m)
           n == Len(s)
           Op(acc, x) == LoadModule(acc, x)
           G == [i \in 1..n |-> [v \in V |-> Op(v, s[i])]]
           base == b
           iter == CHOOSE f : f = [t \in SUBSET (DOMAIN s) |->
                                     IF t = {} THEN base ELSE Op(f[t \ {Max(t)}], s[Max(t)])]
<1>1. n \in Nat /\ DOMAIN s = 1..n /\ base \in V /\ \A v \in V, i \in 1..n : LoadModule(v, s[i]) \in V
  <2>1. Imports[m] \in Seq(Modules)
    BY ImportFacts
  <2>2. s \in Seq(Modules) /\ ToSet(s) = ToSet(Imports[m]) \cup {m}
    BY <2>1, AppendElement
  <2>3. n \in Nat /\ DOMAIN s = 1..n
    BY <2>2, LenProperties
  <2>4. \A i \in 1..n : s[i] \in {m} \cup Range(Imports[m])
    BY <2>2, <2>3 DEF ToSet, Range
  <2>5. QED
    BY <2>3, <2>4
<1>2. \A v \in V, i \in 1..n : Op(v, s[i]) \in V
  BY <1>1
<1>3. Import(b, m) = iter[DOMAIN s]
  BY DEF Import, FoldLeft, MapThenFoldSet
<1> HIDE DEF s, n, Op, base
<1>4. G \in [1..n -> [V -> V]] /\ \A v \in V, i \in 1..n : G[i][v] = Op(v, s[i])
  BY <1>2
<1> HIDE DEF G
<1>5. PICK f : Unfolds(f, V, base, n, G)
  BY <1>1, <1>4, FoldSolution
<1>6. ASSUME NEW t \in SUBSET (1..n), t # {} PROVE f[t] = Op(f[t \ {Max(t)}], s[Max(t)])
  <2>1. Max(t) \in 1..n /\ f[t \ {Max(t)}] \in V
    BY <1>1, <1>5, <1>6, MaxIn DEF Unfolds
  <2>2. QED
    BY <1>4, <1>5, <1>6, <2>1 DEF Unfolds
<1>7. f = [t \in SUBSET (1..n) |-> IF t = {} THEN base ELSE Op(f[t \ {Max(t)}], s[Max(t)])]
  BY <1>5, <1>6 DEF Unfolds
<1>8. iter = [t \in SUBSET (1..n) |-> IF t = {} THEN base ELSE Op(iter[t \ {Max(t)}], s[Max(t)])]
  BY <1>1, <1>7
<1> HIDE DEF iter
<1>9. iter[{}] = base /\ \A i \in 1..n : iter[1..i] = Op(iter[1..(i - 1)], s[i])
  <2>1. iter[{}] = base
    BY <1>8
  <2>2. ASSUME NEW i \in 1..n PROVE iter[1..i] = Op(iter[1..(i - 1)], s[i])
    <3>1. 1..i \in SUBSET (1..n) /\ 1..i # {} /\ Max(1..i) = i /\ (1..i) \ {Max(1..i)} = 1..(i - 1)
      BY <1>1, UpTo
    <3>2. QED
      BY <1>8, <3>1
  <2>3. QED
    BY <2>1, <2>2
<1>10. PICK h : RunsThrough(h, V, base, n, G) /\ h[n] = iter[1..n]
  <2>1. Iterates(iter, V, base, n, G)
    BY <1>4, <1>9 DEF Iterates
  <2>2. n \in Nat /\ base \in V /\ G \in [1..n -> [V -> V]]
    BY <1>1, <1>4
  <2>3. QED
    BY <2>1, <2>2, FoldRun
<1>11. h[n] \in V /\ h[n] = Import(b, m)
  <2>1. n \in 0..n
    BY <1>1
  <2>2. QED
    BY <1>1, <1>3, <1>10, <2>1 DEF RunsThrough
<1>12. QED
  BY <1>11

\* The imports of install() keep what each of them keeps.
LEMMA ImportSitesIn ==
    ASSUME NEW V, NEW b, [b |-> b, ok |-> TRUE] \in V, \A v \in V, s \in Sites : ImportStep(v, s) \in V
    PROVE  ImportSites(b) \in V
<1> DEFINE s == BindingSites
           n == Len(s)
           Op(acc, x) == ImportStep(acc, x)
           G == [i \in 1..n |-> [v \in V |-> Op(v, s[i])]]
           base == [b |-> b, ok |-> TRUE]
           iter == CHOOSE f : f = [t \in SUBSET (DOMAIN s) |->
                                     IF t = {} THEN base ELSE Op(f[t \ {Max(t)}], s[Max(t)])]
<1>1. n \in Nat /\ DOMAIN s = 1..n /\ base \in V /\ \A v \in V, i \in 1..n : ImportStep(v, s[i]) \in V
  <2>1. n \in Nat /\ DOMAIN s = 1..n /\ \A i \in 1..n : s[i] \in Sites
    BY AllSites, LenProperties, ElementOfSeq
  <2>2. QED
    BY <2>1
<1>2. \A v \in V, i \in 1..n : Op(v, s[i]) \in V
  BY <1>1
<1>3. ImportSites(b) = iter[DOMAIN s]
  BY DEF ImportSites, ImportStep, FoldLeft, MapThenFoldSet
<1> HIDE DEF s, n, Op, base
<1>4. G \in [1..n -> [V -> V]] /\ \A v \in V, i \in 1..n : G[i][v] = Op(v, s[i])
  BY <1>2
<1> HIDE DEF G
<1>5. PICK f : Unfolds(f, V, base, n, G)
  BY <1>1, <1>4, FoldSolution
<1>6. ASSUME NEW t \in SUBSET (1..n), t # {} PROVE f[t] = Op(f[t \ {Max(t)}], s[Max(t)])
  <2>1. Max(t) \in 1..n /\ f[t \ {Max(t)}] \in V
    BY <1>1, <1>5, <1>6, MaxIn DEF Unfolds
  <2>2. QED
    BY <1>4, <1>5, <1>6, <2>1 DEF Unfolds
<1>7. f = [t \in SUBSET (1..n) |-> IF t = {} THEN base ELSE Op(f[t \ {Max(t)}], s[Max(t)])]
  BY <1>5, <1>6 DEF Unfolds
<1>8. iter = [t \in SUBSET (1..n) |-> IF t = {} THEN base ELSE Op(iter[t \ {Max(t)}], s[Max(t)])]
  BY <1>1, <1>7
<1> HIDE DEF iter
<1>9. iter[{}] = base /\ \A i \in 1..n : iter[1..i] = Op(iter[1..(i - 1)], s[i])
  <2>1. iter[{}] = base
    BY <1>8
  <2>2. ASSUME NEW i \in 1..n PROVE iter[1..i] = Op(iter[1..(i - 1)], s[i])
    <3>1. 1..i \in SUBSET (1..n) /\ 1..i # {} /\ Max(1..i) = i /\ (1..i) \ {Max(1..i)} = 1..(i - 1)
      BY <1>1, UpTo
    <3>2. QED
      BY <1>8, <3>1
  <2>3. QED
    BY <2>1, <2>2
<1>10. PICK h : RunsThrough(h, V, base, n, G) /\ h[n] = iter[1..n]
  <2>1. Iterates(iter, V, base, n, G)
    BY <1>4, <1>9 DEF Iterates
  <2>2. n \in Nat /\ base \in V /\ G \in [1..n -> [V -> V]]
    BY <1>1, <1>4
  <2>3. QED
    BY <2>1, <2>2, FoldRun
<1>11. h[n] \in V /\ h[n] = ImportSites(b)
  <2>1. n \in 0..n
    BY <1>1
  <2>2. QED
    BY <1>1, <1>3, <1>10, <2>1 DEF RunsThrough
<1>12. QED
  BY <1>11

\* The patching of install() goes through the sites, one at a time.
LEMMA PatchRun ==
    ASSUME NEW V, NEW b, [b |-> b, ok |-> TRUE] \in V, \A v \in V, s \in Sites : PatchStep(b, v, s) \in V
    PROVE  \E h : Patches(h, V, b) /\ PatchSites(b) = h[Len(BindingSites)]
<1> DEFINE s == BindingSites
           n == Len(s)
           Op(acc, x) == PatchStep(b, acc, x)
           G == [i \in 1..n |-> [v \in V |-> Op(v, s[i])]]
           base == [b |-> b, ok |-> TRUE]
           iter == CHOOSE f : f = [t \in SUBSET (DOMAIN s) |->
                                     IF t = {} THEN base ELSE Op(f[t \ {Max(t)}], s[Max(t)])]
<1>1. n \in Nat /\ DOMAIN s = 1..n /\ base \in V /\ \A v \in V, i \in 1..n : PatchStep(b, v, s[i]) \in V
  <2>1. n \in Nat /\ DOMAIN s = 1..n /\ \A i \in 1..n : s[i] \in Sites
    BY AllSites, LenProperties, ElementOfSeq
  <2>2. QED
    BY <2>1
<1>2. \A v \in V, i \in 1..n : Op(v, s[i]) \in V
  BY <1>1
<1>3. PatchSites(b) = iter[DOMAIN s]
  BY DEF PatchSites, PatchStep, FoldLeft, MapThenFoldSet
<1> HIDE DEF s, n, Op, base
<1>4. G \in [1..n -> [V -> V]] /\ \A v \in V, i \in 1..n : G[i][v] = Op(v, s[i])
  BY <1>2
<1> HIDE DEF G
<1>5. PICK f : Unfolds(f, V, base, n, G)
  BY <1>1, <1>4, FoldSolution
<1>6. ASSUME NEW t \in SUBSET (1..n), t # {} PROVE f[t] = Op(f[t \ {Max(t)}], s[Max(t)])
  <2>1. Max(t) \in 1..n /\ f[t \ {Max(t)}] \in V
    BY <1>1, <1>5, <1>6, MaxIn DEF Unfolds
  <2>2. QED
    BY <1>4, <1>5, <1>6, <2>1 DEF Unfolds
<1>7. f = [t \in SUBSET (1..n) |-> IF t = {} THEN base ELSE Op(f[t \ {Max(t)}], s[Max(t)])]
  BY <1>5, <1>6 DEF Unfolds
<1>8. iter = [t \in SUBSET (1..n) |-> IF t = {} THEN base ELSE Op(iter[t \ {Max(t)}], s[Max(t)])]
  BY <1>1, <1>7
<1> HIDE DEF iter
<1>9. iter[{}] = base /\ \A i \in 1..n : iter[1..i] = Op(iter[1..(i - 1)], s[i])
  <2>1. iter[{}] = base
    BY <1>8
  <2>2. ASSUME NEW i \in 1..n PROVE iter[1..i] = Op(iter[1..(i - 1)], s[i])
    <3>1. 1..i \in SUBSET (1..n) /\ 1..i # {} /\ Max(1..i) = i /\ (1..i) \ {Max(1..i)} = 1..(i - 1)
      BY <1>1, UpTo
    <3>2. QED
      BY <1>8, <3>1
  <2>3. QED
    BY <2>1, <2>2
<1>10. PICK h : RunsThrough(h, V, base, n, G) /\ h[n] = iter[1..n]
  <2>1. Iterates(iter, V, base, n, G)
    BY <1>4, <1>9 DEF Iterates
  <2>2. n \in Nat /\ base \in V /\ G \in [1..n -> [V -> V]]
    BY <1>1, <1>4
  <2>3. QED
    BY <2>1, <2>2, FoldRun
<1>11. \A i \in 1..n : i - 1 \in 0..n /\ h[i - 1] \in V /\ h[i] = Op(h[i - 1], s[i])
  BY <1>1, <1>4, <1>10, UpTo DEF RunsThrough
<1>12. h \in [0..n -> V] /\ h[0] = base /\ PatchSites(b) = h[n]
  BY <1>1, <1>3, <1>10 DEF RunsThrough
<1>13. Patches(h, V, b)
  BY <1>11, <1>12 DEF s, n, Op, base, Patches
<1>14. QED
  BY <1>12, <1>13 DEF n, s

-----------------------------------------------------------------------------
(* The bindings.                                                           *)

\* A binding is absent, original or wrapped once; what cannot be imported is absent.
BindFits(b) == /\ b \in [Sites -> {Absent, 0, 1}]
               /\ \A s \in Sites : ~Importable(s[1]) => b[s] = Absent
Present(b) == \A h \in Hooks : b[Defining[h]] # Absent
AllWrapped(b) == \A s \in Sites : b[s] # Absent => b[s] = 1

LEMMA ImportableImports ==
    ASSUME NEW m \in Modules, Importable(m), NEW x \in {m} \cup Range(Imports[m])
    PROVE  Importable(x) /\ x \in Modules
<1>1. CASE x = m
  BY <1>1
<1>2. CASE x \in Range(Imports[m])
  <2>1. Range(Imports[x]) \subseteq Range(Imports[m])
    BY <1>2, ImportFacts
  <2>2. x \in Modules
    <3>1. Imports[m] \in Seq(Modules)
      BY ImportFacts
    <3>2. QED
      BY <1>2, <3>1, LenProperties, ElementOfSeq DEF Range
  <2>3. QED
    BY <1>2, <2>1, <2>2 DEF Importable
<1>3. QED
  BY <1>1, <1>2

\* An import adds names, copied from names that are there.
LEMMA ImportFits ==
    ASSUME NEW b, BindFits(b), NEW m \in Modules, Importable(m)
    PROVE  /\ BindFits(Import(b, m))
           /\ \A s \in Sites : b[s] # Absent => Import(b, m)[s] = b[s]
           /\ Present(b) /\ AllWrapped(b) => Present(Import(b, m)) /\ AllWrapped(Import(b, m))
<1> DEFINE V == {v \in [Sites -> {Absent, 0, 1}] :
                    /\ BindFits(v) /\ \A s \in Sites : b[s] # Absent => v[s] = b[s]
                    /\ Present(b) /\ AllWrapped(b) => AllWrapped(v)}
<1>1. b \in V
  BY DEF BindFits
<1>2. ASSUME NEW v \in V, NEW x \in {m} \cup Range(Imports[m]) PROVE LoadModule(v, x) \in V
  <2>1. PICK w : w = LoadModule(v, x)
    OBVIOUS
  <2>2. Importable(x)
    BY ImportableImports
  <2>3. ASSUME NEW s \in Sites
        PROVE  \/ w[s] = v[s]
               \/ s[1] = x /\ v[s] = Absent /\ s = Defining[s[2]] /\ w[s] = 0
               \/ s[1] = x /\ v[s] = Absent /\ s # Defining[s[2]] /\ w[s] = v[From(s)]
    BY <2>1 DEF LoadModule
  <2>4. \A s \in Sites : s # Defining[s[2]] => From(s) \in Sites
    BY SiteFacts
  <2>5. w \in [Sites -> {Absent, 0, 1}]
    <3>1. w = [s \in Sites |-> w[s]]
      BY <2>1 DEF LoadModule
    <3>2. \A s \in Sites : w[s] \in {Absent, 0, 1}
      BY <2>3, <2>4
    <3>3. QED
      BY <3>1, <3>2
  <2>6. BindFits(w)
    BY <2>2, <2>3, <2>5 DEF BindFits
  <2>7. \A s \in Sites : b[s] # Absent => w[s] = b[s]
    BY <2>3
  <2>8. ASSUME Present(b), AllWrapped(b) PROVE AllWrapped(w)
    <3>1. \A s \in Sites : v[s] = Absent => s # Defining[s[2]]
      <4>1. \A s \in Sites : s[2] \in Hooks
        BY SiteFacts
      <4>2. QED
        BY <2>8, <4>1 DEF Present
    <3>2. QED
      BY <2>3, <2>4, <2>8, <3>1 DEF AllWrapped
  <2>9. QED
    BY <2>1, <2>5, <2>6, <2>7, <2>8
<1> HIDE DEF V
<1>3. Import(b, m) \in V
  BY <1>1, <1>2, ImportIn
<1>4. /\ BindFits(Import(b, m)) /\ \A s \in Sites : b[s] # Absent => Import(b, m)[s] = b[s]
      /\ Present(b) /\ AllWrapped(b) => AllWrapped(Import(b, m))
  BY <1>3 DEF V
<1>5. Present(b) => Present(Import(b, m))
  <2>1. \A h \in Hooks : Defining[h] \in Sites
    BY SiteFacts
  <2>2. QED
    BY <1>4, <2>1 DEF Present
<1>6. QED
  BY <1>4, <1>5

\* The imports of install().
LEMMA ImportSitesFits ==
    ASSUME NEW b, BindFits(b)
    PROVE  BindFits(ImportSites(b).b) /\ ImportSites(b).ok \in BOOLEAN
<1> DEFINE V == {v \in [b : [Sites -> {Absent, 0, 1}], ok : BOOLEAN] : BindFits(v.b)}
<1>1. [b |-> b, ok |-> TRUE] \in V
  BY DEF BindFits
<1>2. ASSUME NEW v \in V, NEW s \in Sites PROVE ImportStep(v, s) \in V
  <2>1. CASE v.ok /\ Importable(s[1])
    <3>1. BindFits(Import(v.b, s[1]))
      BY <2>1, SiteFacts, ImportFits
    <3>2. Import(v.b, s[1]) \in [Sites -> {Absent, 0, 1}]
      BY <3>1 DEF BindFits
    <3>3. PICK w : w = Import(v.b, s[1])
      OBVIOUS
    <3>4. ImportStep(v, s) = [v EXCEPT !.b = w]
      BY <2>1, <3>3 DEF ImportStep
    <3>5. QED
      BY <3>1, <3>2, <3>3, <3>4
  <2>2. CASE v.ok /\ ~Importable(s[1])
    <3>1. PICK w \in BOOLEAN : w = (s \notin Range(Required))
      OBVIOUS
    <3>2. ImportStep(v, s) = [v EXCEPT !.ok = w]
      BY <2>2, <3>1 DEF ImportStep
    <3>3. QED
      BY <3>1, <3>2
  <2>3. CASE ~v.ok
    BY <2>3 DEF ImportStep
  <2>4. QED
    BY <2>1, <2>2, <2>3
<1> HIDE DEF V
<1>3. ImportSites(b) \in V
  BY <1>1, <1>2, ImportSitesIn
<1>4. QED
  BY <1>3 DEF V

\* The patching: whether or not it ends at a missing name, nothing is wrapped twice;
\* when it does not, everything that is there is wrapped.
LEMMA PatchSitesFits ==
    ASSUME NEW b, BindFits(b), Present(b)
    PROVE  /\ BindFits(PatchSites(b).b) /\ PatchSites(b).ok \in BOOLEAN /\ Present(PatchSites(b).b)
           /\ PatchSites(b).ok => AllWrapped(PatchSites(b).b)
<1> DEFINE V == {v \in [b : [Sites -> {Absent, 0, 1}], ok : BOOLEAN] : BindFits(v.b) /\ Present(v.b)}
           n == Len(BindingSites)
           Patched(v, i) == v.ok => \A j \in 1..i : Importable(BindingSites[j][1]) => v.b[BindingSites[j]] = 1
<1>1. [b |-> b, ok |-> TRUE] \in V
  BY DEF BindFits
<1>2. \A s \in Sites : Wrapper(b, s[2]) = 1
  <2> SUFFICES ASSUME NEW s \in Sites PROVE Wrapper(b, s[2]) = 1
    OBVIOUS
  <2>1. Defining[s[2]] \in Sites /\ b[Defining[s[2]]] # Absent
    BY SiteFacts DEF Present
  <2>2. b[Defining[s[2]]] = 0 \/ b[Defining[s[2]]] = 1
    BY <2>1 DEF BindFits
  <2>3. QED
    BY <2>2 DEF Wrapper
<1>3. ASSUME NEW v \in V, NEW s \in Sites
      PROVE  /\ PatchStep(b, v, s) \in V
             /\ PatchStep(b, v, s).ok => v.ok /\ (Importable(s[1]) => PatchStep(b, v, s).b[s] = 1)
             /\ \A x \in Sites : v.b[x] = 1 => PatchStep(b, v, s).b[x] = 1
  <2>1. CASE ~v.ok \/ ~Importable(s[1])
    BY <2>1 DEF PatchStep
  <2>2. CASE v.ok /\ Importable(s[1]) /\ v.b[s] = Absent
    <3>1. PatchStep(b, v, s) = [v EXCEPT !.ok = FALSE]
      BY <2>2 DEF PatchStep
    <3>2. QED
      BY <3>1
  <2>3. CASE v.ok /\ Importable(s[1]) /\ v.b[s] # Absent
    <3>1. PICK w : w = [v.b EXCEPT ![s] = 1]
      OBVIOUS
    <3>2. PatchStep(b, v, s) = [v EXCEPT !.b = w]
      BY <1>2, <2>3, <3>1 DEF PatchStep
    <3>3. w \in [Sites -> {Absent, 0, 1}] /\ w[s] = 1 /\ \A x \in Sites : w[x] = v.b[x] \/ w[x] = 1
      BY <3>1
    <3>4. BindFits(w)
      BY <2>3, <3>1, <3>3 DEF BindFits
    <3>5. Present(w)
      <4>1. Absent # 1
        BY DEF Absent
      <4>2. QED
        BY <3>3, <4>1, SiteFacts DEF Present
    <3>6. QED
      BY <2>3, <3>2, <3>3, <3>4, <3>5
  <2>4. QED
    BY <2>1, <2>2, <2>3
<1> HIDE DEF V
<1>4. PICK h : Patches(h, V, b) /\ PatchSites(b) = h[n]
  BY <1>1, <1>3, PatchRun
<1>5. n \in Nat /\ n \in 0..n /\ \A i \in 1..n : BindingSites[i] \in Sites
  BY AllSites, LenProperties, ElementOfSeq
<1> DEFINE T == {i \in 0..n : Patched(h[i], i)}
<1>6. Patched(h[0], 0)
  OBVIOUS
<1>7. ASSUME NEW i \in 1..n, Patched(h[i - 1], i - 1) PROVE Patched(h[i], i)
  <2>1. h[i - 1] \in V /\ h[i] = PatchStep(b, h[i - 1], BindingSites[i])
    BY <1>4 DEF Patches
  <2>2. \A j \in 1..i : j = i \/ j \in 1..(i - 1)
    OBVIOUS
  <2>3. \A j \in 1..i : BindingSites[j] \in Sites
    BY <1>5
  <2>4. /\ h[i].ok => h[i - 1].ok /\ (Importable(BindingSites[i][1]) => h[i].b[BindingSites[i]] = 1)
        /\ \A x \in Sites : h[i - 1].b[x] = 1 => h[i].b[x] = 1
    BY <1>3, <2>1, <2>3
  <2>5. QED
    BY <1>7, <2>2, <2>3, <2>4
<1> HIDE DEF Patched
<1>8. 0 \in T /\ \A i \in 1..n : i - 1 \in T => i \in T
  <2>1. 0 \in 0..n /\ \A i \in 1..n : i \in 0..n
    BY <1>5
  <2>2. QED
    BY <1>6, <1>7, <2>1
<1> HIDE DEF T
<1>9. n \in T
  BY <1>5, <1>8, StepsInduct
<1>10. Patched(h[n], n) /\ h[n] \in V
  BY <1>4, <1>5, <1>9 DEF T, Patches
<1>11. BindFits(h[n].b) /\ h[n].ok \in BOOLEAN /\ Present(h[n].b)
  BY <1>10 DEF V
<1>12. ASSUME h[n].ok PROVE AllWrapped(h[n].b)
  <2>1. \A s \in Sites : Importable(s[1]) => h[n].b[s] = 1
    <3> SUFFICES ASSUME NEW s \in Sites, Importable(s[1]) PROVE h[n].b[s] = 1
      OBVIOUS
    <3>1. PICK j \in 1..n : BindingSites[j] = s
      BY AllSites
    <3>2. QED
      BY <1>10, <1>12, <3>1 DEF Patched
  <2>2. QED
    BY <1>11, <2>1 DEF BindFits, AllWrapped
<1>13. QED
  BY <1>4, <1>11, <1>12

-----------------------------------------------------------------------------
(* The scales.                                                             *)

Table == [Keys -> Objects \cup {Dead}]
HeapOK == /\ heap \in [Objects -> Addresses \cup {Dead}]
          /\ storage \in [Addresses -> [value : {0, 1, 2}, version : 0..MaxVersion]]

\* A verdict on a live object is about the address it is at, and if that was not written
\* since, the value there is 1.
VerdictsFit(table) ==
    \A a \in Addresses, n \in 0..MaxVersion :
        table[<<a, n>>] # Dead /\ Live(table[<<a, n>>]) =>
            /\ heap[table[<<a, n>>]] = a /\ n <= storage[a].version
            /\ n = storage[a].version => storage[a].value = 1

WarmFits(table) == \A o \in warm : Live(o) /\ table[KeyOf(o)] = o

ScalesFit == HeapOK /\ validated \in Table /\ VerdictsFit(validated) /\ warm \subseteq Objects /\ WarmFits(validated)

LEMMA ScaleKeys ==
    ASSUME HeapOK, NEW o \in Objects, Live(o)
    PROVE  /\ heap[o] \in Addresses /\ storage[heap[o]].version \in 0..MaxVersion
           /\ KeyOf(o) = <<heap[o], storage[heap[o]].version>> /\ KeyOf(o) \in Keys
BY DEF HeapOK, Live, KeyOf, Keys

Checked(r, table, scale, capturing) ==
    /\ r.table \in Table /\ VerdictsFit(r.table) /\ r.ok \in BOOLEAN /\ r.sync \in BOOLEAN
    /\ capturing => ~r.sync
    /\ r.ok => /\ scale # "other"
               /\ scale \in Objects => storage[heap[scale]].value = 1 /\ r.table[KeyOf(scale)] = scale
    /\ \A key \in Keys : (scale \in Objects => key # KeyOf(scale)) => r.table[key] = table[key]
    /\ scale \in Objects /\ table[KeyOf(scale)] = scale => r.ok /\ r.table = table
    /\ scale = "one" => r.ok /\ r.table = table
    /\ capturing /\ scale \in Objects =>
          \A o \in Objects : Live(o) /\ table[KeyOf(scale)] = o => r.table = table

\* One check of a scale: what passes is 1 and has a verdict, nothing is read under
\* capture, other verdicts are left alone, and so is one that is there already.
LEMMA AssertFits ==
    ASSUME HeapOK, NEW table \in Table, VerdictsFit(table), NEW scale \in Scales, NEW capturing \in BOOLEAN,
           NEW r, r = AssertUnitScale(table, scale, capturing)
    PROVE  Checked(r, table, scale, capturing)
<1>1. CASE scale = "one"
  <2>1. r.ok = TRUE /\ r.sync = FALSE /\ r.table = table /\ scale \notin Objects
    BY <1>1, OverlayAssumption DEF AssertUnitScale
  <2>2. r.ok \in BOOLEAN /\ r.sync \in BOOLEAN /\ scale # "other"
    BY <1>1, <2>1
  <2>3. QED
    BY <1>1, <2>1, <2>2 DEF Checked
<1>2. CASE scale = "other"
  <2>1. r.ok = FALSE /\ r.sync = FALSE /\ r.table = table /\ scale \notin Objects
    BY <1>2, OverlayAssumption DEF AssertUnitScale
  <2>2. r.ok \in BOOLEAN /\ r.sync \in BOOLEAN /\ scale # "one"
    BY <1>2, <2>1
  <2>3. QED
    BY <1>2, <2>1, <2>2 DEF Checked
<1>3. CASE scale \in Objects
  <2> DEFINE entry == table[KeyOf(scale)]
             known == entry # Dead /\ Live(entry)
  <2>1. /\ scale # "one" /\ scale # "other" /\ scale # Dead /\ Live(scale) /\ KeyOf(scale) \in Keys
        /\ heap[scale] \in Addresses /\ \A o \in Objects : o # Dead
        /\ storage[heap[scale]].version \in 0..MaxVersion
        /\ KeyOf(scale) = <<heap[scale], storage[heap[scale]].version>>
    BY <1>3, OverlayAssumption, ScaleKeys DEF Scales, Dead
  <2>2. entry \in Objects \cup {Dead}
    BY <2>1 DEF Table
  <2>3. PICK kept : kept = IF known THEN table ELSE [table EXCEPT ![KeyOf(scale)] = Dead]
    OBVIOUS
  <2>4. r = IF known /\ entry = scale THEN [ok |-> TRUE, sync |-> FALSE, table |-> table]
            ELSE IF capturing THEN [ok |-> FALSE, sync |-> FALSE, table |-> kept]
            ELSE IF storage[heap[scale]].value # 1 THEN [ok |-> FALSE, sync |-> TRUE, table |-> kept]
            ELSE [ok |-> TRUE, sync |-> TRUE, table |-> [kept EXCEPT ![KeyOf(scale)] = scale]]
    BY <2>1, <2>3 DEF AssertUnitScale
  <2>5. known => entry \in Objects
    BY <2>2
  <2>6. /\ kept \in Table /\ \A key \in Keys : key # KeyOf(scale) => kept[key] = table[key]
        /\ known => kept = table
        /\ ~known => kept[KeyOf(scale)] = Dead
    BY <2>1, <2>3 DEF Table
  <2>7. VerdictsFit(kept)
    <3> SUFFICES ASSUME NEW a \in Addresses, NEW n \in 0..MaxVersion,
                        kept[<<a, n>>] # Dead, Live(kept[<<a, n>>])
                 PROVE  kept[<<a, n>>] = table[<<a, n>>]
      BY DEF VerdictsFit
    <3>1. <<a, n>> \in Keys
      BY DEF Keys
    <3>2. QED
      BY <2>6, <3>1
  <2>8. CASE known /\ entry = scale
    <3>1. r.ok /\ ~r.sync /\ r.table = table /\ r.ok \in BOOLEAN /\ r.sync \in BOOLEAN
      BY <2>4, <2>8
    <3>2. storage[heap[scale]].value = 1
      BY <2>1, <2>8 DEF VerdictsFit
    <3>3. QED
      BY <2>1, <2>8, <3>1, <3>2 DEF Checked
  <2>9. CASE ~(known /\ entry = scale) /\ (capturing \/ storage[heap[scale]].value # 1)
    <3>1. r.ok = FALSE /\ r.sync \in BOOLEAN /\ (capturing => ~r.sync) /\ r.table = kept
      BY <2>4, <2>9
    <3>2. entry # scale
      BY <2>1, <2>9
    <3>3. \A o \in Objects : Live(o) /\ entry = o => kept = table
      BY <2>1, <2>6
    <3>4. /\ r.table \in Table /\ VerdictsFit(r.table) /\ r.ok \in BOOLEAN /\ r.sync \in BOOLEAN
          /\ \A key \in Keys : key # KeyOf(scale) => r.table[key] = table[key]
      BY <2>6, <2>7, <3>1
    <3>5. \A o \in Objects : Live(o) /\ table[KeyOf(scale)] = o => r.table = table
      BY <3>1, <3>3
    <3>6. ~r.ok /\ table[KeyOf(scale)] # scale
      BY <3>1, <3>2
    <3> HIDE DEF entry, known
    <3>7. QED
      BY <1>3, <2>1, <3>1, <3>4, <3>5, <3>6 DEF Checked
  <2>10. CASE ~(known /\ entry = scale) /\ ~capturing /\ storage[heap[scale]].value = 1
    <3>1. PICK new : new = [kept EXCEPT ![KeyOf(scale)] = scale]
      OBVIOUS
    <3>2. r.ok = TRUE /\ r.sync = TRUE /\ r.table = new
      BY <2>4, <2>10, <3>1
    <3>3. /\ new \in Table /\ new[KeyOf(scale)] = scale
          /\ \A key \in Keys : key # KeyOf(scale) => new[key] = kept[key]
      <4>1. kept \in [Keys -> Objects \cup {Dead}] /\ KeyOf(scale) \in Keys /\ scale \in Objects
        BY <1>3, <2>1, <2>6 DEF Table
      <4>2. QED
        BY <3>1, <4>1 DEF Table
    <3>4. VerdictsFit(new)
      <4> SUFFICES ASSUME NEW a \in Addresses, NEW n \in 0..MaxVersion,
                          new[<<a, n>>] # Dead, Live(new[<<a, n>>])
                   PROVE  /\ heap[new[<<a, n>>]] = a /\ n <= storage[a].version
                          /\ n = storage[a].version => storage[a].value = 1
        BY DEF VerdictsFit
      <4>1. <<a, n>> \in Keys
        BY DEF Keys
      <4>2. CASE <<a, n>> = KeyOf(scale)
        <5>1. a = heap[scale] /\ n = storage[heap[scale]].version /\ new[<<a, n>>] = scale
          BY <2>1, <3>3, <4>2
        <5>2. QED
          BY <2>10, <5>1 DEF HeapOK
      <4>3. CASE <<a, n>> # KeyOf(scale)
        <5>1. new[<<a, n>>] = kept[<<a, n>>]
          BY <3>3, <4>1, <4>3
        <5>2. QED
          BY <2>7, <5>1 DEF VerdictsFit
      <4>4. QED
        BY <4>2, <4>3
    <3>5. entry # scale
      BY <2>1, <2>10
    <3>6. /\ r.table \in Table /\ VerdictsFit(r.table) /\ r.ok \in BOOLEAN /\ r.sync \in BOOLEAN
          /\ \A key \in Keys : key # KeyOf(scale) => r.table[key] = table[key]
      BY <2>6, <3>2, <3>3, <3>4
    <3>7. r.ok /\ ~capturing /\ storage[heap[scale]].value = 1 /\ r.table[KeyOf(scale)] = scale /\ table[KeyOf(scale)] # scale
      BY <2>10, <3>2, <3>3, <3>5
    <3> HIDE DEF entry, known
    <3>8. QED
      BY <1>3, <2>1, <3>6, <3>7 DEF Checked
  <2>11. QED
    BY <2>8, <2>9, <2>10
<1>4. QED
  BY <1>1, <1>2, <1>3 DEF Scales

Approved(r, k, v, capturing, fault) ==
    /\ r.table \in Table /\ VerdictsFit(r.table) /\ r.ok \in BOOLEAN /\ r.sync \in BOOLEAN
    /\ capturing => ~r.sync /\ WarmFits(r.table)
    /\ r.ok => /\ k # "other" /\ v # "other"
               /\ \A x \in {k, v} \cap Objects : storage[heap[x]].value = 1
    /\ r.ok /\ (\A x, y \in {k, v} \cap Objects : heap[x] = heap[y] => x = y) =>
          \A x \in {k, v} \cap Objects : r.table[KeyOf(x)] = x
    /\ \A key \in Keys : (\A x \in {k, v} \cap Objects : key # KeyOf(x)) => r.table[key] = validated[key]
    /\ /\ {k, v} \cap Objects \subseteq warm /\ fault = "none"
       /\ k # "other" /\ v # "other"
       => r.ok

\* The checks of a call: what passes is 1, and has a verdict unless another object of the
\* same storage was checked too; under capture no verdict of a warm object is lost.
LEMMA ApproveFits ==
    ASSUME ScalesFit, NEW k \in Scales, NEW v \in Scales, NEW capturing \in BOOLEAN, NEW fault,
           NEW r, r = Approve(k, v, capturing, fault)
    PROVE  Approved(r, k, v, capturing, fault)
<1>1. PICK first : first = AssertUnitScale(validated, k, capturing)
  OBVIOUS
<1>2. PICK second : second = AssertUnitScale(first.table, v, capturing)
  OBVIOUS
<1>3. /\ HeapOK /\ validated \in Table /\ VerdictsFit(validated) /\ WarmFits(validated) /\ warm \subseteq Objects
      /\ \A x \in {k, v} : x \in Objects => Live(x)
  BY OverlayAssumption DEF ScalesFit, Scales
<1>4. /\ first.table \in Table /\ VerdictsFit(first.table) /\ first.ok \in BOOLEAN /\ first.sync \in BOOLEAN
      /\ capturing => ~first.sync
      /\ first.ok => /\ k # "other"
                     /\ k \in Objects => storage[heap[k]].value = 1 /\ first.table[KeyOf(k)] = k
      /\ \A key \in Keys : (k \in Objects => key # KeyOf(k)) => first.table[key] = validated[key]
      /\ k \in Objects /\ validated[KeyOf(k)] = k => first.ok /\ first.table = validated
      /\ k = "one" => first.ok /\ first.table = validated
      /\ capturing /\ k \in Objects =>
            \A o \in Objects : Live(o) /\ validated[KeyOf(k)] = o => first.table = validated
  <2>1. Checked(first, validated, k, capturing)
    BY <1>1, <1>3, AssertFits
  <2>2. QED
    BY <2>1 DEF Checked
<1>5. /\ second.table \in Table /\ VerdictsFit(second.table) /\ second.ok \in BOOLEAN /\ second.sync \in BOOLEAN
      /\ capturing => ~second.sync
      /\ second.ok => /\ v # "other"
                      /\ v \in Objects => storage[heap[v]].value = 1 /\ second.table[KeyOf(v)] = v
      /\ \A key \in Keys : (v \in Objects => key # KeyOf(v)) => second.table[key] = first.table[key]
      /\ v \in Objects /\ first.table[KeyOf(v)] = v => second.ok /\ second.table = first.table
      /\ v = "one" => second.ok /\ second.table = first.table
      /\ capturing /\ v \in Objects =>
            \A o \in Objects : Live(o) /\ first.table[KeyOf(v)] = o => second.table = first.table
  <2>1. Checked(second, first.table, v, capturing)
    BY <1>2, <1>3, <1>4, AssertFits
  <2>2. QED
    BY <2>1 DEF Checked
<1>6. \A o \in Objects : Live(o) => KeyOf(o) \in Keys /\ KeyOf(o) = <<heap[o], storage[heap[o]].version>>
  BY <1>3, ScaleKeys
<1>7. capturing => WarmFits(first.table)
  <2> SUFFICES ASSUME capturing, NEW o \in warm PROVE Live(o) /\ first.table[KeyOf(o)] = o
    BY DEF WarmFits
  <2>1. o \in Objects /\ Live(o) /\ validated[KeyOf(o)] = o /\ KeyOf(o) \in Keys
    BY <1>3, <1>6 DEF WarmFits
  <2>2. CASE k \in Objects /\ KeyOf(o) = KeyOf(k)
    BY <1>4, <2>1, <2>2
  <2>3. CASE ~(k \in Objects /\ KeyOf(o) = KeyOf(k))
    BY <1>4, <2>1, <2>3
  <2>4. QED
    BY <2>2, <2>3
<1>8. capturing => WarmFits(second.table)
  <2> SUFFICES ASSUME capturing, NEW o \in warm PROVE Live(o) /\ second.table[KeyOf(o)] = o
    BY DEF WarmFits
  <2>1. o \in Objects /\ Live(o) /\ first.table[KeyOf(o)] = o /\ KeyOf(o) \in Keys
    BY <1>3, <1>6, <1>7 DEF WarmFits
  <2>2. CASE v \in Objects /\ KeyOf(o) = KeyOf(v)
    BY <1>5, <2>1, <2>2
  <2>3. CASE ~(v \in Objects /\ KeyOf(o) = KeyOf(v))
    BY <1>5, <2>1, <2>3
  <2>4. QED
    BY <2>2, <2>3
<1>9. CASE fault = "argument"
  <2>1. r.ok = FALSE /\ r.sync = FALSE /\ r.table = validated
    BY <1>9 DEF Approve
  <2>2. r.ok \in BOOLEAN /\ r.sync \in BOOLEAN /\ fault # "none"
    BY <1>9, <2>1
  <2>3. QED
    BY <1>3, <2>1, <2>2 DEF Approved
<1>10. CASE fault # "argument" /\ ~first.ok
  <2>1. r = first
    BY <1>1, <1>10 DEF Approve
  <2>2. \A key \in Keys : (\A x \in {k, v} \cap Objects : key # KeyOf(x)) => first.table[key] = validated[key]
    BY <1>4
  <2>3. ~({k, v} \cap Objects \subseteq warm /\ k # "other")
    BY <1>3, <1>4, <1>10 DEF WarmFits, Scales
  <2>4. QED
    BY <1>4, <1>7, <1>10, <2>1, <2>2, <2>3 DEF Approved
<1>11. CASE fault # "argument" /\ first.ok
  <2>1. PICK ok \in BOOLEAN : ok = (second.ok /\ fault = "none")
    OBVIOUS
  <2>2. PICK sync \in BOOLEAN : sync = (first.sync \/ (first.ok /\ second.sync))
    OBVIOUS
  <2>3. r = [ok |-> ok, sync |-> sync, table |-> second.table]
    BY <1>1, <1>2, <1>11, <2>1, <2>2 DEF Approve
  <2>4. r.ok = ok /\ r.sync = sync /\ r.table = second.table
    BY <2>3
  <2>5. capturing => ~sync
    BY <1>4, <1>5, <2>2
  <2>6. ok => /\ k # "other" /\ v # "other"
              /\ \A x \in {k, v} \cap Objects : storage[heap[x]].value = 1
    BY <1>4, <1>5, <1>11, <2>1
  <2>7. ASSUME ok, \A x, y \in {k, v} \cap Objects : heap[x] = heap[y] => x = y, NEW x \in {k, v} \cap Objects
        PROVE  second.table[KeyOf(x)] = x
    <3>1. CASE x = v
      BY <1>5, <2>1, <2>7, <3>1
    <3>2. CASE x = k /\ x # v
      <4>1. KeyOf(k) \in Keys /\ KeyOf(k) = <<heap[k], storage[heap[k]].version>> /\ first.table[KeyOf(k)] = k
        BY <1>3, <1>4, <1>6, <1>11, <2>7, <3>2
      <4>2. v \in Objects => KeyOf(v) # KeyOf(k)
        BY <1>3, <1>6, <2>7, <3>2, <4>1
      <4>3. QED
        BY <1>5, <3>2, <4>1, <4>2
    <3>3. QED
      BY <2>7, <3>1, <3>2
  <2>8. \A key \in Keys : (\A x \in {k, v} \cap Objects : key # KeyOf(x)) => second.table[key] = validated[key]
    BY <1>4, <1>5
  <2>9. ASSUME {k, v} \cap Objects \subseteq warm, fault = "none", k # "other", v # "other" PROVE ok
    <3>1. first.table = validated
      BY <1>3, <1>4, <2>9 DEF WarmFits, Scales
    <3>2. second.ok
      BY <1>3, <1>5, <2>9, <3>1 DEF WarmFits, Scales
    <3>3. QED
      BY <2>1, <2>9, <3>2
  <2>10. QED
    BY <1>5, <1>8, <2>4, <2>5, <2>6, <2>7, <2>8, <2>9 DEF Approved
<1>12. QED
  BY <1>4, <1>9, <1>10, <1>11

-----------------------------------------------------------------------------
(* The invariant of the overlay.                                           *)

PhaseFits ==
    /\ phase \in {"starting", "installed", "refused", "serving"}
    /\ BindFits(bindings)
    /\ phase \in {"installed", "serving"} => Present(bindings) /\ AllWrapped(bindings)
    /\ phase # "serving" => last = NoCall

LastFits == PoolsReachTheirKernels /\ ServedScalesAreUnit /\ CaptureIsSafe

OverlayInv == PhaseFits /\ ScalesFit /\ LastFits

LEMMA OverlayInit == Init => OverlayInv
<1> SUFFICES ASSUME Init PROVE OverlayInv
  OBVIOUS
<1>1. PhaseFits
  BY DEF Init, PhaseFits, BindFits
<1>2. ScalesFit
  <2>1. /\ heap = [o \in Objects |-> Dead] /\ storage = [a \in Addresses |-> [value |-> 0, version |-> 0]]
        /\ validated = [key \in Keys |-> Dead] /\ warm = {}
    BY DEF Init
  <2>2. HeapOK
    BY <2>1, OverlayAssumption DEF HeapOK
  <2>3. validated \in Table /\ \A a \in Addresses, n \in 0..MaxVersion : validated[<<a, n>>] = Dead
    BY <2>1 DEF Table, Keys
  <2>4. QED
    BY <2>1, <2>2, <2>3 DEF ScalesFit, VerdictsFit, WarmFits
<1>3. LastFits
  BY DEF Init, LastFits, PoolsReachTheirKernels, ServedScalesAreUnit, CaptureIsSafe
<1>4. QED
  BY <1>1, <1>2, <1>3 DEF OverlayInv

LEMMA ScalesStutter ==
    ASSUME ScalesFit, UNCHANGED scaleVars
    PROVE  ScalesFit'
<1>1. UNCHANGED <<heap, storage, validated, warm>>
  BY DEF scaleVars
<1>2. HeapOK' /\ validated' \in Table /\ warm' \subseteq Objects
  BY <1>1 DEF ScalesFit, HeapOK
<1>3. VerdictsFit(validated)'
  BY <1>1 DEF ScalesFit, VerdictsFit, Live
<1>4. WarmFits(validated)'
  BY <1>1 DEF ScalesFit, WarmFits, Live, KeyOf
<1>5. QED
  BY <1>1, <1>2, <1>3, <1>4 DEF ScalesFit

LEMMA PhaseStutter ==
    ASSUME PhaseFits, UNCHANGED <<bindings, broken>>, phase' = phase, phase # "serving" => last' = last
    PROVE  PhaseFits'
BY DEF PhaseFits, BindFits, Importable, Present, AllWrapped

LEMMA LoadStep ==
    ASSUME OverlayInv, NEW m \in Early, Load(m)
    PROVE  OverlayInv'
<1>1. /\ m \in Modules /\ Importable(m) /\ bindings' = Import(bindings, m) /\ phase # "serving"
      /\ UNCHANGED <<broken, phase, pool, scaleVars, last>>
  BY EarlyAssumption DEF Load
<1>2. BindFits(bindings) /\ last = NoCall
  BY <1>1 DEF OverlayInv, PhaseFits
<1>3. /\ BindFits(Import(bindings, m))
      /\ Present(bindings) /\ AllWrapped(bindings) =>
            Present(Import(bindings, m)) /\ AllWrapped(Import(bindings, m))
  BY <1>1, <1>2, ImportFits
<1>4. PhaseFits'
  BY <1>1, <1>2, <1>3 DEF OverlayInv, PhaseFits, BindFits, Importable, Present, AllWrapped
<1>5. LastFits'
  BY <1>1, <1>2 DEF LastFits, PoolsReachTheirKernels, ServedScalesAreUnit, CaptureIsSafe
<1>6. QED
  BY <1>1, <1>4, <1>5, ScalesStutter DEF OverlayInv

LEMMA InstallStep ==
    ASSUME OverlayInv, Install
    PROVE  OverlayInv'
<1>1. PICK brought : brought = ImportSites(bindings)
  OBVIOUS
<1>2. PICK patched : patched = PatchSites(brought.b)
  OBVIOUS
<1>3. /\ phase # "serving" /\ UNCHANGED <<broken, pool, scaleVars, last>>
      /\ \/ bindings' = brought.b /\ phase' = "refused"
         \/ /\ \A h \in Hooks : brought.b[Defining[h]] # Absent
            /\ bindings' = patched.b /\ phase' = IF patched.ok THEN "installed" ELSE "refused"
  BY <1>1, <1>2 DEF Install
<1>4. BindFits(bindings) /\ last = NoCall
  BY <1>3 DEF OverlayInv, PhaseFits
<1>5. BindFits(brought.b)
  BY <1>1, <1>4, ImportSitesFits
<1>6. /\ phase' \in {"installed", "refused"} /\ BindFits(bindings')
      /\ phase' = "installed" => Present(bindings') /\ AllWrapped(bindings')
  <2>1. CASE bindings' = brought.b /\ phase' = "refused"
    BY <1>5, <2>1
  <2>2. CASE /\ \A h \in Hooks : brought.b[Defining[h]] # Absent
             /\ bindings' = patched.b /\ phase' = IF patched.ok THEN "installed" ELSE "refused"
    <3>1. Present(brought.b)
      BY <2>2 DEF Present
    <3>2. /\ BindFits(patched.b) /\ patched.ok \in BOOLEAN /\ Present(patched.b)
          /\ patched.ok => AllWrapped(patched.b)
      BY <1>2, <1>5, <3>1, PatchSitesFits
    <3>3. BindFits(bindings') /\ Present(bindings')
      BY <2>2, <3>2
    <3>4. CASE patched.ok = TRUE
      BY <2>2, <3>2, <3>3, <3>4
    <3>5. CASE patched.ok = FALSE
      BY <2>2, <3>3, <3>5
    <3>6. QED
      BY <3>2, <3>4, <3>5
  <2>3. QED
    BY <1>3, <2>1, <2>2
<1>7. PhaseFits'
  BY <1>3, <1>4, <1>6 DEF PhaseFits, BindFits, Importable, Present, AllWrapped
<1>8. LastFits'
  BY <1>3, <1>4 DEF LastFits, PoolsReachTheirKernels, ServedScalesAreUnit, CaptureIsSafe
<1>9. QED
  BY <1>3, <1>7, <1>8, ScalesStutter DEF OverlayInv

LEMMA SelectStep ==
    ASSUME OverlayInv, NEW dtype, Select(dtype)
    PROVE  OverlayInv'
<1>1. phase = "installed" /\ phase' = "serving" /\ UNCHANGED <<broken, bindings, scaleVars, last>>
  BY DEF Select
<1>2. last = NoCall
  BY <1>1 DEF OverlayInv, PhaseFits
<1>3. PhaseFits'
  BY <1>1 DEF OverlayInv, PhaseFits, BindFits, Importable, Present, AllWrapped
<1>4. LastFits'
  BY <1>1, <1>2 DEF LastFits, PoolsReachTheirKernels, ServedScalesAreUnit, CaptureIsSafe
<1>5. QED
  BY <1>1, <1>3, <1>4, ScalesStutter DEF OverlayInv

\* The steps between the calls.
LEMMA AllocStep ==
    ASSUME ScalesFit, NEW o \in Objects, NEW a \in Addresses, NEW x \in {1, 2}, Alloc(o, a, x)
    PROVE  ScalesFit'
<1>1. /\ ~Live(o) /\ a \notin Taken /\ heap' = [heap EXCEPT ![o] = a]
      /\ storage' = [storage EXCEPT ![a] = [value |-> x, version |-> 0]]
      /\ validated' = [key \in Keys |-> IF validated[key] = o THEN Dead ELSE validated[key]] /\ warm' = warm \ {o}
  BY DEF Alloc
<1>2. /\ heap \in [Objects -> Addresses \cup {Dead}] /\ validated \in [Keys -> Objects \cup {Dead}]
      /\ storage \in [Addresses -> [value : {0, 1, 2}, version : 0..MaxVersion]]
      /\ VerdictsFit(validated) /\ warm \subseteq Objects /\ WarmFits(validated) /\ HeapOK
  BY DEF ScalesFit, HeapOK, Table
<1>3. HeapOK'
  <2>1. 0 \in 0..MaxVersion
    BY OverlayAssumption
  <2>2. QED
    BY <1>1, <1>2, <2>1 DEF HeapOK
<1>4. validated' \in Table /\ warm' \subseteq Objects
  BY <1>1, <1>2 DEF Table
<1>5. ASSUME NEW q \in Objects, q # o, Live(q)'
      PROVE  Live(q) /\ heap'[q] = heap[q] /\ heap[q] # a /\ storage'[heap[q]] = storage[heap[q]] /\ KeyOf(q)' = KeyOf(q)
  <2>1. heap'[q] = heap[q] /\ Live(q)
    BY <1>1, <1>2, <1>5 DEF Live
  <2>2. heap[q] # a /\ heap[q] \in Addresses
    BY <1>1, <1>2, <2>1 DEF Taken, Live
  <2>3. storage'[heap[q]] = storage[heap[q]]
    BY <1>1, <1>2, <2>2
  <2>4. QED
    BY <2>1, <2>2, <2>3 DEF KeyOf
<1>6. VerdictsFit(validated)'
  <2> SUFFICES ASSUME NEW b \in Addresses, NEW n \in 0..MaxVersion, validated'[<<b, n>>] # Dead, Live(validated[<<b, n>>])'
               PROVE  /\ heap'[validated'[<<b, n>>]] = b /\ n <= storage'[b].version
                      /\ n = storage'[b].version => storage'[b].value = 1
    BY DEF VerdictsFit
  <2>1. <<b, n>> \in Keys
    BY DEF Keys
  <2>2. PICK q : q = validated'[<<b, n>>]
    OBVIOUS
  <2>3. q = validated[<<b, n>>] /\ q # o /\ q \in Objects /\ q # Dead
    BY <1>1, <1>2, <2>1, <2>2
  <2>4. Live(q)'
    BY <2>2
  <2>5. Live(q) /\ heap'[q] = heap[q] /\ storage'[heap[q]] = storage[heap[q]]
    BY <1>5, <2>3, <2>4
  <2>6. heap[q] = b /\ n <= storage[b].version /\ (n = storage[b].version => storage[b].value = 1)
    BY <1>2, <2>3, <2>5 DEF VerdictsFit
  <2>7. QED
    BY <2>2, <2>5, <2>6
<1>7. WarmFits(validated)'
  <2> SUFFICES ASSUME NEW q \in warm', TRUE PROVE Live(q)' /\ validated'[KeyOf(q)'] = q
    BY DEF WarmFits
  <2>1. q \in warm /\ q \in Objects /\ q # o /\ Live(q) /\ validated[KeyOf(q)] = q
    BY <1>1, <1>2 DEF WarmFits
  <2>2. Live(q)'
    BY <1>1, <1>2, <2>1 DEF Live
  <2>3. KeyOf(q)' = KeyOf(q) /\ KeyOf(q) \in Keys
    BY <1>2, <1>5, <2>1, <2>2, ScaleKeys
  <2>4. QED
    BY <1>1, <2>1, <2>2, <2>3
<1>8. QED
  BY <1>3, <1>4, <1>6, <1>7 DEF ScalesFit

LEMMA ViewStep ==
    ASSUME ScalesFit, NEW o \in Objects, NEW p \in Objects, View(o, p)
    PROVE  ScalesFit'
<1>1. /\ ~Live(o) /\ Live(p) /\ heap' = [heap EXCEPT ![o] = heap[p]] /\ storage' = storage /\ warm' = warm
      /\ validated' = [key \in Keys |-> IF validated[key] = o THEN Dead ELSE validated[key]]
  BY DEF View
<1>2. /\ heap \in [Objects -> Addresses \cup {Dead}] /\ validated \in [Keys -> Objects \cup {Dead}]
      /\ VerdictsFit(validated) /\ warm \subseteq Objects /\ WarmFits(validated) /\ HeapOK
  BY DEF ScalesFit, HeapOK, Table
<1>3. HeapOK'
  BY <1>1, <1>2 DEF HeapOK
<1>4. validated' \in Table /\ warm' \subseteq Objects
  BY <1>1, <1>2 DEF Table
<1>5. \A q \in Objects : q # o => heap'[q] = heap[q] /\ (Live(q)' <=> Live(q)) /\ KeyOf(q)' = KeyOf(q)
  BY <1>1, <1>2 DEF Live, KeyOf
<1>6. VerdictsFit(validated)'
  <2> SUFFICES ASSUME NEW b \in Addresses, NEW n \in 0..MaxVersion, validated'[<<b, n>>] # Dead, Live(validated[<<b, n>>])'
               PROVE  /\ heap'[validated'[<<b, n>>]] = b /\ n <= storage'[b].version
                      /\ n = storage'[b].version => storage'[b].value = 1
    BY DEF VerdictsFit
  <2>1. <<b, n>> \in Keys
    BY DEF Keys
  <2>2. PICK q : q = validated'[<<b, n>>]
    OBVIOUS
  <2>3. q = validated[<<b, n>>] /\ q # o /\ q \in Objects /\ q # Dead
    BY <1>1, <1>2, <2>1, <2>2
  <2>4. Live(q)'
    BY <2>2
  <2>5. Live(q) /\ heap'[q] = heap[q]
    BY <1>5, <2>3, <2>4
  <2>6. heap[q] = b /\ n <= storage[b].version /\ (n = storage[b].version => storage[b].value = 1)
    BY <1>2, <2>3, <2>5 DEF VerdictsFit
  <2>7. QED
    BY <1>1, <2>2, <2>5, <2>6
<1>7. WarmFits(validated)'
  <2> SUFFICES ASSUME NEW q \in warm PROVE Live(q)' /\ validated'[KeyOf(q)'] = q
    BY <1>1 DEF WarmFits
  <2>1. q \in Objects /\ q # o /\ Live(q) /\ validated[KeyOf(q)] = q
    BY <1>1, <1>2 DEF WarmFits
  <2>2. Live(q)' /\ KeyOf(q)' = KeyOf(q) /\ KeyOf(q) \in Keys
    BY <1>2, <1>5, <2>1, ScaleKeys
  <2>3. QED
    BY <1>1, <2>1, <2>2
<1>8. QED
  BY <1>3, <1>4, <1>6, <1>7 DEF ScalesFit

LEMMA FreeStep ==
    ASSUME ScalesFit, NEW o \in Objects, Free(o)
    PROVE  ScalesFit'
<1>1. heap' = [heap EXCEPT ![o] = Dead] /\ warm' = warm \ {o} /\ storage' = storage /\ validated' = validated
  BY DEF Free
<1>2. /\ heap \in [Objects -> Addresses \cup {Dead}] /\ validated \in [Keys -> Objects \cup {Dead}]
      /\ VerdictsFit(validated) /\ warm \subseteq Objects /\ WarmFits(validated)
  BY DEF ScalesFit, HeapOK, Table
<1>3. HeapOK' /\ validated' \in Table /\ warm' \subseteq Objects
  BY <1>1 DEF ScalesFit, HeapOK
<1>4. \A q \in Objects : /\ Live(q)' => q # o /\ Live(q)
                         /\ q # o => heap'[q] = heap[q] /\ (Live(q) => Live(q)') /\ KeyOf(q)' = KeyOf(q)
  BY <1>1, <1>2 DEF Live, KeyOf
<1>5. VerdictsFit(validated)'
  <2> SUFFICES ASSUME NEW b \in Addresses, NEW n \in 0..MaxVersion, validated[<<b, n>>] # Dead, Live(validated[<<b, n>>])'
               PROVE  /\ heap'[validated[<<b, n>>]] = b /\ n <= storage[b].version
                      /\ n = storage[b].version => storage[b].value = 1
    BY <1>1 DEF VerdictsFit
  <2>1. <<b, n>> \in Keys
    BY DEF Keys
  <2>2. PICK q : q = validated[<<b, n>>]
    OBVIOUS
  <2>3. q \in Objects /\ q # Dead
    BY <1>2, <2>1, <2>2
  <2>4. Live(q)'
    BY <1>1, <2>2
  <2>5. Live(q) /\ heap'[q] = heap[q]
    BY <1>4, <2>3, <2>4
  <2>6. QED
    BY <1>2, <2>2, <2>3, <2>5 DEF VerdictsFit
<1>6. WarmFits(validated)'
  <2> SUFFICES ASSUME NEW q \in warm \ {o} PROVE Live(q)' /\ validated[KeyOf(q)'] = q
    BY <1>1 DEF WarmFits
  <2>1. QED
    BY <1>2, <1>4 DEF WarmFits
<1>7. QED
  BY <1>3, <1>5, <1>6 DEF ScalesFit

LEMMA WriteStep ==
    ASSUME ScalesFit, NEW a \in Addresses, NEW x \in {1, 2}, Write(a, x)
    PROVE  ScalesFit'
<1>1. /\ storage[a].version < MaxVersion /\ storage' = [storage EXCEPT ![a] = [value |-> x, version |-> @.version + 1]]
      /\ warm' = {o \in warm : heap[o] # a} /\ heap' = heap /\ validated' = validated
  BY DEF Write
<1>2. /\ heap \in [Objects -> Addresses \cup {Dead}] /\ validated \in [Keys -> Objects \cup {Dead}]
      /\ storage \in [Addresses -> [value : {0, 1, 2}, version : 0..MaxVersion]]
      /\ VerdictsFit(validated) /\ warm \subseteq Objects /\ WarmFits(validated)
  BY DEF ScalesFit, HeapOK, Table
<1>3. storage'[a].version = storage[a].version + 1 /\ storage'[a].version \in 0..MaxVersion /\ storage[a].version \in Nat
  BY <1>1, <1>2, OverlayAssumption
<1>4. HeapOK'
  BY <1>1, <1>2, <1>3 DEF HeapOK
<1>5. \A b \in Addresses : b # a => storage'[b] = storage[b]
  BY <1>1, <1>2
<1>6. VerdictsFit(validated)'
  <2> SUFFICES ASSUME NEW b \in Addresses, NEW n \in 0..MaxVersion, validated[<<b, n>>] # Dead, Live(validated[<<b, n>>])
               PROVE  /\ heap[validated[<<b, n>>]] = b /\ n <= storage'[b].version
                      /\ n = storage'[b].version => storage'[b].value = 1
    BY <1>1 DEF VerdictsFit, Live
  <2>1. heap[validated[<<b, n>>]] = b /\ n <= storage[b].version /\ (n = storage[b].version => storage[b].value = 1)
    BY <1>2 DEF VerdictsFit
  <2>2. CASE b = a
    BY <1>3, <2>1, <2>2
  <2>3. CASE b # a
    BY <1>5, <2>1, <2>3
  <2>4. QED
    BY <2>2, <2>3
<1>7. WarmFits(validated)'
  <2> SUFFICES ASSUME NEW q \in warm, heap[q] # a PROVE Live(q)' /\ validated[KeyOf(q)'] = q
    BY <1>1 DEF WarmFits
  <2>1. q \in Objects /\ Live(q) /\ validated[KeyOf(q)] = q /\ heap[q] \in Addresses
    BY <1>2 DEF WarmFits, Live
  <2>2. Live(q)' /\ KeyOf(q)' = KeyOf(q)
    BY <1>1, <1>5, <2>1 DEF Live, KeyOf
  <2>3. QED
    BY <2>1, <2>2
<1>8. QED
  BY <1>1, <1>2, <1>4, <1>6, <1>7 DEF ScalesFit, Table

LEMMA CallSites ==
    \A hook \in {"w1", "prefill", "decode"} : CallSite(hook) \in Sites
<1>1. CallSite("w1") \in Sites
  BY AllSites DEF CallSite
<1>2. CallSite("prefill") \in Sites
  BY AllSites DEF CallSite
<1>3. CallSite("decode") \in Sites
  BY AllSites DEF CallSite
<1>4. QED
  BY <1>1, <1>2, <1>3

\* A call goes through a wrapper, whatever the hook, and what the scales' checks left fits.
LEMMA CallStep ==
    ASSUME OverlayInv, NEW hook \in {"w1", "prefill", "decode"}, NEW k \in Scales, NEW v \in Scales,
           NEW capturing \in BOOLEAN, NEW fault \in Faults(hook), Call(hook, k, v, capturing, fault)
    PROVE  OverlayInv'
<1> DEFINE used == {k, v} \cap Objects
           apart == \A x, y \in used : heap[x] = heap[y] => x = y
<1>1. PICK verdict : verdict = Approve(k, v, capturing, fault)
  OBVIOUS
<1>2. phase = "serving" /\ last = NoCall /\ bindings[CallSite(hook)] # Absent
  BY DEF Call
<1>3. bindings[CallSite(hook)] > 0
  <2>1. bindings[CallSite(hook)] = 1
    BY <1>2, CallSites DEF OverlayInv, PhaseFits, AllWrapped
  <2>2. QED
    BY <2>1
<1>4. /\ UNCHANGED <<bindings, broken, phase, pool, heap, storage>>
      /\ IF pool = "q4"
         THEN /\ validated' = verdict.table
              /\ last' = [hook |-> hook, k |-> k, v |-> v, capturing |-> capturing, fault |-> fault,
                          by |-> IF verdict.ok THEN "overlay" ELSE "refused", sync |-> verdict.sync,
                          warmed |-> used \subseteq warm]
              /\ warm' = IF capturing THEN warm
                         ELSE {o \in warm : heap[o] \notin {heap[x] : x \in used}}
                              \cup (IF verdict.ok /\ apart THEN used ELSE {})
         ELSE /\ last' = [hook |-> hook, k |-> k, v |-> v, capturing |-> capturing, fault |-> fault,
                          by |-> "upstream", sync |-> FALSE, warmed |-> used \subseteq warm]
              /\ UNCHANGED <<validated, warm>>
  BY <1>1, <1>3 DEF Call, IsQ4Pool, overlayVars
<1>5. Approved(verdict, k, v, capturing, fault) /\ ScalesFit
  BY <1>1, ApproveFits DEF OverlayInv
<1>6. \A x \in used : x \in Objects /\ Live(x) /\ x \in {k, v}
  BY OverlayAssumption DEF Scales
<1>7. HeapOK /\ WarmFits(validated) /\ warm \subseteq Objects
  BY <1>5 DEF ScalesFit
<1>8. \A o \in Objects : /\ Live(o)' <=> Live(o)
                         /\ KeyOf(o)' = KeyOf(o)
  BY <1>4 DEF Live, KeyOf
<1>9. ASSUME pool = "q4", ~capturing PROVE WarmFits(verdict.table)'
  <2>1. warm' = {o \in warm : heap[o] \notin {heap[x] : x \in used}}
                \cup (IF verdict.ok /\ apart THEN used ELSE {})
    BY <1>4, <1>9
  <2>2. ASSUME NEW o \in warm, heap[o] \notin {heap[x] : x \in used}
        PROVE  Live(o) /\ verdict.table[KeyOf(o)] = o
    <3>1. o \in Objects /\ Live(o) /\ validated[KeyOf(o)] = o
      BY <1>7 DEF WarmFits
    <3>2. KeyOf(o) \in Keys /\ KeyOf(o) = <<heap[o], storage[heap[o]].version>>
      BY <1>7, <3>1, ScaleKeys
    <3>3. \A x \in used : KeyOf(o) # KeyOf(x)
      BY <2>2, <3>2 DEF KeyOf
    <3>4. verdict.table[KeyOf(o)] = validated[KeyOf(o)]
      BY <1>5, <3>2, <3>3 DEF Approved
    <3>5. QED
      BY <3>1, <3>4
  <2>3. ASSUME verdict.ok, apart, NEW o \in used PROVE Live(o) /\ verdict.table[KeyOf(o)] = o
    BY <1>5, <1>6, <2>3 DEF Approved
  <2>4. \A o \in warm' : o \in Objects /\ Live(o) /\ verdict.table[KeyOf(o)] = o
    BY <1>6, <1>7, <2>1, <2>2, <2>3
  <2>5. verdict' = verdict
    OBVIOUS
  <2>6. QED
    BY <1>8, <2>4 DEF WarmFits
<1>10. ScalesFit'
  <2>1. HeapOK'
    BY <1>4, <1>7 DEF HeapOK
  <2>2. CASE pool = "q4"
    <3>1. validated' = verdict.table
      BY <1>4, <2>2
    <3>2. verdict.table \in Table /\ VerdictsFit(verdict.table)
      BY <1>5 DEF Approved
    <3>3. validated' \in Table
      BY <3>1, <3>2
    <3>4. VerdictsFit(validated)'
      BY <1>4, <3>1, <3>2 DEF VerdictsFit, Live
    <3>5. warm' \subseteq Objects
      BY <1>4, <1>6, <1>7, <2>2
    <3>6. WarmFits(validated)'
      <4>1. CASE capturing
        <5>1. WarmFits(verdict.table) /\ warm' = warm
          BY <1>4, <1>5, <2>2, <4>1 DEF Approved
        <5>2. QED
          BY <1>7, <1>8, <3>1, <5>1 DEF WarmFits
      <4>2. CASE ~capturing
        BY <1>9, <2>2, <3>1, <4>2 DEF WarmFits
      <4>3. QED
        BY <4>1, <4>2
    <3>7. QED
      BY <2>1, <3>3, <3>4, <3>5, <3>6 DEF ScalesFit
  <2>3. CASE pool # "q4"
    BY <1>4, <1>5, <2>3, ScalesStutter DEF scaleVars
  <2>4. QED
    BY <2>2, <2>3
<1>11. LastFits'
  <2>1. CASE pool # "q4"
    <3>1. last' = [hook |-> hook, k |-> k, v |-> v, capturing |-> capturing, fault |-> fault,
                   by |-> "upstream", sync |-> FALSE, warmed |-> used \subseteq warm]
      BY <1>4, <2>1
    <3>2. last'.by = "upstream" /\ last'.sync = FALSE /\ pool' # "q4"
      BY <1>4, <2>1, <3>1
    <3>3. QED
      BY <3>2 DEF LastFits, PoolsReachTheirKernels, ServedScalesAreUnit, CaptureIsSafe
  <2>2. CASE pool = "q4"
    <3>1. PICK by : by = IF verdict.ok THEN "overlay" ELSE "refused"
      OBVIOUS
    <3>2. last' = [hook |-> hook, k |-> k, v |-> v, capturing |-> capturing, fault |-> fault,
                   by |-> by, sync |-> verdict.sync, warmed |-> used \subseteq warm]
      BY <1>4, <2>2, <3>1
    <3> HIDE DEF used, apart
    <3>3. /\ last'.by = by /\ last'.k = k /\ last'.v = v /\ last'.capturing = capturing /\ last'.fault = fault
          /\ last'.sync = verdict.sync
      BY <3>2
    <3>4. last'.warmed => used \subseteq warm
      BY <3>2
    <3>5. PoolsReachTheirKernels'
      BY <1>4, <2>2, <3>1, <3>3 DEF PoolsReachTheirKernels
    <3>6. ServedScalesAreUnit'
      <4>1. ASSUME by = "overlay", NEW x \in {k, v} PROVE x # "other" /\ (x \in Objects => storage[heap[x]].value = 1)
        BY <1>5, <3>1, <4>1 DEF Approved
      <4>2. QED
        BY <1>4, <3>3, <4>1 DEF ServedScalesAreUnit
    <3>7. CaptureIsSafe'
      <4>1. capturing => ~verdict.sync
        BY <1>5 DEF Approved
      <4>2. used \subseteq warm /\ fault = "none" /\ k # "other" /\ v # "other" => verdict.ok
        BY <1>5 DEF Approved, used
      <4>3. QED
        BY <3>1, <3>3, <3>4, <4>1, <4>2 DEF CaptureIsSafe
    <3>8. QED
      BY <3>5, <3>6, <3>7 DEF LastFits
  <2>3. QED
    BY <2>1, <2>2
<1>12. PhaseFits'
  BY <1>2, <1>4, PhaseStutter DEF OverlayInv
<1>13. QED
  BY <1>10, <1>11, <1>12 DEF OverlayInv

LEMMA ServingSteps ==
    ASSUME OverlayInv, phase = "serving", ServingStep
    PROVE  OverlayInv'
<1>1. ASSUME UNCHANGED overlayVars, last' = NoCall PROVE PhaseFits' /\ LastFits'
  <2>1. PhaseFits'
    BY <1>1, PhaseStutter DEF OverlayInv, overlayVars
  <2>2. LastFits'
    BY <1>1 DEF LastFits, PoolsReachTheirKernels, ServedScalesAreUnit, CaptureIsSafe
  <2>3. QED
    BY <2>1, <2>2
<1>2. CASE Return
  BY <1>1, <1>2, ScalesStutter DEF Return, OverlayInv
<1>3. CASE \E o \in Objects, a \in Addresses, x \in {1, 2} : Alloc(o, a, x)
  <2>1. PICK o \in Objects, a \in Addresses, x \in {1, 2} : Alloc(o, a, x)
    BY <1>3
  <2>2. ScalesFit'
    BY <2>1, AllocStep DEF OverlayInv
  <2>3. QED
    BY <1>1, <2>1, <2>2 DEF Alloc, OverlayInv
<1>4. CASE \E o, p \in Objects : View(o, p)
  <2>1. PICK o \in Objects, p \in Objects : View(o, p)
    BY <1>4
  <2>2. ScalesFit'
    BY <2>1, ViewStep DEF OverlayInv
  <2>3. QED
    BY <1>1, <2>1, <2>2 DEF View, OverlayInv
<1>5. CASE \E o \in Objects : Free(o)
  <2>1. PICK o \in Objects : Free(o)
    BY <1>5
  <2>2. ScalesFit'
    BY <2>1, FreeStep DEF OverlayInv
  <2>3. QED
    BY <1>1, <2>1, <2>2 DEF Free, OverlayInv
<1>6. CASE \E a \in Addresses, x \in {1, 2} : Write(a, x)
  <2>1. PICK a \in Addresses, x \in {1, 2} : Write(a, x)
    BY <1>6
  <2>2. ScalesFit'
    BY <2>1, WriteStep DEF OverlayInv
  <2>3. QED
    BY <1>1, <2>1, <2>2 DEF Write, OverlayInv
<1>7. CASE \E hook \in {"w1", "prefill", "decode"}, k, v \in Scales, capturing \in BOOLEAN :
             \E fault \in Faults(hook) : Call(hook, k, v, capturing, fault)
  <2>1. PICK hook \in {"w1", "prefill", "decode"}, k \in Scales, v \in Scales, capturing \in BOOLEAN :
             \E fault \in Faults(hook) : Call(hook, k, v, capturing, fault)
    BY <1>7
  <2>2. PICK fault \in Faults(hook) : Call(hook, k, v, capturing, fault)
    BY <2>1
  <2>3. QED
    BY <2>2, CallStep
<1>8. QED
  BY <1>2, <1>3, <1>4, <1>5, <1>6, <1>7 DEF ServingStep

-----------------------------------------------------------------------------
(* The invariant of the plugin.                                            *)

LastName == "prepare_trellis_arena_plan"

\* Wrapped at most once; a copy whose last name is wrapped is wrapped whole.
WrapFits ==
    /\ wraps \in [Names -> {0, 1}] /\ threads \in {0, 1} /\ attempts \subseteq Copies
    /\ \A c \in Copies : wraps[<<c, LastName>>] = 1 =>
          wraps[<<"vllm", "load_model">>] = 1 /\ \A n \in OwnNames : wraps[<<c, n>>] = 1
    /\ loading # Idle => \E c \in attempts : wraps[<<c, LastName>>] = 1

\* What the tables of the model being loaded may hold.
Loading(t) ==
    {"unbuilt"} \cup (IF OnMeta(loading) THEN {"meta"}
                      ELSE {"uninitialised"} \cup (IF t \in CheckpointTables(loading) THEN {loading} ELSE {}))

Models == {"target", "draft"}

LoadFits ==
    /\ loading \in {Idle} \cup Models /\ loaded \subseteq Models /\ loading \notin loaded
    /\ method = IF OnMeta(loading) THEN 1 ELSE 0
    /\ DOMAIN tables = Models /\ \A m \in Models : DOMAIN tables[m] = Tables
    /\ \A m \in Models : m \notin loaded /\ m # loading => tables[m] = Unbuilt
    /\ "draft" \in loaded \/ loading = "draft" => "target" \in loaded
    /\ loading # Idle => \A t \in Tables : tables[loading][t] \in Loading(t)
    /\ LoadedTablesAreReal

RegistryFits ==
    \A x \in DOMAIN registry : /\ registry[x] \in DOMAIN setup.layers
                               /\ x = <<"torch", setup.layers[registry[x]].name>>
                               /\ setup.layers[registry[x]].copy \in imported

OpsFit == \A c \in ready : Range(Operators) \subseteq ops

PluginInv == OverlayInv /\ WrapFits /\ LoadFits /\ RegistryFits /\ OpsFit

LEMMA WrapTwice ==
    ASSUME NEW w \in [Names -> {0, 1}], NEW c, NEW names
    PROVE  /\ Wrap(w, c, names) \in [Names -> {0, 1}]
           /\ \A x \in Names : Wrap(w, c, names)[x] = IF x \in names THEN 1 ELSE w[x]
BY DEF Wrap

LEMMA WrapStep ==
    ASSUME WrapFits, [PluginNext]_<<pluginVars, loadVars, vars>>
    PROVE  WrapFits'
<1>1. ASSUME UNCHANGED <<wraps, threads, attempts, loading>> PROVE WrapFits'
  BY <1>1 DEF WrapFits
<1>2. /\ wraps \in [Names -> {0, 1}] /\ threads \in {0, 1} /\ attempts \subseteq Copies
      /\ \A c \in Copies : wraps[<<c, LastName>>] = 1 =>
          wraps[<<"vllm", "load_model">>] = 1 /\ \A n \in OwnNames : wraps[<<c, n>>] = 1
      /\ loading # Idle => \E c \in attempts : wraps[<<c, LastName>>] = 1
  BY DEF WrapFits
<1>3. /\ \A c \in Copies, n \in OwnNames : <<c, n>> \in Names
      /\ <<"vllm", "load_model">> \in Names /\ LastName \in OwnNames
      /\ \A n \in WorkerNames : <<"vllm", n>> \in Names
      /\ \A n \in OwnNames : n \notin WorkerNames /\ n # "load_model"
      /\ "load_model" \notin WorkerNames
  <2>1. /\ \A n \in OwnNames : n # "initialize_from_config" /\ n # "compile_or_warm_up_model" /\ n # "load_model"
        /\ LastName \in OwnNames
    BY DEF OwnNames, LastName
  <2>2. QED
    BY <2>1 DEF Names, WorkerNames
<1>4. ASSUME NEW c \in Copies, Register(c) PROVE WrapFits'
  <2>1. loading = Idle /\ attempts' = attempts \cup {c} /\ UNCHANGED <<threads, loading>>
    BY <1>4 DEF Register, loadVars
  <2>2. CASE UNCHANGED wraps
    BY <1>2, <2>1, <2>2 DEF WrapFits
  <2>3. CASE wraps' = Installed(c)
    <3>1. PICK w : w = Wrap(wraps, c, ({c} \X OwnNames) \cup {<<"vllm", "load_model">>})
      OBVIOUS
    <3>2. /\ w \in [Names -> {0, 1}]
          /\ \A x \in Names : w[x] = IF x \in ({c} \X OwnNames) \cup {<<"vllm", "load_model">>} THEN 1 ELSE wraps[x]
      BY <1>2, <3>1, WrapTwice
    <3>3. wraps' = Wrap(w, c, {<<c, "Exl3LinearMethod._make_weight_loader">>})
      BY <2>3, <3>1 DEF Installed
    <3>4. /\ wraps' \in [Names -> {0, 1}]
          /\ \A x \in Names : wraps'[x] = IF x = <<c, "Exl3LinearMethod._make_weight_loader">> THEN 1 ELSE w[x]
      BY <3>2, <3>3, WrapTwice
    <3>5. \A x \in Names : x \in ({c} \X OwnNames) \cup {<<"vllm", "load_model">>} => wraps'[x] = 1
      BY <3>2, <3>4
    <3>6. wraps'[<<"vllm", "load_model">>] = 1 /\ \A n \in OwnNames : wraps'[<<c, n>>] = 1
      BY <1>3, <3>5
    <3>7. \A x \in Names : wraps[x] = 1 => wraps'[x] = 1
      BY <3>2, <3>4
    <3>8. ASSUME NEW d \in Copies, wraps'[<<d, LastName>>] = 1 PROVE \A n \in OwnNames : wraps'[<<d, n>>] = 1
      <4>1. CASE d = c
        BY <3>6, <4>1
      <4>2. CASE d # c /\ d # "vllm"
        <5>1. wraps'[<<d, LastName>>] = wraps[<<d, LastName>>]
          BY <1>3, <3>2, <3>4, <4>2
        <5>2. QED
          BY <1>2, <1>3, <3>7, <3>8, <5>1
      <4>3. CASE d # c /\ d = "vllm"
        <5>1. <<d, LastName>> # <<"vllm", "load_model">>
          BY <1>3
        <5>2. wraps'[<<d, LastName>>] = wraps[<<d, LastName>>]
          BY <1>3, <3>2, <3>4, <4>3, <5>1
        <5>3. QED
          BY <1>2, <1>3, <3>7, <3>8, <5>2
      <4>4. QED
        BY <4>1, <4>2, <4>3
    <3>9. QED
      BY <1>2, <2>1, <3>4, <3>6, <3>8 DEF WrapFits
  <2>4. QED
    BY <1>4, <2>2, <2>3 DEF Register
<1>5. ASSUME NEW c \in Copies, NEW n \in DOMAIN Operators, ImportCopy(c, n) PROVE WrapFits'
  BY <1>1, <1>5 DEF ImportCopy, loadVars
<1>6. ASSUME NEW m \in Models, BeginLoad(m) PROVE WrapFits'
  <2>1. /\ \E c \in attempts : wraps[<<c, LastName>>] > 0
        /\ UNCHANGED <<wraps, threads, attempts>>
    BY <1>6 DEF BeginLoad, Registered, pluginVars, LastName
  <2>2. \E c \in attempts : wraps[<<c, LastName>>] = 1
    BY <1>2, <1>3, <2>1
  <2>3. QED
    BY <1>2, <2>1, <2>2 DEF WrapFits
<1>7. ASSUME NEW t \in Tables, Build(t) \/ Deliver(t) PROVE WrapFits'
  BY <1>1, <1>7 DEF Build, Deliver, pluginVars
<1>8. ASSUME FinishLoad PROVE WrapFits'
  <2>1. loading' = Idle /\ UNCHANGED <<threads, attempts>>
    BY <1>8 DEF FinishLoad
  <2>2. wraps' = wraps \/ wraps' = Wrap(wraps, "vllm", {"vllm"} \X WorkerNames)
    BY <1>8 DEF FinishLoad
  <2>3. CASE wraps' = wraps
    BY <1>2, <2>1, <2>3 DEF WrapFits
  <2>4. CASE wraps' = Wrap(wraps, "vllm", {"vllm"} \X WorkerNames)
    <3>1. /\ wraps' \in [Names -> {0, 1}]
          /\ \A x \in Names : wraps'[x] = IF x \in {"vllm"} \X WorkerNames THEN 1 ELSE wraps[x]
      BY <1>2, <2>4, WrapTwice
    <3>2. /\ \A c \in Copies, n \in OwnNames : wraps'[<<c, n>>] = wraps[<<c, n>>]
          /\ wraps'[<<"vllm", "load_model">>] = wraps[<<"vllm", "load_model">>]
      BY <1>3, <3>1
    <3>3. QED
      BY <1>2, <1>3, <2>1, <3>1, <3>2 DEF WrapFits
  <2>5. QED
    BY <2>2, <2>3, <2>4
<1>9. ASSUME FailLoad PROVE WrapFits'
  BY <1>2, <1>9 DEF FailLoad, pluginVars, WrapFits
<1>10. ASSUME WarmUp PROVE WrapFits'
  <2>1. <<"vllm", "compile_or_warm_up_model">> \in Names
    BY <1>3 DEF WorkerNames
  <2>2. threads' \in {0, 1} /\ UNCHANGED <<wraps, attempts, loading>>
    BY <1>2, <1>10, <2>1 DEF WarmUp, pluginVars
  <2>3. QED
    BY <1>2, <2>2 DEF WrapFits
<1>11. ASSUME NEW l \in Layers, RegisterLayer(l) PROVE WrapFits'
  BY <1>1, <1>11 DEF RegisterLayer, loadVars
<1>12. ASSUME OverlayStep PROVE WrapFits'
  BY <1>1, <1>12 DEF OverlayStep, pluginVars, loadVars
<1>13. ASSUME UNCHANGED <<pluginVars, loadVars, vars>> PROVE WrapFits'
  BY <1>1, <1>13 DEF pluginVars, loadVars
<1>14. QED
  BY <1>4, <1>5, <1>6, <1>7, <1>8, <1>9, <1>10, <1>11, <1>12, <1>13 DEF PluginNext, Models

\* A draft built on meta has no tables in its checkpoint.
LEMMA MetaHasNone ==
    OnMeta("draft") => CheckpointTables("draft") = {}
<1> SUFFICES ASSUME OnMeta("draft") PROVE CheckpointTables("draft") = {}
  OBVIOUS
<1> DEFINE files == setup.files
           deciding == {i \in DOMAIN files : ~files[i].readable \/ files[i].tables # {}}
<1>1. VocabTables(files) = "no"
  BY DEF OnMeta
<1>2. deciding = {}
  <2> HIDE DEF deciding
  <2>1. VocabTables(files) = IF files = <<>> THEN "unknown" ELSE IF deciding = {} THEN "no"
            ELSE IF files[CHOOSE i \in deciding : \A j \in deciding : i <= j].readable THEN "yes" ELSE "unknown"
    BY DEF VocabTables, deciding
  <2>2. QED
    BY <1>1, <2>1
<1>3. \A i \in DOMAIN files : files[i].tables = {}
  BY <1>2
<1>4. CheckpointTables("draft") = UNION {files[i].tables : i \in DOMAIN files}
  BY DEF CheckpointTables
<1> HIDE DEF files
<1>5. QED
  BY <1>3, <1>4

LEMMA TablesStep ==
    ASSUME LoadFits, [PluginNext]_<<pluginVars, loadVars, vars>>
    PROVE  LoadFits'
<1>1. ASSUME UNCHANGED <<setup, loading, loaded, method, tables>> PROVE LoadFits'
  BY <1>1 DEF LoadFits, LoadedTablesAreReal, Loading, OnMeta, CheckpointTables, Replaced, EmbeddingAliased
<1>2. /\ loading \in {Idle} \cup Models /\ loaded \subseteq Models /\ loading \notin loaded
      /\ method = IF OnMeta(loading) THEN 1 ELSE 0
      /\ DOMAIN tables = Models /\ \A m \in Models : DOMAIN tables[m] = Tables
      /\ \A m \in Models : m \notin loaded /\ m # loading => tables[m] = Unbuilt
      /\ "draft" \in loaded \/ loading = "draft" => "target" \in loaded
      /\ loading # Idle => \A t \in Tables : tables[loading][t] \in Loading(t)
      /\ \A m \in loaded : \A t \in Tables :
            tables[m][t] = IF t \in CheckpointTables(m) /\ ~Replaced(m, t) THEN m ELSE "target"
  BY DEF LoadFits, LoadedTablesAreReal
<1>3. /\ ~OnMeta("target") /\ ~OnMeta(Idle) /\ CheckpointTables("target") = Tables
      /\ Idle # "target" /\ Idle # "draft"
  BY DEF OnMeta, CheckpointTables, Idle
<1>4. \A m \in Models : setup' = setup =>
          /\ (OnMeta(m)' <=> OnMeta(m)) /\ CheckpointTables(m)' = CheckpointTables(m)
          /\ \A t \in Tables : Replaced(m, t)' <=> Replaced(m, t)
  BY DEF OnMeta, CheckpointTables, Replaced, EmbeddingAliased
<1>5. ~OnMeta(Idle)'
  BY DEF OnMeta, Idle
<1>6. ASSUME NEW m \in Models, BeginLoad(m) PROVE LoadFits'
  <2>1. /\ loading = Idle /\ m \notin loaded /\ (m = "draft" => "target" \in loaded)
        /\ loading' = m /\ method' = IF OnMeta(m) THEN method + 1 ELSE method
        /\ UNCHANGED <<loaded, tables, setup>>
    BY <1>6 DEF BeginLoad, pluginVars
  <2>2. method' = (IF OnMeta(loading) THEN 1 ELSE 0)'
    <3>1. method = 0
      BY <1>2, <1>3, <2>1
    <3>2. OnMeta(loading)' <=> OnMeta(m)
      BY <2>1 DEF OnMeta
    <3>3. QED
      BY <2>1, <3>1, <3>2
  <2>3. tables[m] = Unbuilt
    BY <1>2, <2>1, <1>3 DEF Models
  <2>4. \A t \in Tables : tables'[m][t] \in Loading(t)'
    BY <2>1, <2>3 DEF Loading, Unbuilt
  <2>5. LoadedTablesAreReal'
    BY <1>2, <1>4, <2>1 DEF LoadedTablesAreReal
  <2>6. QED
    BY <1>2, <2>1, <2>2, <2>4, <2>5 DEF LoadFits, Models
<1>7. ASSUME NEW t \in Tables, Build(t) \/ Deliver(t) PROVE LoadFits'
  <2>1. loading # Idle /\ UNCHANGED <<setup, loading, loaded, method>>
    BY <1>7 DEF Build, Deliver, pluginVars
  <2>2. PICK held : tables' = [tables EXCEPT ![loading][t] = held] /\ held \in Loading(t)
    <3>1. CASE Build(t)
      <4>1. tables' = [tables EXCEPT ![loading][t] = IF method > 0 THEN "meta" ELSE "uninitialised"]
        BY <3>1 DEF Build
      <4>2. (IF method > 0 THEN "meta" ELSE "uninitialised") \in Loading(t)
        BY <1>2 DEF Loading
      <4>3. QED
        BY <4>1, <4>2
    <3>2. CASE Deliver(t)
      <4>1. /\ tables' = [tables EXCEPT ![loading][t] = loading]
            /\ t \in CheckpointTables(loading) /\ tables[loading][t] = "uninitialised"
        BY <3>2 DEF Deliver
      <4>2. tables[loading][t] \in Loading(t)
        BY <1>2, <2>1
      <4>3. loading \in Loading(t)
        BY <4>1, <4>2 DEF Loading
      <4>4. QED
        BY <4>1, <4>3
    <3>3. QED
      BY <1>7, <3>1, <3>2
  <2>3. /\ DOMAIN tables' = Models /\ \A m \in Models : m # loading => tables'[m] = tables[m]
        /\ DOMAIN tables'[loading] = Tables
        /\ tables'[loading] = [tables[loading] EXCEPT ![t] = held]
    BY <1>2, <2>1, <2>2
  <2>4. \A x \in Tables : tables'[loading][x] = IF x = t THEN held ELSE tables[loading][x]
    <3>1. DOMAIN tables[loading] = Tables
      BY <1>2, <2>1
    <3>2. QED
      BY <2>3, <3>1
  <2>5. \A x \in Tables : tables'[loading][x] \in Loading(x)
    BY <1>2, <2>1, <2>2, <2>4
  <2>6. \A x \in Tables : Loading(x)' = Loading(x)
    BY <2>1 DEF Loading, OnMeta, CheckpointTables
  <2>7. LoadedTablesAreReal'
    BY <1>2, <1>4, <2>1, <2>3 DEF LoadedTablesAreReal
  <2>8. method' = (IF OnMeta(loading) THEN 1 ELSE 0)'
    BY <1>2, <2>1 DEF OnMeta
  <2>9. \A m \in Models : DOMAIN tables'[m] = Tables
    BY <1>2, <2>3
  <2>10. \A m \in Models : m \notin loaded /\ m # loading => tables'[m] = Unbuilt
    BY <1>2, <2>3
  <2>11. QED
    BY <1>2, <2>1, <2>3, <2>5, <2>6, <2>7, <2>8, <2>9, <2>10 DEF LoadFits
<1>8. ASSUME FinishLoad PROVE LoadFits'
  <2>1. /\ loading # Idle /\ Complete(loading) /\ setup' = setup
        /\ loaded' = loaded \cup {loading} /\ loading' = Idle
        /\ method' = IF OnMeta(loading) THEN method - 1 ELSE method
    BY <1>8 DEF FinishLoad, Unpatched
  <2>2. loading \in Models
    BY <1>2, <2>1
  <2>3. method' = 0
    BY <1>2, <2>1
  <2>4. ASSUME NEW t \in Tables, t \in CheckpointTables(loading) PROVE tables[loading][t] = loading
    <3>1. tables[loading][t] # "unbuilt" /\ tables[loading][t] # "uninitialised"
      BY <2>1, <2>4 DEF Complete
    <3>2. ~OnMeta(loading)
      BY <1>3, <2>2, <2>4, MetaHasNone DEF Models
    <3>3. tables[loading][t] \in Loading(t)
      BY <1>2, <2>1
    <3>4. QED
      BY <2>4, <3>1, <3>2, <3>3 DEF Loading
  <2>5. /\ DOMAIN tables' = Models /\ \A m \in Models : DOMAIN tables'[m] = Tables
        /\ \A m \in Models : m # loading => tables'[m] = tables[m]
        /\ \A t \in Tables : tables'[loading][t] =
              IF t \in CheckpointTables(loading) /\ ~Replaced(loading, t) THEN loading ELSE "target"
    <3>1. PICK given : given = [t \in Tables |->
                IF loading = "draft" /\ t \notin CheckpointTables("draft") THEN tables["target"][t]
                ELSE Postload(loading)[t]]
      OBVIOUS
    <3>2. tables' = [tables EXCEPT ![loading] = given]
      BY <1>8, <3>1 DEF FinishLoad
    <3>3. tables'[loading] = given /\ DOMAIN given = Tables
      BY <1>2, <2>2, <3>1, <3>2
    <3>4. DOMAIN tables' = Models /\ \A m \in Models : m # loading => tables'[m] = tables[m]
      BY <1>2, <3>2
    <3>5. \A m \in Models : DOMAIN tables'[m] = Tables
      BY <1>2, <3>3, <3>4
    <3>6. ASSUME NEW t \in Tables
          PROVE  given[t] = IF t \in CheckpointTables(loading) /\ ~Replaced(loading, t) THEN loading ELSE "target"
      <4>1. CASE loading = "draft" /\ t \notin CheckpointTables("draft")
        <5>1. tables["target"][t] = "target"
          BY <1>2, <1>3, <4>1 DEF Replaced
        <5>2. QED
          BY <3>1, <4>1, <5>1
      <4>2. CASE t \in CheckpointTables(loading)
        <5>1. tables[loading][t] = loading
          BY <2>4, <4>2
        <5>2. given[t] = Postload(loading)[t]
          BY <3>1, <4>2
        <5>3. given[t] = IF t = "embed_tokens" /\ EmbeddingAliased(loading) THEN "target" ELSE loading
          BY <2>2, <5>1, <5>2 DEF Postload, Models
        <5>4. loading = "target" \/ loading = "draft"
          BY <2>2 DEF Models
        <5>5. QED
          BY <4>2, <5>3, <5>4 DEF Replaced
      <4>3. QED
        BY <1>3, <2>2, <4>1, <4>2 DEF Models
    <3>7. QED
      BY <3>3, <3>4, <3>5, <3>6
  <2>6. LoadedTablesAreReal'
    <3> SUFFICES ASSUME NEW m \in loaded', NEW t \in Tables
                 PROVE  tables'[m][t] = IF t \in CheckpointTables(m)' /\ ~Replaced(m, t)' THEN m ELSE "target"
      BY DEF LoadedTablesAreReal
    <3>1. m \in Models /\ CheckpointTables(m)' = CheckpointTables(m) /\ (Replaced(m, t)' <=> Replaced(m, t))
      BY <1>2, <1>4, <2>1, <2>2
    <3>2. CASE m = loading
      BY <2>5, <3>1, <3>2
    <3>3. CASE m # loading
      BY <1>2, <2>1, <2>5, <3>1, <3>3
    <3>4. QED
      BY <3>2, <3>3
  <2>7. \A m \in Models : m \notin loaded' => tables'[m] = Unbuilt
    BY <1>2, <2>1, <2>5
  <2>8. method' = (IF OnMeta(loading) THEN 1 ELSE 0)'
    BY <1>5, <2>1, <2>3 DEF OnMeta
  <2>9. QED
    BY <1>2, <1>3, <2>1, <2>2, <2>5, <2>6, <2>7, <2>8 DEF LoadFits, Models
<1>9. ASSUME FailLoad PROVE LoadFits'
  <2>1. /\ loading # Idle /\ setup' = setup /\ loading' = Idle
        /\ loaded' = IF loading = "draft" THEN loaded \ {"target"} ELSE loaded
        /\ method' = IF OnMeta(loading) THEN method - 1 ELSE method
        /\ tables' = [m \in DOMAIN tables |-> Unbuilt]
    BY <1>9 DEF FailLoad, Unpatched, pluginVars
  <2>2. loaded' = {}
    <3>1. loading = "draft" \/ loading = "target"
      BY <1>2, <2>1 DEF Models
    <3>2. QED
      BY <1>2, <2>1, <3>1 DEF Models
  <2>3. method' = 0
    BY <1>2, <2>1
  <2>4. DOMAIN tables' = Models /\ \A m \in Models : tables'[m] = Unbuilt /\ DOMAIN Unbuilt = Tables
    BY <1>2, <2>1 DEF Unbuilt
  <2>5. method' = (IF OnMeta(loading) THEN 1 ELSE 0)'
    BY <1>5, <2>1, <2>3 DEF OnMeta
  <2>6. QED
    BY <1>3, <2>1, <2>2, <2>4, <2>5 DEF LoadFits, LoadedTablesAreReal
<1>10. ASSUME NEW c \in Copies, Register(c) \/ \E n \in DOMAIN Operators : ImportCopy(c, n) PROVE LoadFits'
  BY <1>1, <1>10 DEF Register, ImportCopy, loadVars
<1>11. ASSUME WarmUp PROVE LoadFits'
  BY <1>1, <1>11 DEF WarmUp, pluginVars
<1>12. ASSUME NEW l \in Layers, RegisterLayer(l) PROVE LoadFits'
  BY <1>1, <1>12 DEF RegisterLayer, loadVars
<1>13. ASSUME OverlayStep PROVE LoadFits'
  BY <1>1, <1>13 DEF OverlayStep, pluginVars, loadVars
<1>14. ASSUME UNCHANGED <<pluginVars, loadVars, vars>> PROVE LoadFits'
  BY <1>1, <1>14 DEF pluginVars, loadVars
<1>15. QED
  BY <1>6, <1>7, <1>8, <1>9, <1>10, <1>11, <1>12, <1>13, <1>14 DEF PluginNext, Models

\* The registry and the operators are torch's, whichever copy writes them.
LEMMA RegistryStep ==
    ASSUME RegistryFits, OpsFit, [PluginNext]_<<pluginVars, loadVars, vars>>
    PROVE  RegistryFits' /\ OpsFit'
<1>1. ASSUME UNCHANGED <<setup, registry, imported, ops, ready>> PROVE RegistryFits' /\ OpsFit'
  BY <1>1 DEF RegistryFits, OpsFit
<1>2. ASSUME NEW c \in Copies, NEW n \in DOMAIN Operators, ImportCopy(c, n) PROVE RegistryFits' /\ OpsFit'
  <2>1. UNCHANGED <<setup, registry>> /\ imported' = imported \cup {c}
    BY <1>2 DEF ImportCopy
  <2>2. RegistryFits'
    BY <2>1 DEF RegistryFits
  <2>3. CASE "torch" \in ready
    <3>1. ready' = ready \cup {c} /\ ops' = ops
      BY <1>2, <2>3 DEF ImportCopy
    <3>2. QED
      BY <2>2, <2>3, <3>1 DEF OpsFit
  <2>4. CASE ops' = Range(Operators) /\ ready' = ready \cup {c, "torch"}
    BY <2>2, <2>4 DEF OpsFit
  <2>5. CASE ready' = ready /\ ops' = ops \cup Range(SubSeq(Operators, 1, n - 1))
    BY <2>2, <2>5 DEF OpsFit
  <2>6. QED
    BY <1>2, <2>3, <2>4, <2>5 DEF ImportCopy
<1>3. ASSUME NEW l \in Layers, RegisterLayer(l) PROVE RegistryFits' /\ OpsFit'
  <2>1. PICK key : key = <<"torch", setup.layers[l].name>>
    OBVIOUS
  <2>2. /\ l \in DOMAIN setup.layers /\ setup.layers[l].copy \in imported
        /\ registry' = [x \in DOMAIN registry \cup {key} |-> IF x = key THEN l ELSE registry[x]]
        /\ UNCHANGED <<setup, imported, ops, ready>>
    BY <1>3, <2>1 DEF RegisterLayer, RegistryHome
  <2>3. \A x \in DOMAIN registry' : (x = key /\ registry'[x] = l) \/ (x \in DOMAIN registry /\ registry'[x] = registry[x])
    BY <2>2
  <2>4. RegistryFits'
    BY <2>1, <2>2, <2>3 DEF RegistryFits
  <2>5. QED
    BY <2>2, <2>4 DEF OpsFit
<1>4. ASSUME NEW c \in Copies, Register(c) PROVE RegistryFits' /\ OpsFit'
  BY <1>1, <1>4 DEF Register
<1>5. ASSUME NEW m \in {"target", "draft"}, BeginLoad(m) PROVE RegistryFits' /\ OpsFit'
  BY <1>1, <1>5 DEF BeginLoad, pluginVars
<1>6. ASSUME NEW t \in Tables, Build(t) \/ Deliver(t) PROVE RegistryFits' /\ OpsFit'
  BY <1>1, <1>6 DEF Build, Deliver, pluginVars
<1>7. ASSUME FinishLoad \/ FailLoad \/ WarmUp PROVE RegistryFits' /\ OpsFit'
  BY <1>1, <1>7 DEF FinishLoad, FailLoad, WarmUp, pluginVars
<1>8. ASSUME OverlayStep \/ UNCHANGED <<pluginVars, loadVars, vars>> PROVE RegistryFits' /\ OpsFit'
  BY <1>1, <1>8 DEF OverlayStep, pluginVars
<1>9. QED
  BY <1>2, <1>3, <1>4, <1>5, <1>6, <1>7, <1>8 DEF PluginNext

LEMMA OverlaySteps ==
    ASSUME OverlayInv, [PluginNext]_<<pluginVars, loadVars, vars>>
    PROVE  OverlayInv'
<1>1. ASSUME UNCHANGED vars PROVE OverlayInv'
  <2>1. PhaseFits'
    BY <1>1, PhaseStutter DEF OverlayInv, vars, overlayVars
  <2>2. ScalesFit'
    BY <1>1, ScalesStutter DEF OverlayInv, vars
  <2>3. LastFits'
    BY <1>1 DEF OverlayInv, LastFits, PoolsReachTheirKernels, ServedScalesAreUnit, CaptureIsSafe, vars, overlayVars,
                scaleVars
  <2>4. QED
    BY <2>1, <2>2, <2>3 DEF OverlayInv
<1>2. ASSUME NEW c \in Copies, Register(c) PROVE OverlayInv'
  BY <1>1, <1>2, InstallStep DEF Register
<1>3. ASSUME OverlayStep PROVE OverlayInv'
  BY <1>3, LoadStep, SelectStep, ServingSteps DEF OverlayStep
<1>4. ASSUME NEW c \in Copies, NEW n \in DOMAIN Operators, ImportCopy(c, n) PROVE OverlayInv'
  BY <1>1, <1>4 DEF ImportCopy
<1>5. ASSUME NEW m \in {"target", "draft"}, BeginLoad(m) PROVE OverlayInv'
  BY <1>1, <1>5 DEF BeginLoad
<1>6. ASSUME NEW t \in Tables, Build(t) \/ Deliver(t) PROVE OverlayInv'
  BY <1>1, <1>6 DEF Build, Deliver
<1>7. ASSUME FinishLoad \/ FailLoad \/ WarmUp PROVE OverlayInv'
  BY <1>1, <1>7 DEF FinishLoad, FailLoad, WarmUp
<1>8. ASSUME NEW l \in Layers, RegisterLayer(l) PROVE OverlayInv'
  BY <1>1, <1>8 DEF RegisterLayer
<1>9. QED
  BY <1>1, <1>2, <1>3, <1>4, <1>5, <1>6, <1>7, <1>8 DEF PluginNext

LEMMA PluginStart == PluginInit => PluginInv
<1> SUFFICES ASSUME PluginInit PROVE PluginInv
  OBVIOUS
<1>1. OverlayInv
  BY OverlayInit DEF PluginInit
<1>2. WrapFits
  BY DEF PluginInit, WrapFits, Names, OwnNames, LastName
<1>3. LoadFits
  <2>1. /\ loading = Idle /\ loaded = {} /\ method = 0 /\ tables = [m \in Models |-> Unbuilt]
    BY DEF PluginInit, Models
  <2>2. Idle \notin Models /\ ~OnMeta(Idle)
    BY DEF Models, Idle, OnMeta
  <2>3. DOMAIN tables = Models /\ \A m \in Models : tables[m] = Unbuilt /\ DOMAIN tables[m] = Tables
    BY <2>1 DEF Unbuilt
  <2>4. LoadedTablesAreReal
    BY <2>1 DEF LoadedTablesAreReal
  <2>5. QED
    BY <2>1, <2>2, <2>3, <2>4 DEF LoadFits, Models
<1>4. RegistryFits /\ OpsFit
  BY DEF PluginInit, RegistryFits, OpsFit
<1>5. QED
  BY <1>1, <1>2, <1>3, <1>4 DEF PluginInv

\* The invariant of the plugin with its overlay, for any copies, objects and setups.
THEOREM PluginCorrect == PluginSpec => []PluginInv
<1>1. ASSUME PluginInv, [PluginNext]_<<pluginVars, loadVars, vars>> PROVE PluginInv'
  BY <1>1, OverlaySteps, WrapStep, TablesStep, RegistryStep DEF PluginInv
<1>2. QED
  BY <1>1, PluginStart, PTL DEF PluginSpec

\* A q4 pool goes to the overlay's kernels and any other to upstream's, at every call and
\* whatever was imported before or after install() (minimax_q4kv.py:882-977).
THEOREM PoolsRouted == PluginSpec => []PoolsReachTheirKernels
<1>1. PluginInv => PoolsReachTheirKernels
  BY DEF PluginInv, OverlayInv, LastFits
<1>2. QED
  BY <1>1, PluginCorrect, PTL

\* Every scale a kernel is called with is 1 when it is called, though objects and addresses
\* are reused and storages written between the calls (minimax_q4kv.py:137-201).
THEOREM ScalesUnit == PluginSpec => []ServedScalesAreUnit
<1>1. PluginInv => ServedScalesAreUnit
  BY DEF PluginInv, OverlayInv, LastFits
<1>2. QED
  BY <1>1, PluginCorrect, PTL

\* Under capture nothing is read, and a call warmed up with the same scales is served
\* (minimax_q4kv.py:152-165).
THEOREM CaptureSafe == PluginSpec => []CaptureIsSafe
<1>1. PluginInv => CaptureIsSafe
  BY DEF PluginInv, OverlayInv, LastFits
<1>2. QED
  BY <1>1, PluginCorrect, PTL

\* However often and through whichever copies register() and install() run, and wherever
\* they fail, nothing is wrapped twice, and a model is loaded only behind a whole copy
\* (__init__.py:30-110).
THEOREM WrappedOnceEverywhere == PluginSpec => []WrappedExactlyOnce
<1>1. PluginInv => WrappedExactlyOnce
  <2> SUFFICES ASSUME PluginInv PROVE WrappedExactlyOnce
    OBVIOUS
  <2>1. WrapFits /\ PhaseFits
    BY DEF PluginInv, OverlayInv
  <2>2. \A x \in Names : wraps[x] <= 1
    <3>1. \A x \in Names : wraps[x] \in {0, 1}
      BY <2>1 DEF WrapFits
    <3>2. QED
      BY <3>1
  <2>3. threads <= 1
    BY <2>1 DEF WrapFits
  <2>4. loading # Idle => /\ wraps[<<"vllm", "load_model">>] = 1
                          /\ \E c \in attempts : \A n \in OwnNames : wraps[<<c, n>>] = 1
    BY <2>1 DEF WrapFits
  <2>5. \A s \in Sites : bindings[s] \in {Absent, 0, 1}
    BY <2>1 DEF PhaseFits, BindFits
  <2>6. \A s \in Sites : bindings[s] <= 1
    BY <2>5 DEF Absent
  <2>7. EveryBindingWrapped
    BY <2>1, <2>6 DEF EveryBindingWrapped, PhaseFits, AllWrapped
  <2>8. QED
    BY <2>2, <2>3, <2>4, <2>7 DEF WrappedExactlyOnce, WrappedOnce
<1>2. QED
  BY <1>1, PluginCorrect, PTL

\* The tables of a loaded model are its checkpoint's or, where that has none, the target's,
\* after failed loads and drafts built on meta too; the alias of the embedding, which runs
\* after every load but a listed draft's, puts the target's in place of a draft's own only
\* where the draft is not listed and of the same shape (uma_load_memory.py:209-227, 390-519,
\* ats_alias.py:373-439).
THEOREM TablesReal == PluginSpec => []LoadedTablesAreReal
<1>1. PluginInv => LoadedTablesAreReal
  BY DEF PluginInv, LoadFits
<1>2. QED
  BY <1>1, PluginCorrect, PTL

\* A layer called through an operator is found by its name, whichever copy built it and
\* whichever registered the operators, also half-way (exl3.py:5616-5752, 6641-6652).
THEOREM OperatorsRight == PluginSpec => []OperatorsReachTheirLayer
<1>1. PluginInv => OperatorsReachTheirLayer
  <2> SUFFICES ASSUME PluginInv, NEW l \in Processed PROVE Reached(l) = {l}
    BY DEF OperatorsReachTheirLayer
  <2>1. PICK x \in DOMAIN registry : registry[x] = l
    BY DEF Processed
  <2>2. /\ l \in DOMAIN setup.layers /\ x = <<"torch", setup.layers[l].name>>
        /\ setup.layers[l].copy \in imported
    BY <2>1 DEF PluginInv, RegistryFits
  <2>3. CASE setup.layers[l].copy \notin ready
    BY <2>3 DEF Reached
  <2>4. CASE setup.layers[l].copy \in ready
    <3>1. Range(Operators) \subseteq ops
      BY <2>4 DEF PluginInv, OpsFit
    <3>2. OpOf(l) \subseteq Range(Operators)
      BY DEF OpOf, Operators, Range
    <3>3. \A c \in imported : <<RegistryHome(c), setup.layers[l].name>> \in DOMAIN registry
                              /\ registry[<<RegistryHome(c), setup.layers[l].name>>] = l
      BY <2>1, <2>2 DEF RegistryHome
    <3>4. Reached(l) = {IF <<RegistryHome(c), setup.layers[l].name>> \in DOMAIN registry
                        THEN registry[<<RegistryHome(c), setup.layers[l].name>>] ELSE "no layer" : c \in imported}
      BY <2>4, <3>1, <3>2 DEF Reached
    <3>5. QED
      BY <2>2, <3>3, <3>4
  <2>5. QED
    BY <2>3, <2>4
<1>2. QED
  BY <1>1, PluginCorrect, PTL

=============================================================================
