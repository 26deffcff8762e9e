----------------------------- MODULE MoeDispatch -----------------------------
(***************************************************************************)
(* The forward pass of one layer's routed experts: which kernel launches   *)
(* apply_exl3_experts (exl3.py) makes of a batch, and what each launch     *)
(* computes from the routing.                                              *)
(*                                                                         *)
(* A batch is a sequence of tokens, a token the tuple of its topk experts, *)
(* already mapped to local ids (map_topk_to_local).  A route is one        *)
(* <<token, choice>>.  The numbers are abstracted to contributions: which  *)
(* route was sent through whose weights, read at which bit widths.  A      *)
(* forward may be eager or captured into a graph; a replay runs the        *)
(* captured launches on another batch of the same shape, so what Python    *)
(* decided from the data of the first is frozen.                           *)
(* Bounds: the row and slot limits are constants, small in the instances.  *)
(***************************************************************************)
EXTENDS Naturals, FiniteSets, SequencesExt

CONSTANTS NumExperts,     \* local experts 0 .. NumExperts - 1
          Batches,        \* the batches
          Cases,          \* layers and builds, see below
          ContractRows,   \* _NATIVE_MOE_CONTRACT_ROWS
          MeasuredRows,   \* _NATIVE_MOE_MAX_ROWS: bit width -> rows
          NoLimit,        \* an environment variable that is not set
          CoopSlots,      \* _COOP_SLOTS_MAX
          TempRows,       \* TEMP_ROWS_FUSED, also the count_hi of a launch
          Fat,            \* FAT_EXPERT_THRESHOLD
          CaptureTokens   \* the largest captured batch

(* A case is a record                                                      *)
(*   k       expert -> <<K_gate, K_up, K_down>> of its trellises           *)
(*   bits    the bit width the config states for the layer                 *)
(*   books   <<gate, up, down>>: codebook of each projection               *)
(*   act     "relu2" (a layer without gates) or another                    *)
(*   clamp   the activation has a clamping limit                           *)
(*   abi     P2B_MOE_ABI_VERSION of the native extension, 0 without it     *)
(*   shape   "wide" (4096 x 2048), "narrow" (4096 x 1024), "v41" (the      *)
(*           DeepSeek V4.1 expert) or "other"                              *)
(*   v41     the native path was asked for with V4.1 experts               *)
(*   caps    [bit, all, measured]: rows per bit width and for all widths   *)
(*           that the environment sets, and VLLM_EXL3_NATIVE_MOE_MEASURED_CAP *)
(*   ext     exllamav3_ext is installed                                    *)
(*   coop    it has exl3_moe_coop and VLLM_EXL3_COOP is on                 *)
(*   mixedk  it has exl3_moe_mixedk                                        *)
(*   ranges  its exl3_moe takes an expert range                            *)
(*   mode    "unified" or "grouped" (VLLM_EXL3_MIXEDK_MODE)                *)
(*   packed  VLLM_EXL3_MIXEDK_PACKED                                       *)
(*   lpt     VLLM_EXL3_MOE_LPT                                             *)
(*   orders  exl3_moe_mixedk takes the work order (its arity tells)        *)

ASSUME LimitsAssumption ==
    /\ NumExperts \in Nat \ {0} /\ TempRows \in Nat \ {0}
    /\ {ContractRows, CoopSlots, Fat, CaptureTokens} \subseteq Nat
\* trellises have one to eight bits
ASSUME CasesAssumption ==
    \A c \in Cases : c.k \in [0..(NumExperts - 1) -> (1..8) \X (1..8) \X (1..8)]
\* the router chooses as many experts for each token, and none of them twice
ASSUME BatchesAssumption ==
    \A b \in Batches :
        /\ b \in Seq(Seq(0..NumExperts)) /\ b # <<>>
        /\ \A t \in DOMAIN b : /\ Len(b[t]) = Len(b[1])
                              /\ \A i, j \in DOMAIN b[t] : i # j /\ b[t][i] = b[t][j] => b[t][i] = NumExperts

VARIABLES case,   \* fixed
          graph,  \* the captured launches and the shape they were captured for
          batch,  \* the batch being served, or None
          todo,   \* its launches not made yet
          done    \* the contributions to its output so far

dispatchVars == <<case, graph, batch, todo, done>>

None == <<>>

-----------------------------------------------------------------------------
(* The layer: process_weights_after_loading, build_exl3_fused_state.       *)

Experts == 0..(NumExperts - 1)
Remote == NumExperts       \* the sentinel of a route to no local expert

Gateless == case.act = "relu2"
\* the up projection stands in for the gate of a gateless layer
KOf(e) == IF Gateless THEN <<case.k[e][2], case.k[e][2], case.k[e][3]>> ELSE case.k[e]
Tuples == {KOf(e) : e \in Experts}
MixedK == Cardinality(UNION {{t[1], t[2], t[3]} : t \in Tuples}) > 1
\* Variant: the experts are compared by the K of their gates.
OneTupleByGate == Cardinality({t[1] : t \in Tuples}) = 1
OneTuple == Cardinality(Tuples) = 1

\* The fused state was built.  For a mixed-K layer the attempt fails without the mixed
\* kernel, for a packed table without expert ranges, and for a gateless layer, whose
\* gate is None when the largest K is looked up.
HasPointers == IF MixedK THEN case.ext /\ case.mixedk /\ ~Gateless /\ (case.packed => case.ranges)
                         ELSE case.ext \/ case.abi > 0
\* _exl3_coop_compat
CoopCompat == ~Gateless /\ OneTuple /\ \A t \in Tuples : t[1] = t[2]

Thrice(k) == <<k, k, k>>
\* _exl3_k: the state is built with the config's bit width, the wrapper of
\* physical_k_compat.py puts the one of the trellises in its place
ScalarK == (CHOOSE t \in Tuples : TRUE)[3]
\* _exl3_k_tuple: process_weights_after_loading takes it from the trellises; the state of
\* a layer of one bit width, built with the extension there, puts the config's back
TupleK == IF ~MixedK /\ case.ext THEN Thrice(case.bits) ELSE CHOOSE t \in Tuples : TRUE
\* _exl3_k_max_launch, over all three projections
MaxK == CHOOSE k \in UNION {ToSet(t) : t \in Tuples} :
            \A t \in Tuples : \A i \in 1..3 : t[i] <= k
\* The K arrays of the unified launch; its kernel instance has no case above MaxK.
ArrayK(e) == IF \A i \in 1..3 : KOf(e)[i] <= MaxK THEN KOf(e) ELSE Thrice(0)

\* the elements of S, each behind those before it
Ordered(S, IsBefore(_, _)) ==
    [i \in 1..Cardinality(S) |-> CHOOSE x \in S : Cardinality({y \in S : IsBefore(y, x)}) = i - 1]
TupleBefore(s, t) ==
    \E i \in 1..3 : s[i] < t[i] /\ \A j \in 1..(i - 1) : s[j] = t[j]
\* _exl3_k_groups: the K tuples in order, each with its experts
KGroups == Ordered(Tuples, TupleBefore)
InGroup(e, g) == KOf(e) = KGroups[g]
\* experts in id order, in K-descending order (_exl3_kdesc) and in K-tuple order
ByIds == [i \in 1..NumExperts |-> i - 1]
KMax(e) == CHOOSE k \in {KOf(e)[i] : i \in 1..3} : \A i \in 1..3 : k >= KOf(e)[i]
WiderBefore(d, e) == KMax(e) < KMax(d) \/ (KMax(d) = KMax(e) /\ d < e)
KDescending == Ordered(Experts, WiderBefore)
GroupBefore(d, e) == TupleBefore(KOf(d), KOf(e)) \/ (KOf(d) = KOf(e) /\ d < e)
Packed == Ordered(Experts, GroupBefore)
\* the place of an expert in an order; the sentinel maps to itself
PlaceIn(order, x) == IF x = Remote THEN Remote ELSE (CHOOSE i \in DOMAIN order : order[i] = x) - 1

-----------------------------------------------------------------------------
(* Kernels.  A launch is a record; its token range is first .. last.       *)

Topk(b) == Len(b[1])
LocalOf(b, route) == b[route[1]][route[2]]
\* the rows of a launch, one per route
RowsOf(b, launch) == (launch.first..launch.last) \X (1..Topk(b))
RowNumber(b, launch, row) == (row[1] - launch.first) * Topk(b) + row[2]
\* how many rows have each expert for their key
CountsOf(rows, key) == [e \in Experts |-> Cardinality({r \in rows : key[r] = e})]
Counts(b, first, last) ==
    [e \in Experts |-> Cardinality({r \in (first..last) \X (1..Topk(b)) : LocalOf(b, r) = e})]
\* the position of a row once the rows are sorted by a key; rows of one key keep their order, and
\* where the sort is not stable it permutes the rows of one expert, which takes them all
SortsBefore(key, r, s) ==
    key[r] < key[s] \/ (key[r] = key[s] /\ (r[1] < s[1] \/ (r[1] = s[1] /\ r[2] < s[2])))
Position(rows, key, row) == Cardinality({r \in rows : SortsBefore(key, r, row)}) + 1

\* exl3_moe, exl3_moe_mixedk and the loop of apply_exl3_batched_fat go through the rows,
\* sorted by a key, with a running offset, expert by expert in the order they walk: the rows
\* <<row, expert>> each expert takes.
Walked(rows, key, walk, count) ==
    LET Offset[i \in 0..Len(walk)] == IF i = 0 THEN 0 ELSE Offset[i - 1] + count[walk[i]]
        Takers(p) == {walk[i] : i \in {j \in 1..Len(walk) : Offset[j - 1] < p /\ p <= Offset[j]}}
    IN  UNION {{r} \X Takers(Position(rows, key, r)) : r \in rows}

Contribution(launch, route, expert, k) ==
    [launch |-> launch, route |-> route, expert |-> expert, k |-> k]

\* Every row with its own expert: exl3_moe_coop, which has scratch for CoopSlots rows and
\* skips the sentinel; p2b_fused_moe, one row at a time, zero weight for the sentinel;
\* apply_exl3_python_loop.  The first two take one K tuple for the whole launch.
Direct(b, launch) ==
    LET K(e) == CASE launch.kernel = "loop" -> KOf(e)
                  [] launch.kernel = "coop" -> TupleK
                  [] launch.kernel = "native" -> Thrice(ScalarK)
    IN  {Contribution(launch, r, LocalOf(b, r), K(LocalOf(b, r))) :
            r \in {s \in RowsOf(b, launch) :
                     /\ LocalOf(b, s) # Remote
                     /\ launch.kernel = "coop" => RowNumber(b, launch, s) <= CoopSlots}}

\* _moe_lpt_enabled, and the layer has a K-descending order: the rows are sorted in it
LptOrder == case.lpt /\ MixedK
\* the experts whose rows the fat path takes, as the masking sees the batch
FatIn(b, launch) ==
    {e \in Experts : launch.fat /\ Counts(b, launch.first, launch.last)[e] > Fat}

\* standard_local: the routes to these experts become the sentinel
StandardLocal(b, fat, route) == IF LocalOf(b, route) \in fat THEN Remote ELSE LocalOf(b, route)

\* One launch over all experts, of one K tuple ("batched") or of per-expert K ("unified").
\* The kernel walks the order it is handed, and ids under a binding that takes none
\* (_exl3_moe_tail); it owns the experts whose row count is within 1 .. TempRows.
Standard(b, launch) ==
    LET rows == RowsOf(b, launch)
        fat == FatIn(b, launch)
        key == [r \in rows |-> StandardLocal(b, fat, r)]
        order == IF LptOrder THEN KDescending ELSE ByIds
        walk == IF launch.kernel = "unified" /\ case.orders THEN order ELSE ByIds
        count == CountsOf(rows, key)
        Taken == Walked(rows, [r \in rows |-> PlaceIn(order, key[r])], walk, count)
    IN  {Contribution(launch, t[1], t[2],
                      IF launch.kernel = "unified" THEN ArrayK(t[2]) ELSE TupleK) :
            t \in {s \in Taken : count[s[2]] <= TempRows}}

\* one launch of a K group over its own rows, all others being the sentinel
GroupMasked(b, launch) ==
    LET rows == RowsOf(b, launch)
        fat == FatIn(b, launch)
        key == [r \in rows |->
                  LET e == StandardLocal(b, fat, r)
                  IN  IF e # Remote /\ InGroup(e, launch.group) THEN e ELSE Remote]
        count == CountsOf(rows, key)
        Taken == Walked(rows, key, ByIds, count)
    IN  {Contribution(launch, t[1], t[2], KGroups[launch.group]) :
            t \in {s \in Taken : count[s[2]] <= TempRows}}

\* one launch of a K group over an array all groups share: the offsets run over every
\* expert, the group owns those of its range of packed ids
GroupPacked(b, launch) ==
    LET rows == RowsOf(b, launch)
        fat == FatIn(b, launch)
        key == [r \in rows |-> StandardLocal(b, fat, r)]
        count == CountsOf(rows, key)
        Taken == Walked(rows, [r \in rows |-> PlaceIn(Packed, key[r])], Packed, count)
    IN  {Contribution(launch, t[1], t[2], KGroups[launch.group]) :
            t \in {s \in Taken : InGroup(s[2], launch.group) /\ count[s[2]] <= TempRows}}

\* apply_exl3_batched_fat: the counts are those Python read when it made the launch
FatRows(b, launch) ==
    LET rows == RowsOf(b, launch)
        Taken == Walked(rows, [r \in rows |-> LocalOf(b, r)], ByIds, launch.count)
    IN  {Contribution(launch, t[1], t[2], KOf(t[2])) :
            t \in {s \in Taken : launch.count[s[2]] > Fat}}

Result(b, launch) ==
    CASE launch.kernel \in {"native", "coop", "loop"} -> Direct(b, launch)
      [] launch.kernel \in {"batched", "unified"} -> Standard(b, launch)
      [] launch.kernel = "group" ->
            IF case.packed THEN GroupPacked(b, launch) ELSE GroupMasked(b, launch)
      [] launch.kernel = "fat" -> FatRows(b, launch)

-----------------------------------------------------------------------------
(* The launches of a batch.                                                *)

Over(kernel, first, last) == [kernel |-> kernel, first |-> first, last |-> last]
Masked(kernel, first, last, fat) ==
    [kernel |-> kernel, first |-> first, last |-> last, fat |-> fat]

\* _native_moe_max_rows
RowCap(k) ==
    CASE case.caps.all # NoLimit -> case.caps.all
      [] case.caps.all = NoLimit /\ case.caps.measured /\ k \in DOMAIN MeasuredRows -> MeasuredRows[k]
      [] OTHER -> ContractRows
\* the limit of one bit width comes first (runtime_policy.py)
NativeRowCap(k) == IF k \in DOMAIN case.caps.bit THEN case.caps.bit[k] ELSE RowCap(k)
\* _native_moe_dimensions_supported, and its wrapper for the expert of DeepSeek V4.1
OwnShape == case.shape \in {"wide", "narrow"}
NativeShape == OwnShape \/ (case.shape = "v41" /\ case.v41 /\ case.abi >= 3)
\* _apply_native_fused_moe takes a few rows of one codebook; a mixed-K layer has no K for
\* it, and the first ABI has neither clamping nor another width
NativeTakes(tokens) ==
    /\ case.abi > 0 /\ ~MixedK /\ ScalarK \in 2..4 /\ NativeShape
    /\ case.books = <<"mcg", "mcg", "mcg">>
    /\ case.abi = 1 => case.shape = "wide" /\ ~case.clamp
    /\ tokens <= NativeRowCap(ScalarK)
CoopTakes(tokens, topk) ==
    /\ case.coop /\ CoopCompat /\ Cardinality(ToSet(case.books)) = 1
    /\ tokens * topk <= CoopSlots /\ tokens <= Fat /\ tokens <= TempRows

\* Variant: the fat experts are looked for during a capture too.
FatPossibleCapturing(tokens, capturing) == tokens > Fat
\* no value of the batch may reach the host during a capture
FatPossible(tokens, capturing) == ~capturing /\ tokens > Fat

\* the launches of tokens first .. last once neither native nor coop took them
Batched(b, first, last, capturing) ==
    LET fat == FatPossible(last - first + 1, capturing)
        count == Counts(b, first, last)
        base == IF ~(MixedK /\ ~OneTuple) THEN <<Masked("batched", first, last, fat)>>
                ELSE IF case.mode = "unified" THEN <<Masked("unified", first, last, fat)>>
                ELSE [g \in DOMAIN KGroups |->
                        [kernel |-> "group", first |-> first, last |-> last, fat |-> fat,
                         group |-> g]]
    IN  IF fat /\ \E e \in Experts : count[e] > Fat
        THEN Append(base, [kernel |-> "fat", first |-> first, last |-> last, count |-> count])
        ELSE base

\* an expert got more rows than the scratch holds: the batch is cut into slices
TooLong(b, capturing) ==
    /\ ~capturing /\ Len(b) > TempRows
    /\ \E e \in Experts : Counts(b, 1, Len(b))[e] > TempRows

\* apply_exl3_fused_moe for a batch, or a slice, that is not cut any further
Whole(b, first, last, capturing) ==
    LET tokens == last - first + 1
    IN  IF NativeTakes(tokens) THEN <<Over("native", first, last)>>
        ELSE IF CoopTakes(tokens, Topk(b)) THEN <<Over("coop", first, last)>>
        ELSE Batched(b, first, last, capturing)

SliceEnd(b, s) == IF s * TempRows < Len(b) THEN s * TempRows ELSE Len(b)
Sliced(b, capturing) ==
    FlattenSeq([s \in 1..((Len(b) + TempRows - 1) \div TempRows) |->
                   Whole(b, (s - 1) * TempRows + 1, SliceEnd(b, s), capturing)])

\* the launches of apply_exl3_experts
Launches(b, capturing) ==
    IF NativeTakes(Len(b)) THEN <<Over("native", 1, Len(b))>>
    ELSE IF HasPointers /\ case.ext
         THEN IF TooLong(b, capturing) THEN Sliced(b, capturing)
              ELSE Whole(b, 1, Len(b), capturing)
    ELSE <<Over("loop", 1, Len(b))>>

\* The eager loop reads ids on the host, which a capture forbids.
Capturable(b) == (HasPointers /\ case.ext) \/ NativeTakes(Len(b))
\* A mixed-K layer without fused state goes to apply_mixed_reference and raises there.
Servable == MixedK => HasPointers

-----------------------------------------------------------------------------
DispatchInit ==
    /\ case \in Cases
    /\ graph = None /\ batch = None /\ todo = <<>> /\ done = {}

Idle == batch = None

\* an eager forward pass
Forward(b) ==
    /\ Idle /\ Servable
    /\ batch' = b /\ todo' = Launches(b, FALSE) /\ done' = {}
    /\ UNCHANGED <<case, graph>>

\* a capture records its launches and computes nothing
Capture(b) ==
    /\ Idle /\ Servable /\ graph = None /\ Len(b) <= CaptureTokens /\ Capturable(b)
    /\ graph' = [shape |-> <<Len(b), Topk(b)>>, launches |-> Launches(b, TRUE)]
    /\ UNCHANGED <<case, batch, todo, done>>

Replay(b) ==
    /\ Idle /\ graph # None /\ graph.shape = <<Len(b), Topk(b)>>
    /\ batch' = b /\ todo' = graph.launches /\ done' = {}
    /\ UNCHANGED <<case, graph>>

Launch ==
    /\ todo # <<>>
    /\ done' = done \cup Result(batch, Head(todo))
    /\ todo' = Tail(todo)
    /\ UNCHANGED <<case, graph, batch>>

\* the output is handed on
Return ==
    /\ ~Idle /\ todo = <<>>
    /\ batch' = None /\ done' = {}
    /\ UNCHANGED <<case, graph, todo>>

DispatchNext == Launch \/ Return \/ \E b \in Batches : Forward(b) \/ Capture(b) \/ Replay(b)

DispatchSpec == DispatchInit /\ [][DispatchNext]_dispatchVars

-----------------------------------------------------------------------------
(* Properties.                                                             *)

Finished == ~Idle /\ todo = <<>>
RoutesOf(b) == (DOMAIN b) \X (1..Topk(b))

DispatchTypeOK ==
    /\ case \in Cases
    /\ batch \in Batches \cup {None}
    /\ \A i \in DOMAIN todo : todo[i].first \in 1..todo[i].last /\ todo[i].last <= Len(batch)
    /\ \A c \in done : c.route \in RoutesOf(batch) /\ c.expert \in Experts

\* However the batch was split among kernels (coop, native, batched, one launch per K
\* group, fat experts, slices) and whether its launches were chosen for it or replayed
\* from a capture of another batch, every route to a local expert is computed exactly
\* once and by that expert, and a route to another rank not at all.  One build is excepted:
\* rows sorted in the work order for a unified launch that does not take it (observation J).
OrderTaken == case.lpt /\ case.mode = "unified" => case.orders
EachRouteOnce ==
    Finished /\ OrderTaken =>
        \A r \in RoutesOf(batch) :
            {c.expert : c \in {d \in done : d.route = r}} = {LocalOf(batch, r)} \ {Remote}
                /\ Cardinality({d \in done : d.route = r}) <= 1

\* Every launch reads an expert's trellises at the bit widths they were packed with, not at
\* those of the config ("Fused kernels must receive the physical uniform K or they will
\* interpret the trellis with the wrong width", physical_k_compat.py).
RightBits == \A c \in done : c.k = KOf(c.expert)
=============================================================================
