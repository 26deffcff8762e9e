----------------------------- MODULE LinearLoad -----------------------------
(***************************************************************************)
(* Loading one dense EXL3 linear layer on one rank (exl3.py,               *)
(* Exl3LinearMethod: create_weights, the weight loaders,                   *)
(* process_weights_after_loading, _apply_impl).                            *)
(*                                                                         *)
(* A layer has one or more output shards (q, k, v; gate, up; ...).  The    *)
(* engine delivers checkpoint tensors in any order, one per shard or one   *)
(* over several shards; the loader takes each apart and cuts out the part  *)
(* of this rank.  Columns and inputs are counted in units of 64 (half an   *)
(* EXL3 block); the output columns of the checkpoint's shards are numbered *)
(* through, and the bytes of a tensor are abstracted to the sequence of    *)
(* its columns and the sequence of its inputs.  Left out: the bias, marker *)
(* values other than set or not, and a tensor that is delivered again.     *)
(***************************************************************************)
EXTENDS Integers, SequencesExt, FiniteSetsExt

(* A layer and its checkpoint, a record                                    *)
(*   kind      "column", "row" or "qkv"                                    *)
(*   parts     shard -> outputs this rank has of it                        *)
(*   full      shard -> its outputs in the checkpoint                      *)
(*   ins       inputs this rank has                                        *)
(*   tp, rank                                                              *)
(*   bf16      bf16_shards of the config, a sequence                       *)
(*   indexer   MinimaxM3QKVParallelLinearWithIndexer, five shards          *)
(*   mxfp8     VLLM_EXL3_INDEXER_MXFP8                                     *)
(*   kernel    the engine has a weight-only MXFP8 kernel that takes them   *)
(*   devices   where the parameters are when they are processed            *)
(*   misscaled indexer shards with a scale block of another shape          *)
(*   coalesce  VLLM_EXL3_COALESCE_SHARDS                                   *)
(*   depth, suh, codebook    shard -> K, input signs, markers it carries   *)
(*   together  shards that are one checkpoint tensor, in order             *)
(*   named     the engine names these shards (a tuple of ids)              *)
(*   stale     EXL3 shards the checkpoint has a BF16 weight of, too        *)
VARIABLES layer,   \* fixed
          stage,   \* "new", "loading", "ready" or "failed" (an exception)
          param,   \* what the loaders have written
          linears, \* _exl3_linears: the handles, in order
          given    \* history: the tensors delivered

linearVars == <<layer, stage, param, linears, given>>

-----------------------------------------------------------------------------
(* create_weights.                                                         *)

NumShards == Len(layer.parts)
Shards == 1..NumShards
\* _exl3_pad128
Pad(n) == n + (n % 2)
Sizes == [i \in Shards |-> Pad(layer.parts[i])]
InSize == Pad(layer.ins)
Padded == InSize # layer.ins \/ Sizes # layer.parts

\* outputs of the first n of a sequence of sizes
Sum(sizes, n) == FoldLeft(LAMBDA total, size : total + size, 0, SubSeq(sizes, 1, n))
Total == Sum(Sizes, NumShards)

IndexerShards == IF layer.indexer THEN {NumShards - 1, NumShards} ELSE {}
\* the BF16 staging rows are those of these shards, in this order
Bf16Shards ==
    IF layer.indexer /\ ~layer.mxfp8
    THEN SetToSortSeq(ToSet(layer.bf16) \cup IndexerShards, LAMBDA i, j : i < j)
    ELSE layer.bf16
Bf16Rows == [n \in DOMAIN Bf16Shards |-> Sizes[Bf16Shards[n]]]
RowOf(i) == CHOOSE n \in DOMAIN Bf16Shards : Bf16Shards[n] = i
Exl3Shards == Shards \ (ToSet(layer.bf16) \cup IndexerShards)

Unsupported ==
    \/ layer.tp > 1 /\ (layer.bf16 # <<>> \/ layer.indexer)
    \/ Padded /\ (layer.tp > 1 \/ Bf16Shards # <<>> \/ NumShards > 1)

Missing == <<>>
Garbage == 0     \* uninitialised memory; columns, inputs and signs are numbered from 1
Unscaled == 0
\* rows of BF16, each of a column and the scale it was multiplied with
Rows(cols, scales) == [c \in DOMAIN cols |-> [from |-> cols[c], scale |-> scales[c]]]
PlainRows(cols) == Rows(cols, [c \in DOMAIN cols |-> Unscaled])
EmptyParam ==
    [trellis |-> [i \in Shards |-> Missing],      \* an empty slot per shard
     suh     |-> [i \in Shards |-> [ins |-> Missing, signs |-> Garbage]],
     svh     |-> [p \in 1..Total |-> Garbage],    \* all shards in one tensor
     marker  |-> [i \in Shards |-> {}],
     rows    |-> PlainRows([p \in 1..Sum(Bf16Rows, Len(Bf16Rows)) |-> Garbage]),
     payload |-> [i \in IndexerShards |-> Missing],
     scale   |-> [i \in IndexerShards |-> Missing],
     shim    |-> [i \in IndexerShards |-> Missing]]  \* what the MXFP8 kernel applies

Create ==
    /\ stage = "new"
    /\ \/ Unsupported /\ stage' = "failed" /\ UNCHANGED param
       \/ ~Unsupported /\ stage' = "loading" /\ param' = EmptyParam
    /\ UNCHANGED <<layer, linears, given>>

-----------------------------------------------------------------------------
(* The checkpoint.  A tensor is a record [suffix, id, cols, ins, value]; its *)
(* id is the sequence of shards the engine names, <<>> for none.           *)

From(i) == Sum(layer.full, i - 1)
ColumnsOf(i) == [c \in 1..layer.full[i] |-> From(i) + c]
AllIns == [x \in 1..(IF layer.kind = "row" THEN InSize * layer.tp ELSE InSize) |-> x]

Tensor(suffix, shards, value) ==
    [suffix |-> suffix, value |-> value, ins |-> AllIns,
     cols |-> FlattenSeq([n \in DOMAIN shards |-> ColumnsOf(shards[n])]),
     id |-> IF NumShards = 1 \/ (Len(shards) > 1 /\ ~layer.named) THEN <<>> ELSE shards]

Groups == {<<i>> : i \in Shards \ ToSet(layer.together)}
              \cup (IF layer.together = <<>> THEN {} ELSE {layer.together})
Exl3Tensors(g) ==
    {Tensor("trellis", g, layer.depth[g[1]]), Tensor("suh", g, layer.suh[g[1]]),
     Tensor("svh", g, 0)} \cup {Tensor(kind, g, 0) : kind \in layer.codebook[g[1]]}
TensorsOf(g) ==
    IF g[1] \in IndexerShards
    THEN {Tensor("weight", g, 0),
          Tensor("weight_scale", g, IF g[1] \in layer.misscaled THEN 1 ELSE 0)}
    ELSE IF g[1] \in ToSet(layer.bf16) THEN {Tensor("weight", g, 0)}
    ELSE Exl3Tensors(g) \cup {Tensor("weight", <<i>>, 0) : i \in layer.stale \cap ToSet(g)}
Checkpoint == UNION {TensorsOf(g) : g \in Groups}

-----------------------------------------------------------------------------
(* weight_loader.                                                          *)

PerInput == {"suh", "mcg", "mul1"}   \* one for all outputs of a tensor

\* the shards a tensor is for: those named, or all if nothing is named and the tensor
\* covers all of them
Span(t) ==
    IF t.id = <<>> /\ NumShards > 1
          /\ (t.suffix \in PerInput \/ (Len(t.cols) = Total /\ Len(t.cols) # Sizes[1]))
    THEN [i \in Shards |-> i]
    ELSE IF t.id = <<>> THEN <<1>> ELSE t.id
\* a tensor over several shards has the outputs this rank has of them, no more
SpanFits(t) ==
    \/ Len(Span(t)) = 1 \/ t.suffix \in PerInput
    \/ Len(t.cols) = FoldLeft(LAMBDA total, i : total + Sizes[i], 0, Span(t))
\* the n-th piece of a tensor
Piece(t, n) ==
    LET ids == Span(t)
        start == FoldLeft(LAMBDA total, i : total + Sizes[i], 0, SubSeq(ids, 1, n - 1))
    IN  [shard |-> ids[n], suffix |-> t.suffix, ins |-> t.ins, value |-> t.value,
         cols |-> IF Len(ids) = 1 \/ t.suffix \in PerInput THEN t.cols
                  ELSE SubSeq(t.cols, start + 1, start + Sizes[ids[n]])]

AtLeastOne(n) == IF n = 0 THEN 1 ELSE n
\* Variant: every shard of a qkv layer is cut in tp parts.
PartsOfPlain(i, total) == layer.tp
\* in how many parts the outputs of shard i are cut: as many as there are, where k and v
\* heads are fewer than ranks
PartsOf(i, total) ==
    IF layer.kind = "qkv" THEN AtLeastOne(total \div Sizes[i]) ELSE layer.tp
\* the part of this rank; ranks that share a head take the same
PartOf(i, total) ==
    IF layer.kind = "qkv" THEN layer.rank \div AtLeastOne(layer.tp \div PartsOf(i, total))
    ELSE layer.rank
\* _narrow_tp without alignment
CanNarrow(s, parts) == parts <= 1 \/ Len(s) % parts = 0
Narrow(s, part, parts) ==
    IF parts <= 1 THEN s
    ELSE SubSeq(s, part * (Len(s) \div parts) + 1, (part + 1) * (Len(s) \div parts))

\* what is cut of a piece: inputs of a row layer, outputs of any other; suh has no outputs
\* to be cut, svh no inputs, and a weight that has this rank's shape is taken whole
CutsIns(q) == layer.kind = "row" /\ q.suffix # "svh"
CutsCols(q) == layer.kind # "row" /\ q.suffix # "suh"
IsOurs(q) == q.suffix = "weight" /\ Len(q.cols) = Sizes[q.shard] /\ Len(q.ins) = InSize
CanCut(q) ==
    \/ IsOurs(q)
    \/ /\ CutsIns(q) => CanNarrow(q.ins, layer.tp)
       /\ CutsCols(q) => CanNarrow(q.cols, PartsOf(q.shard, Len(q.cols)))
Cut(q) ==
    IF IsOurs(q) THEN q
    ELSE [q EXCEPT
            !.ins = IF CutsIns(q) THEN Narrow(@, layer.rank, layer.tp) ELSE @,
            !.cols = IF CutsCols(q)
                     THEN Narrow(@, PartOf(q.shard, Len(@)), PartsOf(q.shard, Len(@))) ELSE @]

\* s with part copied in behind position start
Overwrite(s, start, part) ==
    [p \in DOMAIN s |-> IF p \in (start + 1)..(start + Len(part)) THEN part[p - start] ELSE s[p]]

\* The checks of a piece that was cut; a trellis is adopted with any shape if its slot is
\* empty.
Fits(p, q) ==
    CASE q.suffix = "trellis" -> \/ p.trellis[q.shard] = Missing
                                 \/ /\ Len(p.trellis[q.shard].cols) = Len(q.cols)
                                    /\ Len(p.trellis[q.shard].ins) = Len(q.ins)
                                    /\ p.trellis[q.shard].depth = q.value
      [] q.suffix = "suh"     -> Len(q.ins) = InSize
      [] q.suffix = "svh"     -> Len(q.cols) = Sizes[q.shard]
      [] q.suffix = "weight"  -> Len(q.cols) = Sizes[q.shard] /\ Len(q.ins) = InSize

Stored(p, q) ==
    CASE q.suffix = "trellis" ->
            [p EXCEPT !.trellis[q.shard] = [cols |-> q.cols, ins |-> q.ins, depth |-> q.value]]
      [] q.suffix = "suh" -> [p EXCEPT !.suh[q.shard] = [ins |-> q.ins, signs |-> q.value]]
      [] q.suffix = "svh" -> [p EXCEPT !.svh = Overwrite(@, Sum(Sizes, q.shard - 1), q.cols)]
      [] q.suffix = "weight" ->
            IF q.shard \in ToSet(Bf16Shards)
            THEN [p EXCEPT !.rows = Overwrite(@, Sum(Bf16Rows, RowOf(q.shard) - 1), PlainRows(q.cols))]
            ELSE p    \* the stale BF16 weight of an EXL3 shard

Refused == <<>>
\* one piece, in this order: an indexer shard, a marker, anything else
LoadPiece(p, q) ==
    IF q.shard \in IndexerShards
    THEN IF q.suffix = "weight" /\ p.payload[q.shard] = Missing
         THEN [p EXCEPT !.payload[q.shard] = q.cols] ELSE Refused
    ELSE IF q.suffix \in {"mcg", "mul1"}
    THEN [p EXCEPT !.marker[q.shard] = @ \cup {q.suffix}]
    ELSE IF CanCut(q) /\ Fits(p, Cut(q)) THEN Stored(p, Cut(q)) ELSE Refused

\* _make_indexer_scale_loader
LoadScale(t) ==
    IF t.id[1] \in IndexerShards /\ param.scale[t.id[1]] = Missing
    THEN [param EXCEPT !.scale[t.id[1]] = [cols |-> t.cols, fits |-> t.value = 0]] ELSE Refused

Loaded(t) ==
    IF t.suffix = "weight_scale" THEN LoadScale(t)
    ELSE IF ~SpanFits(t) THEN Refused
    ELSE FoldLeft(LAMBDA p, n : IF p = Refused THEN Refused ELSE LoadPiece(p, Piece(t, n)),
                  param, [n \in 1..Len(Span(t)) |-> n])

Deliver(t) ==
    /\ stage = "loading"
    /\ given' = given \cup {t}
    /\ LET result == Loaded(t)
       IN  \/ result # Refused /\ param' = result /\ UNCHANGED stage
           \/ result = Refused /\ stage' = "failed" /\ UNCHANGED param
    /\ UNCHANGED <<layer, linears>>

-----------------------------------------------------------------------------
(* process_weights_after_loading.                                          *)

\* one codebook marker per EXL3 shard
MarkersGood == \A i \in Exl3Shards : Cardinality(param.marker[i]) = 1
TrellisesLoaded == \A i \in Exl3Shards : param.trellis[i] # Missing
IndexerLoaded == \A i \in IndexerShards : param.payload[i] # Missing /\ param.scale[i] # Missing

\* the input signs of a shard; where none were loaded, whatever the memory holds
Signs(i, memory) ==
    IF param.suh[i].signs = Garbage THEN memory[i] ELSE param.suh[i].signs
\* Variant: neighbours are merged by K and codebook alone.
CanMergeAnySigns(i, j, memory) ==
    /\ param.trellis[i].depth = param.trellis[j].depth
    /\ param.marker[i] = param.marker[j]
\* neighbouring shards that can be one launch
CanMerge(i, j, memory) ==
    /\ param.trellis[i].depth = param.trellis[j].depth
    /\ param.marker[i] = param.marker[j]
    /\ Signs(i, memory) = Signs(j, memory)
Coalesce == layer.coalesce /\ NumShards > 1 /\ Bf16Shards = <<>> /\ ~Padded
                /\ ~(layer.indexer /\ layer.mxfp8)
\* the first shards of the runs that become one handle each
Heads(memory) ==
    SetToSortSeq({i \in Shards : i = 1 \/ ~Coalesce \/ ~CanMerge(i - 1, i, memory)},
                 LAMBDA i, j : i < j)

NoHandle == <<>>   \* the shard is served from BF16 rows or by the MXFP8 kernel
Handle(first, last, memory) ==
    IF first \notin Exl3Shards THEN NoHandle
    ELSE [cols     |-> FlattenSeq([n \in 1..(last - first + 1) |->
                                      param.trellis[first + n - 1].cols]),
          ins      |-> param.trellis[first].ins,
          signs    |-> Signs(first, memory),
          scales   |-> SubSeq(param.svh, Sum(Sizes, first - 1) + 1, Sum(Sizes, last)),
          codebook |-> param.marker[first]]
Handles(memory) ==
    LET heads == Heads(memory)
        EndOf(n) == IF n = Len(heads) THEN NumShards ELSE heads[n + 1] - 1
    IN  [n \in DOMAIN heads |-> Handle(heads[n], EndOf(n), memory)]

\* The indexer shards: each has a payload and a scale block of its shape.  They are
\* dequantised into their BF16 rows, or moved to the one CUDA device of the layer's
\* parameters and kept as they are for the engine's kernel.
ScalesFit(i) == param.scale[i].fits /\ Len(param.scale[i].cols) = Len(param.payload[i])
Target == layer.devices = {"cuda"}
CanKeep(i) == Target /\ ScalesFit(i) /\ layer.kernel
CanDequantise(i) == ScalesFit(i) /\ Len(param.payload[i]) = Sizes[i]
IndexerGood ==
    /\ IndexerLoaded
    /\ \A i \in IndexerShards : IF layer.mxfp8 THEN CanKeep(i) ELSE CanDequantise(i)
Scaled(i) == Rows(param.payload[i], param.scale[i].cols)
RowsBefore(i) == Sum(Bf16Rows, RowOf(i) - 1)
DequantisedRows ==
    FoldLeft(LAMBDA rows, i : Overwrite(rows, RowsBefore(i), Scaled(i)), param.rows,
             SetToSeq(IndexerShards))
ProcessIndexer ==
    [param EXCEPT !.rows = IF layer.mxfp8 THEN @ ELSE DequantisedRows,
                  !.shim = IF layer.mxfp8 THEN [i \in IndexerShards |-> Scaled(i)] ELSE @,
                  !.payload = [i \in IndexerShards |-> Missing],
                  !.scale = [i \in IndexerShards |-> Missing]]

Memory == [{i \in Shards : param.suh[i].signs = Garbage} -> ToSet(layer.suh) \cup {Garbage}]
ProcessLinear ==
    /\ stage = "loading"
    /\ \/ /\ MarkersGood /\ TrellisesLoaded /\ IndexerGood
          /\ \E memory \in Memory : linears' = Handles(memory)
          /\ param' = ProcessIndexer
          /\ stage' = "ready"
       \/ /\ ~(MarkersGood /\ TrellisesLoaded /\ IndexerGood)
          /\ stage' = "failed" /\ UNCHANGED <<param, linears>>
    /\ UNCHANGED <<layer, given>>

LinearInit == stage = "new" /\ param = Missing /\ linears = <<>> /\ given = {}
LinearNext == Create \/ ProcessLinear \/ \E t \in Checkpoint \ given : Deliver(t)

-----------------------------------------------------------------------------
(* _apply_impl: the output columns, each with what it is computed from.    *)

Dense(h) ==
    [c \in DOMAIN h.cols |-> [from |-> h.cols[c], scale |-> h.scales[c], ins |-> h.ins,
                              signs |-> h.signs, codebook |-> h.codebook]]
Plain(rows) == [c \in DOMAIN rows |-> [from |-> rows[c].from, scale |-> rows[c].scale, ins |-> AllIns]]
\* what handle i puts out
OutputOf(i) ==
    IF layer.mxfp8 /\ i \in IndexerShards THEN Plain(param.shim[i])
    ELSE IF i \in ToSet(Bf16Shards)
    THEN Plain(SubSeq(param.rows, RowsBefore(i) + 1, RowsBefore(i) + Sizes[i]))
    ELSE Dense(linears[i])
\* padded columns are cut off
Output == SubSeq(FlattenSeq([i \in DOMAIN linears |-> OutputOf(i)]), 1,
                 Sum(layer.parts, NumShards))

-----------------------------------------------------------------------------
(* Properties.                                                             *)

LinearTypeOK ==
    /\ stage \in {"new", "loading", "ready", "failed"}
    /\ stage \in {"loading", "ready"} =>
          /\ DOMAIN param = DOMAIN EmptyParam
          /\ Len(param.svh) = Total /\ Len(param.rows) = Sum(Bf16Rows, Len(Bf16Rows))
          /\ \A i \in Shards : param.marker[i] \subseteq {"mcg", "mul1"}

\* The columns and inputs this rank computes of shard i: it has every tp-th part of the
\* shard, or shares a part with other ranks where the checkpoint has fewer than tp.
Sharing == [i \in Shards |-> (layer.tp * Sizes[i]) \div layer.full[i]]
OurColumn(i, c) ==
    From(i) + c + (IF layer.kind = "row" THEN 0 ELSE (layer.rank \div Sharing[i]) * Sizes[i])
OurIns == [x \in 1..InSize |-> x + (IF layer.kind = "row" THEN layer.rank * InSize ELSE 0)]
Wanted(i, c) ==
    IF i \in Exl3Shards
    THEN [from |-> OurColumn(i, c), scale |-> OurColumn(i, c), ins |-> OurIns,
          signs |-> layer.suh[i], codebook |-> layer.codebook[i]]
    ELSE [from |-> OurColumn(i, c), ins |-> AllIns,
          scale |-> IF i \in IndexerShards THEN OurColumn(i, c) ELSE Unscaled]

\* Once a layer serves, every output column of a shard whose tensors all came is computed
\* at its declared place from its own checkpoint column, with the scale, the inputs, the
\* signs and the codebook of its shard; however the checkpoint divides the shards into
\* tensors, in whatever order they came, whichever neighbours were merged into one launch
\* and whatever the memory of other shards held.
Came(i) == \A g \in Groups : i \in ToSet(g) => TensorsOf(g) \subseteq given
OutputInPlace ==
    stage = "ready" =>
        /\ Len(Output) = Sum(layer.parts, NumShards)
        /\ \A i \in Shards : Came(i) =>
              \A c \in 1..layer.parts[i] : Output[Sum(layer.parts, i - 1) + c] = Wanted(i, c)

\* A layer is accepted only with every trellis and indexer tensor of it and exactly one
\* codebook marker per EXL3 shard.
Needed(g) == {t \in TensorsOf(g) : \/ t.suffix \in {"trellis", "weight_scale"}
                                   \/ t.suffix = "weight" /\ g[1] \in IndexerShards}
Markers(g) == {t \in TensorsOf(g) : t.suffix \in {"mcg", "mul1"}}
LinearAcceptedIsComplete ==
    stage = "ready" =>
        \A g \in Groups : /\ Needed(g) \subseteq given
                          /\ g[1] \in Exl3Shards => Cardinality(Markers(g) \cap given) = 1

\* What the code says it supports: no BF16 and no indexer shards and no padding at tensor
\* parallel sizes above one, padding only for a single EXL3 shard, MXFP8 only on one CUDA
\* device with a kernel; and one marker per EXL3 shard and one scale per block in the
\* checkpoint.
LinearSupported ==
    /\ layer.tp > 1 => layer.bf16 = <<>> /\ ~layer.indexer /\ ~Padded
    /\ Padded => NumShards = 1 /\ layer.bf16 = <<>>
    /\ layer.indexer => layer.misscaled = {}
    /\ layer.indexer /\ layer.mxfp8 => layer.kernel /\ layer.devices = {"cuda"}
    /\ \A i \in Exl3Shards : Cardinality(layer.codebook[i]) = 1

\* A dense layer is refused only if it is not supported, when it is processed with a tensor
\* of it missing, or at the trellis or the output scales of several shards where they are
\* cut over ranks: the loader may take one tensor for several shards, but compares it uncut
\* with the outputs of this rank (observation M).
LinearRejectedIsBad ==
    stage' = "failed" /\ stage # "failed" =>
        \/ ~LinearSupported
        \/ ProcessLinear /\ given # Checkpoint
        \/ /\ layer.tp > 1
           /\ \E g \in Groups : \E t \in Exl3Tensors(g) :
                 Len(g) > 1 /\ t.suffix \in {"trellis", "svh"} /\ Deliver(t)

=============================================================================
