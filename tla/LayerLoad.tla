------------------------------ MODULE LayerLoad ------------------------------
(***************************************************************************)
(* A layer of a model, from its quantization config to its loaded weights: *)
(* the method QuantConfig gives it, and the load that method does: MoeLoad *)
(* for routed experts (MixedStore if they are kept tensor by tensor),      *)
(* LinearLoad for dense EXL3 layers, EmbeddingLoad for n-gram tables.      *)
(* Layers of other methods are loaded by the engine.                       *)
(***************************************************************************)
EXTENDS MoeLoad, QuantConfig

CONSTANT Units   \* the layers, records of QuantConfig with
  (* tensors  the checkpoint's modules stacked in it: path -> format, which *)
  (*          is "exl3", "source" (what the delegate reads) or "bf16"       *)
  (* k        the widest of its EXL3 tensors, NotAsked if that is not the K *)
  (*          of them all                                                   *)
  (* load     what is loaded, as in the module of its load, or NotAsked     *)

VARIABLES unit,
          layer, stage, param, linears, given,
          table, tstage, held, packed, aliased, offsets, fresh,
          store, sstage, emap, payload, sealed, inners, groups

Linear == INSTANCE LinearLoad
Table == INSTANCE EmbeddingLoad
Bank == INSTANCE MixedStore

denseVars == <<layer, stage, param, linears, given>>
tableVars == <<table, tstage, held, packed, aliased, offsets, fresh>>
storeVars == <<store, sstage, emap, payload, sealed, inners, groups>>
layerVars == <<vars, unit, denseVars, tableVars, storeVars>>

-----------------------------------------------------------------------------
Loads(u) == Route(u) = "exl3" /\ u.load # NotAsked
LoadsExperts(u) == Loads(u) /\ u.class = "experts" /\ ~u.quant.perTensor
LoadsStore(u) == Loads(u) /\ u.class = "experts" /\ u.quant.perTensor
LoadsLinear(u) == Loads(u) /\ u.class \in {"linear", "head"}
LoadsTable(u) == Loads(u) /\ u.class = "embedding"

\* a store is of a placement of the engine and of tensors of the layer's experts, and what
\* was loaded before is of them
ASSUME StoresAssumption ==
    \A u \in Units : LoadsStore(u) =>
        /\ u.load.placement \in DOMAIN LocalOf /\ DOMAIN u.load.pack \subseteq Global \X Projections
        /\ \A t \in DOMAIN u.load.pack : u.load.pack[t].codebook \subseteq {"mcg", "mul1"}
        /\ \A x \in u.load.early : \E t \in DOMAIN u.load.pack :
              \E s \in {"trellis", "suh", "svh"} \cup u.load.pack[t].codebook : x = t \o <<s>>

\* a dense layer has shards, and a tensor for several of them is named by the engine or is
\* for them all
ASSUME DenseAssumption ==
    \A u \in Units : LoadsLinear(u) =>
        /\ {"parts", "together", "named", "codebook"} \subseteq DOMAIN u.load
        /\ u.load.parts \in Seq(Nat) /\ u.load.parts # <<>>
        /\ u.load.together \in Seq(DOMAIN u.load.parts)
        /\ \A i \in DOMAIN u.load.parts : u.load.codebook[i] \subseteq {"mcg", "mul1"}
        /\ ~u.load.named /\ Len(u.load.together) > 1
              => Range(u.load.together) = DOMAIN u.load.parts

\* a table has rows, as many offsets as sizes of heads in any versions, and what is looked up
\* are rows it has
ASSUME TablesAssumption ==
    \A u \in Units : LoadsTable(u) =>
        /\ u.load.disk \in BOOLEAN /\ u.load.versions \in Nat
        /\ u.load.shards \in Nat \ {0} /\ u.load.rows \in Nat \ {0}
        /\ \A v, w \in 1..u.load.versions :
              LET offs  == u.load.layouts[v].offsets
                  sizes == u.load.layouts[w].sizes
              IN  offs \in Seq(Int) /\ sizes \in Seq(Nat) /\ Len(offs) = Len(sizes)
        /\ \A ids \in u.load.batches : ids \in Seq(0..(u.load.shards * u.load.rows - 1))

LayerInit ==
    /\ unit \in Units
    /\ Init
    /\ [config |-> config, pack |-> pack] =
          IF LoadsExperts(unit) THEN unit.load ELSE CHOOSE c \in Cases : TRUE
    /\ layer = IF LoadsLinear(unit) THEN [unit.load EXCEPT !.bf16 = Bf16ShardsOf(unit)]
                                    ELSE NotAsked
    /\ table = IF LoadsTable(unit) THEN unit.load ELSE NotAsked
    /\ store = IF LoadsStore(unit) THEN unit.load ELSE NotAsked
    /\ Linear!LinearInit /\ Table!TableInit /\ Bank!StoreInit

LoadExperts == LoadsExperts(unit) /\ Next /\ UNCHANGED <<unit, denseVars, tableVars, storeVars>>
LoadLinear == LoadsLinear(unit) /\ Linear!LinearNext /\ UNCHANGED <<vars, unit, tableVars, storeVars>>
LoadTable == LoadsTable(unit) /\ Table!TableNext /\ UNCHANGED <<vars, unit, denseVars, storeVars>>
LoadStore == LoadsStore(unit) /\ Bank!StoreNext /\ UNCHANGED <<vars, unit, denseVars, tableVars>>

LayerNext == LoadExperts \/ LoadLinear \/ LoadTable \/ LoadStore
LayerSpec == LayerInit /\ [][LayerNext]_layerVars

-----------------------------------------------------------------------------
(* Properties.                                                             *)

\* A layer is given to the EXL3 loader exactly if its checkpoint tensors are EXL3, whether
\* a block of the config, the tensor ledger (by checkpoint names, of unfused projections)
\* or the architecture says so, with the K of its tensors, whatever block, draft or key
\* of a mixed pack it is under; otherwise to a method that reads their format.  (A layer
\* routed wrongly drops its trellises at load and serves an uninitialised weight.)  Only
\* a config with an impossible K or a delegate that cannot be made ends in an error.
Unusable(u) ==
    \/ \E k \in WidthsDeclared(u.quant) \ {NotAsked} : k > 8 \/ k < 2
    \/ u.quant.delegate # NotAsked /\ ~u.quant.delegate.works /\ "exl3" \notin Range(u.tensors)
RoutedToFormat ==
    LET formats == Range(unit.tensors)
    IN  IF Route(unit) = "error" THEN Unusable(unit)
        ELSE IF "exl3" \in formats
        THEN Route(unit) = "exl3" /\ unit.k \in {NotAsked, RouteBits(unit)}
        ELSE formats = {Route(unit)}

\* A layer is accepted only with all its trellises (and codebook markers, indexer
\* tensors, shards of a table and a layout of its heads, tensors of a store); experts
\* without an arena plan, where an empty placeholder tells.
AcceptedIsComplete ==
    /\ ReadyIsLoadedUnplanned
    /\ LoadsLinear(unit) => Linear!LinearAcceptedIsComplete
    /\ LoadsTable(unit) => Table!TableAcceptedIsComplete
    /\ LoadsStore(unit) => Bank!StoreAcceptedIsComplete

\* What is served of experts is their own, see ServesLatest of MoeLoad and
\* StoreServesOwn of MixedStore.
ExpertsServeOwn == ServesLatest /\ (LoadsStore(unit) => Bank!StoreServesOwn)

\* A lookup of a table gives the rows of its ids, see LooksUpOwnRow of EmbeddingLoad.
LooksUpOwnRow == LoadsTable(unit) => Table!LooksUpOwnRow

\* What a layer serves are the bytes of its own checkpoint tensors.
ServesOwn == ExpertsServeOwn /\ LooksUpOwnRow

\* Every output column a dense layer serves is its own checkpoint column, see
\* OutputInPlace of LinearLoad.
OutputInPlace == LoadsLinear(unit) => Linear!OutputInPlace

\* A load ends in an error only in the processing, and only if the checkpoint is unusable
\* or a tensor of it was not delivered, or UVA is required and cannot be had, or the dense
\* layer is one the code says it does not support: no order of the deliveries, no second
\* processing, no mix of bit widths, no way a tensor takes makes the code reject a good
\* load, and the shapes planned from the headers (Offset + local id) are those of the
\* tensors the engine sends (the layer's expert map).  Two good loads are rejected, at a
\* delivery: experts without arenas that a side file lists (RejectedIsBad of MoeLoad), and
\* one tensor for several dense shards that ranks cut (LinearRejectedIsBad of LinearLoad).
RejectsOnlyBad ==
    [][/\ RejectedIsBad
       /\ Linear!LinearRejectedIsBad
       /\ tstage' = "failed" /\ tstage # "failed" => Table!TableRejectedIsBad
      ]_<<phase, stage, tstage>>
=============================================================================
