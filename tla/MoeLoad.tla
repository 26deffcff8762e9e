------------------------------- MODULE MoeLoad -------------------------------
(***************************************************************************)
(* Loading the routed experts of one MoE layer on one rank (exl3.py:       *)
(* create_weights, _load_exl3, prepare_trellis_arena_plan,                 *)
(* _direct_fill_trellis_slot, _pack_trellis_arenas,                        *)
(* process_weights_after_loading).                                         *)
(*                                                                         *)
(* The engine hands over checkpoint tensors one at a time, in any order,   *)
(* possibly not all, possibly again in a newer version, and has the layer  *)
(* processed, possibly again after newer versions.  A trellis takes one of *)
(* three ways: straight into an arena planned from the file headers, over  *)
(* a staging dictionary that is packed into arenas by the processing, or   *)
(* (arenas off) as a tensor of its own.                                    *)
(* The bytes of a trellis are abstracted to its tensor and version, its    *)
(* shape to its bit width K (TpGeometry has the tile geometry).  Left out: *)
(* suh and svh, which the code never looks at again before a forward pass, *)
(* and the kernel state built for an accepted layer.                       *)
(*                                                                         *)
(* Two options change where a trellis lives: a manifest of a side file may *)
(* alias trellises of the layer (ats_alias.py), and the engine's offloader *)
(* may have marked the layer's parameters, on which arenas are put in      *)
(* mapped host memory, "uva" (uva_offload.py), or that may be required.    *)
(***************************************************************************)
EXTENDS Naturals, FiniteSets

CONSTANTS NumExperts, \* experts of this rank, 0 .. NumExperts - 1
          Global,     \* expert ids of the checkpoint
          LocalOf,    \* placement -> checkpoint id -> expert of this rank, or Remote
          Remote,
          Offset,     \* starting_expert_offset: checkpoint id of this rank's expert 0
          Cases       \* what is loaded, a set of [config, pack]:
                      \* config: [arena, prescan, gateless, placement, versions,
                      \*          alias, uva, marked],
                      \*   the environment, the layer, how many versions of a tensor
                      \*   may be delivered (a bound), whether a side file lists a
                      \*   trellis of the layer (expert 0's down), whether UVA is
                      \*   required and which segments the offloader marked;
                      \* pack: <<checkpoint id, projection>> -> [k, codebook]

\* the engine's expert map gives every expert of this rank one expert of the checkpoint
ASSUME ExpertsAssumption ==
    /\ NumExperts \in Nat \ {0} /\ Remote \notin 0..(NumExperts - 1)
    /\ \A p \in DOMAIN LocalOf :
          /\ LocalOf[p] \in [Global -> (0..(NumExperts - 1)) \cup {Remote}]
          /\ \A e \in 0..(NumExperts - 1) : \E g \in Global : LocalOf[p][g] = e
          /\ \A g, h \in Global : LocalOf[p][g] = LocalOf[p][h] => g = h \/ LocalOf[p][g] = Remote
\* placed linearly, those from Offset on
ASSUME LinearAssumption ==
    "linear" \in DOMAIN LocalOf =>
        \A g \in Global : LocalOf["linear"][g] # Remote => g = Offset + LocalOf["linear"][g]
ASSUME CasesAssumption ==
    \A c \in Cases : /\ c.config.placement \in DOMAIN LocalOf /\ c.config.versions \in Nat
                     /\ {c.config.arena, c.config.gateless, c.config.alias, c.config.uva} \subseteq BOOLEAN

VARIABLES config,   \* the configuration, fixed
          pack,     \* the checkpoint, fixed
          phase,    \* "loading", "ready" or "failed" (an exception ended the load)
          pending,  \* header shapes were read and no plan was made of them yet
          plan,     \* an arena plan exists
          slots,    \* the planned arenas: <<projection, k, index>> -> bytes
          trellis,  \* the parameter lists: lane -> the place of its bytes
          staging,  \* lane -> staged bytes
          marker,   \* lane -> codebook markers loaded
          handle,   \* lane -> [place, codebook] the kernels read, once ready
          latest,   \* history: tensor -> last version delivered
          sent,     \* history: markers delivered, <<tensor, marker>>
          settled   \* history: nothing was delivered since the layer was processed

vars == <<config, pack, phase, pending, plan, slots, trellis, staging, marker, handle, latest,
          sent, settled>>

-----------------------------------------------------------------------------
(* Values.                                                                 *)

Local == 0..(NumExperts - 1)
Projections == {"gate", "up", "down"}
Lanes == Local \X Projections
\* the lanes the layer uses: a gateless layer has no gate projection
InUse(lane) == config.gateless => lane[2] # "gate"
Used == {lane \in Lanes : InUse(lane)}

Versions == 1..config.versions

\* the tensors of the checkpoint that concern this rank, and their lanes
LocalId(g) == LocalOf[config.placement][g]
Tensors == {t \in Global \X Projections : LocalId(t[1]) # Remote /\ InUse(t)}
HomeOf(t) == <<LocalId(t[1]), t[2]>>

\* Bytes: uninitialised memory, or a version of a tensor.
Garbage == [of |-> <<>>, version |-> 0]
Bytes(t, v) == [of |-> t, version |-> v]
AllBytes == {Garbage} \cup {Bytes(t, v) : t \in Tensors, v \in Versions}

\* _uva_trellis_placement_requested, _alloc_trellis_arena: the memory of an arena
UvaRequested == config.uva \/ "w13_trellis" \in config.marked
ArenaMemory == IF UvaRequested THEN "uva" ELSE "device"

\* A place: the empty placeholder, memory of its own, or a view of an arena slot.
Nowhere == [kind |-> "none"]
Own(bytes, memory) == [kind |-> "own", bytes |-> bytes, memory |-> memory]
View(slot) == [kind |-> "view", slot |-> slot, memory |-> ArenaMemory]
Read(place) == CASE place.kind = "none" -> Garbage
                 [] place.kind = "own"  -> place.bytes
                 [] place.kind = "view" -> slots[place.slot]

-----------------------------------------------------------------------------
(* create_weights, and _try_prescan_trellis_shapes under its guard.         *)

\* the header scan finds local expert e at checkpoint id Offset + e; a tensor it
\* does not find makes it give up
Scanned(lane) == <<Offset + lane[1], lane[2]>>
ScanComplete == \A lane \in Used : Scanned(lane)[1] \in Global
\* the scan knows only linear placement (mixed_k_guard.py)
MayPrescan == config.arena /\ config.prescan /\ ScanComplete /\ config.placement = "linear"
PlannedK(lane) == pack[Scanned(lane)].k

Init ==
    /\ \E c \in Cases : config = c.config /\ pack = c.pack
    /\ phase = "loading" /\ plan = FALSE
    /\ pending = MayPrescan
    /\ slots = [s \in {} |-> Garbage]
    /\ trellis = [lane \in Lanes |-> Nowhere]
    /\ staging = [lane \in {} |-> Garbage]
    /\ marker = [lane \in Lanes |-> {}]
    /\ handle = [lane \in {} |-> Nowhere]
    /\ latest = [t \in Tensors |-> 0] /\ sent = {} /\ settled = FALSE

-----------------------------------------------------------------------------
(* Aliases of a side file (ats_alias.py).                                  *)

\* the entries of the manifest that match the layer
Listed == IF config.alias THEN {<<Offset, "down">>} ELSE {}
\* layer_aliases takes a matching entry's expert id from the wrong part of its name,
\* "ffn.experts", which is no number: it raises for every entry and no alias is ever made
AliasesRaise == Listed # {}

-----------------------------------------------------------------------------
(* prepare_trellis_arena_plan; an error of the aliases is caught there.    *)

\* Variant: arenas are kept by shape alone.
SlotByShape(lane) ==
    <<"any", PlannedK(lane),
      Cardinality({e \in Local : e < lane[1] /\ PlannedK(<<e, lane[2]>>) = PlannedK(lane)})>>
\* experts of a projection whose shapes are equal share an arena, in id order
SlotOf(lane) ==
    <<lane[2], PlannedK(lane),
      Cardinality({e \in Local : e < lane[1] /\ PlannedK(<<e, lane[2]>>) = PlannedK(lane)})>>

\* the parameter of a planned lane is a view of its slot
PlannedPlace(lane) == IF InUse(lane) THEN View(SlotOf(lane)) ELSE trellis[lane]
\* arena memory is allocated uninitialised
FreshSlots == [s \in {SlotOf(lane) : lane \in Used} |-> Garbage]

-----------------------------------------------------------------------------
(* _load_exl3.                                                             *)

\* the shard name the engine gives a projection; a gateless up is its "w1"
ShardOf(t) == CASE t[2] = "gate" -> "w1"
                [] t[2] = "up"   -> IF config.gateless THEN "w1" ELSE "w3"
                [] t[2] = "down" -> "w2"
ProjectionOf(shard) == CASE shard = "w1" -> "gate" [] shard = "w3" -> "up" [] shard = "w2" -> "down"

\* the lane a tensor is loaded to: w1 of a gateless layer is taken for w3
LaneOf(t) ==
    <<LocalId(t[1]),
      IF ShardOf(t) = "w1" /\ config.gateless THEN "up" ELSE ProjectionOf(ShardOf(t))>>

Loading == phase # "failed"
Delivered(t, v) == latest' = [latest EXCEPT ![t] = v] /\ settled' = FALSE
Put(f, x, y) == [z \in DOMAIN f \cup {x} |-> IF z = x THEN y ELSE f[z]]

LoadMarker(t, kind) ==
    /\ Loading /\ kind \in pack[t].codebook
    /\ marker' = [marker EXCEPT ![LaneOf(t)] = @ \cup {kind}]
    /\ sent' = sent \cup {<<t, kind>>} /\ settled' = FALSE
    /\ UNCHANGED <<config, pack, phase, pending, plan, slots, trellis, staging, handle, latest>>

\* the shape check of a fill: the planned slot has the shape of the tensor
Fits(t) == PlannedK(LaneOf(t)) = pack[t].k

\* the first trellis makes the plan and, if it fits, is filled like the others
LoadTrellisFirst(t, v) ==
    /\ Loading /\ config.arena /\ pending /\ ~plan
    /\ plan' = TRUE /\ pending' = FALSE
    /\ trellis' = [lane \in Lanes |-> PlannedPlace(lane)]
    /\ staging' = [lane \in {} |-> Garbage]
    /\ \/ /\ Fits(t)
          /\ slots' = [FreshSlots EXCEPT ![SlotOf(LaneOf(t))] = Bytes(t, v)]
          /\ Delivered(t, v) /\ UNCHANGED phase
       \/ /\ ~Fits(t)
          /\ slots' = FreshSlots /\ phase' = "failed" /\ UNCHANGED <<latest, settled>>
    /\ UNCHANGED <<config, pack, marker, handle, sent>>

\* _direct_fill_trellis_slot: into the planned slot, nothing else is kept
LoadTrellisDirect(t, v) ==
    /\ Loading /\ config.arena /\ plan
    /\ \/ /\ Fits(t)
          /\ slots' = [slots EXCEPT ![SlotOf(LaneOf(t))] = Bytes(t, v)]
          /\ Delivered(t, v) /\ UNCHANGED phase
       \/ ~Fits(t) /\ phase' = "failed" /\ UNCHANGED <<slots, latest, settled>>
    /\ UNCHANGED <<config, pack, pending, plan, trellis, staging, marker, handle, sent>>

LoadTrellisStaged(t, v) ==
    /\ Loading /\ config.arena /\ ~pending /\ ~plan
    /\ staging' = Put(staging, LaneOf(t), Bytes(t, v))
    /\ Delivered(t, v)
    /\ UNCHANGED <<config, pack, phase, pending, plan, slots, trellis, marker, handle,
                   sent>>

\* maybe_alias_expert comes first, and nothing catches its error
LoadTrellisOwn(t, v) ==
    /\ Loading /\ ~config.arena
    /\ \/ /\ ~AliasesRaise
          /\ trellis' = [trellis EXCEPT ![LaneOf(t)] = Own(Bytes(t, v), "device")]
          /\ Delivered(t, v) /\ UNCHANGED phase
       \/ AliasesRaise /\ phase' = "failed" /\ UNCHANGED <<trellis, latest, settled>>
    /\ UNCHANGED <<config, pack, pending, plan, slots, staging, marker, handle, sent>>

\* the loader of the layer gives each tensor to that of its parameter
Load(t) == \/ \E kind \in {"mcg", "mul1"} : LoadMarker(t, kind)
           \/ \E v \in Versions : \/ LoadTrellisFirst(t, v) \/ LoadTrellisDirect(t, v)
                                  \/ LoadTrellisStaged(t, v) \/ LoadTrellisOwn(t, v)

-----------------------------------------------------------------------------
(* process_weights_after_loading.                                          *)

\* _pack_trellis_arenas: staged bytes go to arena memory of their own, a plan has none
PackedPlace(lane) ==
    IF config.arena /\ ~plan /\ lane \in DOMAIN staging
    THEN Own(staging[lane], ArenaMemory) ELSE trellis[lane]

\* exactly one codebook marker per lane in use, and none elsewhere
OneMarker(lane) == Cardinality(marker[lane]) = 1
MarkersGood == \A lane \in Lanes : IF InUse(lane) THEN OneMarker(lane) ELSE marker[lane] = {}
\* one launch has one codebook per projection
CodebooksAgree == \A lane, other \in Used : lane[2] = other[2] => marker[lane] = marker[other]

\* Variant: the first expert speaks for all.
CompleteFirst == \A lane \in Used : lane[1] = 0 => PackedPlace(lane) # Nowhere
\* the placeholder of a trellis that was never loaded is empty (numel() == 0)
Complete == \A lane \in Used : PackedPlace(lane) # Nowhere

\* validate_exl3_moe_uva_layer, before: every segment carries the offloader's mark
Segments == {"w13_trellis", "w13_suh", "w13_svh", "w2_trellis", "w2_suh", "w2_svh"}
MarkedAsRequired == config.uva => config.marked = Segments
\* the lists of arenas: those of the plan, or those packed by this processing or an earlier
\* one, which stay when a layer is processed again with nothing staged; with arenas on a
\* tensor is at a place of its own only in one that was packed
Packed == \E lane \in Lanes : trellis[lane].kind = "own"
HasArenas == plan \/ (config.arena /\ (DOMAIN staging # {} \/ Packed))
\* Variant: the guard is not asked again after the packing.
PackedUnchecked == TRUE
\* validate_exl3_moe_uva_arenas, after: there are arenas and they are mapped host memory
PackedAsRequired == config.uva => HasArenas /\ ArenaMemory = "uva"

Process ==
    /\ Loading
    /\ \/ /\ MarkedAsRequired
          /\ trellis' = [lane \in Lanes |-> PackedPlace(lane)]
          /\ staging' = IF config.arena THEN [lane \in {} |-> Garbage] ELSE staging
          /\ \/ /\ MarkersGood /\ Complete /\ CodebooksAgree /\ PackedAsRequired
                /\ handle' = [lane \in Used |->
                                [place |-> PackedPlace(lane), codebook |-> marker[lane]]]
                /\ phase' = "ready" /\ settled' = TRUE
             \/ /\ ~(MarkersGood /\ Complete /\ CodebooksAgree /\ PackedAsRequired)
                /\ phase' = "failed" /\ UNCHANGED <<handle, settled>>
       \/ /\ ~MarkedAsRequired
          /\ phase' = "failed" /\ UNCHANGED <<trellis, staging, handle, settled>>
    /\ UNCHANGED <<config, pack, pending, plan, slots, marker, latest, sent>>

Next == Process \/ \E t \in Tensors : Load(t)

Spec == Init /\ [][Next]_vars

-----------------------------------------------------------------------------
(* Properties.                                                             *)

\* Every variable has its type; an arena slot belongs to the plan, a parameter
\* views only slots that exist.
TypeOK ==
    /\ phase \in {"loading", "ready", "failed"}
    /\ {pending, plan, settled} \subseteq BOOLEAN
    /\ \A s \in DOMAIN slots : slots[s] \in AllBytes
    /\ \A lane \in Lanes :
          CASE trellis[lane].kind = "none" -> TRUE
            [] trellis[lane].kind = "own"  -> trellis[lane].bytes \in AllBytes
            [] trellis[lane].kind = "view" -> trellis[lane].slot \in DOMAIN slots
    /\ DOMAIN staging \subseteq Used
    /\ marker \in [Lanes -> SUBSET {"mcg", "mul1"}]
    /\ latest \in [Tensors -> {0} \cup Versions]
    /\ sent \subseteq Tensors \X {"mcg", "mul1"}

\* What the kernels read of a lane is the version of its own tensor that was
\* delivered last, under the codebook of that tensor; a planned arena serves a
\* later version at once, the other ways serve it when the layer is processed
\* again.  (_load_exl3's three ways, the w1/w3 remapping of a gateless layer, and
\* the handles process_weights_after_loading stitches.)
ServesLatest ==
    phase = "ready" =>
        \A t \in Tensors :
            latest[t] # 0 /\ (plan \/ settled) =>
                /\ Read(handle[HomeOf(t)].place) = Bytes(t, latest[t])
                /\ handle[HomeOf(t)].codebook \subseteq pack[t].codebook

\* A layer is accepted only when every trellis of its experts was delivered ("EXL3
\* mixed-K load incomplete for local expert", process_weights_after_loading).
ReadyIsLoaded == phase = "ready" => \A t \in Tensors : latest[t] # 0

\* The same without an arena plan, where an empty placeholder tells what is missing.
ReadyIsLoadedUnplanned == ~plan => ReadyIsLoaded

\* Where UVA is required, an accepted layer has no trellis in device memory, whichever
\* way it was loaded and whatever the placeholders of its parameters say ("must not
\* silently land on the accelerator").
RequiredIsUva ==
    phase = "ready" /\ config.uva => \A lane \in Used : handle[lane].place.memory = "uva"

\* Where UVA is required it can be had: the offloader marked every segment, and trellises
\* are kept in arenas.
UvaPossible == MarkedAsRequired /\ (config.uva => config.arena)

\* What the engine must have delivered of a usable checkpoint.
Usable == /\ \A t \in Tensors : Cardinality(pack[t].codebook) = 1
          /\ \A t, u \in Tensors : t[2] = u[2] => pack[t].codebook = pack[u].codebook
AllDelivered == \A t \in Tensors : latest[t] # 0 /\ \A kind \in pack[t].codebook : <<t, kind>> \in sent

\* The load of experts ends in an error only in the processing, the first or a later one,
\* and only if the pack is unusable or a tensor of it was not delivered, or UVA cannot be
\* had; or at a trellis of a layer without arenas that a side file lists (observation D).
RejectedIsBad ==
    phase' = "failed" /\ phase # "failed" =>
        \/ Process /\ (~Usable \/ ~AllDelivered \/ ~UvaPossible)
        \/ AliasesRaise /\ \E t \in Tensors, v \in Versions : LoadTrellisOwn(t, v)

=============================================================================
