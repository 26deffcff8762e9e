----------------------------- MODULE MixedStore -----------------------------
(***************************************************************************)
(* Routed experts kept tensor by tensor (tensor_mixed_k.py, and its hooks  *)
(* in exl3.py): every tensor of a whole expert is stored once, at its own  *)
(* shape, under its local expert; the processing checks the whole bank,    *)
(* builds the handles, sorts the experts into groups of one layout and     *)
(* seals the store.  The placement of the experts may not change: every    *)
(* load and every forward compares the layer's map with the one at create. *)
(***************************************************************************)
EXTENDS Integers, Sequences, FiniteSets, SequencesExt, FiniteSetsExt

CONSTANTS NumExperts, LocalOf, Remote, NotAsked

VARIABLES
    store,   \* the layer, fixed, or NotAsked:
             \*   runtime (what the engine asks for), pack (<<checkpoint id, projection>> ->
             \*   [k, codebook, bad]), early (tensors loaded before), placement, moves
    sstage,  \* "refused", "loading", "ready" or "failed"
    emap,    \* the layer's expert map now: a placement
    payload, \* <<local expert, projection, suffix>> -> the tensor stored
    sealed,
    inners,  \* <<local expert, projection>> -> the tensors its handle reads
    groups   \* layout -> local experts, in order

storeVars == <<store, sstage, emap, payload, sealed, inners, groups>>

-----------------------------------------------------------------------------
StoreProjections == <<"gate", "up", "down">>
LocalExperts == 0..(NumExperts - 1)
Bank == LocalExperts \X ToSet(StoreProjections)

Sent(t) == {"trellis", "suh", "svh"} \cup store.pack[t].codebook
CheckpointTensors == UNION {{t \o <<s>> : s \in Sent(t)} : t \in DOMAIN store.pack}
At(placement, g) == LocalOf[placement][g]
Key(placement, x) == <<At(placement, x[1]), x[2], x[3]>>
Keep(stored, x, key) == [k \in DOMAIN stored \cup {key} |-> IF k = key THEN x ELSE stored[k]]

\* validate_runtime_config and create_mixed_weights: CUDA graphs, rebalancing,
\* speculation, offload, split experts and dimensions off the blocks are refused.
CreateRefused == store.runtime # "eager"

StoreInit ==
    /\ sstage = IF store = NotAsked \/ CreateRefused THEN "refused" ELSE "loading"
    /\ emap = IF store = NotAsked THEN NotAsked ELSE store.placement
    /\ payload = IF store = NotAsked THEN <<>>
                 ELSE LET kept == {x \in store.early : At(store.placement, x[1]) # Remote}
                      IN  [key \in {Key(store.placement, x) : x \in kept} |->
                             CHOOSE x \in kept : Key(store.placement, x) = key]
    /\ sealed = FALSE /\ inners = <<>> /\ groups = <<>>

\* Another placement is written to the layer's map.
Rebalance(placement) ==
    /\ sstage \in {"loading", "ready"} /\ store.moves /\ placement # emap
    /\ emap' = placement
    /\ UNCHANGED <<store, sstage, payload, sealed, inners, groups>>

\* check_expert_map
MapKept == emap = store.placement

-----------------------------------------------------------------------------
\* TensorMixedKStore.load, under the mapping of _load_exl3.  An error of a load
\* ends it; one of a sealed store changes nothing of what is served.
LoadKey(x) ==
    LET key == Key(emap, x)
    IN  /\ sstage \in {"loading", "ready"} /\ At(emap, x[1]) # Remote
        /\ IF ~MapKept \/ sealed \/ key \in DOMAIN payload \/ x[3] \in store.pack[<<x[1], x[2]>>].bad
           THEN sstage' = (IF sealed THEN "ready" ELSE "failed") /\ UNCHANGED payload
           ELSE payload' = Keep(payload, x, key) /\ UNCHANGED sstage
        /\ UNCHANGED <<store, emap, sealed, inners, groups>>

-----------------------------------------------------------------------------
\* build_inners

Markers(lane) == {s \in {"mcg", "mul1"} : lane \o <<s>> \in DOMAIN payload}
\* a marker that is not its format's number
MarkerRight(lane) ==
    \A s \in Markers(lane) :
        LET x == payload[lane \o <<s>>] IN "value" \notin store.pack[<<x[1], x[2]>>].bad
LaneGood(lane) ==
    /\ \A s \in {"trellis", "suh", "svh"} : lane \o <<s>> \in DOMAIN payload
    /\ Cardinality(Markers(lane)) = 1 /\ MarkerRight(lane)

HandleOf(lane) == {payload[key] : key \in {k \in DOMAIN payload : <<k[1], k[2]>> = lane}}
Layout(e) ==
    [i \in DOMAIN StoreProjections |->
        LET lane == <<e, StoreProjections[i]>>
            x    == payload[lane \o <<"trellis">>]
        IN  <<store.pack[<<x[1], x[2]>>].k, CHOOSE s \in {"mcg", "mul1"} : s \in Markers(lane)>>]

\* group_layouts: the experts of one layout, in order
Members(layouts, l) ==
    FoldLeft(LAMBDA members, e : IF layouts[e] = l THEN Append(members, e) ELSE members, <<>>,
             [i \in 1..NumExperts |-> i - 1])
GroupLayouts ==
    LET layouts == [e \in LocalExperts |-> Layout(e)]
    IN  [l \in {layouts[e] : e \in LocalExperts} |-> Members(layouts, l)]

BuildInners ==
    /\ sstage \in {"loading", "ready"}
    /\ IF \A lane \in Bank : LaneGood(lane)
       THEN /\ inners' = [lane \in Bank |-> HandleOf(lane)]
            /\ groups' = GroupLayouts /\ sealed' = TRUE /\ sstage' = "ready"
       ELSE sstage' = "failed" /\ UNCHANGED <<inners, groups, sealed>>
    /\ UNCHANGED <<store, emap, payload>>

StoreNext ==
    \/ \E p \in DOMAIN LocalOf : Rebalance(p)
    \/ \E x \in CheckpointTensors : LoadKey(x)
    \/ BuildInners

-----------------------------------------------------------------------------
\* apply_mixed_reference serves a route of checkpoint expert g, or raises.
Serves(g) == sealed /\ MapKept /\ At(emap, g) # Remote

\* Every handle an accepted store has, and it has one for every projection of
\* every expert of the rank, is made of all the tensors of one checkpoint
\* tensor, with one codebook.
StoreAcceptedIsComplete ==
    sstage = "ready" =>
        \A lane \in Bank :
            /\ lane \in DOMAIN inners
            /\ \E t \in DOMAIN store.pack : inners[lane] = {t \o <<s>> : s \in Sent(t)}
                                            /\ Cardinality(store.pack[t].codebook) = 1

\* A route that is served, whatever became of the placement in between, is served
\* with the tensors of its own checkpoint expert, at their layout; the groups are
\* each expert once.
StoreServesOwn ==
    sstage = "ready" =>
        /\ \A t \in DOMAIN store.pack :
             Serves(t[1]) => inners[<<At(emap, t[1]), t[2]>>] = {t \o <<s>> : s \in Sent(t)}
        /\ \A e \in LocalExperts : \E l \in DOMAIN groups :
             /\ e \in ToSet(groups[l]) /\ l = Layout(e)
             /\ \A other \in DOMAIN groups \ {l} : e \notin ToSet(groups[other])
        /\ \A l \in DOMAIN groups : \A i, j \in DOMAIN groups[l] : i < j => groups[l][i] < groups[l][j]
=============================================================================
