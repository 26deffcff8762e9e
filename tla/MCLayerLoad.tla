----------------------------- MODULE MCLayerLoad -----------------------------
(* Layers of packs of five kinds: a block of the config, a tensor ledger, the      *)
(* MiniMax-M3 architecture, a source-format delegate, BF16 as stored; and dense    *)
(* layers of up to five shards of two or four units (of 64 columns); n-gram        *)
(* tables; experts kept tensor by tensor.                                          *)
EXTENDS LayerLoad, MCMoeLoad

-----------------------------------------------------------------------------
(* Dense loads.                                                            *)

Ones(s) == [i \in DOMAIN s |-> 1]
Marked(s, kind) == [i \in DOMAIN s |-> {kind}]
Load0(kind, parts, full, ins, tp, rank) ==
    [kind |-> kind, parts |-> parts, full |-> full, ins |-> ins, tp |-> tp, rank |-> rank,
     bf16 |-> <<>>, indexer |-> FALSE, mxfp8 |-> FALSE, coalesce |-> TRUE,
     kernel |-> TRUE, devices |-> {"cuda"}, misscaled |-> {},
     depth |-> [i \in DOMAIN parts |-> 4], suh |-> Ones(parts), codebook |-> Marked(parts, "mcg"),
     together |-> <<>>, named |-> FALSE, stale |-> {}]

Three == Load0("column", <<2, 4, 2>>, <<2, 4, 2>>, 2, 1, 0)
Pair == Load0("column", <<2, 4>>, <<2, 4>>, 2, 1, 0)
Single == Load0("column", <<4>>, <<4>>, 4, 1, 0)
\* neighbours equal and unequal in signs, bit width and codebook
Merged == {[Three EXCEPT !.suh = <<1, 1, 2>>, !.coalesce = on] : on \in BOOLEAN}
              \cup {[Three EXCEPT !.depth = <<4, 5, 5>>],
                    [Pair EXCEPT !.suh = <<1, 2>>, !.stale = {1}],
                    [Pair EXCEPT !.codebook = <<{"mcg"}, {"mul1"}>>]}
\* one tensor for two of three shards, or for all
Fused == {[Three EXCEPT !.together = <<1, 2>>, !.named = TRUE, !.suh = <<1, 1, 2>>],
          [Three EXCEPT !.together = <<2, 3>>, !.named = TRUE, !.suh = <<1, 2, 2>>],
          [Three EXCEPT !.together = <<1, 2, 3>>], [Pair EXCEPT !.together = <<1, 2>>]}
\* eight, four and four outputs for four ranks, four, two and two for two
Grouped == {Load0("qkv", <<2, 2, 2>>, <<8, 4, 4>>, 2, 4, rank) : rank \in {1, 2}}
               \cup {Load0("qkv", <<2, 2, 2>>, <<4, 2, 2>>, 2, 2, rank) : rank \in {1}}
Split2 == {[Load0("row", <<4>>, <<4>>, 2, 2, rank) EXCEPT !.stale = {1}] : rank \in 0..1}
              \cup {Load0("column", <<2, 4>>, <<4, 8>>, 2, 2, rank) : rank \in 0..1}
Dense16 == {[Three EXCEPT !.bf16 = b] : b \in {<<3>>, <<3, 1>>}}
Padded1 == {Load0("column", <<3>>, <<4>>, 3, 1, 0), Load0("row", <<4>>, <<4>>, 3, 1, 0)}
Indexer == [Load0("qkv", <<4, 2, 2, 2, 2>>, <<4, 2, 2, 2, 2>>, 2, 1, 0) EXCEPT !.indexer = TRUE]
Fused3(l) == [l EXCEPT !.together = <<1, 2, 3>>, !.named = TRUE]
Indexed ==
    LET kept == Fused3([Indexer EXCEPT !.mxfp8 = TRUE])
    IN  {Indexer, kept, [kept EXCEPT !.kernel = FALSE], [kept EXCEPT !.devices = {"cpu", "cuda"}]}
            \cup {[l EXCEPT !.misscaled = {5}] : l \in {Fused3(Indexer), kept}}
\* a marker too many or too few, and what create_weights or a loader refuses
Bad == {[Single EXCEPT !.codebook = <<{"mcg", "mul1"}>>], [Pair EXCEPT !.codebook = <<{}, {"mcg"}>>],
        Load0("column", <<3, 2>>, <<4, 2>>, 2, 1, 0), Load0("column", <<3>>, <<8>>, 2, 2, 0),
        [Load0("column", <<2, 4>>, <<4, 8>>, 2, 2, 0) EXCEPT !.together = <<1, 2>>],
        [Load0("column", <<2, 4>>, <<4, 8>>, 2, 2, 0) EXCEPT !.together = <<1, 2>>, !.named = TRUE],
        [Load0("column", <<2, 4>>, <<4, 8>>, 2, 2, 0) EXCEPT !.bf16 = <<2>>]}
DenseLoads == Merged \cup Fused \cup Grouped \cup Split2 \cup Dense16 \cup Padded1 \cup Bad

-----------------------------------------------------------------------------
(* Packs.                                                                  *)

NoQuant ==
    [bits |-> 4, layerBits |-> <<>>, explicit |-> NotAsked, ledger |-> <<>>, sidecar |-> <<>>,
     minimax |-> FALSE, mtp |-> FALSE, mtpFrom |-> NotAsked, policy |-> FALSE, delegate |-> NotAsked,
     mxfp4 |-> FALSE, ngram |-> {}, ngramBits |-> 5, perTensor |-> FALSE]
Unit(class, path, block, formats, k, quant, load) ==
    [class |-> class, path |-> path, block |-> block, quant |-> quant, load |-> load,
     tensors |-> formats, k |-> k, experts |-> 384]
All(paths, format) == [p \in paths |-> format]
In(block, name) == <<"model", "layers", block>> \o name

\* layers named in the config, one of every dense load; by name, or by family with a K of
\* its own or the K of the block or of the pack
Explicit(layers, modules, bits) ==
    [NoQuant EXCEPT !.explicit = [layers |-> layers, modules |-> modules, bits |-> bits]]
Declared ==
    LET path == In("0", <<"mlp", "in_proj">>)
        named(bf16, k) == path :> [bf16 |-> bf16, bits |-> k]
        families == (<<"mlp", "down_proj">> :> 8) @@ (<<"self_attn", "o_proj">> :> NotAsked)
        at(name, format, k, quant, load) ==
            Unit("linear", In("0", name), 0, All({In("0", name)}, format), k, quant, load)
    IN  {at(<<"mlp", "in_proj">>, "exl3", NotAsked, Explicit(named(l.bf16, 5), <<>>, NotAsked), l) :
            l \in DenseLoads}
        \cup {at(<<"mlp", "down_proj">>, "exl3", 8, Explicit(named(<<>>, 5), families, 6), Single),
              at(<<"self_attn", "o_proj">>, "exl3", 6, Explicit(named(<<>>, 5), families, 6), NotAsked),
              at(<<"self_attn", "o_proj">>, "exl3", 4, Explicit(named(<<>>, 5), families, NotAsked), NotAsked),
              at(<<"mlp", "in_proj">>, "exl3", 7, Explicit(named(<<>>, 7), families, 6), NotAsked),
              at(<<"mlp", "in_proj">>, "exl3", 9, Explicit(named(<<>>, 9), families, 6), NotAsked),
              at(<<"mlp", "up_proj">>, "bf16", NotAsked, Explicit(named(<<>>, 5), families, 6), NotAsked)}

\* a NemotronH pack: the ledger, in the config or beside it, has the checkpoint's names
Mixer(block, name) == <<"backbone", "layers", block, "mixer", name>>
Ledger ==
    LET exl3 == {Mixer("0", n) : n \in {"q_proj", "k_proj", "v_proj", "o_proj"}} \cup {<<"lm_head">>}
        experts == {<<"backbone", "layers", "1", "mixer", "experts", "0", "up_proj">>}
        plain == {Mixer("2", n) : n \in {"q_proj", "k_proj", "v_proj"}}
    IN  [p \in exl3 \cup experts \cup plain |->
            [format |-> IF p \in plain THEN "dense" ELSE "exl3",
             bits |-> IF p = Mixer("0", "q_proj") THEN 6 ELSE 5]]
Ledgered ==
    LET quant == [NoQuant EXCEPT !.ledger = Ledger]
        beside == [NoQuant EXCEPT !.sidecar = Ledger]
        qkv(block) == {Mixer(block, n) : n \in {"q_proj", "k_proj", "v_proj"}}
    IN  {Unit("linear", <<"model", "layers", "0", "mixer", "qkv_proj">>, 0, All(qkv("0"), "exl3"), 6,
              quant, [Three EXCEPT !.kind = "qkv", !.depth = <<6, 5, 5>>]),
         Unit("linear", <<"language_model", "model", "layers", "0", "mixer", "o_proj">>, 0,
              All({Mixer("0", "o_proj")}, "exl3"), 5, beside, Single),
         Unit("linear", <<"model", "layers", "2", "mixer", "qkv_proj">>, 2, All(qkv("2"), "bf16"),
              NotAsked, quant, NotAsked),
         Unit("head", <<"lm_head">>, NotAsked, All({<<"lm_head">>}, "exl3"), 5, beside, Single)}

\* MiniMax-M3: neither a block nor a ledger
Minimax ==
    LET quant == [NoQuant EXCEPT !.minimax = TRUE]
        at(name) == <<"language_model", "model", "layers", "3">> \o name
        stack(name, parts, k, load) ==
            Unit("linear", at(name), 3, All({Front(at(name)) \o <<p>> : p \in parts}, "exl3"), k, quant, load)
        shared(name) == <<"block_sparse_moe", "shared_experts", name>>
    IN  {stack(<<"self_attn", "qkv_proj">>, {"q_proj", "k_proj", "v_proj"}, 5, l) : l \in Indexed}
        \cup {stack(<<"mlp", "gate_up_proj">>, {"gate_proj", "up_proj"}, 4, Pair),
              stack(shared("gate_up_proj"), {"gate_proj", "up_proj"}, 4, Pair),
              stack(shared("down_proj"), {"down_proj"}, 5, Single),
              Unit("linear", at(<<"block_sparse_moe", "gate">>), 3,
                   All({at(<<"block_sparse_moe", "gate">>)}, "bf16"), NotAsked, quant, NotAsked)}

\* source-format linears and draft experts, by number and by count; BF16 linears, a delegate
\* that is not there, n-gram tables
Fp8 == [method |-> "deepseek_v4_fp8", block |-> <<32, 32>>, works |-> TRUE,
        classes |-> {"linear", "experts"}]
OtherFormats ==
    LET source == [NoQuant EXCEPT !.delegate = Fp8, !.mtp = TRUE, !.mtpFrom = 61]
        counted == [source EXCEPT !.mtpFrom = NotAsked]
        stored == [source EXCEPT !.policy = TRUE, !.mxfp4 = TRUE]
        broken == [source EXCEPT !.delegate.works = FALSE]
        ngram == [NoQuant EXCEPT !.ngram = {<<"ngram_embedding">>}]
        proj == In("3", <<"self_attn", "o_proj">>)
        draft == In("61", <<"mlp", "experts">>)
        main == In("3", <<"mlp", "experts">>)
        of(class, path, block, format, quant) ==
            Unit(class, path, block, All({path}, format), NotAsked, quant, NotAsked)
    IN  {of("linear", proj, 3, "source", source), of("linear", proj, 3, "bf16", stored),
         of("linear", proj, 3, "source", broken), of("experts", draft, 61, "source", broken),
         of("experts", draft, 61, "source", stored), of("experts", draft, 61, "source", source),
         of("experts", main, 3, "exl3", counted), of("experts", draft, 61, "exl3", [source EXCEPT !.mtp = FALSE]),
         [of("experts", draft, 61, "source", counted) EXCEPT !.experts = 128],
         of("embedding", <<"model", "embed_tokens">>, NotAsked, "bf16", ngram)}

\* experts of a mixed pack, also in two draft blocks named apart
MixedPack ==
    LET quant == [NoQuant EXCEPT !.bits = 2, !.layerBits = (<<"layers", "3">> :> 7)
                                  @@ (<<"layers", "0">> :> 3) @@ (<<"mtp", "layers", "0">> :> 2)
                                  @@ (In("5", <<"mlp", "experts">>) :> 8) @@ (<<"layers", "5">> :> 3)]
        at(path, block, k) == Unit("experts", path, block, All({path}, "exl3"), k, quant, NotAsked)
    IN  {at(In("3", <<"mlp", "experts">>), 3, 7), at(In("4", <<"mlp", "experts">>), 4, 2),
         at(In("5", <<"mlp", "experts">>), 5, 8), at(In("0", <<"mlp", "experts">>), 0, 3),
         at(<<"mtp", "layers", "0", "mlp", "experts">>, 0, 2)}

\* one of every load of experts, in a pack with draft experts
MCExperts ==
    LET path == In("3", <<"mlp", "experts">>)
    IN  {Unit("experts", path, 3, All({path}, "exl3"), NotAsked,
              [NoQuant EXCEPT !.mtp = TRUE, !.mtpFrom = 61], c) :
            c \in MCCases}

\* n-gram tables: one shard or two, resident or on disk, of which the heads come in two
\* versions; bad layouts, layers, shards and graphs
Halves == [offsets |-> <<0, 2>>, sizes |-> <<2, 2>>]
Uneven == [offsets |-> <<0, 1>>, sizes |-> <<1, 3>>]
Hollow == [offsets |-> <<0, 0, 3>>, sizes |-> <<0, 3, 1>>]
Gap == [offsets |-> <<0, 2>>, sizes |-> <<1, 2>>]
Over == [offsets |-> <<0, 2>>, sizes |-> <<2, 3>>]
Table0 ==
    [disk |-> FALSE, sharded |-> TRUE, shards |-> 2, rows |-> 2, layouts |-> <<Halves, Uneven>>,
     versions |-> 2, fault |-> "none", misshaped |-> {}, graphs |-> NotAsked,
     batches |-> {<<3, 0, 3>>, <<1, 2>>, <<2, 1, 1>>, <<0>>}]
One0 == [Table0 EXCEPT !.sharded = FALSE, !.shards = 1, !.rows = 4]
Graphs(full, split) == [full |-> full, split |-> split]
TableLoads ==
    {[t EXCEPT !.disk = d] : t \in {Table0, One0}, d \in BOOLEAN}
        \cup {[Table0 EXCEPT !.versions = 1, !.layouts = <<l>>] : l \in {Hollow, Gap, Over}}
        \cup {[Table0 EXCEPT !.versions = 1, !.fault = f] : f \in {"width", "rows", "ranks"}}
        \cup {[Table0 EXCEPT !.versions = 1, !.sharded = FALSE], [Table0 EXCEPT !.versions = 1, !.misshaped = {<<"shard", 1>>}],
              [Table0 EXCEPT !.versions = 1, !.graphs = Graphs(TRUE, {})]}
        \cup {[Table0 EXCEPT !.versions = 1, !.disk = TRUE, !.graphs = g] :
                 g \in {Graphs(TRUE, {"lookup"}), Graphs(FALSE, {"attention"}), Graphs(FALSE, {"attention", "lookup"})}}
Tables ==
    {Unit("embedding", <<"model", "ngram_embedding">>, NotAsked,
          All({<<"model", "ngram_embedding">>}, "exl3"), 5,
          [NoQuant EXCEPT !.ngram = {<<"ngram_embedding">>}], t) : t \in TableLoads}

\* experts kept tensor by tensor: all but the last tensors of one expert are there
StorePack(k(_, _), codebook(_, _)) ==
    [t \in MCGlobal \X {"gate", "up", "down"} |->
        [k |-> k(t[1], t[2]), codebook |-> codebook(t[1], t[2]), bad |-> {}]]
Store0(p, late) ==
    [runtime |-> "eager", pack |-> p, placement |-> "linear", moves |-> FALSE,
     early |-> UNION {{t \o <<s>> : s \in {"trellis", "suh", "svh"} \cup p[t].codebook} : t \in DOMAIN p} \ late]
Late == {<<2, "gate", "trellis">>, <<2, "gate", "mcg">>, <<3, "up", "suh">>, <<3, "down", "trellis">>}
StoreLoads ==
    LET plain == Store0(StorePack(ByExpert, Mcg), Late)
        mixed == Store0(StorePack(ByProjection, Split), Late)
        bad(b) == [plain EXCEPT !.pack[<<3, "down">>].bad = b]
    IN  {plain, mixed, [plain EXCEPT !.moves = TRUE], [mixed EXCEPT !.moves = TRUE, !.placement = "round_robin"],
         bad({"trellis"}), bad({"value"}), [plain EXCEPT !.runtime = "graphs"],
         Store0(StorePack(Four, Doubled), Late), Store0(StorePack(Four, Unmarked), Late)}
Stores ==
    LET path == In("3", <<"mlp", "experts">>)
    IN  {Unit("experts", path, 3, All({path}, "exl3"), NotAsked, [NoQuant EXCEPT !.perTensor = TRUE], c) :
            c \in StoreLoads}
MCUnits ==
    Tables \cup Stores \cup Declared \cup Ledgered \cup Minimax \cup OtherFormats \cup MixedPack \cup MCExperts
=============================================================================
