----------------------------- MODULE QuantConfig -----------------------------
(***************************************************************************)
(* The quantization config of a pack and the method it gives to each layer *)
(* of a model (exl3.py, Exl3Config: __init__, from_config,                 *)
(* get_quant_method; k78_compat.py, deepseek_v41.py, which wrap the first  *)
(* and the last).                                                          *)
(*                                                                         *)
(* A module path is the sequence of its names.  K7 and K8 stand as K6 only *)
(* while the constructor validates; the widths a config holds are those    *)
(* declared.  Left out: the codebook named (a tensor carries its own), and *)
(* mtp_expert_dtype, which nothing sets.                                   *)
(***************************************************************************)
EXTENDS Integers, SequencesExt, FiniteSetsExt

CONSTANT NotAsked \* a block or a value that is not there

(* A config, a record                                                      *)
(*   bits, layerBits  K, and K by key: a path, <<"mtp", "layers", n>> or   *)
(*             <<"layers", n>>                                             *)
(*   explicit  non_routed_exl3, or NotAsked: [layers, modules, bits], of   *)
(*             path -> [bf16, bits], suffix -> K or NotAsked, K or NotAsked*)
(*   ledger, sidecar  tensor_storage and that of the side file, if the     *)
(*             pack's directory is declared: path -> [format, bits]        *)
(*   minimax   an engine config asked before was of MiniMax-M3             *)
(*   mtp       mtp_experts is "source"                                     *)
(*   mtpFrom   mtp_experts_start_layer, or NotAsked                        *)
(*   policy    non_routed_dtype_policy is "bf16_as_stored"                 *)
(*   delegate  non_routed_quantization, or NotAsked: [method, block,       *)
(*             works, classes], the classes it has a method for            *)
(*   mxfp4     the engine has MXFP4 experts                                *)
(*   ngram, ngramBits  modules and K of ngram_embedding                    *)
(*   perTensor VLLM_EXL3_TENSOR_MIXED_K is set                             *)
(* A layer, a record                                                       *)
(*   path      the engine's path of the module                             *)
(*   block     the number behind "layers" in it, or NotAsked               *)
(*   class     "experts", "linear", "head" or "embedding"                  *)
(*   experts   how many experts its block has                              *)
(*   quant     the config of its pack                                      *)

-----------------------------------------------------------------------------
(* __init__, with the widths of init_k78.                                  *)

LegacyK(k) == IF k \in {7, 8} THEN 6 ELSE k
SupportedK(k) == k \in 2..8 /\ LegacyK(k) \in 2..6
WidthsDeclared(quant) ==
    LET given == quant.explicit
    IN  {quant.bits} \cup Range(quant.layerBits)
            \cup (IF given = NotAsked THEN {}
                  ELSE {given.bits} \cup Range(given.modules) \cup {l.bits : l \in Range(given.layers)})
WidthsSupported(quant) == \A k \in WidthsDeclared(quant) \ {NotAsked} : SupportedK(k)
Accepted(quant) ==
    /\ WidthsSupported(quant)
    /\ quant.ngram # {} => quant.ngramBits \in 1..8

-----------------------------------------------------------------------------
(* from_config: the coverage, as the block of the config it stands for.    *)

\* the families of a MiniMax-M3 pack, and the engine's fused layers of two of them
MinimaxFamilies ==
    LET mlp(at) == (at \o <<"gate_proj">> :> 4) @@ (at \o <<"up_proj">> :> 4) @@ (at \o <<"down_proj">> :> 5)
    IN  (<<"self_attn", "qkv_proj">> :> 5) @@ (<<"self_attn", "o_proj">> :> 5) @@ (<<"lm_head">> :> 6)
            @@ mlp(<<"mlp">>) @@ mlp(<<"block_sparse_moe", "shared_experts">>)
MinimaxModules ==
    LET fused(at) == at \o <<"gate_up_proj">>
                         :> Max({MinimaxFamilies[at \o <<p>>] : p \in {"gate_proj", "up_proj"}})
    IN  MinimaxFamilies @@ fused(<<"mlp">>) @@ fused(<<"block_sparse_moe", "shared_experts">>)
\* ".experts." in the path
OfExperts(path) == \E i \in 2..(Len(path) - 1) : path[i] = "experts"
\* the engine's mapper renames backbone
Renamed(path) == IF Head(path) = "backbone" THEN <<"model">> \o Tail(path) ELSE path
LedgerOf(quant) == IF quant.ledger # <<>> THEN quant.ledger ELSE quant.sidecar
\* the EXL3 entries of a ledger
LedgerEntries(ledger) ==
    {p \in DOMAIN ledger : ledger[p].format = "exl3" /\ ~OfExperts(p) /\ ledger[p].bits \in 2..8}
\* Variant: prefixes are taken as the checkpoint has them.
LedgerLayersAsStored(ledger) == [path \in LedgerEntries(ledger) |-> ledger[path].bits]
\* path of the engine -> K
LedgerLayers(ledger) ==
    [path \in {Renamed(p) : p \in LedgerEntries(ledger)} |->
        ledger[CHOOSE p \in LedgerEntries(ledger) : Renamed(p) = path].bits]
\* q, k and v are one layer of the engine, with the widest of the three
QkvOf(base) == {base \o <<p>> : p \in {"q_proj", "k_proj", "v_proj"}}
FusedLayers(layers) ==
    LET bases == {Front(path) : path \in {p \in DOMAIN layers : QkvOf(Front(p)) \subseteq DOMAIN layers}}
    IN  [path \in {base \o <<"qkv_proj">> : base \in bases} |->
            Max({layers[p] : p \in QkvOf(Front(path))})]
\* no layer of a derived coverage has BF16 shards
Derived(layers) ==
    [layers |-> [path \in DOMAIN layers |-> [bf16 |-> <<>>, bits |-> layers[path]]],
     modules |-> <<>>, bits |-> NotAsked]
Coverage(quant) ==
    LET layers == LedgerLayers(LedgerOf(quant))
    IN  IF quant.explicit # NotAsked THEN quant.explicit
        ELSE IF layers # <<>> THEN Derived(FusedLayers(layers) @@ layers)
        ELSE IF quant.minimax
        THEN [layers |-> <<>>, modules |-> MinimaxModules, bits |-> Max(Range(MinimaxFamilies))]
        ELSE Derived(<<>>)

-----------------------------------------------------------------------------
(* get_quant_method.                                                       *)

\* the wrapper of a vision model is not part of the name
Name(u) == IF Head(u.path) = "language_model" THEN Tail(u.path) ELSE u.path
Families(u) == {m \in DOMAIN Coverage(u.quant).modules : IsSuffix(m, Name(u))}
Matches(u) == Name(u) \in DOMAIN Coverage(u.quant).layers \/ Families(u) # {}

\* bits_for_prefix: the path, the block of the draft, the block, in this order
Keys(name) ==
    LET at(words) == {i \in 1..(Len(name) - Len(words)) : SubSeq(name, i, i + Len(words) - 1) = words}
        key(words) == IF at(words) = {} THEN <<>>
                      ELSE <<SubSeq(name, Min(at(words)), Min(at(words)) + Len(words))>>
    IN  <<name>> \o key(<<"mtp", "layers">>) \o key(<<"layers">>)
BitsForPrefix(u) ==
    LET keys == SelectSeq(Keys(Name(u)), LAMBDA key : key \in DOMAIN u.quant.layerBits)
    IN  IF keys = <<>> THEN u.quant.bits ELSE u.quant.layerBits[Head(keys)]
\* _bits_for_non_routed
BitsForNonRouted(u) ==
    LET c == Coverage(u.quant)
        own == IF Name(u) \in DOMAIN c.layers THEN c.layers[Name(u)].bits
               ELSE c.modules[CHOOSE m \in Families(u) : TRUE]
    IN  Head(SelectSeq(<<own, c.bits, u.quant.bits>>, LAMBDA k : k # NotAsked))

\* _non_routed_delegate: a method for the class, NotAsked if there is none; a delegate
\* that is declared and cannot be made is an error
Delegated(u) ==
    IF u.quant.delegate = NotAsked THEN NotAsked
    ELSE IF ~u.quant.delegate.works THEN "error"
    ELSE IF u.class \in u.quant.delegate.classes THEN "source" ELSE NotAsked
\* _mtp_expert_method
MtpMethod(u) == IF u.quant.mxfp4 THEN "source" ELSE Delegated(u)

\* should_delegate_dspark_source: experts of draft blocks, by the number of the block, or
\* by their count in a pack that has the V4.1 delegate and no number
IsV41Source(quant) ==
    quant.delegate # NotAsked /\ quant.delegate.method = "deepseek_v4_fp8"
        /\ quant.delegate.block = <<32, 32>>
DsparkExperts == 128
IsDraft(u) ==
    /\ u.quant.mtp
    /\ IF u.quant.mtpFrom # NotAsked THEN u.block # NotAsked /\ u.block >= u.quant.mtpFrom
       ELSE IsV41Source(u.quant) /\ u.experts = DsparkExperts

\* the method of a layer: "exl3", "source" (the delegate's), "bf16" or "error"
Route(u) ==
    CASE ~Accepted(u.quant)    -> "error"
      [] u.class = "experts"   -> IF IsDraft(u) /\ MtpMethod(u) # NotAsked THEN MtpMethod(u) ELSE "exl3"
      [] u.class = "linear"    -> IF Matches(u) THEN "exl3"
                                  ELSE IF ~u.quant.policy /\ Delegated(u) # NotAsked THEN Delegated(u)
                                  ELSE "bf16"
      [] u.class = "head"      -> IF Matches(u) THEN "exl3" ELSE "bf16"
      [] u.class = "embedding" -> IF \E m \in u.quant.ngram : IsSuffix(m, Name(u))
                                  THEN "exl3" ELSE "bf16"
\* and the K it is made with
RouteBits(u) ==
    CASE u.class = "experts"           -> BitsForPrefix(u)
      [] u.class \in {"linear", "head"} -> BitsForNonRouted(u)
      [] u.class = "embedding"         -> u.quant.ngramBits

\* _bf16_shards_for, asked by create_weights with the path of the layer itself
Bf16ShardsOf(u) ==
    IF u.path \in DOMAIN Coverage(u.quant).layers THEN Coverage(u.quant).layers[u.path].bf16 ELSE <<>>
=============================================================================
