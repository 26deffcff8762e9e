------------------------------- MODULE MCPlugin -------------------------------
(***************************************************************************)
(* Two copies of the package and, apart from each other: the overlay, with *)
(* drifts and import failures at one place and three tensor identities     *)
(* over two addresses, so that an address is reused by another object;     *)
(* layers called by name; loads of a target and drafts with every choice   *)
(* of tables over two files, listed or not, of one shape or not, with and  *)
(* without the alias of the embedding.                                     *)
(***************************************************************************)
EXTENDS Plugin, TLC

MCBroken == {{"amd_model"}, {"sparse_attention"}}   \* an optional one, a required one
MCDrifts == {{}, {<<"ops", "decode">>}, {<<"sparse_attention", "selector">>}}
MCSymmetry == Permutations(Objects) \cup Permutations(Addresses)
MCEarly  == {"ops", "nvidia_model", "msa", "amd_ops"}

MCCopies == {"vllm_exl3", "src.vllm_exl3"}
Plain == [q4 |-> FALSE, copies |-> {"vllm_exl3"}, shim |-> TRUE, layers |-> <<>>, draft |-> FALSE,
          files |-> <<>>, listed |-> TRUE, meta |-> FALSE, alias |-> FALSE, alike |-> TRUE, trims |-> FALSE]
Layer(copy, kind, name) == [copy |-> copy, kind |-> kind, name |-> name]
MCLayers ==
    "qkv" :> Layer("vllm_exl3", "linear", "exl3_linear:layers.0.qkv_proj")
    @@ "ngram" :> Layer("vllm_exl3", "ngram", "exl3_ngram:ngram_embedding")
    @@ "other" :> Layer("src.vllm_exl3", "linear", "exl3_linear:layers.1.qkv_proj")
File(t) == [tables |-> t, readable |-> TRUE]
Broken1 == [tables |-> {"lm_head"}, readable |-> FALSE]
DraftFiles == {<<>>, <<File({})>>, <<File({"embed_tokens"})>>, <<File({}), File({"lm_head"})>>,
               <<File({"embed_tokens"}), File({"lm_head"})>>, <<File({}), Broken1>>,
               <<File({"embed_tokens"}), Broken1>>}
MCSetups ==
    {[Plain EXCEPT !.q4 = TRUE], [Plain EXCEPT !.shim = FALSE],
     [Plain EXCEPT !.copies = MCCopies, !.layers = MCLayers, !.trims = TRUE]}
    \cup {[Plain EXCEPT !.draft = TRUE, !.files = f, !.meta = on] : f \in DraftFiles, on \in BOOLEAN}
    \cup {[Plain EXCEPT !.draft = TRUE, !.files = f, !.meta = TRUE, !.alias = TRUE, !.listed = l, !.alike = a] :
             f \in DraftFiles, l \in BOOLEAN, a \in BOOLEAN}
================================================================================
