-------------------------------- MODULE Plugin --------------------------------
(***************************************************************************)
(* The plugin around the engine (__init__.py register(), the opaque        *)
(* operators of exl3.py, uma_load_memory.py).  A process may hold several  *)
(* copies of the package, imported under different paths; each has names   *)
(* of its own and all share torch's registries and the engine's classes.   *)
(* Registration may run any number of times through any copy, and may end  *)
(* in an error at its first step (the Q4 overlay, module Q4Overlay) or its *)
(* last one.  Then the engine loads a target and maybe a draft model; the  *)
(* draft's vocabulary tables may be built on the meta device, for the      *)
(* engine to put the target's in their place.  Dense layers and n-gram     *)
(* tables are called through operators, by name.                           *)
(*                                                                         *)
(* A wrapped name is abstracted to how often it is wrapped, a table to the *)
(* checkpoint its bytes are of.                                            *)
(***************************************************************************)
EXTENDS Q4Overlay

CONSTANTS
    Copies,   \* copies of the package
    Layers,   \* layers called through operators, some of them
    Setups    \* see below

(* A setup is a record                                                     *)
(*   q4      VLLM_EXL3_Q4KV                                                *)
(*   copies  the copies somebody imports                                   *)
(*   shim    the loader shim can be imported                               *)
(*   layers  layer -> [copy, kind, name]: who builds it, "linear" or       *)
(*           "ngram", and its stable name                                  *)
(*   draft   whether there is a draft model whose vocabulary tables the    *)
(*           engine shares from the target when its checkpoint has none    *)
(*   listed  the draft's architecture is one of VOCAB_SHARED_DRAFT_ARCHS   *)
(*   files   the draft's files in order: [tables, readable]                *)
(*   meta    VLLM_EXL3_DRAFT_VOCAB_META                                    *)
(*   alias   VLLM_EXL3_UMA_POSTLOAD and VLLM_EXL3_ATS_ALIAS, the pack the  *)
(*           embedding is aliased to being the target's                    *)
(*   alike   the draft's embedding has the shape of the target's           *)
(*   trims   VLLM_EXL3_TRIM_BEFORE_KV, with a period for the trim thread   *)

VARIABLES
    setup,     \* fixed
    wraps,     \* <<copy or "vllm", name>> -> wrappers around the original
    attempts,  \* copies whose register() ended, well or not
    ops,       \* the operators torch knows
    ready,     \* _EXL3_OPS_READY: copies whose layers call operators, and "torch"
    imported,  \* copies imported
    registry,  \* [home, name] -> layer
    loading,   \* the model being loaded, or Idle
    loaded,    \* models loaded
    method,    \* create_weights of the embeddings: wrappers that build on meta
    tables,    \* model -> table -> what it holds
    threads    \* trim threads

pluginVars == <<setup, wraps, attempts, ops, ready, imported, registry>>
loadVars == <<loading, loaded, method, tables, threads>>

Idle == "idle"
Tables == {"embed_tokens", "lm_head"}
Unbuilt == [t \in Tables |-> "unbuilt"]

-----------------------------------------------------------------------------
(* Import of exl3.py.                                                      *)

Operators == <<"exl3_linear_forward", "exl3_ngram_lookup", "exl3_ngram_lookup_out">>

\* Variant: every copy keeps a registry of its own.
RegistryHomeOwn(c) == c
\* _process_dict: the registry is an attribute of torch
RegistryHome(c) == "torch"

\* _exl3_register_custom_ops at the import: those that are missing, in order, up to an
\* error at operator n; the copy, and torch, are ready after the last
ImportCopy(c, n) ==
    /\ c \in setup.copies \ imported
    /\ imported' = imported \cup {c}
    /\ IF "torch" \in ready THEN ready' = ready \cup {c} /\ UNCHANGED ops
       ELSE \/ ops' = Range(Operators) /\ ready' = ready \cup {c, "torch"}
            \/ /\ Operators[n] \notin ops /\ UNCHANGED ready
               /\ ops' = ops \cup Range(SubSeq(Operators, 1, n - 1))
    /\ UNCHANGED <<setup, wraps, attempts, registry, loadVars, vars>>

-----------------------------------------------------------------------------
(* register().                                                             *)

\* what the installers wrap in a copy, in their order
OwnNames ==
    {"Exl3Config.__init__", "_resolve_tp_geometry", "_try_prescan_trellis_shapes",
     "build_exl3_fused_state", "Exl3Config.get_quant_method",
     "_native_moe_dimensions_supported", "_native_moe_max_rows",
     "Exl3MoEMethod.process_weights_after_loading", "Exl3LinearMethod._make_weight_loader",
     "prepare_trellis_arena_plan"}
WorkerNames == {"initialize_from_config", "compile_or_warm_up_model"}
Names == (Copies \X OwnNames) \cup ({"vllm"} \X ({"load_model"} \cup WorkerNames))

\* Variant: a mark in the copy instead of the wrapper tells whether it was done.
WrapUnmarked(w, c, names) ==
    [x \in Names |-> IF x \in names /\ (x[1] = "vllm" \/ w[x] = 0) THEN w[x] + 1 ELSE w[x]]
\* every installer leaves a wrapper that is there alone; what the engine's classes have on
\* them another copy sees too
Wrap(w, c, names) == [x \in Names |-> IF x \in names /\ w[x] = 0 THEN w[x] + 1 ELSE w[x]]

\* Installs after the overlay; the entry point asks for one of them a second time.
Installed(c) ==
    Wrap(Wrap(wraps, c, ({c} \X OwnNames) \cup {<<"vllm", "load_model">>}),
         c, {<<c, "Exl3LinearMethod._make_weight_loader">>})

\* The overlay is the first step, and its error ends the registration.
Register(c) ==
    /\ c \in imported /\ phase # "serving" /\ loading = Idle
    /\ \/ /\ setup.q4 /\ Install
          /\ \/ phase' = "refused" /\ UNCHANGED wraps
             \/ phase' = "installed" /\ wraps' = Installed(c)
       \/ ~setup.q4 /\ wraps' = Installed(c) /\ UNCHANGED vars
    /\ attempts' = attempts \cup {c}
    /\ UNCHANGED <<setup, ops, ready, imported, registry, loadVars>>

\* The engine goes on only after a registration that raised nothing.
Registered == /\ \E c \in attempts : wraps[<<c, "prepare_trellis_arena_plan">>] > 0
              /\ setup.shim /\ (setup.q4 => phase \in {"installed", "serving"})

-----------------------------------------------------------------------------
(* Loading models: load_model and its wrapper.                             *)

\* checkpoint_has_vocab_tables: the names in the files, until one has a table or cannot
\* be read
VocabTables(files) ==
    LET deciding == {i \in DOMAIN files : ~files[i].readable \/ files[i].tables # {}}
    IN  IF files = <<>> THEN "unknown"
        ELSE IF deciding = {} THEN "no"
        ELSE IF files[CHOOSE i \in deciding : \A j \in deciding : i <= j].readable THEN "yes"
        ELSE "unknown"

\* is_vocab_shared_draft, with the switch on
OnMeta(m) == m = "draft" /\ setup.listed /\ setup.meta /\ VocabTables(setup.files) = "no"

CheckpointTables(m) ==
    IF m = "target" THEN Tables ELSE UNION {setup.files[i].tables : i \in DOMAIN setup.files}

BeginLoad(m) ==
    /\ Registered /\ loading = Idle /\ m \notin loaded
    /\ m = "draft" => setup.draft /\ "target" \in loaded
    /\ loading' = m
    /\ method' = IF OnMeta(m) THEN method + 1 ELSE method
    /\ UNCHANGED <<loaded, tables, threads, pluginVars, vars>>

Build(t) ==
    /\ loading # Idle /\ tables[loading][t] = "unbuilt"
    /\ tables' = [tables EXCEPT ![loading][t] = IF method > 0 THEN "meta" ELSE "uninitialised"]
    /\ UNCHANGED <<loading, loaded, method, threads, pluginVars, vars>>

\* the engine copies a checkpoint's table into the parameter; a copy into meta is lost
Deliver(t) ==
    /\ loading # Idle /\ t \in CheckpointTables(loading) /\ tables[loading][t] = "uninitialised"
    /\ tables' = [tables EXCEPT ![loading][t] = loading]
    /\ UNCHANGED <<loading, loaded, method, threads, pluginVars, vars>>

Complete(m) ==
    \A t \in Tables : /\ tables[m][t] # "unbuilt"
                      /\ t \in CheckpointTables(m) => tables[m][t] # "uninitialised"

\* Variant: the patch is undone after the load only.
UnpatchedAfterLoad(failed) == IF failed THEN method ELSE IF OnMeta(loading) THEN method - 1 ELSE method
\* _MetaUnquantizedEmbeddings.__exit__, however the load ends
Unpatched(failed) == IF OnMeta(loading) THEN method - 1 ELSE method

\* postload, after the load of any model but a listed draft: the embedding is replaced by a
\* view of the file in the pack, if it is on the device and has the shape of the tensor there
EmbeddingAliased(m) == setup.alias /\ (m = "draft" => ~setup.listed /\ setup.alike)
Postload(m) ==
    [t \in Tables |->
        IF t = "embed_tokens" /\ EmbeddingAliased(m) /\ tables[m][t] # "meta" THEN "target" ELSE tables[m][t]]

\* After the target's load the worker's hooks are put in; the engine gives a draft the
\* target's tables for those its checkpoint lacks.
FinishLoad ==
    /\ loading # Idle /\ Complete(loading)
    /\ loaded' = loaded \cup {loading} /\ loading' = Idle /\ method' = Unpatched(FALSE)
    /\ wraps' = IF loading = "target" /\ setup.trims
                THEN Wrap(wraps, "vllm", {"vllm"} \X WorkerNames) ELSE wraps
    /\ tables' = [tables EXCEPT ![loading] = [t \in Tables |->
                     IF loading = "draft" /\ t \notin CheckpointTables("draft") THEN tables["target"][t]
                     ELSE Postload(loading)[t]]]
    /\ UNCHANGED <<threads, setup, attempts, ops, ready, imported, registry, vars>>

\* an exception ends a load; the engine may try again, also with another target
FailLoad ==
    /\ loading # Idle
    /\ loaded' = IF loading = "draft" THEN loaded \ {"target"} ELSE loaded
    /\ loading' = Idle /\ method' = Unpatched(TRUE)
    /\ tables' = [m \in DOMAIN tables |-> Unbuilt]
    /\ UNCHANGED <<threads, pluginVars, vars>>

\* compile_or_warm_up_model: _staged, start_periodic_trim (one thread per copy; the copy
\* whose hook it is)
WarmUp ==
    /\ loading = Idle /\ "target" \in loaded /\ setup.trims /\ phase # "serving"
    /\ threads' = IF threads = 0 THEN wraps[<<"vllm", "compile_or_warm_up_model">>] ELSE threads
    /\ UNCHANGED <<loading, loaded, method, tables, pluginVars, vars>>

-----------------------------------------------------------------------------
(* Layers called by name.                                                  *)

\* _exl3_register_opaque_layer, when a layer's weights were processed
RegisterLayer(l) ==
    /\ l \in DOMAIN setup.layers /\ setup.layers[l].copy \in imported
    /\ registry' = [x \in DOMAIN registry \cup {<<RegistryHome(setup.layers[l].copy), setup.layers[l].name>>} |->
                       IF x = <<RegistryHome(setup.layers[l].copy), setup.layers[l].name>> THEN l
                       ELSE registry[x]]
    /\ UNCHANGED <<setup, wraps, attempts, ops, ready, imported, loadVars, vars>>

Processed == {l \in DOMAIN setup.layers : \E x \in DOMAIN registry : registry[x] = l}
OpOf(l) == IF setup.layers[l].kind = "linear" THEN {Operators[1]} ELSE {Operators[2], Operators[3]}

\* The layers apply() and embedding() may reach: through the operator, whose function is of
\* whichever copy registered it and looks in that copy's registry, or directly.
Reached(l) ==
    IF setup.layers[l].copy \notin ready THEN {l}
    ELSE IF ~(OpOf(l) \subseteq ops) THEN {"no operator"}
    ELSE {IF <<RegistryHome(c), setup.layers[l].name>> \in DOMAIN registry
          THEN registry[<<RegistryHome(c), setup.layers[l].name>>] ELSE "no layer" : c \in imported}

-----------------------------------------------------------------------------
PluginInit ==
    /\ Init
    /\ setup \in Setups /\ (~setup.q4 => drift = {})
    /\ wraps = [x \in Names |-> 0]
    /\ attempts = {} /\ ops = {} /\ ready = {} /\ imported = {}
    /\ registry = [x \in {} |-> Idle]
    /\ loading = Idle /\ loaded = {} /\ method = 0 /\ threads = 0
    /\ tables = [m \in {"target", "draft"} |-> Unbuilt]

\* The overlay's own steps: imports by others, the selector at the target's construction,
\* the calls of a served model.
OverlayStep ==
    /\ setup.q4 /\ UNCHANGED <<pluginVars, loadVars>>
    /\ \/ \E m \in Early : Load(m)
       \/ loading = "target" /\ \E d \in Dtypes : Select(d)
       \/ phase = "serving" /\ loaded # {} /\ ServingStep

PluginNext ==
    \/ \E c \in Copies : Register(c) \/ \E n \in DOMAIN Operators : ImportCopy(c, n)
    \/ \E m \in {"target", "draft"} : BeginLoad(m)
    \/ \E t \in Tables : Build(t) \/ Deliver(t)
    \/ FinishLoad \/ FailLoad \/ WarmUp
    \/ \E l \in Layers : RegisterLayer(l)
    \/ OverlayStep

PluginSpec == PluginInit /\ [][PluginNext]_<<pluginVars, loadVars, vars>>

-----------------------------------------------------------------------------
(* Properties.                                                             *)

\* Whichever copies were imported and however often, and with which errors, register() ran:
\* no name is wrapped twice, neither a copy's own nor one the copies share (the loader's
\* post-load steps would run twice, two trim threads would start), and the engine does not
\* load a model before every name of a copy is wrapped.
WrappedOnce ==
    /\ \A x \in Names : wraps[x] <= 1
    /\ threads <= 1
    /\ loading # Idle => /\ wraps[<<"vllm", "load_model">>] = 1
                         /\ \E c \in attempts : \A n \in OwnNames : wraps[<<c, n>>] = 1

\* Every name and every hook of the overlay is wrapped where it has to be, and once.
WrappedExactlyOnce == WrappedOnce /\ EveryBindingWrapped

\* The tables of a loaded model hold the bytes of its own checkpoint or, where that has
\* none, of the target's; a target loaded after a draft that failed is not built on meta.
\* One table is replaced: the embedding of a draft that is not listed as sharing tables but
\* has one of the target's shape is the target's where embeddings are aliased, also if its
\* checkpoint has its own (observation Q).
Replaced(m, t) == m = "draft" /\ t = "embed_tokens" /\ EmbeddingAliased(m)
LoadedTablesAreReal ==
    \A m \in loaded : \A t \in Tables :
        tables[m][t] = IF t \in CheckpointTables(m) /\ ~Replaced(m, t) THEN m ELSE "target"

\* A layer called through an operator is that very layer, whichever copy of the package
\* built it and whichever registered the operator, and although some copy's registration
\* of operators stopped half-way.
OperatorsReachTheirLayer == \A l \in Processed : Reached(l) = {l}
===============================================================================
