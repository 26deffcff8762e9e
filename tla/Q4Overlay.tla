------------------------------- MODULE Q4Overlay -------------------------------
(***************************************************************************)
(* minimax_q4kv.py around its kernels: install() puts a wrapper at every   *)
(* binding of the four hooks, whatever was imported before; the selector   *)
(* routes a KV dtype; each forward then goes through a wrapper, which      *)
(* sends a q4 pool to the overlay's kernels and any other pool upstream,   *)
(* and approves the global scales (which must be 1) without reading them   *)
(* while a CUDA graph is being captured.                                   *)
(*                                                                         *)
(* A binding is a module's attribute: how many overlay wrappers are around *)
(* the original it holds.  A scale is a tensor object at an address; its   *)
(* storage has a value and a version that in-place writes count up.        *)
(***************************************************************************)
EXTENDS Integers, FiniteSets, SequencesExt

CONSTANTS
    Platforms,   \* of "gb10", "sm100"
    Dtypes,      \* KV dtypes to serve: "nvfp4", "fp8"
    Broken,      \* sets of modules that cannot be imported here
    Drifts,      \* sets of bindings upstream no longer has
    Early,       \* modules others may import at any time
    Objects,     \* identities of tensor objects (reused after a free)
    Addresses,
    MaxVersion

ASSUME OverlayAssumption ==
    /\ Platforms \subseteq {"gb10", "sm100"} /\ Dtypes \subseteq {"nvfp4", "fp8"}
    /\ MaxVersion \in Nat
    /\ {"one", "other", "dead"} \cap (Objects \cup Addresses) = {}

--------------------------------------------------------------------------------
\* The bindings.

\* _REQUIRED_BINDING_SITES and _OPTIONAL_BINDING_SITES, in their order.
Required ==
    <<<<"custom_ops", "w1">>, <<"ops_sparse", "prefill">>, <<"ops_sparse", "decode">>,
      <<"ops", "prefill">>, <<"ops", "decode">>, <<"sparse_attention", "selector">>,
      <<"sparse_attention", "prefill">>, <<"sparse_attention", "decode">>,
      <<"nvidia_model", "selector">>>>
Optional ==
    <<<<"msa", "decode">>, <<"amd_model", "selector">>, <<"amd_ops", "prefill">>, <<"amd_ops", "decode">>>>
BindingSites == Required \o Optional

Sites   == Range(BindingSites)
Hooks   == {"w1", "prefill", "decode", "selector"}
Modules == {s[1] : s \in Sites}

ASSUME EarlyAssumption == Early \subseteq Modules

\* _HOOK_DEFINING_SITES.
Defining == [w1 |-> <<"custom_ops", "w1">>, selector |-> <<"sparse_attention", "selector">>,
             prefill |-> <<"ops_sparse", "prefill">>, decode |-> <<"ops_sparse", "decode">>]

\* What a module imports first, and where its by-value bindings come from.
Imports ==
    [custom_ops |-> <<>>, ops_sparse |-> <<>>, ops |-> <<"ops_sparse">>,
     sparse_attention |-> <<"ops_sparse", "ops">>,
     nvidia_model |-> <<"custom_ops", "ops_sparse", "ops", "sparse_attention">>,
     msa |-> <<"ops_sparse">>, amd_ops |-> <<"ops_sparse">>,
     amd_model |-> <<"custom_ops", "ops_sparse", "ops", "sparse_attention">>]
From(s) == CASE s[1] = "sparse_attention" -> <<"ops", s[2]>>
             [] OTHER -> Defining[s[2]]

VARIABLES
    platform, broken, drift,  \* fixed
    bindings,  \* bindings[site]: wrappers around the original there, or Absent
    phase,     \* "starting", "installed", "refused", "serving"
    pool,      \* "none", "q4" (the bound container) or "plain"
    vendor,    \* the pool belongs to the platform's own nvfp4 backend
    heap,      \* heap[o]: the address of a live tensor object, or Dead
    storage,   \* storage[a]: [value, version]
    validated, \* _VALIDATED_SCALES: <<address, version>> -> object it approves
    warm,      \* live objects an eager forward served, unwritten since, and no
               \* other object of their storage was checked after
    last       \* the call of a hook that is returning

overlayVars == <<platform, broken, drift, bindings, phase, pool, vendor>>
scaleVars == <<heap, storage, validated, warm>>
vars == <<overlayVars, scaleVars, last>>

Absent == -1    \* the module is not loaded, or lacks the name
Dead == "dead"
NoCall == [hook |-> "none"]
Keys == Addresses \X (0..MaxVersion)

Init ==
    /\ platform \in Platforms /\ broken \in Broken /\ drift \in Drifts
    /\ bindings = [s \in Sites |-> Absent]
    /\ phase = "starting" /\ pool = "none" /\ vendor = FALSE
    /\ heap = [o \in Objects |-> Dead]
    /\ storage = [a \in Addresses |-> [value |-> 0, version |-> 0]]
    /\ validated = [k \in Keys |-> Dead]
    /\ warm = {}
    /\ last = NoCall

\* The module's own names are created, the others copied as they are now.
LoadModule(b, m) ==
    [s \in Sites |-> IF s[1] # m \/ s \in drift \/ b[s] # Absent THEN b[s]
                     ELSE IF s = Defining[s[2]] THEN 0 ELSE b[From(s)]]

\* Import of a module; what it needs is loaded first.
Import(b, m) == FoldLeft(LoadModule, b, Append(Imports[m], m))
Importable(m) == broken \cap ({m} \cup Range(Imports[m])) = {}

\* Anybody may import a module, before or after install().
Load(m) ==
    /\ phase \in {"starting", "installed"} /\ Importable(m)
    /\ bindings' = Import(bindings, m)
    /\ UNCHANGED <<platform, broken, drift, phase, pool, vendor, scaleVars, last>>

--------------------------------------------------------------------------------
\* install()

\* Importing the binding modules in order, up to the first required one that fails.
ImportSites(b) ==
    FoldLeft(LAMBDA acc, s : IF ~acc.ok THEN acc
                             ELSE IF Importable(s[1]) THEN [acc EXCEPT !.b = Import(@, s[1])]
                             ELSE [acc EXCEPT !.ok = s \notin Range(Required)],
             [b |-> b, ok |-> TRUE], BindingSites)

\* One wrapper per hook around the original; one that is there is kept.
Wrapper(b, hook) == IF b[Defining[hook]] > 0 THEN b[Defining[hook]] ELSE b[Defining[hook]] + 1

\* Variant: the by-value copies of the three kernel hooks are left alone.
PatchDefining(b) ==
    [b |-> [s \in Sites |-> IF (s = Defining[s[2]] \/ s[2] = "selector") /\ b[s] # Absent THEN Wrapper(b, s[2]) ELSE b[s]],
     ok |-> TRUE]

\* The wrappers are set site by site, up to the first missing name.
PatchSites(b) ==
    FoldLeft(LAMBDA acc, s : IF ~acc.ok \/ ~Importable(s[1]) THEN acc
                             ELSE IF acc.b[s] = Absent THEN [acc EXCEPT !.ok = FALSE]
                             ELSE [acc EXCEPT !.b[s] = Wrapper(b, s[2])],
             [b |-> b, ok |-> TRUE], BindingSites)

Install ==
    /\ phase \in {"starting", "installed", "refused"}
    /\ LET imported == ImportSites(bindings)
           defined  == \A h \in Hooks : imported.b[Defining[h]] # Absent
           patched  == PatchSites(imported.b)
       IN  IF ~imported.ok \/ ~defined
           THEN bindings' = imported.b /\ phase' = "refused"
           ELSE /\ bindings' = patched.b
                /\ phase' = IF patched.ok THEN "installed" ELSE "refused"
    /\ UNCHANGED <<platform, broken, drift, pool, vendor, scaleVars, last>>

--------------------------------------------------------------------------------
\* The selector, called by the model through its own binding.

\* _route_q4: the overlay serves nvfp4 off SM100.
RouteQ4(dtype) == dtype = "nvfp4" /\ platform # "sm100"

\* The vendor's nvfp4 backend sizes the same container; upstream has none for
\* nvfp4 off SM100, and the engine dies at model init.
Select(dtype) ==
    LET ours == bindings[<<"nvidia_model", "selector">>] > 0 /\ RouteQ4(dtype)
    IN  /\ phase = "installed" /\ bindings[<<"nvidia_model", "selector">>] # Absent
        /\ dtype = "nvfp4" => ours \/ platform = "sm100"
        /\ phase' = "serving"
        /\ pool' = IF dtype = "nvfp4" THEN "q4" ELSE "plain"
        /\ vendor' = (dtype = "nvfp4" /\ ~ours)
        /\ UNCHANGED <<platform, broken, drift, bindings, scaleVars, last>>

--------------------------------------------------------------------------------
\* The scales.

Live(o) == heap[o] # Dead
Taken == {heap[o] : o \in {x \in Objects : Live(x)}}

Alloc(o, a, value) ==
    /\ phase = "serving" /\ last = NoCall /\ ~Live(o) /\ a \notin Taken
    /\ heap' = [heap EXCEPT ![o] = a]
    /\ storage' = [storage EXCEPT ![a] = [value |-> value, version |-> 0]]
    \* weak references to an earlier object of this identity are dead
    /\ validated' = [k \in Keys |-> IF validated[k] = o THEN Dead ELSE validated[k]]
    /\ warm' = warm \ {o} /\ UNCHANGED <<overlayVars, last>>

\* Two live objects may share a storage.
View(o, p) ==
    /\ phase = "serving" /\ last = NoCall /\ ~Live(o) /\ Live(p)
    /\ heap' = [heap EXCEPT ![o] = heap[p]]
    /\ validated' = [k \in Keys |-> IF validated[k] = o THEN Dead ELSE validated[k]]
    /\ UNCHANGED <<overlayVars, storage, warm, last>>

Free(o) ==
    /\ Live(o) /\ last = NoCall
    /\ heap' = [heap EXCEPT ![o] = Dead]
    /\ warm' = warm \ {o}
    /\ UNCHANGED <<last, overlayVars, storage, validated>>

\* An in-place write.
Write(a, value) ==
    /\ a \in Taken /\ last = NoCall /\ storage[a].version < MaxVersion
    /\ storage' = [storage EXCEPT ![a] = [value |-> value, version |-> @.version + 1]]
    /\ warm' = {o \in warm : heap[o] # a}
    /\ UNCHANGED <<last, overlayVars, heap, validated>>

\* A scale of a call: a tensor, the number 1 (or None), another number.
Scales == {o \in Objects : Live(o)} \cup {"one", "other"}

KeyOf(o) == <<heap[o], storage[heap[o]].version>>

\* Variant: the verdict holds for the address and version, whoever is there now.
AssertUnitScaleByAddress(table, scale, capturing) ==
    IF scale = "one" THEN [ok |-> TRUE, sync |-> FALSE, table |-> table]
    ELSE IF scale = "other" THEN [ok |-> FALSE, sync |-> FALSE, table |-> table]
    ELSE LET key == KeyOf(scale)
         IN  IF table[key] # Dead THEN [ok |-> TRUE, sync |-> FALSE, table |-> table]
             ELSE IF capturing THEN [ok |-> FALSE, sync |-> FALSE, table |-> table]
             ELSE [ok |-> storage[heap[scale]].value = 1, sync |-> TRUE,
                   table |-> IF storage[heap[scale]].value = 1 THEN [table EXCEPT ![key] = scale] ELSE table]

\* Variant: the value is read before the capture is looked at.
AssertUnitScaleReadFirst(table, scale, capturing) ==
    IF scale = "one" THEN [ok |-> TRUE, sync |-> FALSE, table |-> table]
    ELSE IF scale = "other" THEN [ok |-> FALSE, sync |-> FALSE, table |-> table]
    ELSE LET key == KeyOf(scale)
         IN  IF table[key] = scale THEN [ok |-> TRUE, sync |-> FALSE, table |-> table]
             ELSE [ok |-> storage[heap[scale]].value = 1, sync |-> TRUE,
                   table |-> IF storage[heap[scale]].value = 1 THEN [table EXCEPT ![key] = scale] ELSE table]

\* _assert_unit_scale: whether the scale passes, whether it was read (a host
\* sync), and the verdicts after.
AssertUnitScale(table, scale, capturing) ==
    IF scale = "one" THEN [ok |-> TRUE, sync |-> FALSE, table |-> table]
    ELSE IF scale = "other" THEN [ok |-> FALSE, sync |-> FALSE, table |-> table]
    ELSE LET key   == KeyOf(scale)
             entry == table[key]
             known == entry # Dead /\ Live(entry)
             kept  == IF known THEN table ELSE [table EXCEPT ![key] = Dead]
         IN  IF known /\ entry = scale THEN [ok |-> TRUE, sync |-> FALSE, table |-> table]
             ELSE IF capturing THEN [ok |-> FALSE, sync |-> FALSE, table |-> kept]
             ELSE IF storage[heap[scale]].value # 1 THEN [ok |-> FALSE, sync |-> TRUE, table |-> kept]
             ELSE [ok |-> TRUE, sync |-> TRUE, table |-> [kept EXCEPT ![key] = scale]]

--------------------------------------------------------------------------------
\* The calls.

\* Where the engine calls a hook.
CallSite(hook) ==
    IF hook = "w1" THEN <<"custom_ops", "w1">>
    ELSE IF hook = "decode" /\ vendor THEN <<"msa", "decode">>
    ELSE <<"sparse_attention", hook>>

\* _is_q4_pool looks at the shape and strides of the container only.
IsQ4Pool == pool = "q4"

\* Arguments the wrappers refuse: "argument" is a dtype that is not nvfp4, or
\* fp8 queries; "scalar" a tensor where a Python number belongs, a tensor off
\* the device, or a shape that does not fit.
Faults(hook) == IF hook = "w1" THEN {"none", "argument", "scalar"} ELSE {"none", "scalar"}

\* W1 refuses a bad argument before the scales are looked at; scalars and
\* devices are looked at after them.
Approve(k, v, capturing, fault) ==
    LET first  == AssertUnitScale(validated, k, capturing)
        second == AssertUnitScale(first.table, v, capturing)
        sync   == first.sync \/ (first.ok /\ second.sync)
    IN  IF fault = "argument" THEN [ok |-> FALSE, sync |-> FALSE, table |-> validated]
        ELSE IF ~first.ok THEN first
        ELSE [ok |-> second.ok /\ fault = "none", sync |-> sync, table |-> second.table]

\* Prefill is never captured.
Call(hook, k, v, capturing, fault) ==
    LET wrapped == bindings[CallSite(hook)] > 0
        verdict == Approve(k, v, capturing, fault)
        used    == {k, v} \cap Objects
        apart   == \A x, y \in used : heap[x] = heap[y] => x = y
        call(by, sync) == [hook |-> hook, k |-> k, v |-> v, capturing |-> capturing, fault |-> fault,
                           by |-> by, sync |-> sync, warmed |-> used \subseteq warm]
    IN  /\ phase = "serving" /\ last = NoCall /\ bindings[CallSite(hook)] # Absent
        /\ hook = "prefill" => ~capturing
        /\ IF wrapped /\ IsQ4Pool
           THEN /\ validated' = verdict.table
                /\ last' = call(IF verdict.ok THEN "overlay" ELSE "refused", verdict.sync)
                /\ warm' = IF capturing THEN warm
                           ELSE {o \in warm : heap[o] \notin {heap[x] : x \in used}}
                                \cup (IF verdict.ok /\ apart THEN used ELSE {})
           ELSE last' = call("upstream", FALSE) /\ UNCHANGED <<validated, warm>>
        /\ UNCHANGED <<overlayVars, heap, storage>>

Return ==
    /\ last # NoCall /\ last' = NoCall
    /\ UNCHANGED <<overlayVars, scaleVars>>

ServingStep ==
    \/ Return
    \/ \E o \in Objects, a \in Addresses, x \in {1, 2} : Alloc(o, a, x)
    \/ \E o, p \in Objects : View(o, p)
    \/ \E o \in Objects : Free(o)
    \/ \E a \in Addresses, x \in {1, 2} : Write(a, x)
    \/ \E hook \in {"w1", "prefill", "decode"}, k, v \in Scales, capturing \in BOOLEAN :
         \E fault \in Faults(hook) : Call(hook, k, v, capturing, fault)


--------------------------------------------------------------------------------
\* In whatever order modules were imported, before or after, and however often
\* install ran: once it has succeeded, every binding there is holds the wrapper
\* around the original, and never a wrapper of a wrapper.
\* (minimax_q4kv.py:882-977)
EveryBindingWrapped ==
    /\ \A s \in Sites : bindings[s] <= 1
    /\ phase \in {"installed", "serving"} =>
         \A s \in Sites : bindings[s] # Absent => bindings[s] = 1

\* A q4 pool is never handed to an upstream kernel, which would read packed
\* bytes as fp8; any other pool always is.  (minimax_q4kv.py:397-410, 482-500)
PoolsReachTheirKernels ==
    last # NoCall => (pool = "q4" <=> last.by # "upstream")

\* A scale that is served is 1 now: not only when it was checked, and not only
\* the object that was at its address before.  (minimax_q4kv.py:137-201)
ServedScalesAreUnit ==
    last # NoCall /\ last.by = "overlay" =>
        \A x \in {last.k, last.v} : /\ x # "other"
                                    /\ x \in Objects => storage[heap[x]].value = 1

\* Nothing is read while a graph is captured, and a call that a warm-up made
\* with the same scales is not refused under capture.
\* (minimax_q4kv.py:152-165)
CaptureIsSafe ==
    last # NoCall /\ last.capturing =>
        /\ ~last.sync
        /\ last.warmed /\ last.fault = "none" /\ "other" \notin {last.k, last.v} => last.by # "refused"
===============================================================================
