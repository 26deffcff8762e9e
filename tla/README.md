# Formal models of vllm-exl3

vllm-exl3 is a vLLM plugin: it serves EXL3-quantized (trellis-coded) models. The plugin itself is
Python over CUDA kernels, and most of what can go wrong in it is not arithmetic: tensors arrive in an
order nobody chose, ranks compute the same cut in three places, one forward pass is spread over five
kernels, two pinned buffers are refilled while the GPU may still read them, a 4-bit KV cache is laid
under an engine that shares and reuses its pages, hooks are put around names that others may have
imported before, and an experimental expert store shares two staging slots among threads. These modules
model that part, TLC checks them on small instances, and for the staging store, the expert cache, the n-gram
row cache, the pinned bounce, the tensor-parallel geometry, the dispatch of routed experts, the registration with the Q4
overlay and the 4-bit KV pool with its attention TLAPS proves what the runs check, except liveness and the codec, for every value of the constants, and of the
loads most of it.

Paths are relative to the repository; `exl3.py` is `src/vllm_exl3/exl3.py`, `minimax_q4kv*.py` are beside
it, and the NVMe files are those of `experiments/dsv41_nvme/`. In `PROJECT.json`, `map` gives the source
lines of every definition.

    tlc -workers 2 -config MCAsyncStore.cfg MCAsyncStore      # a run
    tlapm AsyncStoreProofs.tla                                # the proofs of a module

## 1. The system

### Start (any number of times per process)

| component | state | operations | what is hard | what makes it correct |
|---|---|---|---|---|
| Plugin registration (`__init__.py`) | markers on wrapped names, torch's registries | `register` | runs again, through other copies of the package, after an error | every name is wrapped once |
| Q4 overlay install (`minimax_q4kv.py`) | the binding of every hook in seven modules | `install` | names imported by value before; signatures that drifted; imports that fail | a pool reaches the kernels of its format, or nothing is patched |
| Custom operators (`exl3.py`) | registries of layers by name | register, process, call | two copies share torch's namespace | a call by name reaches its own layer |
| Unified memory hygiene (`uma_load_memory.py`) | a patched method, a trim thread | around `load_model` and two worker methods | a draft's tables built without memory; a load that fails | no table without bytes is served; the patch is gone afterwards |

### Loading (one process per rank, one loader thread)

vLLM builds the model, the quantization config chooses a method per layer, the method creates empty
parameters (`create_weights`), the engine pushes checkpoint tensors through weight loaders in file order,
and `process_weights_after_loading` checks and packs what arrived and builds the handles the forward pass
uses. Nothing is persisted; a failed load ends the process.

| component | state | operations | what is hard | what makes it correct |
|---|---|---|---|---|
| Quantization config (`Exl3Config`) | parsed config, coverage | `from_config`, `get_quant_method`, and their wrappers (`k78_compat.py`, `deepseek_v41.py`) | prefixes rewritten by two layers of code before they are looked up | a layer gets the method its tensors were packed for, and their K |
| Routed expert load (`Exl3MoEMethod`) | ragged parameter lists, staging dictionary, planned arenas, markers, handles | `create_weights`, `_load_exl3`, arena plan, direct fill, pack, process | any tensor order; three ways for a trellis, one of which replaces every parameter on the first arrival; reload | the handle of a lane reads the last version of its own tensor; good loads accepted, incomplete ones refused |
| Tensor-parallel geometry | none; pure, but computed three times per rank | aligned and equal split, rotation, narrowing, planned shape | three computations must agree, in tiles of 16 and in single columns | shards tile the dimension, along tiles and blocks; what was created loads |
| Pinned weight bounce (`_bounce_copy`) | two pinned buffers, two events, slot, capacity | copy, grow, direct copy | the copy engine reads a buffer some time after the call returned | the arena ends with what was loaded last |
| Dense linear method (`Exl3LinearMethod`) | per-shard trellises, suh/svh, BF16 staging, handles | `create_weights`, loaders, coalescing, apply | fused and split checkpoint tensors, told apart by size; QKV replication; BF16 and MXFP8 shards between EXL3 ones | every output column comes from its own checkpoint column |
| N-gram embedding (`Exl3EmbeddingMethod`) | shards, head tensors, resident or on disk | load, move, process, look up | shards that become views of one tensor; a second version; unequal heads | a row is the row asked for, of the latest version |
| Expert tensors kept per tensor (`tensor_mixed_k.py`) | store of tensors, seal, expert map | load, process, seal, forward | once per key, complete before sealing, a placement that moves | a sealed store is complete and serves its own experts |
| Zero-copy aliases (`ats_alias.py`) | side-file manifest, pack index | alias an expert, alias the embedding after a load | that of an expert never succeeds (section 6, D); that of the embedding replaces a loaded table | what is served are the bytes of the model's own checkpoint |
| UVA guard (`uva_offload.py`) | placement marks | before and after packing | checked on placeholders, then on the arenas | every arena is where it was required |

### Serving (one thread per rank, CUDA streams and graphs)

| component | state | operations | what is hard | what makes it correct |
|---|---|---|---|---|
| Routed expert dispatch (`apply_exl3_experts`) | fused state of the layer, captured graphs | forward, capture, replay | five thresholds decide which kernel takes a route; a capture freezes the decision; a K is kept in three places | every local route once, by its expert, at its bit widths |
| Q4 KV cache: pool and attention | pages, index cache, staging buffer | insert (W1), slice plan, stage, prefill, decode | pages shared, freed, reused; slices capped in pages; fake block tables and moved prefixes; two planners and two fills | every query attends to its own tokens once |
| Q4 KV cache: scale gate | verdicts on scales by address, version and object | approve, capture | no value may be read under capture; addresses are reused | a served scale is 1 |
| Route statistics | device counters, watchdog thread | count, dump | growth under capture; trigger file | a dump arrives |
| Policies, context scaling | none | pure functions | boundary values | agrees with the documented rule |
| CUDA kernels | none of their own | launches | numeric | out of a model checker's reach |

### The NVMe experiment (several threads)

| component | state | operations | what is hard | what makes it correct |
|---|---|---|---|---|
| Staging store (`AsyncExpertStore`) | ticket table, plan queue, staging bytes, control lock | `plan`, `read` (a context manager), `close`, reader threads | a caller waits for a reader while it holds the lock; consumers keep views, cancel, fail | two records at most own staging memory; a lease is exclusive; only verified bytes are shown; no deadlock |
| Expert bank (`ExpertStore`) | a file written once | `read_into` | short read, wrong hash | a record is delivered verified or not at all |
| Arena allocator | free runs, allocations | `allocate`, `release` | fragmentation | a region is partitioned |
| CUDA expert cache (`ExpertCache`) | entries, regions, events, users | `lease`, `_load`, `_evict`, `clear`, `close` | kernels run after the lease ended; a load can fail half way | no range is reused under a kernel; accounting exact |
| N-gram row cache (`EngramRows`) | LRU rows, one outstanding prefetch | `prefetch`, `gather_into`, `close` | the table may be rewritten; a request can exceed the cache | rows in the order asked, of the original table |

Interactions: registration installs the overlay and the wrappers of the loader; the config gives each layer
its method, and every load below it is one of four (`LayerLoad` composes them); the expert load uses the
geometry to narrow a tensor and the bounce to move it; the dispatch uses the K groups and the orders the
load computed; the overlay's wrappers send a call to the attention over the pool. The cache calls the
store's `read()` under its own lock, the store calls the bank, the cache calls the allocator.

## 2. Modules

| module | models | state and actions |
|---|---|---|
| `StagingSlots` | abstract | slots held, verified, leased, shown |
| `AsyncStore` | `async_store.py` | `ticket[k].stage` is the life of a `Ticket` and its future; `pending` the insertion-ordered dictionary, `queue` the plan; `call[c]` the program counter of a caller between two places where it blocks or another thread can be seen. `FetchStart/Map/Read/Verified/Abort` are `_fetch`; `Discard*` is `_discard`, two steps because it waits for the future under the lock; `Fill*` is `_fill`; `Read*` is `read()` up to its `yield`, the consumer's block and the `finally` |
| `Regions` | allocator of `expert_store.py` | operators on a region `[free, allocated]`: first fit, release with merge |
| `ExpertCache` | `expert_cache.py` | lease hit and miss, the load as evict / allocate / copy / synchronize / done or undo, lease end (events recorded), clear, close; `work[s]` are the kernels in flight on a stream, an event is the amount of work in front of it |
| `EngramRows` | `engram_rows.py` | `job[p]` is one run of `_payloads` in thread p, read row by row; gather, prefetch, close; `Change` rewrites the table |
| `CopyQueue` | abstract | an ordered asynchronous copy |
| `BounceCopy` | `_bounce_copy` | call, grow, fill, issue, direct copy; `Retire` is the copy engine, which reads the buffer only then |
| `QuantConfig` | `Exl3Config`, `k78_compat.py`, `deepseek_v41.py` | operators: widths a config may declare, `Coverage` (config block, ledger in or beside the config, architecture), `Route` (`get_quant_method`), the K of a layer and its BF16 shards |
| `MoeLoad` | expert load, `mixed_k_guard.py`, `uva_offload.py`, `ats_alias.py` | `LoadMarker`, `LoadTrellisFirst` (makes the arena plan), `LoadTrellisDirect`, `LoadTrellisStaged`, `LoadTrellisOwn`, `Process` with both validations of the UVA guard |
| `LinearLoad` | dense EXL3 linear layers | `Create`, `Deliver(t)` (take a tensor apart, cut out this rank's part, store it), `ProcessLinear` (checks, coalescing, handles); `Output` is what the forward pass concatenates |
| `EmbeddingLoad` | n-gram tables | `LoadPart`, `MoveParameters`, `ProcessTable`; `Resident` and `FromDisk` are the two lookups |
| `MixedStore` | `tensor_mixed_k.py` | `LoadKey`, `BuildInners` (whole-bank check, handles, groups, seal), `Rebalance` moves the engine's expert map |
| `LayerLoad` | composition | the unit's pack is routed, then the steps of the load its method does |
| `TpGeometry` | the three computations of a cut | `Create(rank)`, `Load(rank, part)` |
| `MoeDispatch` | forward pass of routed experts | `Forward`, `Capture`, `Replay` choose launches, `Launch` runs one: the set of contributions (route, expert, bit widths) it adds |
| `Q4Pool` | byte layout of a page | five translations of one address arithmetic; a row is read at a reader's addresses out of what the writer wrote |
| `Q4Codec` | e2m1 and e4m3 conversions | the reference's and the kernels' encoders, decoders and packing, on integers |
| `Q4Attention` | pool, W1, prefill and decode, over an engine that shares and reuses pages | `Share`, `Finish`, `InsertPrefill`, `InsertDecode`, `Prefill`, `Decode`, `Return` |
| `Q4Overlay` | install, selector, wrappers, scale gate | `Load(m)` (imports), `Install`, `Select`, `Alloc/View/Free/Write` of scales, `Call`, `Return` |
| `Plugin` | `register()`, operators, `uma_load_memory.py`, the embedding alias, over `Q4Overlay` | `ImportCopy`, `Register`, `BeginLoad` .. `FinishLoad` (with `Postload`), `FailLoad`, `WarmUp`, `RegisterLayer`, `OverlayStep` |
| `AsyncStoreProofs`, `ServeProofs` (row cache and dispatch), `ExpertCacheProofs`, `WeightProofs` (bounce and geometry), `LayerLoadProofs`, `Q4AttentionProofs`, `PluginProofs` | | theorems |
| `Inductions` | | lemmas: induction over numbers, the values a fold goes through, elements of sequences |
| `MC*` | | instances for TLC |

Definitions with a comment that begins "Variant:" are not part of a specification: each is a
plausible bug of the code (a dropped wait, a wrong order, an off-by-one). Every property a run checks is
violated when one definition is replaced by its variant; `mutants` in `PROJECT.json` has the pairs.

Atomicity. In the threaded modules a step ends where the code releases a lock, waits, or calls out; what a
caller does in between under the lock is one step. In the loader modules one delivery is one step,
because there is one loader thread; the bounce is split because the copy engine runs beside it. In the
serving modules one call of a hook is one step (kernels of one stream run in order); a capture and its
replays are steps of their own.

## 3. Runs

| run | distinct states | what it shows |
|---|---|---|
| `async_store` | 561,000 | the staging bound, exclusive leases, verified bytes; no slot idles and no planned work is lost; refinement of `StagingSlots` |
| `async_live` | 426,000 | the lock is released, every waiting read is answered |
| `cache` | 115,000 | accounting exact and residents intact, no reuse under a kernel, a miss is refused only for leases, the lock is released |
| `engram` | 41,000 | original bytes, as requested, quiet when closed, the lock is released |
| `bounce` | 14,000 | loaded tensors arrive, refinement of `CopyQueue` |
| `layer_load` | 361,000 | the method of a layer reads its format at its K; experts, tables and stores serve the latest version of their own tensors; every output column at its place; UVA where required; incomplete loads refused (experts: without a plan), and only bad ones rejected (but for observations D and M) |
| `moe_load_planned` | violation | finding 1 |
| `tp_geometry` | 57,000 | shards tile the dimension, tiles under scales, whole blocks, created is loadable (but for observation O) |
| `moe_dispatch` | 220,000 | every route once (but for observation J), right bit widths |
| `moe_dispatch_physical` | violation | finding 2 |
| `q4_attention` | 238,000 | every query attends to its own tokens, the pool holds what was written last, slices fit and both planners agree, conversions keep values |
| `plugin` | 896,000 | every name wrapped once, pools reach their kernels, scales are 1 also under capture, loaded tables are real (but for observation Q), operators reach their layer |

### Bounds and why they are enough

- **AsyncStore**: two callers, three keys, two slots (the code's constant), plans of three keys and of one.
  Two slots and a third key force displacement; the plan of three leaves one queued; two callers give every
  pairing of plan, read, close and a lease in progress. Callers are symmetric; symmetry is used in the safety
  run only. In the liveness run a consumer of one record may keep a view
  (`Retain`), for ever if it likes, which keeps that run small; in the safety run one of any record may. The theorems remove the bounds on keys, callers and plans.
- **ExpertCache**: three experts of sizes 1, 1 and 2 in a region of 2, so every miss of the large one evicts
  and merges; the region lies behind another layer's, so that offsets do not start at 0. One kernel in flight
  per stream (`MaxWork`) and two streams: an event of the wrong stream is visible.
- **EngramRows**: three rows, capacity two, a request with all three (it evicts its own rows), one with a
  repeated row and one the rank does not own, and one that has the same length but other ownership.
- **BounceCopy**: no bound: two buffers and their events keep the stream finite by themselves. A small
  and two large tensors make the buffers grow with copies in flight.
- **QuantConfig**: packs with a config block, a ledger in the config or beside it (NemotronH names), the
  MiniMax-M3 architecture, a delegate that works or is not there, draft experts given by number or by count, mixed
  widths with K7 and K8, BF16 as stored. Wrapped models have no BF16 shards here (observation E), ledger packs no
  gate/up pair (observation K).
- **LinearLoad**: columns in units of 64, so that a size of 3 is padded; shards of two or four units, up to five
  of them: neighbours with equal and unequal signs, widths, codebooks; one tensor for two shards or all; heads for
  1/2 and 2/4 of the ranks; BF16 shards declared out of order; the indexer both ways (with MXFP8 its q, k and v come
  as one tensor, to keep the run small); rows and columns of two ranks; what the code refuses. Any order of deliveries,
  none twice; a suh that never came reads as any suh of the layer or as garbage.
- **MoeLoad**: two experts of rank 1 out of a checkpoint of four, so that the wrong rank's tensor exists;
  placed linearly and round-robin; K uniform, per expert, per projection; markers good, split, disagreeing,
  doubled, missing; marks and requirements of the offloader; one listed alias,
  with arenas and without. Gateless layers see two versions of
  every tensor (a reload) where the markers are good, all others one.
- **EmbeddingLoad**: one shard of four rows or two of two, resident and on disk; heads even, uneven, empty, with
  a gap and too long, in two versions; wrong shapes, dtypes, ranks, graph modes; batches with repeated ids.
- **MixedStore**: the experts of `MoeLoad`, all but four tensors of two of them there at the start, so that every
  order of the rest is met; a placement that moves at any step; bad values, markers and shapes.
- **TpGeometry**: one to four ranks, nine dimensions with whole and half blocks, alignments 0, 8 (no multiple of a
  tile), 24 and 32, with and without rotation, with and without headers planned by the prescan. The theorems
  remove the bound.
- **MoeDispatch**: the thresholds are shrunk, keeping what the code compares: native 2 rows, or 1 by its own limit,
  coop 3 slots, scratch 3 rows, fat from 3 rows. Batches of up to five tokens then meet every band, the slices and the last
  short slice; seventeen combinations of layer and build,
  one of which sorts in a work order its binding does not take. Captured batches have up to three tokens
  (`CaptureTokens` = the scratch rows, see observation I). The theorems remove these bounds.
- **Q4Attention**: two requests of up to four blocks of two tokens, three of which are selected, two KV heads that may
  select differently; six pages, so that pages are shared, freed and reused; a cap of two pages, below what one query
  selects (the hard floor) and below what a chunk does; both planners and both fills on every chunk; prefill chunks of
  one and four tokens, decode batches of one or two tokens per request, padded as a captured batch is; three forwards.
  The codec is checked once per inserted batch, over every quotient where a rounding changes and the neighbours of it,
  every scale code, and floats of six bits around every exponent the formats meet.
- **Q4Overlay**: four modules that others may import before; an optional module that cannot be imported, or a required
  one; three drifts; three scale
  tensors over two addresses (an address is reused, two tensors share a storage), one write each (`MaxVersion`); the
  platform with the routed dtype (`gb10`).
- **Plugin**: two copies of the package; layers of two kinds and names from both; a target and a draft with every choice
  of tables over two files, one of them unreadable; the draft of a listed architecture or not, its embedding of the
  target's shape or not, the alias of the embedding on or off.

Symmetry (async_store over callers, plugin over tensors and addresses) is used in runs without liveness only.

### Fairness

Assumed: reader threads, the prefetch thread and the GPU run; a thread that holds a lock goes on; a caller
whose result is there takes it. These are the operating system's and CUDA's promises. Not assumed: that a
caller ever wins the lock (Python's locks are not fair), that a consumer ends its block, that anybody calls
`plan`, `read` or `close`. Hence liveness says "the lock is released" and "a wait for a reader ends", not
"every call returns". Loading, dispatch, attention and registration are sequential: they have no liveness
beyond the absence of deadlock, and stop when the work given to them is done.

## 4. Proofs

TLAPS checks, for every value of the constants allowed by the named assumptions:

- `AsyncStoreProofs`, from `KeysAssumption` (finitely many records), `PlansAssumption` (a plan names a record once),
  `NamesAssumption` and `SlotsAssumption` (one or two slots, as the code has them): `TypeCorrect`, `LeasesExclusive`,
  `OnlyVerified` and `StagingHeld`. None is inductive. That a buffer is not unmapped under its consumer needs to know who
  holds the lock at which step and what a discard may name. `IInv` adds `CountersExact` (both counters are cardinalities of
  sets of tickets), `CallsMade` (the lock and the program counters agree; only the holder has anything to discard),
  `DiscardsUnleased` (a victim is in the table, stopped and nobody's lease), `ExitSettled` (a reader leaves only a settled
  ticket, so what `read()` pops is not being written) and `ClosesAll` (`close()` has looked at every ticket that is left).
  The lemmas `TableTouched`, `TableSubmitted`, `TablePopped` and `Counted` say once what changing, adding and removing a
  ticket do to table and counters; one lemma per action, or per pair of actions with the same shape, shows the step.
  `TableFits` turns the length of the table into a bound on the cardinalities.
  `PlanServed` (`QueueServed`) and `PlanKept` (the action property `PlannedWorkKept`) rest on a second invariant, `QInv`: the
  queue and the table share no key and repeat none, a read that displaces a ticket has found exactly one slot to become free
  and its victim nowhere else, and what `plan()` has not looked at yet is not queued. Without the second part the read's own
  `_submit` could meet a full table, without the third a key could be queued twice.
  Last, `StoreImplementsSlots`: the store implements `StagingSlots`. The mapping is `Held`, `Verified`,
  `Lessee` and `Shown` of `AsyncStore`. `CallMoves` says what a change of one call does to leases and shown records,
  `LessorIsLessee`, `UnclaimedIsFree` and `AbsentIsFree` read the lessee off `IInv`. `FetchVerified` is `Verify`; `FillOne`,
  `ReadDemand` and `ReadSubmit` are `Take`; `ReadPrefetched` is `Lease`; `ReadYield` and `BodyEnd` are `Show` and `Hide`;
  `DiscardEnd`, a failed `DiscardRaise` and `ReadExit` are `Free`; `ReadRetained` is `Leave`; `CloseBegin` is `Shut`; the
  other actions stutter.
- `ExpertCacheProofs`, from `AlignAssumption`, `QuotaAssumption` and `RecordAssumption` (sizes are positive multiples of the
  alignment, a record fits its layer's quota) and `CallersAssumption` (finitely many callers): `CacheTyped`, `AccountsKept`,
  `KernelsSafe` and `RefusedOnlyIfLeased`, all from `CacheCorrect`, the inductive `CacheInv`. Its parts need each other.
  `WorkFits` says that the expert of every kernel in flight is resident and guarded on the kernel's stream: by a caller still
  in its lease, or by an event that stands behind the kernel. An eviction needs `UsersExact` to know that no lease is the
  guard, and then waits for the events. `RegionsFit` gives every allocated range one owner, a resident expert or the load in
  progress, so that releasing a range frees nobody else's, and a load that fails half way leaves no range without an owner.
  `BytesFit` says that a resident's range holds its bytes; it is kept by a copy because ranges of two owners do not overlap, and
  by the eviction because free runs stay apart. `CallsFit` ties the lock to the call that holds it, and says that `clear()`
  and `close()` meet no users, and that a load does not find its key resident.
  The allocator is proved below that, byte by byte (`PartitionBytes`): `AllocateFits` (first fit takes a range out of one free
  run), `ReleaseFits` (a release gives it back and merges what touches: free runs never touch) and `WholeFree` (a region with
  nothing allocated is one run). The last is why a load can be refused only for leases: `RefusedOnlyIfLeased` fails for an
  allocator that does not merge.
- `ServeProofs`, of the row cache, from `CapacityAssumption`, `RequestAssumption` and `NamesAssumption`: `TypeCorrect`, `BytesOriginal`,
  `AnswersFit` and `ClosedQuiet`, from the inductive `IInv` (`Invariance`). `LookupFits` says of a running lookup that it holds
  the row lock while it fetches, that what it has and what it has yet to read make up what it was asked for, and that a row
  it took from the cache, or read before the table changed, is original; `CallFits` and `PrefetchFits` say whose lookup it is
  and that a lookup which began after the change fails at its identity check. The lemmas `KeysElements`, `ThoseElements` and
  `InsertElements` say what the module's folds compute, for requests of any length: the distinct owned rows once each, the
  rows of a set, a cache within its capacity without repetitions.
  Of the dispatch, from `LimitsAssumption`, `CasesAssumption` (trellises have one to eight bits) and `BatchesAssumption` (as many
  experts for each token, none of them twice), for any thresholds, layers, builds and batches: `RoutesServedOnce`,
  `TrellisesReadRight` and `DispatchTypeCorrect`, from `DInv` (`DispatchInvariant`). All have the hypothesis
  `CaptureTokens <= TempRows`, which the code does not enforce (observation I), and `TrellisesReadRight` also that a layer of one
  bit width states that width, which finding 2 shows it need not. The run's constants satisfy both. The properties alone
  are not inductive: a launch adds results that nothing relates to those already there. `DInv` says that what is done and what
  the launches still to come will add are together what `Launches` makes of the batch, chosen for it or, in a replay, for
  the captured batch; `CaptureOfShape` is why the second is no different (a capture reads nothing of a batch but its shape).
  What `Launches` makes is proved without the state, in three layers. A kernel walks sorted rows with a running offset, and its
  ranges meet its rows only if both follow the same order: `WalkTakes`, then `OrderTakes` and `IdsTake` for the orders
  the code uses, which list each expert once (`RanksFill`, from the cardinality of what is before an element). One launch then
  makes `Made`, the routes to some experts at some bit widths: `DirectMade`, `StandardMade`, `MaskedMade`, `PackedMade` and
  `FatMade`. And the launches of a batch divide its routes: native or coop alone (`NativeServes`, `OneServes`), fat experts and
  the rest by bit width (`BaseServes`, `BatchedServes`), windows of a long batch, cut without gap or overlap (`SlicesCut`,
  `SlicedServes`). No expert is left out for having more rows than the scratch, as a window without slices has no more
  tokens than that or counts that fit (`CountBound`).
- `WeightProofs`, of the way a weight takes to the device. The bounce, from `SizeAssumption` and `GarbageAssumption`: the properties of the run are not
  inductive; that a buffer is not overwritten while a copy of it is queued follows from what an event counts.
  `BounceInv` adds `SlotsAccounted` (the event of a slot stands behind every copy that reads it, and consecutive
  copies alternate) and `BufferFits`. `LEMMA RetiredIsEmpty` (both events done, nothing in flight) justifies
  growing; one lemma per action shows the step. `RefinesCopyQueue` maps `Issue` to `Request`, `Retire` to
  `Deliver`, `CopyDirect` to `CopyNow` and the rest to stutters.
  The geometry, from `CasesAssumption`; the two ways in which creation and loader part are in `CreatedIsLoadable` itself
  (no whole blocks, and equal planned shares under an uneven split, observation O), which `LoadsWhatWasCreated` shows to be all. `IInv` is `TypeOK /\ CutsKept`: everything a
  rank holds is the cut of one closed form, `TrueCut`. `NarrowedIsTrueCut` is the heart (the loader's
  computation, in tiles or in columns, is the closed form), `BlocksInOrder` puts the chunks of two ranks one
  behind the other, `OffsetWhole` gives divisibility. `NoColumnMissing` (`RanksCover`) needs no induction on the ranks: the
  chunk of a column is the quotient by the share's width, or, where the first chunks have one block more, the quotient of the
  columns behind those (`BlockHasChunk`), and every chunk belongs to a rank because the rotation is a permutation
  (`ChunkHasRank`).
- `LayerLoadProofs`, of the four loads and their composition. The routed experts first, as a specification of their own
  (`MoeLoad`), from `ExpertsAssumption` and `LinearAssumption` (the expert map of a placement gives each local id to one
  checkpoint expert, the linear one in order from the rank's offset: vLLM's `determine_expert_map`) and
  `CasesAssumption` (a case is of a placement of the engine, with a number of versions and Boolean flags). `LoadCorrect` is the
  inductive `LoadInv`: `UnplannedFits`, without a plan a lane's parameter or its staged tensor is what came last of its own
  tensor; `PendingFits`, while header shapes wait for a plan nothing was loaded; `PlannedFits`, with a plan every lane is the view of its own slot and a slot that was filled
  holds the last version, for which lanes must not share slots (`SlotsApart`: the plan counts the lanes of equal width in front);
  `MarkersFit`, markers are those sent; `HandlesFit`, after a processing the handles are built from the places, where UVA is
  required also in its memory. From it: `TypeCorrect`, `UvaWhereRequired` (`RequiredIsUva`), `LatestServed`,
  `UnplannedIsLoaded`. `OnlyBadRejected` is the action property: no order of tensors and processings ends a good load. It
  needs that the shapes planned from the headers are those of the tensors sent (`PlannedTensorFits`, true for the linear placement
  to which the prescan guard confines plans), and that a complete layer has the arenas UVA is checked on, also when it is
  processed again with nothing new to pack (`CompleteHasArenas`). A listed trellis without arenas (observation D) is the one
  exception, and part of the property.
  `LayerIsLoad` carries these over to `LayerSpec`. `LayerCorrect` adds an invariant for each of the other three loads.
  `DenseInv` (from `DenseAssumption`: a tensor for several shards of a dense layer is named by the engine or is for them all): what is in a
  parameter was delivered by a tensor that spans the shard, and a delivered marker is set in every shard it spans. The loader
  is a fold over the pieces of a tensor; `PiecesRun` gives the parameters it goes through, `PieceStep` one of them. `GroupFacts`
  (the tensors' groups of shards are disjoint) turns "some tensor came" into "its own tensor came" (`KnownIsComplete`).
  `TableInv` (from `TablesAssumption`: an n-gram table has rows, as many offsets as sizes of heads, and is asked for rows it has):
  what was delivered or moved after a processing is not vouched for; the resident tensor has what its shards were given while
  they are views of it, and the host copy of the offsets is that of the last delivery once processed. `LookupsOwn` is
  `LooksUpOwnRow`: a row is in the one shard that division gives (`BlockOf`), the offsets not above a row are those up to its
  head (`OffsetsRise`, `HeadFound`), each id of a batch is among the ids gathered once (`SetListed`), and at every bit width the
  positions of the states are the ring (`RingHolds`). `StoreInv` (from `StoresAssumption`: what was
  loaded early is of the store's own tensors and placement): every stored tensor is filed under the lane its expert had at
  creation, and a sealed store has the handles and groups of what is stored. Of that follow `AcceptedLayers`
  (`AcceptedIsComplete`, for all four loads), `ExpertsOwn` (the part of `ServesOwn` about experts; `GroupMembers` computes the
  groups of `group_layouts`), with `LookupsOwn` all of it (`OwnServed`), and `OnlyBadLayersRejected` (the part of
  `RejectsOnlyBad` about experts and tables). The first three have the hypothesis `OneMarkerPacks`, that no checkpoint marks a tensor of a store with two codebooks: of two markers the store cannot tell
  that one is still to come.
- `PluginProofs`, from `OverlayAssumption` and `EarlyAssumption` (what others import early are modules of the overlay): all
  six properties of the run, by `PoolsRouted`, `ScalesUnit`, `CaptureSafe`, `WrappedOnceEverywhere`, `TablesReal` and
  `OperatorsRight`, for any copies of the package, objects, addresses and setups. `PluginCorrect` is their inductive invariant.
  Its part for the overlay is `OverlayInv`. `PhaseFits`: a binding is absent, original or wrapped once, and once installed every
  binding that is there is wrapped, those in modules imported later too, because an import copies from the wrapped defining
  site; `PatchSitesFits` follows `install()` through its sites, also where it ends at a missing name. `ScalesFit`: a verdict
  on a live tensor is about the address it is at, and says that the value there is 1 unless the storage was written since;
  `AssertFits` and `ApproveFits` show that the two checks of a call keep it, when both scales share a storage too. The rest of
  `PluginInv`: a copy of the package whose last name is wrapped is wrapped whole (`WrapFits`, `register()` may have stopped half
  way), the tables of the model being loaded are unbuilt, uninitialised, on meta only while the draft patch is in place, or
  its own (`LoadFits`), and the registries of torch hold only entries of copies that were imported (`RegistryFits`,
  `OpsFit`).
- `Q4AttentionProofs`, from `LayoutAssumption` (pages of whole quads, rows with data and scale bytes),
  `AttentionAssumption` (numbered, finitely many requests, positive sizes, a free list without repetitions) and, for what
  queries read, `SelectionAssumption` (the indexer selects distinct blocks a query has, first in its row): `TypeCorrect`,
  `PoolKeepsLatest` (`PoolHoldsLatest`), `QueriesAttend` (`QueriesAttendOwnTokens`) and `SlicesRight` (`PrefillSlicesRight`).
  For the pool, the inductive `IInv` adds: `PagesApart`, a page is free, or of one request, or the full first page of
  several, and full of rows no rejection takes back (`Settled`), so that nobody writes into a shared page; `PagesEnough`, a
  request has the pages of its rows and at most one page more than what it is sure to keep; `Stored`, each position is where
  its table says. An insertion is the heart: the queue of free pages is cut by prefix sums of what the members need (`CuFacts`, from
  the fold that computes them), so pages given out are new and distinct (`PageSource`, `PagesOnce`); two tokens of a batch
  then never meet in a slot (`OnePlace`), the program of a slot writes that token's row (`PlaceHolds`), and what is written
  elsewhere leaves old rows alone. `SeesOwn` is the layout: a reader with the addresses of the writer finds the token it looks for,
  and no other, because the first data byte of a row is at no other row's place. `BytesApart` is the whole of it: an
  address is a number in mixed radix, of slot, region, row and column, and the swizzle of the V scales permutes the digits
  (`ScaleDigits`), so no byte is of two rows.
  For the attention, `JInv` adds `CallFits` and `ServedFits` (a forward is of members whose lengths the prefix sums add up, each
  request having its prefix and its new tokens: `Forward`), `CapBound` (the staging buffer stays within what a slice may stage)
  and the properties themselves. A decode step: the chunks of a program partition the selected blocks up to the query's own
  (`ChunksPartition`), each entry leads to a page of the request (`PoolReads`), so every expected row is read in one chunk
  (`DecodeAttends`), and padding has no positions (`PaddingReads`). A prefill step: the plan cuts the queries without a gap into
  slices that serve whole members or queries of one (`PlanFits`, from the greedy ranges of `GreedyRanges` and the fold that joins
  them, `JoinRun`, `AbutsJoin`), the buffer grows to hold the largest (`GrownHolds`), none is refused (`SliceAccepted`), the fake
  table leads from a selected block to the staged copy of its page (`LeadsTo`), and the moved prefix gives a query its own
  position (`SlicePosition`); so the one slice of a query serves what it is to attend to (`SliceServes`).
  Both planners find the same ranges (`BothGreedy`): a range grown by doubling probes and the curve of first occurrences
  end at the same row, because both ask how many pages some rows select, and that only grows. `SelectedFew` bounds what one
  query selects, over heads that differ, by `TopK * NumKvHeads`.
- `Inductions` has what these proofs share. The library's induction theorems take an operator as a parameter, which none of
  the provers can be given. `NatInduct` is induction with a set in the place of the predicate, from the cardinality of finite
  sets: the least number missing would make a finite set injectable into a smaller one. `FoldRun` gives the values that a fold
  of the community modules goes through on a sequence, from the recursive function it is defined by.

TLC finds no state of the runs (of `plugin` with two tensors) that violates one of these invariants. A few operators of the community modules
(`SelectSeq`, `SortSeq`, `:>` and `@@`) are out of the provers' sight; `Regions` and `ExpertCache` say the same with folds and
function constructors.

Only model-checked: liveness (`NobodyWaitsForever`, `LockReleased`, `ControlReleased`; fairness and `ENABLED` are
out of the prover's reach), the routing of layers (`RoutedToFormat`), the output of dense layers (`OutputInPlace`) and the
rejections of their loads, and the conversions of the Q4 codec (`WrittenValuesKept`).

## 5. Findings (each with a run that ends in a counterexample)

1. **A planned layer is accepted with trellises missing** (`exl3.py:4935`). Missing means `numel() == 0`, but an arena plan
   has replaced every parameter by a view of uninitialised arena memory.
2. **A layer at another width than the config's gets the config's width in two launches** (`exl3.py:2686`). For a layer
   whose trellises are physically uniform at another K, `physical_k_compat.py` corrects `_exl3_k` (its lines 5-7 say fused
   kernels must receive the physical K), but the coop and the batched launch read `_exl3_k_tuple`, which keeps the config's.

## 6. Observations without a run

Met while reading or modelling. The models follow the code in each of them; a property that one
of them would violate names it as its exception (D, J, M, O, Q).

NVMe experiment and statistics

- A. `close()` of the staging store with an exported view marks the store closed and closes the bank before
  it raises; the record can then not be released through the store any more.
- B. A failed n-gram prefetch raises in the next gather before it is cleared, so every later gather raises it again
  until `close()`.
- C. `route_stats.py:263`: numpy appends `.npz` to the temporary name, the rename finds no file, and the trigger is gone.
  SIGUSR1 only wakes the thread, which dumps if the trigger file is there or a period is set; the docstring says the
  signal triggers the copy.
- N. `_discard` sets a ticket's stop mark before it tries to release the buffer (`async_store.py:115`). If a consumer still
  exports a view the ticket stays, mark included, and the next read of the key, after the view is gone, raises "Expert read
  cancelled"; `test_async_store.py:96-97` says the ticket is re-yielded.
- `build_bank` computes `source_sha256` by opening the path again after reading: a source replaced meanwhile is attested
  wrongly. A crash leaves `.expert-bank-*` directories behind.

Expert load and dispatch

- D. `ats_alias.py:260` converts the group of the pattern that holds the directory name: `ValueError` for every
  manifest with routed experts. With an arena plan it is caught and nothing is aliased; on the per-expert way
  (`exl3.py:4751`) it ends the load, though 967 says "never let an optional path break the load" (`RejectsOnlyBad` states
  this exception). Behind it, manifests
  are keyed by checkpoint ids and used with local ones.
- F. A mixed-K layer whose fused state could not be built goes to `apply_mixed_reference`, which needs
  `_exl3_mixed_store`; nothing creates it there, so the first forward raises.
- G. The fused state of a gateless mixed-K layer always fails to build (`exl3.py:2585`): its gate is `None`. It ends in F.
- H. suh, svh and the BF16 rows of linear and expert layers are `torch.empty` and nothing notices that one was never loaded.
- I. Captures are never cut into slices. With the scratch smaller than the captured batch, a hot expert's rows are skipped.
- J. `VLLM_EXL3_MOE_LPT` sorts rows in K-descending order also for a binding too old to be given that order, so that
  rows meet the weights of other experts. `MoeDispatch` does the same; `EachRouteOnce` excepts it.
- O. Planned shapes take the equal share (`mixed_k_guard.py:52`), the loader narrows along blocks: with an uneven aligned
  split the correctly sharded tensor is refused (`CreatedIsLoadable` states this exception).
- P. The fat path computes SiLU for every gated layer (`exl3.py:3124`), the others distinguish swigluoai (1654-1655): a
  prefill with fat experts mixes two activations in one layer.
- A gateless layer is never accepted by the tensor-mixed store. The eligibility flags and `groups` of `ExpertLayout` are
  read by nobody. Tests of the K corrections look at `_exl3_k` only.

Config and dense load

- E. `get_quant_method` strips `language_model.` and stores the result, but `Exl3LinearMethod.create_weights` looks up
  BF16 shards with the unstripped `layer.prefix`: a wrapped model's `bf16_shards` are not honoured.
- K. The coverage derived from a ledger adds the fused `qkv_proj` but no `gate_up_proj`: an EXL3 gate/up pair of a pack that
  has only a ledger would fall back to an uninitialised BF16 weight, as the comment at `exl3.py:197` describes it for
  MiniMax-M3. NemotronH, the only such pack the code names, has no gate.
- L. The second half of `minimax_pack_detected` (`exl3.py:1803`) takes `getattr` of a dictionary, so it never detects anything.
  The marker `override_quantization_method` sets is of the process: a later pack of another model sees it.
- M. At tensor parallel sizes above one a fused tensor of a linear layer is never accepted: sizes are compared with those of
  one rank (`RejectsOnlyBad` states this exception; the comment at `exl3.py:6098` says a tensor may span several shards). An empty trellis slot adopts it whatever its width; the scales or the processing then refuse the layer.
  Retained MXFP8 rows are not compared with the output size of their shard.
- R. `mtp_expert_dtype` (`exl3.py:3903`) is never set, so draft experts take MXFP4 whenever the engine has it, though 3899-3901
  keep the delegate "for packs that are not fp4". A prefix `mtp.layers.N` without an entry of its own takes the K of main layer N.
- S. `bits: None` in a layer of `non_routed_exl3` raises in the wrapper of `k78_compat.py` though the constructor permits it.

Q4 overlay and registration

- T. K and V scales that are views of one storage overwrite each other's approval, so a capture with both is refused. Writes
  through `.data` do not count a version, and a replay never looks at a scale again.
- U. On SM100 the vendor's nvfp4 pool has the container's shape, and the wrapped decode binding of the msa module would take it
  to the overlay; the comment at `minimax_q4kv.py:800-803` says the overlay never routes there.
- V. `staging_max_pages` is documented as a single query's selection of at most topk pages; selections differ per KV head, so it is
  up to nkv * topk. A request without queries in a slice of several raises in `prefill_slice_metadata`.
- W. With `slot_mapping` None, `q4_w1_insert` lets the kernel use positions as slots. The kernel stores a row of K and of the index
  cache in place while partner lanes of `_rope` load it.
- X. The operators of the n-gram table use `layer.quant_method`, though the registry's comment says the method is bound at
  registration. Two layers of one prefix share an entry. The aliasing check of a table looks at its first shard only.
- Q. With `VLLM_EXL3_UMA_POSTLOAD` and the aliases on, `postload` (`uma_load_memory.py:507-513`) aliases the embedding of every model
  but a draft of a listed architecture. The view is of the pack under `VLLM_EXL3_MODEL_DIR` and found by name and shape
  (`ats_alias.py:410-418`), so an unlisted draft whose own embedding has the shape of the target's gets the target's bytes in its place.
- Y. The draft patch of `uma_load_memory.py` is on `UnquantizedEmbeddingMethod` and takes every such table of the draft, not
  only the vocabulary's.

## 7. Not modelled, and why

Numbers: quantization, trellis decoding, activations and kernel arithmetic, NaN inputs of the codec. Text: names and messages;
a prefix or a tensor is a value. Logging, memory trimming and probing, diagnostics, offline tools and the CUDA kernels' insides.
The expert bank is written once by a tool; its reader is the step that delivers verified bytes or fails. Route statistics
serve nothing and cannot dump at present (C). Context scaling, the speculative schedule and CPU offload
eligibility are exported functions that nothing in the repository calls. In the dense load: the bias, the binding of the
MXFP8 kernel, a second delivery. In the expert load: suh and svh (H), the mapping of side files (D), the constructor's plan
from an outside provider of metadata (`exl3.py:4543`), which nothing in the repository provides. In the dispatch: the limits of
a clamped activation, the fallback after a failed native launch. In the cache: the gate on free RAM and swap, which refuses a
call before anything changes.

## 8. What is left

1. The cache over the store: `ExpertCache` with `StagingSlots` below it, so that a load holds a lease while it copies.
2. Proofs: `OutputInPlace` and the rejections of `LinearLoad`, which need the sizes of the cuts; `RoutedToFormat` of the layers; the codec below what `WrittenValuesKept` enumerates.
3. If the alias pattern (D) is repaired: the side-file manifest against the expert map.
