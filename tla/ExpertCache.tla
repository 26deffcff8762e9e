----------------------------- MODULE ExpertCache -----------------------------
(***************************************************************************)
(* The CUDA expert cache of experiments/dsv41_nvme/expert_cache.py.        *)
(*                                                                         *)
(* Callers lease experts under one lock, enqueue kernels on the stream     *)
(* their lease captured and return the lease; the kernels run later.  A    *)
(* miss loads the record into the layer's region of the arena, evicting    *)
(* idle experts first, and holds the lock over the whole load.  A CUDA     *)
(* event is the amount of work in front of it on its stream; CUDA streams  *)
(* are in order.  store.read() succeeds or fails (see AsyncStore).         *)
(***************************************************************************)
EXTENDS Regions

CONSTANTS Keys,      \* experts of the bank
          LayerOf,   \* key -> layer
          SizeOf,    \* key -> bytes of its record, a multiple of Align
          Quota,     \* layer -> bytes of its region
          Callers,   \* threads that lease
          Streams,   \* CUDA streams
          MaxWork,   \* bound: kernels in flight on one stream
          Nobody     \* no caller, no key

SumOf(s) == FoldLeft(+, 0, s)

Layers == DOMAIN Quota
\* the regions tile the arena in layer order
BaseOf(layer) == SumOf([i \in 1..(layer - 1) |-> Quota[i]])
Arena == 0..(SumOf(Quota) - 1)

ASSUME QuotaAssumption == Quota \in Seq(Nat \ {0}) /\ \A l \in Layers : Quota[l] % Align = 0
ASSUME RecordAssumption ==
    /\ LayerOf \in [Keys -> Layers] /\ SizeOf \in [Keys -> Nat \ {0}]
    /\ \A k \in Keys : SizeOf[k] % Align = 0 /\ SizeOf[k] <= Quota[LayerOf[k]]
ASSUME CallersAssumption == IsFiniteSet(Callers) /\ Nobody \notin Callers \cup Keys

VARIABLES lock,      \* holder of the cache lock
          closed,
          regions,   \* layer -> its Regions
          entries,   \* resident keys, least recently used first
          entry,     \* resident key -> its Entry
          resident,  \* resident_bytes
          arena,     \* byte -> the key whose record was copied there
          work,      \* stream -> kernels enqueued and not finished, in order
          call       \* caller -> what it is doing

vars == <<lock, closed, regions, entries, entry, resident, arena, work, call>>

-----------------------------------------------------------------------------
Resident(k) == \E i \in DOMAIN entries : entries[i] = k
Without(k) == RemoveAt(entries, CHOOSE i \in DOMAIN entries : entries[i] = k)
RangeOf(k) == Bytes(entry[k].offset, SizeOf[k])
\* offset: where the load writes; left: kernels a stream synchronisation waits for
Idle == [at |-> "idle", key |-> Nobody, stream |-> Nobody, offset |-> 0, left |-> 0]

Init ==
    /\ lock = Nobody /\ closed = FALSE
    /\ regions = [l \in Layers |-> NewRegion(Quota[l], BaseOf(l))]
    /\ entries = <<>> /\ entry = [k \in {} |-> 0] /\ resident = 0
    /\ arena = [b \in Arena |-> Nobody]
    /\ work = [s \in Streams |-> <<>>]
    /\ call = [c \in Callers |-> Idle]

\* an event recorded on s now completes when `left` kernels have finished
EventOn(s) == [stream |-> s, left |-> Len(work[s])]
Done(e) == e.left = 0
\* e once a kernel of s has finished
Advance(e, s) == [e EXCEPT !.left = IF e.stream = s /\ @ > 0 THEN @ - 1 ELSE @]
Set(c, at) == call' = [call EXCEPT ![c].at = at]

-----------------------------------------------------------------------------
(* lease: acquisition.                                                     *)

\* a hit: completed events are dropped, the key becomes the most recent
LeaseHit(c, k, s) ==
    /\ lock = Nobody /\ ~closed /\ call[c] = Idle /\ Resident(k)
    /\ entry' = [entry EXCEPT ![k].events = {e \in @ : ~Done(e)}, ![k].users = @ + 1]
    /\ entries' = Append(Without(k), k)
    /\ call' = [call EXCEPT ![c] = [at |-> "body", key |-> k, stream |-> s, offset |-> 0, left |-> 0]]
    /\ UNCHANGED <<lock, closed, regions, resident, arena, work>>

\* a miss: _load runs under the lock
LeaseMiss(c, k, s) ==
    /\ lock = Nobody /\ ~closed /\ call[c] = Idle /\ ~Resident(k)
    /\ lock' = c
    /\ call' = [call EXCEPT ![c] = [at |-> "load", key |-> k, stream |-> s, offset |-> 0, left |-> 0]]
    /\ UNCHANGED <<closed, regions, entries, entry, resident, arena, work>>

-----------------------------------------------------------------------------
(* _load and _evict.                                                       *)

RegionOf(k) == regions[LayerOf[k]]
\* where the idle experts of the same layer are; the least recently used one goes
Candidates(k) == {i \in DOMAIN entries : LayerOf[entries[i]] = LayerOf[k] /\ entry[entries[i]].users = 0}
Candidate(k) == entries[CHOOSE i \in Candidates(k) : \A j \in Candidates(k) : i <= j]

\* _evict: wait for the expert's events, then give its range back
Evict(k) ==
    /\ \A e \in entry[k].events : Done(e)
    /\ regions' = [regions EXCEPT ![LayerOf[k]] = Release(@, entry[k].offset)]
    /\ resident' = resident - SizeOf[k]
    /\ entries' = Without(k)
    /\ entry' = [j \in DOMAIN entry \ {k} |-> entry[j]]

LoadEvict(c) ==
    /\ call[c].at = "load" /\ ~CanAllocate(RegionOf(call[c].key), SizeOf[call[c].key])
    /\ Candidates(call[c].key) # {}
    /\ Evict(Candidate(call[c].key))
    /\ UNCHANGED <<lock, closed, arena, work, call>>

\* Variant: a load without candidates waits for one, holding the lock.
LoadBusyWaits(c) ==
    /\ call[c].at = "load" /\ Candidates(call[c].key) = {}
    /\ UNCHANGED vars

\* CacheBusy
LoadBusy(c) ==
    /\ call[c].at = "load" /\ ~CanAllocate(RegionOf(call[c].key), SizeOf[call[c].key])
    /\ Candidates(call[c].key) = {}
    /\ lock' = Nobody
    /\ call' = [call EXCEPT ![c] = Idle]
    /\ UNCHANGED <<closed, regions, entries, entry, resident, arena, work>>

LoadAllocate(c) ==
    /\ call[c].at = "load"
    /\ LET k == call[c].key
       IN  /\ CanAllocate(RegionOf(k), SizeOf[k])
           /\ regions' = [regions EXCEPT ![LayerOf[k]] = Allocate(@, SizeOf[k])]
           /\ call' = [call EXCEPT ![c].at = "copy",
                                   ![c].offset = AllocatedAt(RegionOf(k), SizeOf[k])]
    /\ UNCHANGED <<lock, closed, entries, entry, resident, arena, work>>

\* cuda.current_stream().synchronize(): c goes on when its stream has drained
Synchronize(c, at) ==
    call' = [call EXCEPT ![c].at = at, ![c].left = Len(work[call[c].stream])]

\* store.read and the upload on the caller's stream
LoadCopy(c) ==
    /\ call[c].at = "copy"
    /\ arena' = [b \in Arena |-> IF b \in Bytes(call[c].offset, SizeOf[call[c].key])
                                 THEN call[c].key ELSE arena[b]]
    /\ Synchronize(c, "sync")
    /\ UNCHANGED <<lock, closed, regions, entries, entry, resident, work>>

\* the projections are built and the lease is granted
LoadDone(c) ==
    /\ call[c].at = "sync" /\ call[c].left = 0
    /\ LET k == call[c].key
       IN  /\ entries' = Append(entries, k)
           /\ entry' = [j \in DOMAIN entry \cup {k} |->
                           IF j = k THEN [offset |-> call[c].offset, users |-> 1, events |-> {}] ELSE entry[j]]
           /\ resident' = resident + SizeOf[k]
    /\ lock' = Nobody
    /\ Set(c, "body")
    /\ UNCHANGED <<closed, regions, arena, work>>

\* The read, its cancellation, a view left behind by a failed copy or a bad
\* marker raises: the stream is drained first, ...
LoadFail(c) ==
    /\ call[c].at \in {"copy", "sync"} /\ call[c].left = 0
    /\ Synchronize(c, "undo")
    /\ UNCHANGED <<lock, closed, regions, entries, entry, resident, arena, work>>

\* Variant: a failed load keeps its range.
LoadUndoLeaks(c) ==
    /\ call[c].at = "undo" /\ call[c].left = 0
    /\ lock' = Nobody
    /\ call' = [call EXCEPT ![c] = Idle]
    /\ UNCHANGED <<closed, regions, entries, entry, resident, arena, work>>

\* ... then the range is given back
LoadUndo(c) ==
    /\ call[c].at = "undo" /\ call[c].left = 0
    /\ regions' = [regions EXCEPT ![LayerOf[call[c].key]] = Release(@, call[c].offset)]
    /\ lock' = Nobody
    /\ call' = [call EXCEPT ![c] = Idle]
    /\ UNCHANGED <<closed, entries, entry, resident, arena, work>>

Load(c) == LoadEvict(c) \/ LoadBusy(c) \/ LoadAllocate(c) \/ LoadCopy(c) \/ LoadDone(c)
           \/ LoadFail(c) \/ LoadUndo(c)

-----------------------------------------------------------------------------
(* The lease body, its end, and the GPU.                                   *)

\* the consumer enqueues a kernel that reads the expert, on the lease's stream
Enqueue(c) ==
    /\ call[c].at = "body" /\ Len(work[call[c].stream]) < MaxWork
    /\ work' = [work EXCEPT ![call[c].stream] = Append(@, call[c].key)]
    /\ UNCHANGED <<lock, closed, regions, entries, entry, resident, arena, call>>

\* Variant: the event is recorded on whatever stream is current at the release.
LeaseEndCurrentStream(c) ==
    /\ lock = Nobody /\ call[c].at = "body"
    /\ \E s \in Streams :
          entry' = [entry EXCEPT ![call[c].key].events = @ \cup {EventOn(s)},
                                 ![call[c].key].users = @ - 1]
    /\ call' = [call EXCEPT ![c] = Idle]
    /\ UNCHANGED <<lock, closed, regions, entries, resident, arena, work>>

\* the event is recorded on the captured stream before the user count drops
LeaseEnd(c) ==
    /\ lock = Nobody /\ call[c].at = "body"
    /\ entry' = [entry EXCEPT ![call[c].key].events = @ \cup {EventOn(call[c].stream)},
                              ![call[c].key].users = @ - 1]
    /\ call' = [call EXCEPT ![c] = Idle]
    /\ UNCHANGED <<lock, closed, regions, entries, resident, arena, work>>

\* the oldest kernel of a stream finishes
GpuFinish(s) ==
    /\ work[s] # <<>>
    /\ work' = [work EXCEPT ![s] = Tail(@)]
    /\ entry' = [k \in DOMAIN entry |->
                   [entry[k] EXCEPT !.events = {Advance(e, s) : e \in @}]]
    /\ call' = [c \in Callers |-> Advance(call[c], s)]
    /\ UNCHANGED <<lock, closed, regions, entries, resident, arena>>

-----------------------------------------------------------------------------
(* clear and close; `last` is the step that follows the last eviction.     *)

ClearBegin(c, last) ==
    /\ lock = Nobody /\ call[c] = Idle
    /\ \A k \in DOMAIN entry : entry[k].users = 0
    /\ lock' = c
    /\ Set(c, last)
    /\ UNCHANGED <<closed, regions, entries, entry, resident, arena, work>>

ClearEvict(c) ==
    /\ call[c].at \in {"clear", "close"} /\ entries # <<>>
    /\ Evict(Head(entries))
    /\ UNCHANGED <<lock, closed, arena, work, call>>

\* close() also frees the arena
ClearEnd(c) ==
    /\ call[c].at \in {"clear", "close"} /\ entries = <<>>
    /\ closed' = (closed \/ call[c].at = "close")
    /\ arena' = IF call[c].at = "close" THEN [b \in Arena |-> Nobody] ELSE arena
    /\ lock' = Nobody
    /\ call' = [call EXCEPT ![c] = Idle]
    /\ UNCHANGED <<regions, entries, entry, resident, work>>

Clear(c) == ClearEvict(c) \/ ClearEnd(c)

Next ==
    \/ \E c \in Callers :
          \/ \E k \in Keys, s \in Streams : LeaseHit(c, k, s) \/ LeaseMiss(c, k, s)
          \/ Load(c) \/ Enqueue(c) \/ LeaseEnd(c) \/ Clear(c)
          \/ \E last \in {"clear", "close"} : ClearBegin(c, last)
    \/ \E s \in Streams : GpuFinish(s)

Spec == Init /\ [][Next]_vars

\* The GPU runs what is enqueued and the thread that holds the lock goes on;
\* no caller has to return its lease.
Fairness == /\ \A s \in Streams : WF_vars(GpuFinish(s))
            /\ \A c \in Callers : WF_vars(Load(c) \/ Clear(c))
FairSpec == Spec /\ Fairness

-----------------------------------------------------------------------------
(* Properties.                                                             *)

TypeOK ==
    /\ lock \in Callers \cup {Nobody} /\ closed \in BOOLEAN
    /\ IsInjective(entries) /\ DOMAIN entry = ToSet(entries) /\ DOMAIN entry \subseteq Keys
    /\ \A k \in DOMAIN entry : entry[k].offset \in Arena /\ entry[k].users \in 0..Cardinality(Callers)
    /\ arena \in [Arena -> Keys \cup {Nobody}]
    /\ work \in [Streams -> Seq(Keys)]

\* Each region is partitioned into its free runs, the ranges of the resident
\* experts of its layer and the range of the load in progress, and the resident
\* bytes are those of the resident experts: no failed or refused load leaks.
ArenaAccounted ==
    /\ \A l \in Layers :
          /\ Partition(regions[l], Quota[l], BaseOf(l))
          /\ DOMAIN regions[l].allocated =
                {entry[k].offset : k \in {j \in DOMAIN entry : LayerOf[j] = l}} \cup
                {call[c].offset : c \in {d \in Callers : /\ call[d].at \in {"copy", "sync", "undo"}
                                                         /\ LayerOf[call[d].key] = l}}
    /\ resident = SumOf([i \in DOMAIN entries |-> SizeOf[entries[i]]])

\* A resident expert's whole range holds its own record, and a kernel that has not
\* finished reads an expert that is still resident: its range was not given to
\* another expert or back to the driver.
NoReuseUnderKernel ==
    /\ \A k \in DOMAIN entry : \A b \in RangeOf(k) : arena[b] = k
    /\ \A s \in Streams : \A i \in DOMAIN work[s] : work[s][i] \in DOMAIN entry

\* The user count is the number of leases, so an expert in use is never evicted.
UsersExact ==
    \A k \in Keys : LET leases == {c \in Callers : call[c].at = "body" /\ call[c].key = k}
                    IN  IF k \in DOMAIN entry THEN entry[k].users = Cardinality(leases)
                        ELSE leases = {}

\* Bytes and users of every expert are accounted for.
AccountsExact == ArenaAccounted /\ UsersExact

\* A load is refused only because an expert of the same layer is leased: once
\* everything idle is evicted, the region is one run again and fits any record.
BusyOnlyIfLeased ==
    \A c \in Callers :
        /\ call[c].at = "load" /\ Candidates(call[c].key) = {}
        /\ ~CanAllocate(RegionOf(call[c].key), SizeOf[call[c].key])
        => \E k \in DOMAIN entry : LayerOf[k] = LayerOf[call[c].key] /\ entry[k].users > 0

\* Waiting for events under the lock ends: the lock is always released again.
LockReleased == lock # Nobody ~> lock = Nobody

=============================================================================
