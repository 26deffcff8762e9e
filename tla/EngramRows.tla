----------------------------- MODULE EngramRows -----------------------------
(***************************************************************************)
(* The n-gram row cache of experiments/dsv41_nvme/engram_rows.py.          *)
(*                                                                         *)
(* Callers gather rows, or prefetch one batch ahead, under the `control`   *)
(* lock; the lookup itself (_payloads) runs under the row lock, in the     *)
(* caller or in the prefetch thread, and reads the missing rows from a     *)
(* table that somebody may change meanwhile.  A row's bytes are abstracted *)
(* to the row and to whether they were read before or after the change,    *)
(* which fstat shows from then on.                                         *)
(***************************************************************************)
EXTENDS Naturals, SequencesExt, FiniteSetsExt

CONSTANTS Rows,       \* row ids of the table
          Requests,   \* the requests made: sequences of [row, owned]
          Capacity,   \* rows the cache may keep
          Callers,
          Prefetcher, \* the thread of the prefetch pool
          Faults,     \* TRUE: a row read may come back short
          Nobody

ASSUME CapacityAssumption == Capacity \in Nat \ {0}
ASSUME RequestAssumption  == Requests \subseteq Seq([row : Rows, owned : BOOLEAN])
ASSUME NamesAssumption    == /\ Nobody \notin Callers \cup {Prefetcher} \cup Requests
                             /\ Prefetcher \notin Callers

VARIABLES changed,   \* the table differs from the identity taken at construction
          control,   \* holder of the control lock
          rowLock,   \* holder of the cache lock
          closed,
          cache,     \* cached rows, least recently used first
          bytes,     \* cached row -> what was read ("old" or "new" table)
          pending,   \* the request whose prefetch is outstanding, or Nobody
          job,       \* thread -> its run of _payloads
          call,      \* caller -> its gather or close
          served     \* the last output a gather produced

vars == <<changed, control, rowLock, closed, cache, bytes, pending, job, call, served>>

Procs == Callers \cup {Prefetcher}
NoJob  == [at |-> "none", request |-> <<>>, missing |-> <<>>, got |-> [r \in {} |-> 0]]
Queued(request) == [NoJob EXCEPT !.at = "queued", !.request = request]
NoCall == [at |-> "idle", request |-> <<>>, late |-> FALSE]

Init ==
    /\ changed = FALSE /\ closed = FALSE
    /\ control = Nobody /\ rowLock = Nobody
    /\ cache = <<>> /\ bytes = [r \in {} |-> 0]
    /\ pending = Nobody
    /\ job = [p \in Procs |-> NoJob]
    /\ call = [c \in Callers |-> NoCall]
    /\ served = [data |-> <<>>, request |-> <<>>, late |-> FALSE, prefetched |-> FALSE]

-----------------------------------------------------------------------------
(* _payloads, run by thread p under the row lock.                          *)

\* the distinct owned rows of a request, in order
Keys(request) ==
    FoldLeft(LAMBDA keys, item : IF item.owned /\ ~Contains(keys, item.row)
                                 THEN Append(keys, item.row) ELSE keys,
             <<>>, request)

\* the rows of a sequence that are in a set, in order
Those(rows, S) == FoldLeft(LAMBDA kept, r : IF r \in S THEN Append(kept, r) ELSE kept, <<>>, rows)

\* Variant: an error keeps the row lock.
JobEndsHolding(p, at) ==
    /\ job' = [job EXCEPT ![p].at = at, ![p].missing = <<>>]
    /\ rowLock' = IF at = "failed" THEN rowLock ELSE Nobody
\* the lookup returns or raises, and leaves the row lock either way
JobEnds(p, at) == /\ job' = [job EXCEPT ![p].at = at, ![p].missing = <<>>]
                  /\ rowLock' = Nobody

\* hits are taken and become the most recent; the others have to be read
PayloadsBegin(p) ==
    /\ job[p].at = "queued" /\ rowLock = Nobody /\ ~closed /\ ~changed
    /\ LET keys == Keys(job[p].request)
           hits == Those(keys, ToSet(cache))
       IN  /\ job' = [job EXCEPT ![p] =
                        [at |-> "fetch", request |-> @.request,
                         missing |-> Those(keys, Rows \ ToSet(cache)),
                         got |-> [r \in ToSet(hits) |-> bytes[r]]]]
           /\ cache' = Those(cache, Rows \ ToSet(hits)) \o hits
    /\ rowLock' = p
    /\ UNCHANGED <<changed, control, closed, bytes, pending, call, served>>

\* closed, or the table's identity changed
PayloadsRefuse(p) ==
    /\ job[p].at = "queued" /\ rowLock = Nobody /\ (closed \/ changed)
    /\ JobEnds(p, "failed")
    /\ UNCHANGED <<changed, control, closed, cache, bytes, pending, call, served>>

\* one of the row readers reads one of the missing rows
Unread(p) == ToSet(job[p].missing) \ DOMAIN job[p].got
FetchRow(p, r) ==
    /\ job[p].at = "fetch" /\ r \in Unread(p)
    /\ job' = [job EXCEPT ![p].got = [x \in DOMAIN @ \cup {r} |->
                  IF x = r THEN (IF changed THEN "new" ELSE "old") ELSE @[x]]]
    /\ UNCHANGED <<changed, control, rowLock, closed, cache, bytes, pending, call, served>>

FetchShort(p) ==
    /\ Faults /\ job[p].at = "fetch" /\ Unread(p) # {}
    /\ JobEnds(p, "failed")
    /\ UNCHANGED <<changed, control, closed, cache, bytes, pending, call, served>>

\* after a read the identity is checked again; nothing was cached yet
FetchChanged(p) ==
    /\ job[p].at = "fetch" /\ Unread(p) = {} /\ job[p].missing # <<>> /\ changed
    /\ JobEnds(p, "failed")
    /\ UNCHANGED <<changed, control, closed, cache, bytes, pending, call, served>>

\* a read row enters the cache, the least recent one leaves a full cache
Insert(rows, row) == Append(IF Len(rows) >= Capacity THEN Tail(rows) ELSE rows, row)

\* Variant: the identity is not checked again after the read.
PayloadsEndUnchecked(p) ==
    /\ job[p].at = "fetch" /\ Unread(p) = {}
    /\ cache' = FoldLeft(Insert, cache, job[p].missing)
    /\ bytes' = [r \in ToSet(cache') |-> IF r \in DOMAIN job[p].got THEN job[p].got[r] ELSE bytes[r]]
    /\ JobEnds(p, "done")
    /\ UNCHANGED <<changed, control, closed, pending, call, served>>

PayloadsEnd(p) ==
    /\ job[p].at = "fetch" /\ Unread(p) = {}
    /\ job[p].missing # <<>> => ~changed
    /\ cache' = FoldLeft(Insert, cache, job[p].missing)
    /\ bytes' = [r \in ToSet(cache') |-> IF r \in DOMAIN job[p].got THEN job[p].got[r] ELSE bytes[r]]
    /\ JobEnds(p, "done")
    /\ UNCHANGED <<changed, control, closed, pending, call, served>>

Payloads(p) == \/ PayloadsBegin(p) \/ PayloadsRefuse(p) \/ FetchShort(p) \/ FetchChanged(p)
               \/ PayloadsEnd(p) \/ \E r \in Rows : FetchRow(p, r)

-----------------------------------------------------------------------------
(* prefetch, gather_into and close, serialized by control.                 *)

Prefetch(request) ==
    /\ control = Nobody /\ ~closed /\ pending = Nobody
    /\ pending' = request
    /\ job' = [job EXCEPT ![Prefetcher] = Queued(request)]
    /\ UNCHANGED <<changed, control, rowLock, closed, cache, bytes, call, served>>

\* late: the table had already changed when the gather began
GatherBegin(c, request) ==
    /\ control = Nobody /\ ~closed /\ call[c] = NoCall
    /\ control' = c
    /\ call' = [call EXCEPT ![c] = [at |-> IF pending # Nobody THEN "await" ELSE "own",
                                    request |-> request, late |-> changed]]
    /\ job' = IF pending # Nobody THEN job ELSE [job EXCEPT ![c] = Queued(request)]
    /\ UNCHANGED <<changed, rowLock, closed, cache, bytes, pending, served>>

\* Variant: a prefetch that fetched every requested row will do.
MatchesRows(request) == ToSet(Keys(request)) \subseteq ToSet(Keys(pending))
\* the outstanding prefetch was made for exactly this request
Matches(request) == pending = request

\* the output assembled from the payloads that a run of _payloads returned
Output(run) == [i \in DOMAIN run.request |->
    IF run.request[i].owned THEN <<run.request[i].row, run.got[run.request[i].row]>> ELSE <<>>]
Serve(c, run, prefetched) ==
    /\ served' = [data |-> Output(run), request |-> call[c].request,
                  late |-> call[c].late, prefetched |-> prefetched]
    /\ control' = Nobody
    /\ call' = [call EXCEPT ![c] = NoCall]

\* the prefetch is consumed: its rows are served if they match, else dropped
GatherPrefetched(c) ==
    /\ control = c /\ call[c].at = "await" /\ job[Prefetcher].at = "done"
    /\ pending' = Nobody
    /\ IF Matches(call[c].request)
       THEN /\ Serve(c, job[Prefetcher], TRUE)
            /\ job' = [job EXCEPT ![Prefetcher] = NoJob]
       ELSE /\ call' = [call EXCEPT ![c].at = "own"]
            /\ job' = [job EXCEPT ![Prefetcher] = NoJob, ![c] = Queued(call[c].request)]
            /\ UNCHANGED <<control, served>>
    /\ UNCHANGED <<changed, rowLock, closed, cache, bytes>>

\* a failed prefetch raises here and stays outstanding
GatherRaises(c) ==
    /\ control = c /\ call[c].at = "await" /\ job[Prefetcher].at = "failed"
    /\ control' = Nobody
    /\ call' = [call EXCEPT ![c] = NoCall]
    /\ UNCHANGED <<changed, rowLock, closed, cache, bytes, pending, job, served>>

GatherOwn(c) ==
    /\ control = c /\ call[c].at = "own"
    /\ \/ job[c].at = "done" /\ Serve(c, job[c], FALSE)
       \/ /\ job[c].at = "failed"
          /\ control' = Nobody /\ call' = [call EXCEPT ![c] = NoCall] /\ UNCHANGED served
    /\ job' = [job EXCEPT ![c] = NoJob]
    /\ UNCHANGED <<changed, rowLock, closed, cache, bytes, pending>>

CloseBegin(c) ==
    /\ control = Nobody /\ ~closed /\ call[c] = NoCall
    /\ control' = c
    /\ call' = [call EXCEPT ![c].at = "close"]
    /\ UNCHANGED <<changed, rowLock, closed, cache, bytes, pending, job, served>>

\* Variant: close() does not wait for the outstanding prefetch.
CloseEndEarly(c) ==
    /\ control = c /\ call[c].at = "close" /\ rowLock = Nobody
    /\ closed' = TRUE
    /\ cache' = <<>> /\ bytes' = [r \in {} |-> 0]
    /\ pending' = Nobody
    /\ control' = Nobody /\ call' = [call EXCEPT ![c] = NoCall]
    /\ UNCHANGED <<changed, rowLock, job, served>>

\* an outstanding prefetch has settled, the pools are down
CloseEnd(c) ==
    /\ control = c /\ call[c].at = "close" /\ rowLock = Nobody
    /\ job[Prefetcher].at \in {"none", "done", "failed"}
    /\ closed' = TRUE
    /\ cache' = <<>> /\ bytes' = [r \in {} |-> 0]
    /\ pending' = Nobody /\ job' = [job EXCEPT ![Prefetcher] = NoJob]
    /\ control' = Nobody /\ call' = [call EXCEPT ![c] = NoCall]
    /\ UNCHANGED <<changed, rowLock, served>>

Finish(c) == GatherPrefetched(c) \/ GatherRaises(c) \/ GatherOwn(c) \/ CloseEnd(c)

\* somebody rewrites the table in a way fstat shows
Change ==
    /\ ~changed /\ changed' = TRUE
    /\ UNCHANGED <<control, rowLock, closed, cache, bytes, pending, job, call, served>>

Next ==
    \/ \E p \in Procs : Payloads(p)
    \/ \E request \in Requests : Prefetch(request) \/ \E c \in Callers : GatherBegin(c, request)
    \/ \E c \in Callers : Finish(c) \/ CloseBegin(c)
    \/ Change

Spec == Init /\ [][Next]_vars
\* lookups in progress and callers holding the control lock go on
FairSpec == /\ Spec
            /\ \A p \in Procs : WF_vars(Payloads(p))
            /\ \A c \in Callers : WF_vars(Finish(c))

-----------------------------------------------------------------------------
(* Properties.                                                             *)

TypeOK ==
    /\ changed \in BOOLEAN /\ closed \in BOOLEAN
    /\ control \in Callers \cup {Nobody} /\ rowLock \in Procs \cup {Nobody}
    /\ pending \in Requests \cup {Nobody}
    /\ IsInjective(cache) /\ ToSet(cache) \subseteq Rows /\ DOMAIN bytes = ToSet(cache)
    /\ Len(cache) <= Capacity
    /\ \A p \in Procs : ToSet(job[p].missing) \subseteq Rows

\* Neither the cache nor an output ever holds bytes of the changed table (the
\* check after the read comes before anything is cached or returned), and a gather
\* that begins after the table changed fails, also when every row it asks for is
\* cached; only a prefetch of the same request made before can still serve it.
OriginalBytesOnly ==
    /\ \A r \in DOMAIN bytes : bytes[r] = "old"
    /\ \A i \in DOMAIN served.data : served.data[i] \in {<<>>} \cup (Rows \X {"old"})
    /\ served.late => served.prefetched

\* Each position of an output holds the row asked for, or zeros if the rank
\* does not own it, whatever was prefetched, cached, or evicted on the way.
ServedAsRequested ==
    /\ Len(served.data) = Len(served.request)
    /\ \A i \in DOMAIN served.data :
          IF served.request[i].owned THEN served.data[i][1] = served.request[i].row
                                     ELSE served.data[i] = <<>>

\* Between lookups nothing of a closed cache is left and no lookup is running.
ClosedIsQuiet ==
    closed /\ control = Nobody =>
        /\ cache = <<>> /\ pending = Nobody /\ rowLock = Nobody
        /\ \A p \in Procs : job[p] = NoJob

\* A caller waiting for the prefetch thread under the control lock always ends.
ControlReleased == control # Nobody ~> control = Nobody

=============================================================================
