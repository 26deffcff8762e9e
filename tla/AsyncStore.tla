----------------------------- MODULE AsyncStore -----------------------------
(***************************************************************************)
(* The bounded, verified expert prefetch of                                *)
(* experiments/dsv41_nvme/async_store.py (AsyncExpertStore).               *)
(*                                                                         *)
(* Callers run plan(), read() and close() under the `control` lock; reader *)
(* threads of the pool run _fetch() and take only the statistics lock.  A  *)
(* caller that discards a ticket waits for its reader while it holds       *)
(* `control`, so a discard is two steps with reader steps in between.      *)
(* A record is abstracted to its key: staging counts records, not bytes.   *)
(* Calls that raise before they change anything are not steps.             *)
(***************************************************************************)
EXTENDS Naturals, Sequences, FiniteSets

CONSTANTS Keys,     \* records of the bank
          Callers,  \* threads that call plan, read and close
          Slots,    \* number of staging records and of reader threads
          Plans,    \* the key lists (without duplicates) callers plan
          Faults,   \* TRUE: a record may come back short or fail its hash
          Retain,   \* keys whose consumer may leave read() with a view exported
          Nobody    \* no caller, no key

ASSUME SlotsAssumption == Slots \in 1..2
ASSUME NamesAssumption == Nobody \notin Callers /\ Nobody \notin Keys
ASSUME PlansAssumption == \A keys \in Plans : /\ keys \in Seq(Keys)
                                              /\ \A i, j \in 1..Len(keys) : keys[i] = keys[j] => i = j
ASSUME FlagsAssumption == Faults \in BOOLEAN /\ Retain \subseteq Keys
ASSUME KeysAssumption  == IsFiniteSet(Keys)

VARIABLES control,   \* holder of the control lock
          closed,    \* close() has begun
          fdOpen,    \* the bank's descriptor is open
          pending,   \* keys of the ticket table, oldest first
          ticket,    \* key -> the Ticket of that key
          queue,     \* planned keys not submitted yet
          staging,   \* staging_bytes, in records
          active,    \* active_reads
          views,     \* keys whose buffer a consumer still exports
          cancel,    \* callers whose cancel event is set
          call,      \* caller -> the operation it is executing
          raised     \* history: a discard ended plan() or read(); no refill since

vars == <<control, closed, fdOpen, pending, ticket, queue, staging, active,
          views, cancel, call, raised>>

-----------------------------------------------------------------------------
Reading == {"entered", "reading", "read"}     \* a reader thread is inside _fetch
Settled == {"done", "interrupted", "error", "cancelled"}   \* the future has a result
Holding == {"reading", "read", "done"}        \* a buffer is mapped for the ticket

Ticket == [stage : {"none", "queued"} \cup Reading \cup Settled,
           stop : BOOLEAN, claimed : BOOLEAN, consumer : Callers \cup {Nobody}]
NoTicket == [stage |-> "none", stop |-> FALSE, claimed |-> FALSE, consumer |-> Nobody]

\* One operation of a caller.  key: the key read; consumer: the caller itself
\* if it passed a cancel event; todo: tickets still to be discarded; victim:
\* the one being discarded; goal: planned keys not looked at yet.
Call == [op : {"plan", "read", "close", "none"},
         at : {"idle", "discard", "await", "queue", "fill", "wait", "body", "exit"},
         key : Keys \cup {Nobody}, consumer : Callers \cup {Nobody},
         todo : SUBSET Keys, victim : Keys \cup {Nobody}, goal : Seq(Keys)]
Idle == [op |-> "none", at |-> "idle", key |-> Nobody, consumer |-> Nobody,
         todo |-> {}, victim |-> Nobody, goal |-> <<>>]

InSeq(k, s) == \E i \in 1..Len(s) : s[i] = k
\* s without its (only) occurrence of k
Without(s, k) ==
    IF InSeq(k, s)
    THEN LET p == CHOOSE i \in 1..Len(s) : s[i] = k
         IN  [i \in 1..(Len(s) - 1) |-> IF i < p THEN s[i] ELSE s[i + 1]]
    ELSE s

Cancelled(k) == ticket[k].stop \/ ticket[k].consumer \in cancel    \* Ticket.cancelled
Mapped == {k \in Keys : ticket[k].stage \in Holding}
Busy   == {k \in Keys : ticket[k].stage \in Reading}
Open   == ~closed /\ fdOpen                                         \* _check

Init ==
    /\ control = Nobody
    /\ closed = FALSE /\ fdOpen = TRUE
    /\ pending = <<>> /\ queue = <<>>
    /\ ticket = [k \in Keys |-> NoTicket]
    /\ staging = 0 /\ active = 0
    /\ views = {} /\ cancel = {}
    /\ call = [c \in Callers |-> Idle]
    /\ raised = FALSE

-----------------------------------------------------------------------------
(* Reader threads: _fetch.                                                 *)

CallerVars == <<control, closed, fdOpen, pending, queue, views, cancel, call, raised>>

FetchStart(k) ==
    /\ ticket[k].stage = "queued"
    /\ Cardinality(Busy) < Slots
    /\ ticket' = [ticket EXCEPT ![k].stage = "entered"]
    /\ active' = active + 1
    /\ UNCHANGED <<staging, CallerVars>>

\* the staging buffer is mapped
FetchMap(k) ==
    /\ ticket[k].stage = "entered" /\ ~Cancelled(k)
    /\ ticket' = [ticket EXCEPT ![k].stage = "reading"]
    /\ staging' = staging + 1
    /\ UNCHANGED <<active, CallerVars>>

\* the last pread returns; an interrupted one is retried
FetchRead(k) ==
    /\ ticket[k].stage = "reading"
    /\ ticket' = [ticket EXCEPT ![k].stage = "read"]
    /\ UNCHANGED <<staging, active, CallerVars>>

\* the hash matches and nobody cancelled meanwhile: the buffer is the result
FetchVerified(k) ==
    /\ ticket[k].stage = "read" /\ ~Cancelled(k)
    /\ ticket' = [ticket EXCEPT ![k].stage = "done"]
    /\ active' = active - 1
    /\ UNCHANGED <<staging, CallerVars>>

\* Variant: the failing reader forgets its buffer.
FetchAbortLeaks(k, result) ==
    /\ ticket' = [ticket EXCEPT ![k].stage = result]
    /\ active' = active - 1
    /\ UNCHANGED <<staging, CallerVars>>

\* the reader fails with `result` and unmaps the buffer it has
FetchAbort(k, result) ==
    /\ ticket' = [ticket EXCEPT ![k].stage = result]
    /\ staging' = IF k \in Mapped THEN staging - 1 ELSE staging
    /\ active' = active - 1
    /\ UNCHANGED CallerVars

FetchInterrupted(k) ==
    /\ ticket[k].stage \in Reading /\ Cancelled(k)
    /\ FetchAbort(k, "interrupted")

\* a short or unaligned read, or a hash that does not match
FetchFailed(k) ==
    /\ Faults /\ ticket[k].stage \in {"reading", "read"}
    /\ FetchAbort(k, "error")

Fetch(k) == \/ FetchStart(k) \/ FetchMap(k) \/ FetchRead(k) \/ FetchVerified(k)
            \/ FetchInterrupted(k) \/ FetchFailed(k)

-----------------------------------------------------------------------------
(* Callers.                                                                *)

\* c may take the lock for a new operation
Enter(c) == control = Nobody /\ call[c].at = "idle"
\* c holds the lock at step `at` of its operation
At(c, at) == control = c /\ call[c].at = at

\* c's operation ends (it returns or raises)
Leave(c) == control' = Nobody /\ call' = [call EXCEPT ![c] = Idle]
\* c leaves read()'s first critical section, its ticket claimed
AwaitResult(c, k, consumer) ==
    /\ control' = Nobody
    /\ call' = [call EXCEPT ![c] =
                  [Idle EXCEPT !.op = "read", !.at = "wait", !.key = k, !.consumer = consumer]]

\* the assertion of _submit
CanSubmit(k) == Len(pending) < Slots /\ ~InSeq(k, pending)
\* _submit; read() also claims the ticket before it unlocks
Submit(k, claimed, consumer) ==
    /\ CanSubmit(k)
    /\ pending' = Append(pending, k)
    /\ ticket' = [ticket EXCEPT ![k] = [stage |-> "queued", stop |-> FALSE,
                                        claimed |-> claimed, consumer |-> consumer]]

\* pop k from the ticket table
Pop(k) == /\ pending' = Without(pending, k)
          /\ ticket' = [ticket EXCEPT ![k] = NoTicket]

-----------------------------------------------------------------------------
(* _discard: stop the reader, cancel the future, wait for its result.      *)

\* tickets are discarded in table order
Oldest(S) == CHOOSE k \in S : \E i \in 1..Len(pending) :
                 pending[i] = k /\ \A j \in 1..(i - 1) : pending[j] \notin S

DiscardBegin(c) ==
    /\ At(c, "discard") /\ call[c].todo # {}
    /\ LET k == Oldest(call[c].todo)
       IN  /\ ticket' = [ticket EXCEPT ![k].stop = TRUE,
                                       ![k].stage = IF @ = "queued" THEN "cancelled" ELSE @]
           /\ call' = [call EXCEPT ![c].at = "await", ![c].victim = k, ![c].todo = @ \ {k}]
    /\ UNCHANGED <<control, closed, fdOpen, pending, queue, staging, active, views, cancel, raised>>

\* the future was cancelled or interrupted, or its buffer could be released
DiscardEnd(c) ==
    /\ At(c, "await")
    /\ LET k == call[c].victim
       IN  /\ \/ ticket[k].stage \in {"interrupted", "cancelled"} /\ UNCHANGED staging
              \/ ticket[k].stage = "done" /\ k \notin views /\ staging' = staging - 1
           /\ Pop(k)
    /\ call' = [call EXCEPT ![c].at = "discard"]
    /\ UNCHANGED <<control, closed, fdOpen, queue, active, views, cancel, raised>>

\* The future failed (its ticket is popped) or its buffer is still exported
\* (BufferError; the ticket stays).  close() notes the error and goes on;
\* plan() and read() end with it.
DiscardRaise(c) ==
    /\ At(c, "await")
    /\ LET k == call[c].victim
       IN  \/ ticket[k].stage = "error" /\ Pop(k)
           \/ ticket[k].stage = "done" /\ k \in views /\ UNCHANGED <<pending, ticket>>
    /\ IF call[c].op = "close"
       THEN call' = [call EXCEPT ![c].at = "discard"] /\ UNCHANGED <<control, raised>>
       ELSE Leave(c) /\ raised' = TRUE
    /\ cancel' = cancel \ {c}
    /\ UNCHANGED <<closed, fdOpen, queue, staging, active, views>>

-----------------------------------------------------------------------------
(* plan and _fill.                                                         *)

PlanBegin(c, keys) ==
    /\ Enter(c) /\ Open
    /\ control' = c
    /\ call' = [call EXCEPT ![c] =
                  [Idle EXCEPT !.op = "plan", !.at = "discard", !.goal = keys,
                               !.todo = {k \in Keys : /\ InSeq(k, pending) /\ ~InSeq(k, keys)
                                                      /\ ~ticket[k].claimed}]]
    /\ UNCHANGED <<closed, fdOpen, pending, ticket, queue, staging, active, views, cancel, raised>>

PlanReset(c) ==
    /\ At(c, "discard") /\ call[c].op = "plan" /\ call[c].todo = {}
    /\ queue' = <<>>
    /\ call' = [call EXCEPT ![c].at = "queue"]
    /\ UNCHANGED <<control, closed, fdOpen, pending, ticket, staging, active, views, cancel, raised>>

\* the new queue holds the planned keys that have no ticket
PlanQueue(c) ==
    /\ At(c, "queue")
    /\ IF call[c].goal = <<>>
       THEN call' = [call EXCEPT ![c].at = "fill"] /\ UNCHANGED queue
       ELSE LET k == Head(call[c].goal)
            IN  /\ queue' = IF InSeq(k, pending) THEN queue ELSE Append(queue, k)
                /\ call' = [call EXCEPT ![c].goal = Tail(@)]
    /\ UNCHANGED <<control, closed, fdOpen, pending, ticket, staging, active, views, cancel, raised>>

MoreToFill == queue # <<>> /\ Len(pending) < Slots /\ ~closed

\* Variant: the submitted key stays at the head of the queue.
FillOnePeeks(c) ==
    /\ At(c, "fill") /\ MoreToFill
    /\ queue' = queue
    /\ IF InSeq(Head(queue), pending)
       THEN UNCHANGED <<pending, ticket>>
       ELSE Submit(Head(queue), FALSE, Nobody)
    /\ UNCHANGED <<control, closed, fdOpen, staging, active, views, cancel, call, raised>>

FillOne(c) ==
    /\ At(c, "fill") /\ MoreToFill
    /\ queue' = Tail(queue)
    /\ IF InSeq(Head(queue), pending)
       THEN UNCHANGED <<pending, ticket>>
       ELSE Submit(Head(queue), FALSE, Nobody)
    /\ UNCHANGED <<control, closed, fdOpen, staging, active, views, cancel, call, raised>>

FillEnd(c) ==
    /\ At(c, "fill") /\ ~MoreToFill
    /\ Leave(c)
    /\ raised' = FALSE
    /\ UNCHANGED <<closed, fdOpen, pending, ticket, queue, staging, active, views, cancel>>

-----------------------------------------------------------------------------
(* read: consumer is c if it passed a cancel event, Nobody otherwise.      *)

\* Variant: a ticket that is already leased is handed out again.
ReadPrefetchedTwice(c, k, consumer) ==
    /\ Enter(c) /\ Open /\ InSeq(k, pending)
    /\ ticket' = [ticket EXCEPT ![k].claimed = TRUE, ![k].consumer = consumer]
    /\ AwaitResult(c, k, consumer)
    /\ UNCHANGED <<closed, fdOpen, pending, queue, staging, active, views, cancel, raised>>

\* a prefetched ticket that nobody leases is claimed
ReadPrefetched(c, k, consumer) ==
    /\ Enter(c) /\ Open /\ InSeq(k, pending) /\ ~ticket[k].claimed
    /\ ticket' = [ticket EXCEPT ![k].claimed = TRUE, ![k].consumer = consumer]
    /\ AwaitResult(c, k, consumer)
    /\ UNCHANGED <<closed, fdOpen, pending, queue, staging, active, views, cancel, raised>>

\* unexpected demand, a slot is free
ReadDemand(c, k, consumer) ==
    /\ Enter(c) /\ Open /\ ~InSeq(k, pending) /\ Len(pending) < Slots
    /\ queue' = Without(queue, k)
    /\ Submit(k, TRUE, consumer)
    /\ AwaitResult(c, k, consumer)
    /\ UNCHANGED <<closed, fdOpen, staging, active, views, cancel, raised>>

\* unexpected demand, no slot free: the newest unleased ticket is displaced
ReadDisplace(c, k, consumer) ==
    /\ Enter(c) /\ Open /\ ~InSeq(k, pending) /\ Len(pending) >= Slots
    /\ \E i \in 1..Len(pending) :
          /\ ~ticket[pending[i]].claimed
          /\ \A j \in (i + 1)..Len(pending) : ticket[pending[j]].claimed
          /\ call' = [call EXCEPT ![c] =
                        [Idle EXCEPT !.op = "read", !.at = "discard", !.key = k,
                                     !.consumer = consumer, !.todo = {pending[i]}]]
    /\ control' = c
    /\ UNCHANGED <<closed, fdOpen, pending, ticket, queue, staging, active, views, cancel, raised>>

\* Variant: the displaced key is forgotten.
ReadSubmitDropsVictim(c) ==
    /\ At(c, "discard") /\ call[c].op = "read" /\ call[c].todo = {}
    /\ queue' = Without(queue, call[c].key)
    /\ Submit(call[c].key, TRUE, call[c].consumer)
    /\ AwaitResult(c, call[c].key, call[c].consumer)
    /\ UNCHANGED <<closed, fdOpen, staging, active, views, cancel, raised>>

\* the displaced key returns to the front of the plan
ReadSubmit(c) ==
    /\ At(c, "discard") /\ call[c].op = "read" /\ call[c].todo = {}
    /\ queue' = Without(<<call[c].victim>> \o queue, call[c].key)
    /\ Submit(call[c].key, TRUE, call[c].consumer)
    /\ AwaitResult(c, call[c].key, call[c].consumer)
    /\ UNCHANGED <<closed, fdOpen, staging, active, views, cancel, raised>>

\* future.result() returns the buffer and nobody cancelled: it is yielded
ReadYield(c) ==
    /\ call[c].at = "wait"
    /\ ticket[call[c].key].stage = "done" /\ ~Cancelled(call[c].key)
    /\ call' = [call EXCEPT ![c].at = "body"]
    /\ UNCHANGED <<control, closed, fdOpen, pending, ticket, queue, staging, active, views, cancel, raised>>

\* the future failed, or the read was cancelled
ReadAbort(c) ==
    /\ call[c].at = "wait"
    /\ LET k == call[c].key
       IN  \/ ticket[k].stage \in Settled \ {"done"}
           \/ ticket[k].stage = "done" /\ Cancelled(k)
    /\ call' = [call EXCEPT ![c].at = "exit"]
    /\ UNCHANGED <<control, closed, fdOpen, pending, ticket, queue, staging, active, views, cancel, raised>>

\* the consumer's block ends, possibly with a view of the buffer still alive
BodyEnd(c) ==
    /\ call[c].at = "body"
    /\ call' = [call EXCEPT ![c].at = "exit"]
    /\ views' \in {views} \cup {views \cup {k} : k \in {call[c].key} \cap Retain}
    /\ UNCHANGED <<control, closed, fdOpen, pending, ticket, queue, staging, active, cancel, raised>>

\* Variant: the slot is recycled although the consumer exports the buffer.
ReadExitIgnoresViews(c) ==
    /\ control = Nobody /\ call[c].at = "exit"
    /\ staging' = IF ticket[call[c].key].stage = "done" THEN staging - 1 ELSE staging
    /\ Pop(call[c].key)
    /\ control' = c
    /\ call' = [call EXCEPT ![c] = [Idle EXCEPT !.op = "read", !.at = "fill"]]
    /\ cancel' = cancel \ {c}
    /\ UNCHANGED <<closed, fdOpen, queue, active, views, raised>>

\* Variant: the freed slot is not refilled from the plan.
ReadExitNoFill(c) ==
    /\ control = Nobody /\ call[c].at = "exit"
    /\ staging' = IF ticket[call[c].key].stage = "done" THEN staging - 1 ELSE staging
    /\ Pop(call[c].key)
    /\ Leave(c)
    /\ cancel' = cancel \ {c}
    /\ UNCHANGED <<closed, fdOpen, queue, active, views, raised>>

\* read()'s finally block: release, pop, refill
ReadExit(c) ==
    /\ control = Nobody /\ call[c].at = "exit"
    /\ LET k == call[c].key
       IN  /\ ~(ticket[k].stage = "done" /\ k \in views)
           /\ staging' = IF ticket[k].stage = "done" THEN staging - 1 ELSE staging
           /\ Pop(k)
    /\ control' = c
    /\ call' = [call EXCEPT ![c] = [Idle EXCEPT !.op = "read", !.at = "fill"]]
    /\ cancel' = cancel \ {c}
    /\ UNCHANGED <<closed, fdOpen, queue, active, views, raised>>

\* ... unless the buffer is still exported: BufferError, the ticket stays
ReadRetained(c) ==
    /\ control = Nobody /\ call[c].at = "exit"
    /\ LET k == call[c].key
       IN  /\ ticket[k].stage = "done" /\ k \in views
           /\ ticket' = [ticket EXCEPT ![k].claimed = FALSE]
    /\ Leave(c)
    /\ cancel' = cancel \ {c}
    /\ UNCHANGED <<closed, fdOpen, pending, queue, staging, active, views, raised>>

Read(c) == \/ ReadSubmit(c) \/ ReadYield(c) \/ ReadAbort(c) \/ ReadExit(c) \/ ReadRetained(c)

-----------------------------------------------------------------------------
(* close                                                                   *)

\* Variant: close() does not look for active leases.
CloseBeginIgnoresLeases(c) ==
    /\ Enter(c) /\ ~closed
    /\ closed' = TRUE
    /\ queue' = <<>>
    /\ control' = c
    /\ call' = [call EXCEPT ![c] =
                  [Idle EXCEPT !.op = "close", !.at = "discard",
                               !.todo = {k \in Keys : InSeq(k, pending) /\ ~ticket[k].claimed}]]
    /\ UNCHANGED <<fdOpen, pending, ticket, staging, active, views, cancel, raised>>

CloseBegin(c) ==
    /\ Enter(c) /\ ~closed
    /\ \A i \in 1..Len(pending) : ~ticket[pending[i]].claimed
    /\ closed' = TRUE
    /\ queue' = <<>>
    /\ control' = c
    /\ call' = [call EXCEPT ![c] = [Idle EXCEPT !.op = "close", !.at = "discard",
                                                !.todo = {k \in Keys : InSeq(k, pending)}]]
    /\ UNCHANGED <<fdOpen, pending, ticket, staging, active, views, cancel, raised>>

\* the pool is shut down (every reader has left) and the descriptor closed;
\* what is still staged is only reported
CloseEnd(c) ==
    /\ At(c, "discard") /\ call[c].op = "close" /\ call[c].todo = {}
    /\ Busy = {}
    /\ fdOpen' = FALSE
    /\ Leave(c)
    /\ UNCHANGED <<closed, pending, ticket, queue, staging, active, views, cancel, raised>>

-----------------------------------------------------------------------------
(* The callers' environment.                                               *)

\* a consumer drops a view it kept
DropView(k) ==
    /\ k \in views
    /\ views' = views \ {k}
    /\ UNCHANGED <<control, closed, fdOpen, pending, ticket, queue, staging, active, cancel, call, raised>>

\* the event passed to read() is set while the read is in progress
SetCancel(c) ==
    /\ call[c].at \in {"discard", "await", "wait"} /\ call[c].consumer = c
    /\ c \notin cancel
    /\ cancel' = cancel \cup {c}
    /\ UNCHANGED <<control, closed, fdOpen, pending, ticket, queue, staging, active, views, call, raised>>

Discard(c) == DiscardBegin(c) \/ DiscardEnd(c) \/ DiscardRaise(c)
Plan(c)    == PlanReset(c) \/ PlanQueue(c) \/ FillOne(c) \/ FillEnd(c)

Next ==
    \/ \E k \in Keys : Fetch(k) \/ DropView(k)
    \/ \E c \in Callers :
          \/ \E keys \in Plans : PlanBegin(c, keys)
          \/ \E k \in Keys, consumer \in {c, Nobody} :
                ReadPrefetched(c, k, consumer) \/ ReadDemand(c, k, consumer)
                    \/ ReadDisplace(c, k, consumer)
          \/ Discard(c) \/ Plan(c) \/ Read(c) \/ BodyEnd(c)
          \/ CloseBegin(c) \/ CloseEnd(c) \/ SetCancel(c)

Spec == Init /\ [][Next]_vars

\* Reader threads run, a thread that holds the lock goes on, and a reader
\* that got its result leaves its block.  Nothing else has to happen; in
\* particular nobody has to win the lock.
Fairness ==
    /\ \A k \in Keys : WF_vars(Fetch(k))
    /\ \A c \in Callers : WF_vars(Discard(c) \/ Plan(c) \/ ReadSubmit(c) \/ CloseEnd(c))
    /\ \A c \in Callers : WF_vars(ReadYield(c) \/ ReadAbort(c))

FairSpec == Spec /\ Fairness

-----------------------------------------------------------------------------
(* Properties.                                                             *)

TypeOK ==
    /\ control \in Callers \cup {Nobody}
    /\ closed \in BOOLEAN /\ fdOpen \in BOOLEAN
    /\ pending \in Seq(Keys) /\ queue \in Seq(Keys)
    /\ ticket \in [Keys -> Ticket]
    /\ staging \in Nat /\ active \in Nat
    /\ views \subseteq Keys /\ cancel \subseteq Callers
    /\ call \in [Callers -> Call]
    /\ raised \in BOOLEAN

\* The ticket table holds each key once, never more than Slots of them, and a
\* key has a ticket exactly while it is in the table.
TableExact ==
    /\ Len(pending) <= Slots
    /\ \A i, j \in 1..Len(pending) : pending[i] = pending[j] => i = j
    /\ \A k \in Keys : InSeq(k, pending) <=> ticket[k].stage # "none"

\* "At most two records, including completed and leased records, own staging
\* RAM" (the module's docstring): the table is exact, the counters are exact,
\* so every mapped buffer belongs to a ticket of the table, and neither the
\* table nor the counters exceed the slots.
StagingBound ==
    /\ TableExact
    /\ staging = Cardinality(Mapped) /\ staging <= Slots
    /\ active = Cardinality(Busy)    /\ active <= Slots

\* A claimed ticket is leased by exactly one caller, which finds it in the
\* table until it releases it; nobody discards it meanwhile.
Leases(c, k) == call[c].at \in {"wait", "body", "exit"} /\ call[c].key = k
LeaseExclusive ==
    \A k \in Keys :
        /\ ticket[k].claimed => \E c \in Callers : Leases(c, k)
        /\ \A c \in Callers : Leases(c, k) =>
              /\ ticket[k].claimed /\ InSeq(k, pending)
              /\ \A d \in Callers : (Leases(d, k) => d = c) /\ call[d].victim # k

\* A consumer in its block reads a buffer that is complete, verified and still
\* mapped, and a view it keeps afterwards never outlives the buffer.
NeverUnverified ==
    /\ \A c \in Callers : call[c].at = "body" => ticket[call[c].key].stage = "done"
    /\ \A k \in views : ticket[k].stage = "done"

\* A store whose close() is over owns no staging memory but that of records it
\* stopped and could not release, because their consumer exported a view.
ClosedOwnsOnlyRetained ==
    ~fdOpen => staging = Cardinality({k \in Keys : ticket[k].stage = "done" /\ ticket[k].stop})

\* Staging memory is accounted for at any time, after close() too.
StagingAccounted == StagingBound /\ ClosedOwnsOnlyRetained

\* The plan queue has no duplicates and no key that already has a ticket, and
\* _submit never meets its own "Staging bound or duplicate submission".
QueueFresh ==
    /\ \A i, j \in 1..Len(queue) : queue[i] = queue[j] => i = j
    /\ \A i \in 1..Len(queue) : ~InSeq(queue[i], pending)
    /\ \A c \in Callers : At(c, "discard") /\ call[c].op = "read" /\ call[c].todo = {}
            => CanSubmit(call[c].key)

\* Whenever the lock is free no slot idles while planned work waits, except
\* between a discard that ended plan() or read() and the next call that refills.
NoIdleSlot ==
    control = Nobody /\ ~closed /\ ~raised => queue = <<>> \/ Len(pending) = Slots

\* The plan is worked off: no slot idles while a key waits that may be submitted.
QueueServed == QueueFresh /\ NoIdleSlot

\* Planned work is never dropped on the way: a key leaves the schedule only when
\* its own read ends or failed, a new plan replaces the old one, or the store closes.
Scheduled(k) ==
    \/ InSeq(k, pending) \/ InSeq(k, queue)
    \/ \E c \in Callers : call[c].op = "read" /\ call[c].victim = k
PlannedWorkKept ==
    [][\A k \in Keys : Scheduled(k) /\ ~Scheduled(k)' =>
          \/ \E c \in Callers : call[c].at = "exit" /\ call[c].key = k
          \/ ticket[k].stage = "error"
          \/ control # Nobody /\ call[control].op \in {"plan", "close"}
          \/ closed']_vars

\* Waiting for a reader inside a discard never holds the lock forever, and a
\* caller waiting for a result gets one: nobody waits on everybody.
LockReleased == control # Nobody ~> control = Nobody
ReadAnswered == \A c \in Callers : call[c].at = "wait" ~> call[c].at # "wait"
NobodyWaitsForever == LockReleased /\ ReadAnswered

\* The store implements the leases of StagingSlots.
Lessors(k) == {c \in Callers : Leases(c, k)}
Only(S)    == IF S = {} THEN Nobody ELSE CHOOSE c \in S : TRUE
Held     == {k \in Keys : InSeq(k, pending)}
Verified == {k \in Keys : ticket[k].stage = "done"}
Lessee   == [k \in Keys |-> Only(Lessors(k))]
Shown    == [c \in Callers |-> IF call[c].at = "body" THEN call[c].key ELSE Nobody]

Staged == INSTANCE StagingSlots WITH
    held <- Held, verified <- Verified, lessee <- Lessee, shown <- Shown, open <- ~closed
ImplementsStagingSlots == Staged!SSpec

=============================================================================
