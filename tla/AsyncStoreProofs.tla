--------------------------- MODULE AsyncStoreProofs --------------------------
(* The staging store keeps its bound, its leases, its verified bytes and its *)
(* plan, for any keys, callers and plans, with failing readers and kept      *)
(* views.                                                                    *)
EXTENDS AsyncStore, FiniteSetTheorems, SequenceTheorems, TLAPS

Locked  == {"discard", "await", "queue", "fill"}   \* steps under the control lock
Leasing == {"wait", "body", "exit"}                \* steps of read() outside of it

\* staging_bytes and active_reads count the buffers mapped and the readers running.
CountersExact == staging = Cardinality(Mapped) /\ active = Cardinality(Busy)

\* The caller that holds the lock is the one inside a critical section, and only it
\* has tickets to discard.
CallsMade ==
    \A c \in Callers :
        /\ call[c].at \in Locked <=> control = c
        /\ call[c].at = "idle" => call[c] = Idle
        /\ call[c].at \in Leasing => call[c].op = "read" /\ call[c].key \in Keys
        /\ call[c].at \in Locked => call[c].op # "none"
        /\ call[c].at \in {"queue", "fill"} => call[c].op # "close"
        /\ call[c].op = "read" /\ call[c].at \in {"discard", "await"} => call[c].key \in Keys
        /\ call[c].op = "read" /\ call[c].at = "discard" => call[c].todo # {} \/ call[c].victim \in Keys
        /\ control # c => call[c].victim = Nobody /\ call[c].todo = {}

\* What is being discarded, or will be, is in the table and nobody's lease.
DiscardsUnleased ==
    \A c \in Callers :
        /\ call[c].victim # Nobody => ~ticket[call[c].victim].claimed
        /\ \A k \in call[c].todo : InSeq(k, pending) /\ ~ticket[k].claimed
        /\ call[c].at = "await" => /\ call[c].victim \in Keys /\ InSeq(call[c].victim, pending)
                                   /\ call[c].victim \notin call[c].todo
                                   /\ ticket[call[c].victim].stop

\* A reader whose block is over has a ticket that is settled.
ExitSettled == \A c \in Callers : call[c].at = "exit" => ticket[call[c].key].stage \in Settled

\* close() looks at every ticket and leaves behind what it stopped and could not release.
ClosesAll ==
    /\ closed => \A c \in Callers : call[c].at = "idle" \/ call[c].op = "close"
    /\ \A c \in Callers : call[c].op = "close" =>
          /\ closed /\ fdOpen
          /\ \A k \in Keys : InSeq(k, pending) =>
                \/ k \in call[c].todo
                \/ call[c].at = "await" /\ k = call[c].victim
                \/ ticket[k].stage = "done" /\ ticket[k].stop
    /\ ~fdOpen => /\ closed /\ \A c \in Callers : call[c].at = "idle"
                  /\ \A k \in Keys : InSeq(k, pending) => ticket[k].stage = "done" /\ ticket[k].stop

IInv == /\ TypeOK /\ TableExact /\ CountersExact /\ CallsMade /\ LeaseExclusive
        /\ DiscardsUnleased /\ NeverUnverified /\ ExitSettled /\ ClosesAll

-----------------------------------------------------------------------------
(* The table.                                                              *)

Injective(s) == \A i, j \in 1..Len(s) : s[i] = s[j] => i = j

\* Without(s, k) has the other elements of s, each once.
LEMMA WithoutElements ==
    ASSUME NEW S, NEW s \in Seq(S), NEW k, Injective(s)
    PROVE  /\ Without(s, k) \in Seq(S) /\ Injective(Without(s, k))
           /\ Len(Without(s, k)) <= Len(s)
           /\ \A x : InSeq(x, Without(s, k)) <=> InSeq(x, s) /\ x # k
<1>1. CASE ~InSeq(k, s)
  BY <1>1 DEF Without, InSeq
<1>2. CASE InSeq(k, s)
  <2> DEFINE p == CHOOSE i \in 1..Len(s) : s[i] = k
             w == [i \in 1..(Len(s) - 1) |-> IF i < p THEN s[i] ELSE s[i + 1]]
  <2>1. p \in 1..Len(s) /\ s[p] = k
    BY <1>2 DEF InSeq
  <2>2. Without(s, k) = w
    BY <1>2 DEF Without
  <2> HIDE DEF p
  <2>3. w \in Seq(S) /\ Len(w) = Len(s) - 1 /\ Len(s) \in Nat
    <3>1. Len(s) - 1 \in Nat /\ w \in [1..(Len(s) - 1) -> S]
      BY <2>1, ElementOfSeq
    <3>2. QED
      BY <3>1, SeqDef
  <2>4. \A i \in 1..Len(w) : w[i] = (IF i < p THEN s[i] ELSE s[i + 1])
    BY <2>3
  <2> HIDE DEF w
  <2>5. Injective(w)
    BY <2>1, <2>3, <2>4 DEF Injective
  <2>6. ASSUME NEW x PROVE InSeq(x, w) <=> InSeq(x, s) /\ x # k
    <3>1. ASSUME NEW i \in 1..Len(w), w[i] = x PROVE InSeq(x, s) /\ x # k
      <4>1. PICK j \in 1..Len(s) : j = (IF i < p THEN i ELSE i + 1)
        BY <2>1, <2>3
      <4>2. s[j] = x /\ j # p
        BY <2>1, <2>3, <2>4, <3>1, <4>1
      <4>3. QED
        BY <2>1, <4>2 DEF InSeq, Injective
    <3>2. ASSUME NEW j \in 1..Len(s), s[j] = x, x # k PROVE InSeq(x, w)
      <4>1. j # p
        BY <2>1, <3>2
      <4>2. CASE j < p
        <5>1. j \in 1..Len(w) /\ w[j] = x
          BY <2>1, <2>3, <2>4, <3>2, <4>2
        <5>2. QED
          BY <5>1 DEF InSeq
      <4>3. CASE j > p
        <5>1. j - 1 \in 1..Len(w) /\ w[j - 1] = x
          BY <2>1, <2>3, <2>4, <3>2, <4>3
        <5>2. QED
          BY <5>1 DEF InSeq
      <4>4. QED
        BY <2>1, <4>1, <4>2, <4>3
    <3>3. QED
      BY <3>1, <3>2 DEF InSeq
  <2>7. QED
    BY <2>2, <2>3, <2>5, <2>6
<1>3. QED
  BY <1>1, <1>2

\* Append(s, k) has k besides.
LEMMA AppendElements ==
    ASSUME NEW S, NEW s \in Seq(S), NEW k \in S
    PROVE  /\ Append(s, k) \in Seq(S) /\ Len(Append(s, k)) = Len(s) + 1
           /\ \A x : InSeq(x, Append(s, k)) <=> InSeq(x, s) \/ x = k
           /\ Injective(s) /\ ~InSeq(k, s) => Injective(Append(s, k))
<1> DEFINE a == Append(s, k)
<1>1. /\ a \in Seq(S) /\ Len(s) \in Nat /\ Len(a) = Len(s) + 1 /\ a[Len(s) + 1] = k
      /\ \A i \in 1..Len(s) : a[i] = s[i]
  BY AppendProperties, LenProperties
<1> HIDE DEF a
<1>2. \A x : InSeq(x, a) <=> InSeq(x, s) \/ x = k
  BY <1>1 DEF InSeq
<1>3. Injective(s) /\ ~InSeq(k, s) => Injective(a)
  BY <1>1 DEF InSeq, Injective
<1>4. QED
  BY <1>1, <1>2, <1>3 DEF a

\* One ticket changes and keeps its place in the table.
LEMMA TableTouched ==
    ASSUME TypeOK, TableExact, NEW k \in Keys, NEW t \in Ticket,
           ticket[k].stage # "none", t.stage # "none",
           ticket' = [ticket EXCEPT ![k] = t], pending' = pending
    PROVE  TableExact'
BY DEF TypeOK, TableExact, InSeq

\* A ticket enters the table at its end.
LEMMA TableSubmitted ==
    ASSUME TypeOK, TableExact, NEW k \in Keys, NEW t \in Ticket, CanSubmit(k), t.stage # "none",
           ticket' = [ticket EXCEPT ![k] = t], pending' = Append(pending, k)
    PROVE  TableExact' /\ pending' \in Seq(Keys) /\ \A x \in Keys : InSeq(x, pending)' <=> InSeq(x, pending) \/ x = k
<1>1. pending \in Seq(Keys) /\ Injective(pending) /\ ~InSeq(k, pending)
  BY DEF TypeOK, TableExact, CanSubmit, Injective
<1>2. /\ pending' \in Seq(Keys) /\ Injective(pending') /\ Len(pending') = Len(pending) + 1
      /\ \A x : InSeq(x, pending') <=> InSeq(x, pending) \/ x = k
  BY <1>1, AppendElements
<1>3. Len(pending') <= Slots
  BY <1>1, <1>2, LenProperties, SlotsAssumption DEF CanSubmit
<1>4. \A x \in Keys : InSeq(x, pending') <=> ticket'[x].stage # "none"
  BY <1>2 DEF TypeOK, TableExact
<1>5. QED
  BY <1>2, <1>3, <1>4 DEF TableExact, Injective, InSeq

\* A ticket leaves the table.
LEMMA TablePopped ==
    ASSUME TypeOK, TableExact, NEW k \in Keys, Pop(k)
    PROVE  TableExact' /\ pending' \in Seq(Keys) /\ \A x \in Keys : InSeq(x, pending)' <=> InSeq(x, pending) /\ x # k
<1>1. pending \in Seq(Keys) /\ Injective(pending)
  BY DEF TypeOK, TableExact, Injective
<1>2. /\ pending' \in Seq(Keys) /\ Injective(pending') /\ Len(pending') <= Len(pending)
      /\ \A x : InSeq(x, pending') <=> InSeq(x, pending) /\ x # k
  BY <1>1, WithoutElements DEF Pop
<1>3. Len(pending') <= Slots
  BY <1>1, <1>2, LenProperties, SlotsAssumption DEF TableExact
<1>4. \A x \in Keys : InSeq(x, pending') <=> ticket'[x].stage # "none"
  BY <1>2 DEF TypeOK, TableExact, Pop, NoTicket
<1>5. QED
  BY <1>2, <1>3, <1>4 DEF TableExact, Injective, InSeq

-----------------------------------------------------------------------------
(* The counters.                                                           *)

LEMMA SetsFinite == IsFiniteSet(Mapped) /\ IsFiniteSet(Busy)
<1>1. Mapped \in SUBSET Keys /\ Busy \in SUBSET Keys
  BY DEF Mapped, Busy
<1>2. QED
  BY <1>1, FS_Subset, KeysAssumption

One(b) == IF b THEN 1 ELSE 0

\* A finite set that gains k, or loses it.
LEMMA Joined ==
    ASSUME NEW S, IsFiniteSet(S), NEW k
    PROVE  Cardinality(S \cup {k}) = Cardinality(S) + 1 - One(k \in S) /\ Cardinality(S) \in Nat
<1>1. Cardinality(S \cup {k}) = IF k \in S THEN Cardinality(S) ELSE Cardinality(S) + 1
  BY FS_AddElement
<1>2. Cardinality(S) \in Nat
  BY FS_CardinalityType
<1>3. QED
  BY <1>1, <1>2 DEF One

LEMMA Parted ==
    ASSUME NEW S, IsFiniteSet(S), NEW k
    PROVE  Cardinality(S \ {k}) = Cardinality(S) - One(k \in S) /\ Cardinality(S) \in Nat
<1>1. Cardinality(S \ {k}) = IF k \in S THEN Cardinality(S) - 1 ELSE Cardinality(S)
  BY FS_RemoveElement
<1>2. Cardinality(S) \in Nat
  BY FS_CardinalityType
<1>3. QED
  BY <1>1, <1>2 DEF One

\* The counters follow the change of one ticket.
LEMMA Counted ==
    ASSUME TypeOK, CountersExact, NEW k \in Keys, NEW t \in Ticket,
           ticket' = [ticket EXCEPT ![k] = t],
           staging' = staging + One(t.stage \in Holding) - One(ticket[k].stage \in Holding),
           active' = active + One(t.stage \in Reading) - One(ticket[k].stage \in Reading)
    PROVE  CountersExact'
<1>1. \A x \in Keys : ticket'[x] = (IF x = k THEN t ELSE ticket[x])
  BY DEF TypeOK
<1>2. Mapped' = (IF t.stage \in Holding THEN Mapped \cup {k} ELSE Mapped \ {k})
  BY <1>1 DEF Mapped
<1>3. Busy' = (IF t.stage \in Reading THEN Busy \cup {k} ELSE Busy \ {k})
  BY <1>1 DEF Busy
<1>4. (k \in Mapped) = (ticket[k].stage \in Holding) /\ (k \in Busy) = (ticket[k].stage \in Reading)
  BY DEF Mapped, Busy
<1>5. Cardinality(Mapped') = Cardinality(Mapped) + One(t.stage \in Holding) - One(k \in Mapped)
  BY <1>2, SetsFinite, Joined, Parted DEF One
<1>6. Cardinality(Busy') = Cardinality(Busy) + One(t.stage \in Reading) - One(k \in Busy)
  BY <1>3, SetsFinite, Joined, Parted DEF One
<1>7. QED
  BY <1>4, <1>5, <1>6 DEF CountersExact

LEMMA TableShort ==
    ASSUME TypeOK, TableExact
    PROVE  Len(pending) \in 0..2 /\ Len(pending) <= Slots /\ Slots \in 1..2
<1>1. pending \in Seq(Keys) /\ Len(pending) <= Slots
  BY DEF TypeOK, TableExact
<1>2. Len(pending) \in Nat
  BY <1>1, LenProperties
<1>3. Slots \in Nat /\ Slots \in 1..2 /\ Slots <= 2
  BY SlotsAssumption
<1> DEFINE n == Len(pending)
<1>4. n \in Nat /\ n <= Slots
  BY <1>1, <1>2
<1> HIDE DEF n
<1>5. n <= 2
  BY <1>3, <1>4
<1>6. n \in 0..2
  BY <1>4, <1>5
<1>7. QED
  BY <1>3, <1>4, <1>6 DEF n

\* The keys of the table, and how many they are.
LEMMA TableFits ==
    ASSUME TypeOK, TableExact, NEW S \in SUBSET Keys, \A k \in S : ticket[k].stage # "none"
    PROVE  /\ IsFiniteSet(S) /\ Cardinality(S) <= Slots
           /\ Cardinality(S) <= Len(pending) /\ Cardinality(S) \in Nat /\ Len(pending) \in Nat
<1>1. Len(pending) \in 0..2 /\ Len(pending) <= Slots /\ Slots \in 1..2
  BY TableShort
<1>2. \A k \in S : \E i \in 1..Len(pending) : pending[i] = k
  BY DEF TableExact, InSeq
<1>3. IsFiniteSet(S)
  BY FS_Subset, KeysAssumption
<1>4. CASE Len(pending) = 0
  <2>1. S = {}
    BY <1>2, <1>4
  <2>2. QED
    BY <2>1, <1>1, <1>3, <1>4, FS_EmptySet
<1>5. CASE Len(pending) = 1
  <2>1. S \in SUBSET {pending[1]}
    BY <1>2, <1>5
  <2>2. IsFiniteSet({pending[1]}) /\ Cardinality({pending[1]}) = 1
    BY FS_Singleton
  <2>3. Cardinality(S) <= 1 /\ Cardinality(S) \in Nat
    BY <2>1, <2>2, <1>3, FS_Subset, FS_CardinalityType
  <2>4. QED
    BY <2>3, <1>1, <1>3, <1>5
<1>6. CASE Len(pending) = 2
  <2> DEFINE one == {pending[1]}
             two == one \cup {pending[2]}
  <2>1. S \in SUBSET two
    BY <1>2, <1>6
  <2>2. IsFiniteSet(one) /\ Cardinality(one) = 1
    BY FS_Singleton
  <2>3. IsFiniteSet(two) /\ Cardinality(two) <= 2 /\ Cardinality(two) \in Nat
    <3>1. IsFiniteSet(two) /\ Cardinality(two) = IF pending[2] \in one THEN 1 ELSE 1 + 1
      BY <2>2, FS_AddElement
    <3>2. QED
      BY <3>1
  <2>4. Cardinality(S) <= 2 /\ Cardinality(S) \in Nat
    BY <2>1, <2>3, <1>3, FS_Subset, FS_CardinalityType
  <2>5. QED
    BY <2>4, <1>1, <1>3, <1>6
<1>7. QED
  BY <1>1, <1>4, <1>5, <1>6

LEMMA CountsBounded == ASSUME TypeOK, TableExact, CountersExact PROVE StagingBound
<1>1. Cardinality(Mapped) <= Slots /\ Cardinality(Busy) <= Slots
  BY TableFits DEF Mapped, Busy, Holding, Reading
<1>2. QED
  BY <1>1 DEF StagingBound, CountersExact

LEMMA CountersNat == ASSUME CountersExact' PROVE staging' \in Nat /\ active' \in Nat
<1>1. Mapped' \in SUBSET Keys /\ Busy' \in SUBSET Keys
  BY DEF Mapped, Busy
<1>2. IsFiniteSet(Mapped') /\ IsFiniteSet(Busy')
  BY <1>1, FS_Subset, KeysAssumption
<1>3. QED
  BY <1>2, FS_CardinalityType DEF CountersExact

-----------------------------------------------------------------------------
(* The steps.                                                              *)

LEMMA InitInv == Init => IInv
<1> SUFFICES ASSUME Init PROVE IInv
  OBVIOUS
<1>1. TypeOK
  <2>1. Idle \in Call /\ NoTicket \in Ticket
    BY DEF Ticket, NoTicket, Call, Idle
  <2>2. pending \in Seq(Keys) /\ queue \in Seq(Keys) /\ staging \in Nat /\ active \in Nat
    BY DEF Init
  <2>3. ticket \in [Keys -> Ticket] /\ call \in [Callers -> Call]
    BY <2>1 DEF Init
  <2>4. QED
    BY <2>2, <2>3 DEF Init, TypeOK
<1>2. TableExact
  BY SlotsAssumption DEF Init, TableExact, InSeq, NoTicket
<1>3. CountersExact
  <2>1. Mapped = {} /\ Busy = {}
    BY DEF Init, Mapped, Busy, Holding, Reading, NoTicket
  <2>2. QED
    BY <2>1, FS_EmptySet DEF Init, CountersExact
<1>4. CallsMade /\ LeaseExclusive /\ DiscardsUnleased /\ NeverUnverified /\ ExitSettled /\ ClosesAll
  BY NamesAssumption DEF Init, CallsMade, LeaseExclusive, Leases, DiscardsUnleased, NeverUnverified, ExitSettled,
     ClosesAll, Idle, NoTicket, Locked, Leasing
<1>5. QED
  BY <1>1, <1>2, <1>3, <1>4 DEF IInv

\* What every step of a reader does: the stage of a ticket that has no result yet
\* moves on, nothing else of the ticket and of the callers.
LEMMA ReaderStep ==
    ASSUME IInv, NEW k \in Keys, NEW s \in Reading \cup Settled,
           ticket[k].stage \in {"queued"} \cup Reading,
           ticket' = [ticket EXCEPT ![k].stage = s],
           staging' = staging + One(s \in Holding) - One(ticket[k].stage \in Holding),
           active' = active + One(s \in Reading) - One(ticket[k].stage \in Reading),
           UNCHANGED CallerVars
    PROVE  IInv'
<1> DEFINE t == [ticket[k] EXCEPT !.stage = s]
<1>1. /\ t \in Ticket /\ t.stage = s /\ t.stage # "none" /\ ticket[k].stage # "none"
      /\ ticket' = [ticket EXCEPT ![k] = t]
  BY DEF IInv, TypeOK, Ticket, Reading, Settled
<1>2. \A x \in Keys : /\ ticket'[x].stop = ticket[x].stop /\ ticket'[x].claimed = ticket[x].claimed
                      /\ x # k => ticket'[x] = ticket[x]
  BY DEF IInv, TypeOK, Ticket
<1>3. TableExact'
  BY <1>1, TableTouched DEF IInv, CallerVars
<1>4. CountersExact'
  BY <1>1, Counted DEF IInv
<1>5. TypeOK'
  BY <1>1, <1>4, CountersNat DEF IInv, TypeOK, CallerVars
<1>6. CallsMade'
  BY DEF IInv, CallsMade, CallerVars
<1>7. LeaseExclusive'
  BY <1>2 DEF IInv, LeaseExclusive, Leases, InSeq, CallerVars
<1>8. DiscardsUnleased'
  BY <1>2 DEF IInv, TypeOK, Call, DiscardsUnleased, InSeq, CallerVars
<1>9. NeverUnverified' /\ ExitSettled'
  BY <1>1, <1>2 DEF IInv, NeverUnverified, ExitSettled, CallsMade, Leasing, TypeOK, Reading, Settled, CallerVars
<1>10. ClosesAll'
  BY <1>1, <1>2 DEF IInv, ClosesAll, TableExact, InSeq, Reading, CallerVars
<1>11. QED
  BY <1>3, <1>4, <1>5, <1>6, <1>7, <1>8, <1>9, <1>10 DEF IInv

\* The reader threads.
LEMMA FetchInv == ASSUME IInv, NEW k \in Keys, Fetch(k) PROVE IInv'
<1> USE DEF One, Holding, Reading, Settled
<1>1. CASE FetchStart(k)
  <2>1. ticket[k].stage = "queued" /\ ticket' = [ticket EXCEPT ![k].stage = "entered"]
    BY <1>1 DEF FetchStart
  <2>2. staging' = staging + One("entered" \in Holding) - One(ticket[k].stage \in Holding)
    BY <1>1, <2>1 DEF FetchStart, IInv, TypeOK
  <2>3. active' = active + One("entered" \in Reading) - One(ticket[k].stage \in Reading)
    BY <1>1, <2>1 DEF FetchStart, IInv, TypeOK
  <2>4. QED
    BY <1>1, <2>1, <2>2, <2>3, ReaderStep DEF FetchStart
<1>2. CASE FetchMap(k)
  <2>1. ticket[k].stage = "entered" /\ ticket' = [ticket EXCEPT ![k].stage = "reading"]
    BY <1>2 DEF FetchMap
  <2>2. staging' = staging + One("reading" \in Holding) - One(ticket[k].stage \in Holding)
    BY <1>2, <2>1 DEF FetchMap, IInv, TypeOK
  <2>3. active' = active + One("reading" \in Reading) - One(ticket[k].stage \in Reading)
    BY <1>2, <2>1 DEF FetchMap, IInv, TypeOK
  <2>4. QED
    BY <1>2, <2>1, <2>2, <2>3, ReaderStep DEF FetchMap
<1>3. CASE FetchRead(k)
  <2>1. ticket[k].stage = "reading" /\ ticket' = [ticket EXCEPT ![k].stage = "read"]
    BY <1>3 DEF FetchRead
  <2>2. staging' = staging + One("read" \in Holding) - One(ticket[k].stage \in Holding)
    BY <1>3, <2>1 DEF FetchRead, IInv, TypeOK
  <2>3. active' = active + One("read" \in Reading) - One(ticket[k].stage \in Reading)
    BY <1>3, <2>1 DEF FetchRead, IInv, TypeOK
  <2>4. QED
    BY <1>3, <2>1, <2>2, <2>3, ReaderStep DEF FetchRead
<1>4. CASE FetchVerified(k)
  <2>1. ticket[k].stage = "read" /\ ticket' = [ticket EXCEPT ![k].stage = "done"]
    BY <1>4 DEF FetchVerified
  <2>2. staging' = staging + One("done" \in Holding) - One(ticket[k].stage \in Holding)
    BY <1>4, <2>1 DEF FetchVerified, IInv, TypeOK
  <2>3. active' = active + One("done" \in Reading) - One(ticket[k].stage \in Reading)
    BY <1>4, <2>1 DEF FetchVerified, IInv, TypeOK
  <2>4. QED
    BY <1>4, <2>1, <2>2, <2>3, ReaderStep DEF FetchVerified
<1>5. ASSUME NEW s \in {"interrupted", "error"}, FetchAbort(k, s), ticket[k].stage \in Reading PROVE IInv'
  <2>1. ticket' = [ticket EXCEPT ![k].stage = s]
    BY <1>5 DEF FetchAbort
  <2>2. staging' = staging + One(s \in Holding) - One(ticket[k].stage \in Holding)
    BY <1>5 DEF FetchAbort, IInv, TypeOK, Mapped
  <2>3. active' = active + One(s \in Reading) - One(ticket[k].stage \in Reading)
    BY <1>5 DEF FetchAbort, IInv, TypeOK
  <2>4. QED
    BY <1>5, <2>1, <2>2, <2>3, ReaderStep DEF FetchAbort
<1>6. QED
  BY <1>1, <1>2, <1>3, <1>4, <1>5 DEF Fetch, FetchInterrupted, FetchFailed

\* A step that leaves tickets and counters alone.
LEMMA TicketsKept ==
    ASSUME TableExact, CountersExact, UNCHANGED <<pending, ticket, staging, active>>
    PROVE  TableExact' /\ CountersExact'
BY DEF TableExact, CountersExact, Mapped, Busy, InSeq

\* A step that leaves everything alone but the views and the cancel events.
LEMMA EnvironmentInv ==
    ASSUME IInv, (\E k \in Keys : DropView(k)) \/ (\E c \in Callers : SetCancel(c))
    PROVE  IInv'
<1>1. /\ views' \subseteq views /\ cancel' \subseteq Callers
      /\ UNCHANGED <<control, closed, fdOpen, pending, ticket, queue, staging, active, call, raised>>
  BY DEF IInv, TypeOK, DropView, SetCancel
<1>2. TableExact' /\ CountersExact'
  BY <1>1, TicketsKept DEF IInv
<1>3. TypeOK' /\ CallsMade'
  BY <1>1 DEF IInv, TypeOK, CallsMade
<1>4. LeaseExclusive' /\ DiscardsUnleased'
  BY <1>1 DEF IInv, LeaseExclusive, Leases, DiscardsUnleased, InSeq
<1>5. NeverUnverified' /\ ExitSettled' /\ ClosesAll'
  BY <1>1 DEF IInv, NeverUnverified, ExitSettled, ClosesAll, InSeq
<1>6. QED
  BY <1>2, <1>3, <1>4, <1>5 DEF IInv

\* plan() begins: the unleased tickets it does not name are to be discarded.
LEMMA PlanBeginInv == ASSUME IInv, NEW c \in Callers, NEW keys \in Plans, PlanBegin(c, keys) PROVE IInv'
<1> DEFINE plan == [Idle EXCEPT !.op = "plan", !.at = "discard", !.goal = keys,
                                !.todo = {k \in Keys : /\ InSeq(k, pending) /\ ~InSeq(k, keys)
                                                       /\ ~ticket[k].claimed}]
<1>1. /\ control = Nobody /\ call[c].at = "idle" /\ ~closed /\ fdOpen /\ control' = c
      /\ call' = [call EXCEPT ![c] = plan]
      /\ UNCHANGED <<closed, fdOpen, pending, ticket, queue, staging, active, views, cancel, raised>>
  BY DEF PlanBegin, Enter, Open
<1>2. /\ plan \in Call /\ plan.op = "plan" /\ plan.at = "discard" /\ plan.victim = Nobody
      /\ \A k \in plan.todo : InSeq(k, pending) /\ ~ticket[k].claimed
  BY PlansAssumption DEF Call, Idle
<1>3. \A d \in Callers : call'[d] = IF d = c THEN plan ELSE call[d]
  BY <1>1 DEF IInv, TypeOK
<1> HIDE DEF plan
<1>4. TableExact' /\ CountersExact'
  BY <1>1, TicketsKept DEF IInv
<1>5. TypeOK'
  BY <1>1, <1>2 DEF IInv, TypeOK
<1>6. CallsMade'
  BY <1>1, <1>2, <1>3, NamesAssumption DEF IInv, CallsMade, Locked, Leasing
<1>7. LeaseExclusive' /\ DiscardsUnleased'
  BY <1>1, <1>2, <1>3, NamesAssumption DEF IInv, LeaseExclusive, Leases, DiscardsUnleased, InSeq
<1>8. NeverUnverified' /\ ExitSettled' /\ ClosesAll'
  BY <1>1, <1>2, <1>3 DEF IInv, NeverUnverified, ExitSettled, ClosesAll, InSeq
<1>9. QED
  BY <1>4, <1>5, <1>6, <1>7, <1>8 DEF IInv

\* read() begins with a displacement: the ticket to be discarded is unleased.
LEMMA ReadDisplaceInv ==
    ASSUME IInv, NEW c \in Callers, NEW k \in Keys, NEW consumer \in {c, Nobody}, ReadDisplace(c, k, consumer)
    PROVE  IInv'
<1>1. PICK i \in 1..Len(pending) :
        /\ ~ticket[pending[i]].claimed
        /\ call' = [call EXCEPT ![c] = [Idle EXCEPT !.op = "read", !.at = "discard", !.key = k,
                                                    !.consumer = consumer, !.todo = {pending[i]}]]
  BY DEF ReadDisplace
<1> DEFINE read == [Idle EXCEPT !.op = "read", !.at = "discard", !.key = k,
                                !.consumer = consumer, !.todo = {pending[i]}]
<1>2. /\ control = Nobody /\ call[c].at = "idle" /\ ~closed /\ fdOpen /\ control' = c
      /\ call' = [call EXCEPT ![c] = read]
      /\ UNCHANGED <<closed, fdOpen, pending, ticket, queue, staging, active, views, cancel, raised>>
  BY <1>1 DEF ReadDisplace, Enter, Open
<1>3. pending[i] \in Keys
  BY ElementOfSeq DEF IInv, TypeOK
<1>4. /\ read \in Call /\ read.op = "read" /\ read.at = "discard" /\ read.victim = Nobody /\ read.key = k
      /\ read.todo # {}
      /\ \A x \in read.todo : InSeq(x, pending) /\ ~ticket[x].claimed
  <2>1. <<>> \in Seq(Keys) /\ {pending[i]} \in SUBSET Keys /\ consumer \in Callers \cup {Nobody}
    BY <1>3
  <2>2. read \in Call
    BY <2>1 DEF Call, Idle
  <2>3. InSeq(pending[i], pending)
    BY DEF InSeq
  <2>4. QED
    BY <1>1, <2>2, <2>3 DEF Idle
<1>5. \A d \in Callers : call'[d] = IF d = c THEN read ELSE call[d]
  BY <1>2 DEF IInv, TypeOK
<1> HIDE DEF read
<1>6. TableExact' /\ CountersExact'
  BY <1>2, TicketsKept DEF IInv
<1>7. TypeOK'
  BY <1>2, <1>4 DEF IInv, TypeOK
<1>8. CallsMade'
  BY <1>2, <1>4, <1>5, NamesAssumption DEF IInv, CallsMade, Locked, Leasing
<1>9. LeaseExclusive' /\ DiscardsUnleased'
  BY <1>2, <1>4, <1>5, NamesAssumption DEF IInv, LeaseExclusive, Leases, DiscardsUnleased, InSeq
<1>10. NeverUnverified' /\ ExitSettled' /\ ClosesAll'
  BY <1>2, <1>4, <1>5 DEF IInv, NeverUnverified, ExitSettled, ClosesAll, InSeq
<1>11. QED
  BY <1>6, <1>7, <1>8, <1>9, <1>10 DEF IInv

\* close() begins: nobody leases, everything in the table is to be discarded.
LEMMA CloseBeginInv == ASSUME IInv, NEW c \in Callers, CloseBegin(c) PROVE IInv'
<1> DEFINE close == [Idle EXCEPT !.op = "close", !.at = "discard",
                                 !.todo = {k \in Keys : InSeq(k, pending)}]
<1>1. /\ control = Nobody /\ call[c].at = "idle" /\ ~closed /\ closed' = TRUE /\ control' = c
      /\ \A i \in 1..Len(pending) : ~ticket[pending[i]].claimed
      /\ call' = [call EXCEPT ![c] = close] /\ queue' = <<>>
      /\ UNCHANGED <<fdOpen, pending, ticket, staging, active, views, cancel, raised>>
  BY DEF CloseBegin, Enter
<1>2. /\ close \in Call /\ close.op = "close" /\ close.at = "discard" /\ close.victim = Nobody
      /\ close.todo = {k \in Keys : InSeq(k, pending)}
  <2>1. <<>> \in Seq(Keys) /\ {k \in Keys : InSeq(k, pending)} \in SUBSET Keys
    OBVIOUS
  <2>2. QED
    BY <2>1 DEF Call, Idle
<1>3. \A d \in Callers : call'[d] = IF d = c THEN close ELSE call[d]
  BY <1>1 DEF IInv, TypeOK
<1>4. \A k \in Keys : InSeq(k, pending) => ~ticket[k].claimed
  BY <1>1 DEF InSeq
<1>5. \A d \in Callers : call[d].at = "idle"
  <2>1. \A d \in Callers : call[d].at \notin Leasing
    BY <1>4 DEF IInv, LeaseExclusive, Leases, CallsMade, Leasing
  <2>2. \A d \in Callers : call[d].at \notin Locked
    BY <1>1, NamesAssumption DEF IInv, CallsMade
  <2>3. QED
    BY <2>1, <2>2 DEF IInv, TypeOK, Call, Leasing, Locked
<1>6. fdOpen
  BY <1>1 DEF IInv, ClosesAll
<1> HIDE DEF close
<1>7. TableExact' /\ CountersExact'
  BY <1>1, TicketsKept DEF IInv
<1>8. TypeOK'
  <2>1. <<>> \in Seq(Keys)
    OBVIOUS
  <2>2. QED
    BY <1>1, <1>2, <2>1 DEF IInv, TypeOK
<1>9. CallsMade'
  BY <1>1, <1>2, <1>3, NamesAssumption DEF IInv, CallsMade, Locked, Leasing
<1>10. LeaseExclusive' /\ DiscardsUnleased'
  BY <1>1, <1>2, <1>3, <1>4, NamesAssumption DEF IInv, LeaseExclusive, Leases, DiscardsUnleased, InSeq
<1>11. NeverUnverified' /\ ExitSettled'
  BY <1>1, <1>2, <1>3 DEF IInv, NeverUnverified, ExitSettled
<1>12. ClosesAll'
  <2>1. \A d \in Callers : d # c => call[d].op = "none"
    BY <1>5 DEF IInv, CallsMade, Idle
  <2>2. QED
    BY <1>1, <1>2, <1>3, <1>5, <1>6, <2>1 DEF ClosesAll, InSeq
<1>13. QED
  BY <1>7, <1>8, <1>9, <1>10, <1>11, <1>12 DEF IInv

\* plan() empties the queue and fills it with the planned keys that have no ticket.
LEMMA PlanQueueInv == ASSUME IInv, NEW c \in Callers, PlanReset(c) \/ PlanQueue(c) PROVE IInv'
<1>1. /\ call \in [Callers -> Call] /\ call[c] \in Call /\ call[c].goal \in Seq(Keys) /\ queue \in Seq(Keys)
      /\ control = c /\ call[c].at \in {"discard", "queue"} /\ call[c].op \notin {"close", "none"}
      /\ call[c].at = "discard" => call[c].op = "plan" /\ call[c].todo = {}
  BY DEF IInv, TypeOK, Call, CallsMade, Locked, PlanReset, PlanQueue, At
<1>2. PICK new \in Call :
        /\ new.op = call[c].op /\ new.key = call[c].key /\ new.victim = call[c].victim
        /\ new.todo = call[c].todo /\ new.at \in {"queue", "fill"}
        /\ call' = [call EXCEPT ![c] = new]
        /\ queue' \in Seq(Keys)
        /\ UNCHANGED <<control, closed, fdOpen, pending, ticket, staging, active, views, cancel, raised>>
  <2>1. CASE PlanReset(c)
    <3> DEFINE new == [call[c] EXCEPT !.at = "queue"]
    <3>1. new \in Call /\ new.op = call[c].op /\ new.key = call[c].key /\ new.victim = call[c].victim
          /\ new.todo = call[c].todo /\ new.at = "queue"
      BY <1>1 DEF Call
    <3>2. call' = [call EXCEPT ![c] = new] /\ queue' \in Seq(Keys)
      BY <1>1, <2>1 DEF PlanReset
    <3>3. QED
      BY <2>1, <3>1, <3>2 DEF PlanReset
  <2>2. CASE PlanQueue(c) /\ call[c].goal = <<>>
    <3> DEFINE new == [call[c] EXCEPT !.at = "fill"]
    <3>1. new \in Call /\ new.op = call[c].op /\ new.key = call[c].key /\ new.victim = call[c].victim
          /\ new.todo = call[c].todo /\ new.at = "fill"
      BY <1>1 DEF Call
    <3>2. call' = [call EXCEPT ![c] = new] /\ queue' \in Seq(Keys)
      BY <1>1, <2>2 DEF PlanQueue
    <3>3. QED
      BY <2>2, <3>1, <3>2 DEF PlanQueue
  <2>3. CASE PlanQueue(c) /\ call[c].goal # <<>>
    <3> DEFINE new == [call[c] EXCEPT !.goal = Tail(@)]
    <3>1. Head(call[c].goal) \in Keys /\ Tail(call[c].goal) \in Seq(Keys)
      BY <1>1, <2>3, HeadTailProperties
    <3>2. queue' \in Seq(Keys)
      BY <1>1, <2>3, <3>1, AppendProperties DEF PlanQueue
    <3>3. call[c].at = "queue"
      BY <2>3 DEF PlanQueue, At
    <3>4. new \in Call /\ new.op = call[c].op /\ new.key = call[c].key /\ new.victim = call[c].victim
          /\ new.todo = call[c].todo /\ new.at = "queue"
      BY <1>1, <3>1, <3>3 DEF Call
    <3>5. call' = [call EXCEPT ![c] = new]
      BY <1>1, <2>3 DEF PlanQueue
    <3>6. QED
      BY <2>3, <3>2, <3>4, <3>5 DEF PlanQueue
  <2>4. QED
    BY <2>1, <2>2, <2>3
<1>3. \A d \in Callers : call'[d] = IF d = c THEN new ELSE call[d]
  BY <1>1, <1>2
<1>4. TableExact' /\ CountersExact'
  BY <1>2, TicketsKept DEF IInv
<1>5. TypeOK'
  BY <1>2 DEF IInv, TypeOK
<1>6. CallsMade'
  BY <1>1, <1>2, <1>3 DEF IInv, CallsMade, Locked, Leasing
<1>7. LeaseExclusive' /\ DiscardsUnleased'
  BY <1>1, <1>2, <1>3 DEF IInv, LeaseExclusive, Leases, DiscardsUnleased, InSeq
<1>8. NeverUnverified' /\ ExitSettled' /\ ClosesAll'
  BY <1>1, <1>2, <1>3 DEF IInv, NeverUnverified, ExitSettled, ClosesAll, InSeq
<1>9. QED
  BY <1>4, <1>5, <1>6, <1>7, <1>8 DEF IInv

\* plan() or read() has filled the slots, or close() its duty: the caller leaves.
LEMMA LeavesInv == ASSUME IInv, NEW c \in Callers, FillEnd(c) \/ CloseEnd(c) PROVE IInv'
<1>1. /\ control = c /\ control' = Nobody /\ call' = [call EXCEPT ![c] = Idle]
      /\ fdOpen' = fdOpen \/ (fdOpen' = FALSE /\ call[c].op = "close" /\ call[c].at = "discard" /\ call[c].todo = {})
      /\ raised' \in BOOLEAN
      /\ UNCHANGED <<closed, pending, ticket, queue, staging, active, views, cancel>>
  <2>1. raised \in BOOLEAN
    BY DEF IInv, TypeOK
  <2>2. CASE FillEnd(c)
    BY <2>2 DEF FillEnd, At, Leave
  <2>3. CASE CloseEnd(c)
    BY <2>1, <2>3 DEF CloseEnd, At, Leave
  <2>4. QED
    BY <2>2, <2>3
<1>2. \A d \in Callers : call'[d] = IF d = c THEN Idle ELSE call[d]
  BY <1>1 DEF IInv, TypeOK
<1>3. /\ Idle \in Call /\ Idle.op = "none" /\ Idle.at = "idle" /\ Idle.victim = Nobody /\ Idle.todo = {}
      /\ Idle.key = Nobody
  <2>1. <<>> \in Seq(Keys)
    OBVIOUS
  <2>2. QED
    BY <2>1 DEF Idle, Call
<1>4. call[c].at \in Locked
  BY <1>1 DEF IInv, CallsMade
<1>5. TableExact' /\ CountersExact'
  BY <1>1, TicketsKept DEF IInv
<1>6. TypeOK'
  BY <1>1, <1>3 DEF IInv, TypeOK
<1>7. CallsMade'
  BY <1>1, <1>2, <1>3, NamesAssumption DEF IInv, CallsMade, Locked, Leasing
<1>8. LeaseExclusive' /\ DiscardsUnleased'
  BY <1>1, <1>2, <1>3, <1>4, NamesAssumption DEF IInv, LeaseExclusive, Leases, DiscardsUnleased, InSeq, Locked
<1>9. NeverUnverified' /\ ExitSettled'
  BY <1>1, <1>2, <1>3 DEF IInv, NeverUnverified, ExitSettled
<1>10. ClosesAll'
  <2>1. CASE fdOpen' = fdOpen
    BY <1>1, <1>2, <1>3, <2>1 DEF IInv, ClosesAll, InSeq
  <2>2. CASE fdOpen' = FALSE /\ call[c].op = "close" /\ call[c].at = "discard" /\ call[c].todo = {}
    <3>1. \A d \in Callers : call'[d].at = "idle" /\ call'[d].op = "none"
      <4>1. \A d \in Callers : d # c => call[d].at \notin Locked
        BY <1>1 DEF IInv, CallsMade
      <4>2. \A d \in Callers : d # c => call[d].at \notin Leasing
        BY <2>2 DEF IInv, CallsMade, ClosesAll, Leasing
      <4>3. \A d \in Callers : d # c => call[d] = Idle
        BY <4>1, <4>2 DEF IInv, TypeOK, Call, Locked, Leasing, CallsMade
      <4>4. QED
        BY <1>2, <1>3, <4>3
    <3>2. \A k \in Keys : InSeq(k, pending) => ticket[k].stage = "done" /\ ticket[k].stop
      BY <2>2 DEF IInv, ClosesAll
    <3>3. QED
      BY <1>1, <2>2, <3>1, <3>2 DEF IInv, ClosesAll, InSeq
  <2>3. QED
    BY <1>1, <2>1, <2>2
<1>11. QED
  BY <1>5, <1>6, <1>7, <1>8, <1>9, <1>10 DEF IInv

\* The reader gets its result, or gives up, or leaves its block.
LEMMA ReaderGoesOnInv == ASSUME IInv, NEW c \in Callers, ReadYield(c) \/ ReadAbort(c) \/ BodyEnd(c) PROVE IInv'
<1>1. PICK at \in {"body", "exit"} :
        /\ call[c].at \in {"wait", "body"} /\ ticket[call[c].key].stage \in Settled
        /\ at = "body" => ticket[call[c].key].stage = "done"
        /\ call' = [call EXCEPT ![c].at = at]
        /\ views' \subseteq Keys /\ \A k \in views' : ticket[k].stage = "done"
        /\ UNCHANGED <<control, closed, fdOpen, pending, ticket, queue, staging, active, cancel, raised>>
  <2>1. CASE ReadYield(c)
    BY <2>1 DEF ReadYield, Settled, IInv, NeverUnverified, TypeOK
  <2>2. CASE ReadAbort(c)
    BY <2>2 DEF ReadAbort, Settled, IInv, NeverUnverified, TypeOK
  <2>3. CASE BodyEnd(c)
    <3>1. call[c].at = "body" /\ call[c].key \in Keys /\ ticket[call[c].key].stage = "done"
      BY <2>3 DEF BodyEnd, IInv, CallsMade, Leasing, NeverUnverified
    <3>2. views' \subseteq views \cup {call[c].key}
      BY <2>3 DEF BodyEnd
    <3>3. QED
      BY <2>3, <3>1, <3>2 DEF BodyEnd, Settled, IInv, TypeOK, NeverUnverified
  <2>4. QED
    BY <2>1, <2>2, <2>3
<1>2. call[c] \in Call
  BY DEF IInv, TypeOK
<1>3. \A d \in Callers : call'[d] = IF d = c THEN [call[c] EXCEPT !.at = at] ELSE call[d]
  BY <1>1 DEF IInv, TypeOK
<1>4. \A d \in Callers : /\ call'[d].op = call[d].op /\ call'[d].key = call[d].key /\ call'[d].todo = call[d].todo
                         /\ call'[d].victim = call[d].victim
                         /\ call'[d].at = IF d = c THEN at ELSE call[d].at
  BY <1>2, <1>3 DEF Call
<1>5. TableExact' /\ CountersExact'
  BY <1>1, TicketsKept DEF IInv
<1>6. TypeOK'
  BY <1>1, <1>2 DEF IInv, TypeOK, Call
<1>7. CallsMade'
  BY <1>1, <1>3, <1>4 DEF IInv, CallsMade, Locked, Leasing
<1>8. LeaseExclusive' /\ DiscardsUnleased'
  BY <1>1, <1>4 DEF IInv, LeaseExclusive, Leases, DiscardsUnleased, InSeq
<1>9. NeverUnverified' /\ ExitSettled'
  BY <1>1, <1>4 DEF IInv, NeverUnverified, ExitSettled
<1>10. ClosesAll'
  BY <1>1, <1>4 DEF IInv, ClosesAll, InSeq
<1>11. QED
  BY <1>5, <1>6, <1>7, <1>8, <1>9, <1>10 DEF IInv

\* A discard begins: the victim's ticket is stopped, and cancelled if no reader has it.
LEMMA DiscardBeginInv == ASSUME IInv, NEW c \in Callers, DiscardBegin(c) PROVE IInv'
<1> DEFINE k == Oldest(call[c].todo)
           t == [ticket[k] EXCEPT !.stop = TRUE, !.stage = IF @ = "queued" THEN "cancelled" ELSE @]
           new == [call[c] EXCEPT !.at = "await", !.victim = k, !.todo = @ \ {k}]
<1>1. /\ call \in [Callers -> Call] /\ call[c] \in Call /\ ticket \in [Keys -> Ticket]
      /\ control = c /\ call[c].at = "discard" /\ call[c].todo # {}
      /\ UNCHANGED <<control, closed, fdOpen, pending, queue, staging, active, views, cancel, raised>>
  BY DEF IInv, TypeOK, DiscardBegin, At
<1>2. k \in call[c].todo
  <2>1. PICK x \in call[c].todo : InSeq(x, pending)
    BY <1>1 DEF IInv, DiscardsUnleased
  <2> DEFINE here(i) == pending[i] \in call[c].todo
  <2>2. PICK i \in 1..Len(pending) : here(i) /\ \A j \in 1..(i - 1) : ~here(j)
    <3> DEFINE n == Len(pending)
    <3>1. n \in 0..2
      BY TableShort DEF IInv
    <3>2. \E i \in 1..n : here(i)
      BY <2>1 DEF InSeq
    <3> HIDE DEF here, n
    <3>3. \E i \in 1..n : here(i) /\ \A j \in 1..(i - 1) : ~here(j)
      <4>1. CASE here(1)
        BY <3>1, <3>2, <4>1
      <4>2. CASE ~here(1)
        <5>1. n = 2 /\ here(2)
          BY <3>1, <3>2, <4>2
        <5>2. QED
          BY <4>2, <5>1
      <4>3. QED
        BY <4>1, <4>2
    <3>4. QED
      BY <3>3 DEF n
  <2>3. QED
    BY <2>2 DEF Oldest
<1>3. k \in Keys /\ InSeq(k, pending) /\ ~ticket[k].claimed /\ ticket[k].stage # "none" /\ ticket[k] \in Ticket
  BY <1>1, <1>2 DEF IInv, TableExact, DiscardsUnleased, Call
<1>4. ticket' = [ticket EXCEPT ![k] = t]
  BY <1>1, <1>3 DEF DiscardBegin
<1>5. call' = [call EXCEPT ![c] = new]
  BY <1>1 DEF DiscardBegin
<1> HIDE DEF k
<1>6. /\ t \in Ticket /\ t.stop /\ t.claimed = ticket[k].claimed
      /\ t.stage = (IF ticket[k].stage = "queued" THEN "cancelled" ELSE ticket[k].stage)
  BY <1>3 DEF Ticket, Settled
<1>7. /\ new \in Call /\ new.op = call[c].op /\ new.key = call[c].key /\ new.victim = k
      /\ new.todo = call[c].todo \ {k} /\ new.at = "await"
  BY <1>1, <1>3 DEF Call
<1> HIDE DEF t, new
<1>8. \A d \in Callers : call'[d] = IF d = c THEN new ELSE call[d]
  BY <1>1, <1>5
<1>9. \A x \in Keys : /\ ticket'[x].claimed = ticket[x].claimed
                      /\ ticket'[x] = IF x = k THEN t ELSE ticket[x]
  BY <1>1, <1>4, <1>6
<1>10. TableExact'
  BY <1>1, <1>3, <1>4, <1>6, TableTouched DEF IInv
<1>11. CountersExact'
  <2>1. /\ staging' = staging + One(t.stage \in Holding) - One(ticket[k].stage \in Holding)
        /\ active' = active + One(t.stage \in Reading) - One(ticket[k].stage \in Reading)
    BY <1>1, <1>6 DEF One, Holding, Reading, IInv, TypeOK
  <2>2. QED
    BY <1>3, <1>4, <1>6, <2>1, Counted DEF IInv
<1>12. TypeOK'
  BY <1>1, <1>4, <1>5, <1>6, <1>7 DEF IInv, TypeOK
<1>13. CallsMade'
  BY <1>1, <1>7, <1>8, NamesAssumption DEF IInv, CallsMade, Locked, Leasing
<1>14. LeaseExclusive'
  <2>1. \A d \in Callers, x \in Keys : Leases(d, x)' <=> Leases(d, x)
    BY <1>1, <1>7, <1>8 DEF Leases
  <2>2. \A d \in Callers : call'[d].victim = call[d].victim \/ (d = c /\ call'[d].victim = k)
    BY <1>7, <1>8
  <2>3. \A d \in Callers, x \in Keys : Leases(d, x) => x # k
    BY <1>3 DEF IInv, LeaseExclusive
  <2>4. \A d, e \in Callers, x \in Keys : Leases(d, x) => call'[e].victim # x
    BY <2>2, <2>3 DEF IInv, LeaseExclusive
  <2>5. QED
    BY <1>1, <1>9, <2>1, <2>4 DEF IInv, LeaseExclusive, InSeq
<1>15. DiscardsUnleased'
  <2>1. \A d \in Callers : d # c => call[d].victim = Nobody /\ call[d].todo = {} /\ call[d].at # "await"
    BY <1>1 DEF IInv, CallsMade, Locked
  <2>2. QED
    BY <1>1, <1>3, <1>6, <1>7, <1>8, <1>9, <2>1 DEF IInv, DiscardsUnleased, InSeq, Call
<1>16. NeverUnverified' /\ ExitSettled'
  BY <1>1, <1>6, <1>7, <1>8, <1>9 DEF IInv, NeverUnverified, ExitSettled, CallsMade, Leasing, TypeOK, Settled
<1>17. ClosesAll'
  BY <1>1, <1>6, <1>7, <1>8, <1>9 DEF IInv, ClosesAll, InSeq
<1>18. QED
  BY <1>10, <1>11, <1>12, <1>13, <1>14, <1>15, <1>16, <1>17 DEF IInv

\* What popping k's ticket does, when staging gives back the buffer it has.
LEMMA Popped ==
    ASSUME IInv, NEW k \in Keys, Pop(k), UNCHANGED active, ticket[k].stage \in Settled,
           staging' = IF ticket[k].stage = "done" THEN staging - 1 ELSE staging
    PROVE  /\ TableExact' /\ CountersExact' /\ pending' \in Seq(Keys)
           /\ ticket' \in [Keys -> Ticket] /\ staging' \in Nat /\ active' \in Nat
           /\ \A x \in Keys : /\ InSeq(x, pending') <=> InSeq(x, pending) /\ x # k
                              /\ ticket'[x] = IF x = k THEN NoTicket ELSE ticket[x]
<1>1. NoTicket \in Ticket
  BY DEF NoTicket, Ticket
<1>2. ticket \in [Keys -> Ticket] /\ ticket' = [ticket EXCEPT ![k] = NoTicket]
  BY DEF IInv, TypeOK, Pop
<1>3. TableExact' /\ pending' \in Seq(Keys) /\ \A x \in Keys : InSeq(x, pending') <=> InSeq(x, pending) /\ x # k
  BY TablePopped DEF IInv, InSeq
<1>4. CountersExact'
  <2>1. staging' = staging + One(NoTicket.stage \in Holding) - One(ticket[k].stage \in Holding)
    BY DEF NoTicket, One, Holding, Settled, IInv, TypeOK
  <2>2. active' = active + One(NoTicket.stage \in Reading) - One(ticket[k].stage \in Reading)
    BY DEF NoTicket, One, Reading, Settled, IInv, TypeOK
  <2>3. QED
    BY <1>1, <1>2, <2>1, <2>2, Counted DEF IInv
<1>5. QED
  BY <1>1, <1>2, <1>3, <1>4, CountersNat

\* A discard ends: the ticket is popped, or stays with its exported buffer.
LEMMA DiscardEndsInv == ASSUME IInv, NEW c \in Callers, DiscardEnd(c) \/ DiscardRaise(c) PROVE IInv'
<1> DEFINE k == call[c].victim
<1>1. /\ call \in [Callers -> Call] /\ call[c] \in Call /\ ticket \in [Keys -> Ticket] /\ cancel \subseteq Callers
      /\ control = c /\ call[c].at = "await"
      /\ UNCHANGED <<closed, fdOpen, queue, active, views>>
      /\ cancel' \subseteq cancel
  BY DEF IInv, TypeOK, DiscardEnd, DiscardRaise, At
<1>2. k \in Keys /\ InSeq(k, pending) /\ k \notin call[c].todo /\ ticket[k].stop /\ ~ticket[k].claimed /\ k # Nobody
  BY <1>1, NamesAssumption DEF IInv, DiscardsUnleased
<1>3. raised' \in BOOLEAN
  BY DEF DiscardEnd, DiscardRaise, IInv, TypeOK
<1>4. /\ TableExact' /\ CountersExact' /\ pending' \in Seq(Keys)
      /\ ticket' \in [Keys -> Ticket] /\ staging' \in Nat /\ active' \in Nat
      /\ \A x \in Keys : x # k => (InSeq(x, pending') <=> InSeq(x, pending)) /\ ticket'[x] = ticket[x]
      /\ ~ticket'[k].claimed
      /\ \/ ~InSeq(k, pending') /\ k \notin views
         \/ ticket[k].stage = "done" /\ ticket' = ticket /\ pending' = pending
  <2>1. CASE Pop(k) /\ ticket[k].stage \in Settled /\ k \notin views
               /\ staging' = IF ticket[k].stage = "done" THEN staging - 1 ELSE staging
    <3>1. /\ TableExact' /\ CountersExact' /\ pending' \in Seq(Keys)
          /\ ticket' \in [Keys -> Ticket] /\ staging' \in Nat /\ active' \in Nat
          /\ \A x \in Keys : /\ InSeq(x, pending') <=> InSeq(x, pending) /\ x # k
                             /\ ticket'[x] = IF x = k THEN NoTicket ELSE ticket[x]
      BY <1>1, <1>2, <2>1, Popped
    <3>2. QED
      BY <1>2, <2>1, <3>1 DEF NoTicket
  <2>2. CASE ticket[k].stage = "done" /\ UNCHANGED <<pending, ticket, staging>>
    <3>1. TableExact' /\ CountersExact'
      BY <1>1, <2>2, TicketsKept DEF IInv
    <3>2. QED
      BY <1>1, <1>2, <2>2, <3>1 DEF IInv, TypeOK
  <2>3. \A x \in views : ticket[x].stage = "done"
    BY DEF IInv, NeverUnverified
  <2>4. CASE DiscardEnd(c)
    BY <2>1, <2>3, <2>4 DEF DiscardEnd, Settled
  <2>5. CASE DiscardRaise(c)
    BY <2>1, <2>2, <2>3, <2>5 DEF DiscardRaise, Settled
  <2>6. QED
    BY <2>4, <2>5
<1>5. PICK new \in Call :
        /\ call' = [call EXCEPT ![c] = new]
        /\ \/ /\ new.op = call[c].op /\ new.key = call[c].key /\ new.victim = k
              /\ new.todo = call[c].todo /\ new.at = "discard" /\ control' = c
           \/ new = Idle /\ control' = Nobody /\ call[c].op # "close"
  <2> DEFINE new == [call[c] EXCEPT !.at = "discard"]
  <2>1. new \in Call /\ new.op = call[c].op /\ new.key = call[c].key /\ new.victim = k
          /\ new.todo = call[c].todo /\ new.at = "discard"
    BY <1>1 DEF Call
  <2>2. CASE call' = [call EXCEPT ![c].at = "discard"] /\ control' = control
    <3>1. call' = [call EXCEPT ![c] = new]
      BY <1>1, <2>2
    <3>2. QED
      BY <1>1, <2>1, <2>2, <3>1
  <2>3. CASE Leave(c) /\ call[c].op # "close"
    <3>1. <<>> \in Seq(Keys)
      OBVIOUS
    <3>2. Idle \in Call
      BY <3>1 DEF Call, Idle
    <3>3. QED
      BY <2>3, <3>2 DEF Leave
  <2>4. QED
    BY <2>2, <2>3 DEF DiscardEnd, DiscardRaise
<1> HIDE DEF k
<1>6. \A d \in Callers : call'[d] = IF d = c THEN new ELSE call[d]
  BY <1>1, <1>5
<1>7. /\ Idle.op = "none" /\ Idle.at = "idle" /\ Idle.victim = Nobody /\ Idle.todo = {} /\ Idle.key = Nobody
      /\ \A d \in Callers : d # c => call[d].at \notin Locked /\ call[d].victim = Nobody /\ call[d].todo = {}
  BY <1>1 DEF Idle, IInv, CallsMade
<1>8. TypeOK'
  <2>1. control' \in Callers \cup {Nobody} /\ cancel' \subseteq Callers /\ call' \in [Callers -> Call]
    BY <1>1, <1>5
  <2>2. QED
    BY <1>1, <1>3, <1>4, <2>1 DEF IInv, TypeOK
<1>9. CallsMade'
  <2>1. CASE new = Idle /\ control' = Nobody
    BY <1>1, <1>6, <1>7, <2>1, NamesAssumption DEF IInv, CallsMade, Locked, Leasing
  <2>2. CASE /\ new.op = call[c].op /\ new.key = call[c].key /\ new.victim = k
             /\ new.todo = call[c].todo /\ new.at = "discard" /\ control' = c
    BY <1>1, <1>2, <1>6, <1>7, <2>2, NamesAssumption DEF IInv, CallsMade, Locked, Leasing
  <2>3. QED
    BY <1>5, <2>1, <2>2
<1>10. \A d \in Callers, x \in Keys : Leases(d, x)' <=> Leases(d, x) /\ d # c
  BY <1>1, <1>5, <1>6, <1>7 DEF Leases
<1>11. \A d \in Callers, x \in Keys : Leases(d, x) => x # k /\ d # c
  BY <1>1, <1>2 DEF IInv, LeaseExclusive, Leases
<1>12. LeaseExclusive'
  BY <1>1, <1>2, <1>4, <1>5, <1>6, <1>7, <1>10, <1>11, NamesAssumption DEF IInv, LeaseExclusive, InSeq
<1>13. DiscardsUnleased'
  <2>1. /\ new.victim \in {Nobody, k} /\ new.at # "await" /\ new.todo \subseteq call[c].todo
        /\ k \notin call[c].todo /\ call[c].todo \subseteq Keys
    BY <1>1, <1>2, <1>5, <1>7 DEF Call
  <2>2. \A d \in Callers : d # c => call'[d].victim = Nobody /\ call'[d].todo = {} /\ call'[d].at # "await"
    BY <1>6, <1>7 DEF Locked
  <2>3. \A x \in call[c].todo : InSeq(x, pending') /\ ~ticket'[x].claimed
    BY <1>4, <2>1 DEF IInv, DiscardsUnleased
  <2>4. call'[c] = new
    BY <1>6
  <2>5. QED
    BY <1>4, <2>1, <2>2, <2>3, <2>4 DEF DiscardsUnleased, InSeq
<1>14. NeverUnverified' /\ ExitSettled'
  <2>1. \A x \in views : ticket[x].stage = "done"
    BY DEF IInv, NeverUnverified
  <2>2. \A d \in Callers : call'[d].at \in Leasing => Leases(d, call[d].key) /\ d # c /\ call'[d] = call[d]
                                                       /\ call[d].key \in Keys /\ call[d].key # k
    BY <1>1, <1>5, <1>6, <1>7, <1>11 DEF IInv, CallsMade, Leases, Leasing
  <2>3. QED
    BY <1>1, <1>4, <2>1, <2>2 DEF IInv, NeverUnverified, ExitSettled, Leasing, TypeOK
<1>15. ClosesAll'
  <2>1. call[c].op = "close" => /\ closed /\ fdOpen
                                /\ new.op = "close" /\ new.at = "discard" /\ new.todo = call[c].todo
    BY <1>5 DEF IInv, ClosesAll
  <2>2. call[c].op # "close" => new.op # "close" /\ ~closed
    BY <1>1, <1>5, <1>7 DEF IInv, ClosesAll
  <2>3. fdOpen
    BY <1>1 DEF IInv, ClosesAll
  <2>4. \A x \in Keys : InSeq(x, pending') /\ call[c].op = "close" =>
           x \in call[c].todo \/ (ticket'[x].stage = "done" /\ ticket'[x].stop)
    BY <1>1, <1>2, <1>4 DEF IInv, ClosesAll, k
  <2>5. CASE call[c].op = "close"
    <3>1. \A d \in Callers : d # c => call[d].at = "idle" \/ call[d].op = "close"
      BY <2>1, <2>5 DEF IInv, ClosesAll
    <3>2. \A d \in Callers : d # c => call[d].at = "idle" /\ call[d].op = "none"
      <4>1. \A d \in Callers : d # c /\ call[d].op = "close" => call[d].at \notin Leasing
        BY DEF IInv, CallsMade
      <4>2. QED
        BY <1>7, <3>1, <4>1 DEF IInv, CallsMade, Idle, TypeOK, Call, Locked, Leasing
    <3>3. QED
      BY <1>1, <1>6, <2>1, <2>3, <2>4, <2>5, <3>2 DEF ClosesAll, InSeq
  <2>6. CASE call[c].op # "close"
    <3>1. \A d \in Callers : call[d].op # "close"
      BY <2>2, <2>6 DEF IInv, ClosesAll
    <3>2. QED
      BY <1>1, <1>6, <2>2, <2>3, <2>6, <3>1 DEF ClosesAll
  <2>7. QED
    BY <2>5, <2>6
<1>16. QED
  BY <1>4, <1>8, <1>9, <1>12, <1>13, <1>14, <1>15 DEF IInv

\* s without k is a sequence of the elements of s, whether k occurs once or not.
LEMMA WithoutType == ASSUME NEW S, NEW s \in Seq(S), NEW k PROVE Without(s, k) \in Seq(S)
<1>1. CASE ~InSeq(k, s)
  BY <1>1 DEF Without
<1>2. CASE InSeq(k, s)
  <2> DEFINE p == CHOOSE i \in 1..Len(s) : s[i] = k
             w == [i \in 1..(Len(s) - 1) |-> IF i < p THEN s[i] ELSE s[i + 1]]
  <2>1. p \in 1..Len(s) /\ Len(s) \in Nat
    BY <1>2, LenProperties DEF InSeq
  <2> HIDE DEF p
  <2>2. Len(s) - 1 \in Nat /\ w \in [1..(Len(s) - 1) -> S]
    BY <2>1, ElementOfSeq
  <2>3. w \in Seq(S)
    BY <2>2, SeqDef
  <2>4. Without(s, k) = w
    BY <1>2 DEF Without, p
  <2>5. QED
    BY <2>3, <2>4
<1>3. QED
  BY <1>1, <1>2

\* What submitting k does: a ticket in the queue, for nobody or for a lease.
LEMMA Submitted ==
    ASSUME IInv, NEW k \in Keys, NEW claimed \in BOOLEAN, NEW consumer \in Callers \cup {Nobody},
           Submit(k, claimed, consumer), UNCHANGED <<staging, active>>
    PROVE  /\ TableExact' /\ CountersExact' /\ pending' \in Seq(Keys)
           /\ ticket' \in [Keys -> Ticket] /\ ~InSeq(k, pending) /\ k \notin views
           /\ \A x \in Keys : InSeq(x, pending') <=> InSeq(x, pending) \/ x = k
           /\ \A x \in Keys : x # k => ticket'[x] = ticket[x]
           /\ ticket'[k].claimed = claimed /\ ticket'[k].stage = "queued"
<1> DEFINE t == [stage |-> "queued", stop |-> FALSE, claimed |-> claimed, consumer |-> consumer]
<1>1. t \in Ticket /\ t.stage = "queued" /\ t.claimed = claimed
  BY DEF Ticket
<1>2. ticket \in [Keys -> Ticket] /\ ticket' = [ticket EXCEPT ![k] = t] /\ CanSubmit(k)
      /\ pending' = Append(pending, k)
  BY DEF IInv, TypeOK, Submit
<1> HIDE DEF t
<1>3. TableExact' /\ pending' \in Seq(Keys) /\ \A x \in Keys : InSeq(x, pending') <=> InSeq(x, pending) \/ x = k
  BY <1>1, <1>2, TableSubmitted DEF IInv, InSeq
<1>4. ~InSeq(k, pending) /\ ticket[k].stage = "none"
  BY <1>2 DEF CanSubmit, IInv, TableExact
<1>5. CountersExact'
  <2>1. staging' = staging + One(t.stage \in Holding) - One(ticket[k].stage \in Holding)
    BY <1>1, <1>4 DEF One, Holding, IInv, TypeOK
  <2>2. active' = active + One(t.stage \in Reading) - One(ticket[k].stage \in Reading)
    BY <1>1, <1>4 DEF One, Reading, IInv, TypeOK
  <2>3. QED
    BY <1>1, <1>2, <2>1, <2>2, Counted DEF IInv
<1>6. k \notin views
  BY <1>4 DEF IInv, NeverUnverified
<1>7. QED
  BY <1>1, <1>2, <1>3, <1>4, <1>5, <1>6

\* plan() or read() fills a slot from the queue.
LEMMA FillOneInv == ASSUME IInv, NEW c \in Callers, FillOne(c) PROVE IInv'
<1> DEFINE k == Head(queue)
<1>1. /\ control = c /\ call[c].at = "fill" /\ ~closed /\ queue # <<>> /\ queue' = Tail(queue)
      /\ UNCHANGED <<control, closed, fdOpen, staging, active, views, cancel, call, raised>>
  BY DEF FillOne, At, MoreToFill
<1>2. k \in Keys /\ queue' \in Seq(Keys)
  BY <1>1, HeadTailProperties DEF IInv, TypeOK
<1>3. CASE InSeq(k, pending)
  <2>1. UNCHANGED <<pending, ticket>>
    BY <1>3 DEF FillOne
  <2>2. TableExact' /\ CountersExact'
    BY <1>1, <2>1, TicketsKept DEF IInv
  <2>3. TypeOK' /\ CallsMade'
    BY <1>1, <1>2, <2>1 DEF IInv, TypeOK, CallsMade
  <2>4. LeaseExclusive' /\ DiscardsUnleased'
    BY <1>1, <2>1 DEF IInv, LeaseExclusive, Leases, DiscardsUnleased, InSeq
  <2>5. NeverUnverified' /\ ExitSettled' /\ ClosesAll'
    BY <1>1, <2>1 DEF IInv, NeverUnverified, ExitSettled, ClosesAll, InSeq
  <2>6. QED
    BY <2>2, <2>3, <2>4, <2>5 DEF IInv
<1>4. CASE ~InSeq(k, pending)
  <2>1. Submit(k, FALSE, Nobody) /\ FALSE \in BOOLEAN /\ Nobody \in Callers \cup {Nobody}
    BY <1>4 DEF FillOne
  <2> HIDE DEF k
  <2>2. /\ TableExact' /\ CountersExact' /\ pending' \in Seq(Keys)
        /\ ticket' \in [Keys -> Ticket] /\ ~InSeq(k, pending) /\ k \notin views
        /\ \A x \in Keys : InSeq(x, pending') <=> InSeq(x, pending) \/ x = k
        /\ \A x \in Keys : x # k => ticket'[x] = ticket[x]
        /\ ticket'[k].claimed = FALSE /\ ticket'[k].stage = "queued"
    BY <1>1, <1>2, <2>1, Submitted
  <2>3. TypeOK'
    BY <1>1, <1>2, <2>2 DEF IInv, TypeOK
  <2>4. CallsMade'
    BY <1>1 DEF IInv, CallsMade
  <2>5. \A d \in Callers, x \in Keys : Leases(d, x)' <=> Leases(d, x)
    BY <1>1 DEF Leases
  <2>6. \A d \in Callers : ~Leases(d, k)
    BY <2>2, <1>2 DEF IInv, LeaseExclusive
  <2>7. ~ticket[k].claimed
    BY <2>6, <1>2 DEF IInv, LeaseExclusive
  <2>8. LeaseExclusive'
    BY <1>1, <2>2, <2>5, <2>6 DEF IInv, LeaseExclusive, InSeq
  <2>9. DiscardsUnleased'
    <3>1. \A d \in Callers : call[d].victim \in Keys \cup {Nobody} /\ call[d].todo \subseteq Keys
      BY DEF IInv, TypeOK, Call
    <3>2. \A d \in Callers : call[d].at # "await"
      BY <1>1 DEF IInv, CallsMade, Locked
    <3>3. \A d \in Callers, x \in Keys : x \in call[d].todo =>
             InSeq(x, pending') /\ ~ticket'[x].claimed
      BY <2>2 DEF IInv, DiscardsUnleased
    <3>4. \A d \in Callers : call[d].victim # Nobody => ~ticket'[call[d].victim].claimed
      BY <2>2, <3>1 DEF IInv, DiscardsUnleased
    <3>5. QED
      BY <1>1, <3>1, <3>2, <3>3, <3>4 DEF DiscardsUnleased, InSeq
  <2>10. NeverUnverified' /\ ExitSettled'
    <3>1. \A d \in Callers : call[d].at \in Leasing => call[d].key \in Keys /\ call[d].key # k
      BY <2>6 DEF IInv, CallsMade, Leases, Leasing
    <3>2. views \subseteq Keys
      BY DEF IInv, TypeOK
    <3>3. QED
      BY <1>1, <2>2, <3>1, <3>2 DEF IInv, NeverUnverified, ExitSettled, Leasing
  <2>11. ClosesAll'
    BY <1>1, <2>2 DEF IInv, ClosesAll
  <2>12. QED
    BY <2>2, <2>3, <2>4, <2>8, <2>9, <2>10, <2>11 DEF IInv
<1>5. QED
  BY <1>3, <1>4

\* What leaving read()'s first critical section looks like: the caller leases k.
LEMMA LeaseBegins ==
    ASSUME IInv, NEW c \in Callers, NEW k \in Keys, NEW consumer \in Callers \cup {Nobody},
           AwaitResult(c, k, consumer), control \in {c, Nobody}, ~closed,
           call[c].at \in {"idle", "discard"},
           UNCHANGED <<closed, fdOpen, staging, active, views, cancel, raised>>,
           queue' \in Seq(Keys), TableExact', CountersExact', pending' \in Seq(Keys),
           ticket' \in [Keys -> Ticket],
           ~ticket[k].claimed, ticket'[k].claimed, InSeq(k, pending'),
           \A x \in Keys : InSeq(x, pending) => InSeq(x, pending'),
           \A x \in Keys : x # k => ticket'[x] = ticket[x],
           k \in views => ticket'[k].stage = "done"
    PROVE  IInv'
<1> DEFINE read == [Idle EXCEPT !.op = "read", !.at = "wait", !.key = k, !.consumer = consumer]
<1>1. control' = Nobody /\ call' = [call EXCEPT ![c] = read] /\ call \in [Callers -> Call]
  BY DEF AwaitResult, IInv, TypeOK
<1>2. /\ read \in Call /\ read.op = "read" /\ read.at = "wait" /\ read.key = k
      /\ read.victim = Nobody /\ read.todo = {}
  <2>1. <<>> \in Seq(Keys) /\ consumer \in Callers \cup {Nobody}
    OBVIOUS
  <2>2. QED
    BY <2>1 DEF Call, Idle
<1> HIDE DEF read
<1>3. \A d \in Callers : call'[d] = IF d = c THEN read ELSE call[d]
  BY <1>1
<1>4. TypeOK'
  BY <1>1, <1>2, CountersNat DEF IInv, TypeOK
<1>5. \A d \in Callers : d # c => call[d].victim = Nobody /\ call[d].todo = {} /\ call[d].at \notin Locked
  BY NamesAssumption DEF IInv, CallsMade
<1>6. CallsMade'
  BY <1>1, <1>2, <1>3, <1>5, NamesAssumption DEF IInv, CallsMade, Locked, Leasing
<1>7. \A d \in Callers, x \in Keys : Leases(d, x)' <=> (IF d = c THEN x = k ELSE Leases(d, x))
  BY <1>2, <1>3 DEF Leases
<1>8. \A d \in Callers : ~Leases(d, k)
  BY DEF IInv, LeaseExclusive
<1>9. \A d \in Callers : call'[d].victim = Nobody
  BY <1>2, <1>3, <1>5
<1>10. LeaseExclusive'
  <2>1. ASSUME NEW x \in Keys, ticket'[x].claimed PROVE \E d \in Callers : Leases(d, x)'
    <3>1. CASE x = k
      BY <1>7, <3>1
    <3>2. CASE x # k
      <4>1. PICK d \in Callers : Leases(d, x)
        BY <2>1, <3>2 DEF IInv, LeaseExclusive
      <4>2. d # c
        BY <4>1 DEF Leases
      <4>3. QED
        BY <1>7, <4>1, <4>2
    <3>3. QED
      BY <3>1, <3>2
  <2>2. ASSUME NEW x \in Keys, NEW d \in Callers, Leases(d, x)' PROVE ticket'[x].claimed /\ InSeq(x, pending')
    BY <1>7, <1>8, <2>2 DEF IInv, LeaseExclusive
  <2>3. ASSUME NEW x \in Keys, NEW d \in Callers, NEW e \in Callers, Leases(d, x)', Leases(e, x)' PROVE e = d
    BY <1>7, <1>8, <2>3 DEF IInv, LeaseExclusive
  <2>4. QED
    BY <1>9, <2>1, <2>2, <2>3, NamesAssumption DEF LeaseExclusive, InSeq
<1>11. DiscardsUnleased'
  BY <1>2, <1>3, <1>5 DEF DiscardsUnleased, InSeq, Locked
<1>12. NeverUnverified' /\ ExitSettled'
  <2>1. \A d \in Callers : d # c /\ call[d].at \in Leasing => call[d].key \in Keys /\ call[d].key # k
    BY <1>8 DEF IInv, CallsMade, Leases, Leasing
  <2>2. views \subseteq Keys
    BY DEF IInv, TypeOK
  <2>3. QED
    BY <1>2, <1>3, <2>1, <2>2 DEF IInv, NeverUnverified, ExitSettled, Leasing
<1>13. ClosesAll'
  BY <1>2, <1>3 DEF IInv, ClosesAll
<1>14. QED
  BY <1>4, <1>6, <1>10, <1>11, <1>12, <1>13 DEF IInv

\* read() leases a prefetched ticket.
LEMMA ReadPrefetchedInv ==
    ASSUME IInv, NEW c \in Callers, NEW k \in Keys, NEW consumer \in {c, Nobody}, ReadPrefetched(c, k, consumer)
    PROVE  IInv'
<1> DEFINE t == [ticket[k] EXCEPT !.claimed = TRUE, !.consumer = consumer]
<1>1. /\ ticket \in [Keys -> Ticket] /\ ticket[k] \in Ticket /\ ticket[k].stage # "none"
      /\ InSeq(k, pending) /\ ~ticket[k].claimed /\ AwaitResult(c, k, consumer)
      /\ control = Nobody /\ call[c].at = "idle" /\ ~closed
      /\ UNCHANGED <<closed, fdOpen, pending, queue, staging, active, views, cancel, raised>>
  BY DEF IInv, TypeOK, TableExact, ReadPrefetched, Enter, Open
<1>2. t \in Ticket /\ t.claimed /\ t.stage = ticket[k].stage
  BY <1>1 DEF Ticket
<1>3. ticket' = [ticket EXCEPT ![k] = t]
  BY <1>1 DEF ReadPrefetched
<1> HIDE DEF t
<1>4. TableExact'
  BY <1>1, <1>2, <1>3, TableTouched DEF IInv
<1>5. CountersExact'
  <2>1. /\ staging' = staging + One(t.stage \in Holding) - One(ticket[k].stage \in Holding)
        /\ active' = active + One(t.stage \in Reading) - One(ticket[k].stage \in Reading)
    BY <1>1, <1>2 DEF One, IInv, TypeOK
  <2>2. QED
    BY <1>2, <1>3, <2>1, Counted DEF IInv
<1>6. /\ queue' \in Seq(Keys) /\ pending' \in Seq(Keys) /\ ticket' \in [Keys -> Ticket]
      /\ ticket'[k].claimed /\ InSeq(k, pending') /\ \A x \in Keys : InSeq(x, pending) => InSeq(x, pending')
      /\ \A x \in Keys : x # k => ticket'[x] = ticket[x]
  BY <1>1, <1>2, <1>3 DEF IInv, TypeOK
<1>7. k \in views => ticket'[k].stage = "done"
  BY <1>1, <1>2, <1>3 DEF IInv, NeverUnverified
<1>8. QED
  BY <1>1, <1>4, <1>5, <1>6, <1>7, LeaseBegins

\* read() submits what it needs, after a displacement or without one.
LEMMA ReadSubmitsInv ==
    ASSUME IInv, NEW c \in Callers, NEW k \in Keys, NEW consumer \in Callers \cup {Nobody},
           Submit(k, TRUE, consumer), AwaitResult(c, k, consumer), queue' \in Seq(Keys),
           control \in {c, Nobody}, ~closed, call[c].at \in {"idle", "discard"},
           UNCHANGED <<closed, fdOpen, staging, active, views, cancel, raised>>
    PROVE  IInv'
<1>1. TRUE \in BOOLEAN
  OBVIOUS
<1>2. /\ TableExact' /\ CountersExact' /\ pending' \in Seq(Keys)
      /\ ticket' \in [Keys -> Ticket] /\ ~InSeq(k, pending) /\ k \notin views
      /\ \A x \in Keys : InSeq(x, pending') <=> InSeq(x, pending) \/ x = k
      /\ \A x \in Keys : x # k => ticket'[x] = ticket[x]
      /\ ticket'[k].claimed = TRUE
  BY <1>1, Submitted
<1>3. ~ticket[k].claimed
  BY <1>2 DEF IInv, LeaseExclusive
<1>4. InSeq(k, pending') /\ \A x \in Keys : InSeq(x, pending) => InSeq(x, pending')
  BY <1>2
<1>5. QED
  BY <1>2, <1>3, <1>4, LeaseBegins

LEMMA ReadDemandInv ==
    ASSUME IInv, NEW c \in Callers, NEW k \in Keys, NEW consumer \in {c, Nobody}, ReadDemand(c, k, consumer)
    PROVE  IInv'
<1>1. queue \in Seq(Keys) /\ queue' = Without(queue, k)
  BY DEF IInv, TypeOK, ReadDemand
<1>2. queue' \in Seq(Keys)
  BY <1>1, WithoutType
<1>3. /\ Submit(k, TRUE, consumer) /\ AwaitResult(c, k, consumer) /\ consumer \in Callers \cup {Nobody}
      /\ control = Nobody /\ ~closed /\ call[c].at = "idle"
      /\ UNCHANGED <<closed, fdOpen, staging, active, views, cancel, raised>>
  BY DEF ReadDemand, Enter, Open
<1>4. QED
  BY <1>2, <1>3, ReadSubmitsInv

LEMMA ReadSubmitInv == ASSUME IInv, NEW c \in Callers, ReadSubmit(c) PROVE IInv'
<1> DEFINE k == call[c].key
           v == call[c].victim
<1>1. control = c /\ call[c].at = "discard" /\ call[c].op = "read" /\ call[c].todo = {}
  BY DEF ReadSubmit, At
<1>2. k \in Keys /\ v \in Keys /\ queue \in Seq(Keys) /\ call[c].consumer \in Callers \cup {Nobody} /\ ~closed
  BY <1>1 DEF IInv, CallsMade, ClosesAll, TypeOK, Call
<1>3. <<v>> \o queue \in Seq(Keys)
  BY <1>2, ConcatProperties
<1>4. queue' = Without(<<v>> \o queue, k)
  BY DEF ReadSubmit
<1>5. queue' \in Seq(Keys)
  BY <1>3, <1>4, WithoutType
<1>6. /\ Submit(k, TRUE, call[c].consumer) /\ AwaitResult(c, k, call[c].consumer)
      /\ UNCHANGED <<closed, fdOpen, staging, active, views, cancel, raised>>
  BY DEF ReadSubmit
<1> HIDE DEF k, v
<1>7. QED
  BY <1>1, <1>2, <1>5, <1>6, ReadSubmitsInv

\* A reader leaves its block: the ticket is popped with its buffer, or stays
\* with the buffer the consumer still exports.
LEMMA ReadEndsInv == ASSUME IInv, NEW c \in Callers, ReadExit(c) \/ ReadRetained(c) PROVE IInv'
<1> DEFINE k == call[c].key
<1>1. /\ call \in [Callers -> Call] /\ call[c] \in Call /\ ticket \in [Keys -> Ticket] /\ cancel \subseteq Callers
      /\ control = Nobody /\ call[c].at = "exit" /\ call[c].op = "read"
      /\ UNCHANGED <<closed, fdOpen, queue, active, views, raised>>
      /\ cancel' \subseteq cancel
  BY DEF IInv, TypeOK, CallsMade, Leasing, ReadExit, ReadRetained
<1>2. k \in Keys /\ Leases(c, k) /\ ticket[k].stage \in Settled
  BY <1>1 DEF IInv, CallsMade, Leasing, Leases, ExitSettled
<1>3. InSeq(k, pending) /\ ticket[k].claimed /\ (\A d \in Callers : Leases(d, k) => d = c) /\ ~closed /\ fdOpen
  BY <1>1, <1>2 DEF IInv, LeaseExclusive, ClosesAll
<1>4. \A x \in views : ticket[x].stage = "done"
  BY DEF IInv, NeverUnverified
<1>5. /\ TableExact' /\ CountersExact' /\ pending' \in Seq(Keys)
      /\ ticket' \in [Keys -> Ticket]
      /\ \A x \in Keys : x # k => (InSeq(x, pending') <=> InSeq(x, pending)) /\ ticket'[x] = ticket[x]
      /\ ~ticket'[k].claimed
      /\ k \in views => ticket'[k].stage = "done"
  <2>1. CASE ReadExit(c)
    <3>1. /\ Pop(k) /\ UNCHANGED active /\ k \notin views
          /\ staging' = IF ticket[k].stage = "done" THEN staging - 1 ELSE staging
      BY <1>4, <2>1 DEF ReadExit
    <3>2. /\ TableExact' /\ CountersExact' /\ pending' \in Seq(Keys)
          /\ ticket' \in [Keys -> Ticket] /\ staging' \in Nat /\ active' \in Nat
          /\ \A x \in Keys : /\ InSeq(x, pending') <=> InSeq(x, pending) /\ x # k
                             /\ ticket'[x] = IF x = k THEN NoTicket ELSE ticket[x]
      BY <1>2, <3>1, Popped
    <3>3. QED
      BY <1>2, <3>1, <3>2 DEF NoTicket
  <2>2. CASE ReadRetained(c)
    <3> DEFINE t == [ticket[k] EXCEPT !.claimed = FALSE]
    <3>1. t \in Ticket /\ ~t.claimed /\ t.stage = ticket[k].stage /\ ticket[k].stage = "done"
      BY <1>1, <1>2, <2>2 DEF ReadRetained, Ticket
    <3>2. ticket' = [ticket EXCEPT ![k] = t] /\ UNCHANGED <<pending, staging, active>>
      BY <1>1, <1>2, <2>2 DEF ReadRetained
    <3> HIDE DEF t, k
    <3>3. TableExact'
      BY <1>2, <3>1, <3>2, TableTouched DEF IInv
    <3>4. CountersExact'
      <4>1. /\ staging' = staging + One(t.stage \in Holding) - One(ticket[k].stage \in Holding)
            /\ active' = active + One(t.stage \in Reading) - One(ticket[k].stage \in Reading)
        BY <3>1, <3>2 DEF One, IInv, TypeOK
      <4>2. QED
        BY <1>2, <3>1, <3>2, <4>1, Counted DEF IInv
    <3>5. QED
      BY <1>1, <1>2, <3>1, <3>2, <3>3, <3>4 DEF IInv, TypeOK
  <2>3. QED
    BY <2>1, <2>2
<1>6. PICK new \in Call :
        /\ call' = [call EXCEPT ![c] = new]
        /\ new.victim = Nobody /\ new.todo = {}
        /\ \/ new.op = "read" /\ new.at = "fill" /\ control' = c
           \/ new = Idle /\ new.op = "none" /\ new.at = "idle" /\ control' = Nobody
  <2>1. <<>> \in Seq(Keys)
    OBVIOUS
  <2>2. Idle \in Call /\ [Idle EXCEPT !.op = "read", !.at = "fill"] \in Call
    BY <2>1 DEF Call, Idle
  <2>3. CASE ReadExit(c)
    BY <2>2, <2>3 DEF ReadExit, Idle
  <2>4. CASE ReadRetained(c)
    BY <2>2, <2>4 DEF ReadRetained, Leave, Idle
  <2>5. QED
    BY <2>3, <2>4
<1> HIDE DEF k
<1>7. \A d \in Callers : call'[d] = IF d = c THEN new ELSE call[d]
  BY <1>1, <1>6
<1>8. \A d \in Callers : call[d].at \notin Locked /\ call[d].victim = Nobody /\ call[d].todo = {}
  BY <1>1, NamesAssumption DEF IInv, CallsMade
<1>9. TypeOK'
  <2>1. control' \in Callers \cup {Nobody} /\ cancel' \subseteq Callers /\ call' \in [Callers -> Call]
    BY <1>1, <1>6
  <2>2. QED
    BY <1>1, <1>5, <2>1, CountersNat DEF IInv, TypeOK
<1>10. CallsMade'
  <2>1. CASE new.op = "read" /\ new.at = "fill" /\ control' = c
    BY <1>1, <1>6, <1>7, <1>8, <2>1, NamesAssumption DEF IInv, CallsMade, Locked, Leasing
  <2>2. CASE new = Idle /\ new.op = "none" /\ new.at = "idle" /\ control' = Nobody
    BY <1>1, <1>6, <1>7, <1>8, <2>2, NamesAssumption DEF IInv, CallsMade, Locked, Leasing
  <2>3. QED
    BY <1>6, <2>1, <2>2
<1>11. \A d \in Callers, x \in Keys : Leases(d, x)' <=> Leases(d, x) /\ d # c
  BY <1>6, <1>7 DEF Leases
<1>12. \A d \in Callers, x \in Keys : Leases(d, x) /\ d # c => x # k
  BY <1>3
<1>13. LeaseExclusive'
  <2>1. ASSUME NEW x \in Keys, ticket'[x].claimed PROVE \E d \in Callers : Leases(d, x)'
    <3>1. x # k
      BY <1>5, <2>1
    <3>2. PICK d \in Callers : Leases(d, x)
      BY <1>5, <2>1, <3>1 DEF IInv, LeaseExclusive
    <3>3. d # c
      BY <3>1, <3>2 DEF Leases, k
    <3>4. QED
      BY <1>11, <3>2, <3>3
  <2>2. ASSUME NEW x \in Keys, NEW d \in Callers, Leases(d, x)' PROVE ticket'[x].claimed /\ InSeq(x, pending')
    BY <1>5, <1>11, <1>12, <2>2 DEF IInv, LeaseExclusive
  <2>3. ASSUME NEW x \in Keys, NEW d \in Callers, NEW e \in Callers, Leases(d, x)', Leases(e, x)' PROVE e = d
    BY <1>11, <2>3 DEF IInv, LeaseExclusive
  <2>4. \A d \in Callers : call'[d].victim = Nobody
    BY <1>6, <1>7, <1>8
  <2>5. QED
    BY <2>1, <2>2, <2>3, <2>4, NamesAssumption DEF LeaseExclusive, InSeq
<1>14. DiscardsUnleased'
  BY <1>6, <1>7, <1>8 DEF DiscardsUnleased, InSeq, Locked, Idle
<1>15. NeverUnverified' /\ ExitSettled'
  <2>1. \A d \in Callers : call'[d].at \in Leasing => d # c /\ call'[d] = call[d] /\ call[d].key \in Keys /\ call[d].key # k
    BY <1>6, <1>7, <1>12 DEF IInv, CallsMade, Leases, Leasing
  <2>2. QED
    BY <1>1, <1>4, <1>5, <2>1 DEF IInv, NeverUnverified, ExitSettled, Leasing, TypeOK
<1>16. ClosesAll'
  <2>1. \A d \in Callers : call'[d].op # "close"
    BY <1>3, <1>6, <1>7 DEF IInv, ClosesAll
  <2>2. QED
    BY <1>1, <1>3, <2>1 DEF ClosesAll
<1>17. QED
  BY <1>5, <1>9, <1>10, <1>13, <1>14, <1>15, <1>16 DEF IInv

-----------------------------------------------------------------------------
(* The specification.                                                      *)

LEMMA StepInv == ASSUME IInv, [Next]_vars PROVE IInv'
<1>1. CASE UNCHANGED vars
  <2>1. UNCHANGED <<control, closed, fdOpen, pending, ticket, queue, staging, active, views, cancel, call, raised>>
    BY <1>1 DEF vars
  <2>2. TableExact' /\ CountersExact'
    BY <2>1, TicketsKept DEF IInv
  <2>3. TypeOK' /\ CallsMade'
    BY <2>1 DEF IInv, TypeOK, CallsMade
  <2>4. LeaseExclusive' /\ DiscardsUnleased'
    BY <2>1 DEF IInv, LeaseExclusive, Leases, DiscardsUnleased, InSeq
  <2>5. NeverUnverified' /\ ExitSettled' /\ ClosesAll'
    BY <2>1 DEF IInv, NeverUnverified, ExitSettled, ClosesAll, InSeq
  <2>6. QED
    BY <2>2, <2>3, <2>4, <2>5 DEF IInv
<1>2. CASE \E k \in Keys : Fetch(k) \/ DropView(k)
  BY <1>2, FetchInv, EnvironmentInv
<1>3. ASSUME NEW c \in Callers, \E keys \in Plans : PlanBegin(c, keys) PROVE IInv'
  BY <1>3, PlanBeginInv
<1>4. ASSUME NEW c \in Callers,
             \E k \in Keys, consumer \in {c, Nobody} :
                ReadPrefetched(c, k, consumer) \/ ReadDemand(c, k, consumer) \/ ReadDisplace(c, k, consumer)
      PROVE  IInv'
  BY <1>4, ReadPrefetchedInv, ReadDemandInv, ReadDisplaceInv
<1>5. ASSUME NEW c \in Callers, Discard(c) \/ Plan(c) PROVE IInv'
  BY <1>5, DiscardBeginInv, DiscardEndsInv, PlanQueueInv, FillOneInv, LeavesInv DEF Discard, Plan
<1>6. ASSUME NEW c \in Callers, Read(c) \/ BodyEnd(c) PROVE IInv'
  BY <1>6, ReadSubmitInv, ReaderGoesOnInv, ReadEndsInv DEF Read
<1>7. ASSUME NEW c \in Callers, CloseBegin(c) \/ CloseEnd(c) \/ SetCancel(c) PROVE IInv'
  BY <1>7, CloseBeginInv, LeavesInv, EnvironmentInv
<1>8. QED
  BY <1>1, <1>2, <1>3, <1>4, <1>5, <1>6, <1>7 DEF Next

LEMMA InvariantHolds == Spec => []IInv
<1>1. QED
  BY InitInv, StepInv, PTL DEF Spec

\* The state has its types: the tickets, the calls and both counters, whatever the
\* order of readers and callers.
THEOREM TypeCorrect == Spec => []TypeOK
<1>1. IInv => TypeOK
  BY DEF IInv
<1>2. QED
  BY <1>1, InvariantHolds, PTL

\* A claimed ticket has one lessee, which finds it in the table until it releases
\* it, and no discard touches it meanwhile (read(), _discard and close()).
THEOREM LeasesExclusive == Spec => []LeaseExclusive
<1>1. IInv => LeaseExclusive
  BY DEF IInv
<1>2. QED
  BY <1>1, InvariantHolds, PTL

\* A consumer's buffer, and a view it keeps, is that of a read that was verified
\* and not unmapped since (_fetch, read() and _discard).
THEOREM OnlyVerified == Spec => []NeverUnverified
<1>1. IInv => NeverUnverified
  BY DEF IInv
<1>2. QED
  BY <1>1, InvariantHolds, PTL

\* At most Slots records own staging memory, counted exactly, and after close() only
\* those whose consumer exported a view.
THEOREM StagingHeld == Spec => []StagingAccounted
<1>1. ASSUME IInv PROVE StagingAccounted
  <2>1. StagingBound
    BY <1>1, CountsBounded DEF IInv
  <2>2. ClosedOwnsOnlyRetained
    <3>1. CASE ~fdOpen
      <4>1. Mapped = {k \in Keys : ticket[k].stage = "done" /\ ticket[k].stop}
        BY <1>1, <3>1 DEF IInv, ClosesAll, TableExact, Mapped, Holding
      <4>2. QED
        BY <1>1, <4>1 DEF IInv, CountersExact, ClosedOwnsOnlyRetained
    <3>2. QED
      BY <3>1 DEF ClosedOwnsOnlyRetained
  <2>3. QED
    BY <2>1, <2>2 DEF StagingAccounted
<1>2. IInv => StagingAccounted
  BY <1>1
<1>3. QED
  BY <1>2, InvariantHolds, PTL

-----------------------------------------------------------------------------
(* The plan queue.                                                         *)

\* The queue and the table share no key.
QueueExact == Injective(queue) /\ \A k \in Keys : InSeq(k, queue) => ~InSeq(k, pending)

\* What plan() has not looked at yet is not queued.
GoalFresh(o) ==
    o.op = "plan" => /\ Injective(o.goal)
                     /\ o.at = "queue" => \A k \in Keys : InSeq(k, o.goal) => ~InSeq(k, queue)

\* A read that displaces a ticket finds one slot free and its victim nowhere else.
Displaced(o) ==
    o.op = "read" =>
        /\ o.at \in {"discard", "await"} => ~InSeq(o.key, pending)
        /\ o.at = "discard" /\ o.todo # {} =>
              Len(pending) = Slots /\ o.victim = Nobody /\ \E k \in Keys : o.todo = {k}
        /\ o.at = "await" => o.todo = {} /\ Len(pending) = Slots
        /\ o.at = "discard" /\ o.todo = {} =>
              /\ Len(pending) = Slots - 1 /\ o.victim # o.key
              /\ ~InSeq(o.victim, pending) /\ ~InSeq(o.victim, queue)
        /\ o.at = "fill" => o.victim = Nobody
        /\ o.at # "queue"

CallsFit == \A c \in Callers : GoalFresh(call[c]) /\ Displaced(call[c])

QInv == QueueExact /\ CallsFit /\ NoIdleSlot

LEMMA EmptyHasNone == Injective(<<>>) /\ \A x : ~InSeq(x, <<>>)
BY DEF Injective, InSeq

\* The head of a sequence and its tail.
LEMMA TailElements ==
    ASSUME NEW S, NEW s \in Seq(S), s # <<>>
    PROVE  /\ Tail(s) \in Seq(S) /\ Head(s) \in S /\ InSeq(Head(s), s)
           /\ \A x : InSeq(x, s) <=> InSeq(x, Tail(s)) \/ x = Head(s)
           /\ Injective(s) => Injective(Tail(s)) /\ ~InSeq(Head(s), Tail(s))
<1> DEFINE h == Head(s)
           t == Tail(s)
<1>1. /\ Len(s) \in Nat /\ Len(s) > 0 /\ h = s[1] /\ h \in S
      /\ t \in Seq(S) /\ Len(t) = Len(s) - 1 /\ \A i \in 1..Len(t) : t[i] = s[i + 1]
  BY HeadTailProperties, EmptySeq, LenProperties
<1> HIDE DEF h, t
<1>2. \A x : InSeq(x, s) <=> InSeq(x, t) \/ x = h
  <2>1. ASSUME NEW i \in 1..Len(s) PROVE s[i] = h \/ InSeq(s[i], t)
    <3>1. CASE i = 1
      BY <1>1, <3>1
    <3>2. CASE i # 1
      <4>1. i - 1 \in 1..Len(t) /\ t[i - 1] = s[i]
        BY <1>1, <3>2
      <4>2. QED
        BY <4>1 DEF InSeq
    <3>3. QED
      BY <3>1, <3>2
  <2>2. InSeq(h, s)
    BY <1>1 DEF InSeq
  <2>3. ASSUME NEW i \in 1..Len(t) PROVE InSeq(t[i], s)
    <3>1. i + 1 \in 1..Len(s) /\ t[i] = s[i + 1]
      BY <1>1
    <3>2. QED
      BY <3>1 DEF InSeq
  <2>4. QED
    BY <2>1, <2>2, <2>3 DEF InSeq
<1>3. Injective(s) => Injective(t) /\ ~InSeq(h, t)
  <2> SUFFICES ASSUME Injective(s) PROVE Injective(t) /\ ~InSeq(h, t)
    OBVIOUS
  <2>1. \A i \in 1..Len(t) : i + 1 \in 1..Len(s) /\ t[i] = s[i + 1] /\ 1 \in 1..Len(s) /\ i + 1 # 1
    BY <1>1
  <2>2. Injective(t)
    <3> SUFFICES ASSUME NEW i \in 1..Len(t), NEW j \in 1..Len(t), t[i] = t[j] PROVE i = j
      BY DEF Injective
    <3>1. i + 1 = j + 1
      BY <2>1 DEF Injective
    <3>2. QED
      BY <3>1
  <2>3. \A i \in 1..Len(t) : t[i] # h
    BY <1>1, <2>1 DEF Injective
  <2>4. QED
    BY <2>2, <2>3 DEF InSeq
<1>4. QED
  BY <1>1, <1>2, <1>3 DEF h, t

\* A sequence with one more element in front.
LEMMA ConsElements ==
    ASSUME NEW S, NEW s \in Seq(S), NEW a \in S
    PROVE  /\ <<a>> \o s \in Seq(S)
           /\ \A x : InSeq(x, <<a>> \o s) <=> InSeq(x, s) \/ x = a
           /\ Injective(s) /\ ~InSeq(a, s) => Injective(<<a>> \o s)
<1> DEFINE w == <<a>> \o s
<1>1. <<a>> \in Seq(S) /\ Len(<<a>>) = 1 /\ <<a>>[1] = a
  OBVIOUS
<1>2. /\ w \in Seq(S) /\ Len(s) \in Nat /\ Len(w) = Len(s) + 1 /\ w[1] = a
      /\ \A i \in 1..Len(s) : w[i + 1] = s[i]
  <2>1. w \in Seq(S) /\ Len(w) = 1 + Len(s) /\ Len(s) \in Nat
    BY <1>1, ConcatProperties, LenProperties
  <2>2. \A i \in 1..Len(w) : w[i] = IF i <= 1 THEN <<a>>[i] ELSE s[i - 1]
    BY <1>1, ConcatProperties
  <2>3. QED
    BY <1>1, <2>1, <2>2
<1> HIDE DEF w
<1>3. \A i \in 1..Len(w) : i # 1 => i - 1 \in 1..Len(s) /\ w[i] = s[i - 1]
  BY <1>2
<1>4. \A x : InSeq(x, w) <=> InSeq(x, s) \/ x = a
  <2>1. ASSUME NEW x, InSeq(x, w) PROVE InSeq(x, s) \/ x = a
    BY <1>2, <1>3, <2>1 DEF InSeq
  <2>2. InSeq(a, w)
    BY <1>2 DEF InSeq
  <2>3. ASSUME NEW i \in 1..Len(s) PROVE InSeq(s[i], w)
    <3>1. i + 1 \in 1..Len(w) /\ w[i + 1] = s[i]
      BY <1>2
    <3>2. QED
      BY <3>1 DEF InSeq
  <2>4. QED
    BY <2>1, <2>2, <2>3 DEF InSeq
<1>5. ASSUME Injective(s), ~InSeq(a, s) PROVE Injective(w)
  <2> SUFFICES ASSUME NEW i \in 1..Len(w), NEW j \in 1..Len(w), w[i] = w[j] PROVE i = j
    BY DEF Injective
  <2>1. \A n \in 1..Len(s) : s[n] # a
    BY <1>5 DEF InSeq
  <2>2. i = 1 <=> j = 1
    BY <1>2, <1>3, <2>1
  <2>3. CASE i # 1
    <3>1. i - 1 = j - 1
      BY <1>3, <1>5, <2>2, <2>3 DEF Injective
    <3>2. QED
      BY <1>2, <3>1
  <2>4. QED
    BY <2>2, <2>3
<1>6. QED
  BY <1>2, <1>4, <1>5 DEF w

LEMMA WithoutLength ==
    ASSUME NEW S, NEW s \in Seq(S), NEW k, InSeq(k, s)
    PROVE  Len(Without(s, k)) = Len(s) - 1
<1> DEFINE p == CHOOSE i \in 1..Len(s) : s[i] = k
           w == [i \in 1..(Len(s) - 1) |-> IF i < p THEN s[i] ELSE s[i + 1]]
<1>1. p \in 1..Len(s) /\ Len(s) \in Nat
  BY LenProperties DEF InSeq
<1>2. Without(s, k) = w
  BY DEF Without
<1> HIDE DEF p
<1>3. Len(s) - 1 \in Nat /\ w \in [1..(Len(s) - 1) -> S]
  BY <1>1, ElementOfSeq
<1>4. QED
  BY <1>2, <1>3, SeqDef, LenProperties

\* A step that leaves the calls, the table and the queue alone.
LEMMA QueueKept ==
    ASSUME QInv, UNCHANGED <<control, closed, pending, queue, call, raised>>
    PROVE  QInv'
BY DEF QInv, QueueExact, CallsFit, GoalFresh, Displaced, NoIdleSlot, InSeq

\* A read outside the lock goes on.
LEMMA LeaseGoesOn ==
    ASSUME IInv, QInv, NEW c \in Callers, ReadYield(c) \/ ReadAbort(c) \/ BodyEnd(c)
    PROVE  QInv'
<1>1. PICK new \in {[call[c] EXCEPT !.at = "body"], [call[c] EXCEPT !.at = "exit"]} : call' = [call EXCEPT ![c] = new]
  BY DEF ReadYield, ReadAbort, BodyEnd
<1>2. call[c] \in Call /\ call[c].op = "read"
  BY DEF IInv, TypeOK, CallsMade, Leasing, ReadYield, ReadAbort, BodyEnd
<1>3. new.op = "read" /\ new.at \in {"body", "exit"}
  BY <1>1, <1>2 DEF Call
<1>4. \A d \in Callers : call'[d] = IF d = c THEN new ELSE call[d]
  BY <1>1 DEF IInv, TypeOK
<1>5. UNCHANGED <<control, closed, pending, queue, raised>>
  BY DEF ReadYield, ReadAbort, BodyEnd
<1>6. QueueExact' /\ NoIdleSlot'
  BY <1>5 DEF QInv, QueueExact, NoIdleSlot, InSeq
<1>7. GoalFresh(new)' /\ Displaced(new)'
  BY <1>3 DEF GoalFresh, Displaced
<1>8. ASSUME NEW d \in Callers PROVE (GoalFresh(call[d]) /\ Displaced(call[d]))'
  <2>1. CASE d = c
    BY <1>4, <1>7, <2>1 DEF GoalFresh, Displaced
  <2>2. CASE d # c
    BY <1>4, <1>5, <2>2 DEF QInv, CallsFit, GoalFresh, Displaced, InSeq
  <2>3. QED
    BY <2>1, <2>2
<1>9. QED
  BY <1>6, <1>8 DEF QInv, CallsFit

\* A step under the lock: what it does to its own call decides.
LEMMA LockedStep ==
    ASSUME IInv, NEW c \in Callers, control \in {c, Nobody}, NEW new,
           call' = [call EXCEPT ![c] = new],
           QueueExact', GoalFresh(new)', Displaced(new)', NoIdleSlot'
    PROVE  QInv'
<1>1. \A d \in Callers : call'[d] = IF d = c THEN new ELSE call[d]
  BY DEF IInv, TypeOK
<1>2. \A d \in Callers : d # c => call[d].op # "plan" /\ call[d].at \notin Locked
  BY NamesAssumption, SMTT(30) DEF IInv, CallsMade, TypeOK, Call, Locked, Leasing, Idle
<1>3. ASSUME NEW d \in Callers PROVE (GoalFresh(call[d]) /\ Displaced(call[d]))'
  <2>1. CASE d = c
    BY <1>1, <2>1 DEF GoalFresh, Displaced
  <2>2. CASE d # c
    BY <1>1, <1>2, <2>2 DEF Locked, GoalFresh, Displaced
  <2>3. QED
    BY <2>1, <2>2
<1>4. QED
  BY <1>3 DEF QInv, CallsFit

\* An operation takes the lock: plan(), a displacing read() or close().
LEMMA OperationBegins ==
    ASSUME IInv, QInv, NEW c \in Callers,
           \/ \E keys \in Plans : PlanBegin(c, keys)
           \/ \E k \in Keys, consumer \in {c, Nobody} : ReadDisplace(c, k, consumer)
           \/ CloseBegin(c)
    PROVE  QInv'
<1>1. control = Nobody /\ control' = c /\ UNCHANGED pending
  BY DEF PlanBegin, ReadDisplace, CloseBegin, Enter
<1>2. NoIdleSlot'
  BY <1>1, NamesAssumption DEF NoIdleSlot
<1>3. ASSUME NEW keys \in Plans, PlanBegin(c, keys) PROVE QInv'
  <2> DEFINE new == [Idle EXCEPT !.op = "plan", !.at = "discard", !.goal = keys,
                                 !.todo = {k \in Keys : /\ InSeq(k, pending) /\ ~InSeq(k, keys)
                                                        /\ ~ticket[k].claimed}]
  <2>1. call' = [call EXCEPT ![c] = new] /\ UNCHANGED queue
    BY <1>3 DEF PlanBegin
  <2>2. new.op = "plan" /\ new.at = "discard" /\ Injective(new.goal)
    BY PlansAssumption DEF Idle, Injective
  <2>3. QueueExact'
    BY <1>1, <2>1 DEF QInv, QueueExact, InSeq
  <2>4. PICK own : own = new
    OBVIOUS
  <2> HIDE DEF new
  <2>5. GoalFresh(own)' /\ Displaced(own)'
    BY <2>2, <2>4 DEF GoalFresh, Displaced
  <2>6. QED
    BY <1>1, <1>2, <2>1, <2>3, <2>4, <2>5, LockedStep
<1>4. ASSUME NEW k \in Keys, NEW consumer \in {c, Nobody}, ReadDisplace(c, k, consumer) PROVE QInv'
  <2>1. PICK i \in 1..Len(pending) :
          call' = [call EXCEPT ![c] = [Idle EXCEPT !.op = "read", !.at = "discard", !.key = k,
                                                   !.consumer = consumer, !.todo = {pending[i]}]]
    BY <1>4 DEF ReadDisplace
  <2>2. PICK own : own = [Idle EXCEPT !.op = "read", !.at = "discard", !.key = k,
                                      !.consumer = consumer, !.todo = {pending[i]}]
    OBVIOUS
  <2>3. own.op = "read" /\ own.at = "discard" /\ own.key = k /\ own.todo = {pending[i]} /\ own.victim = Nobody
    BY <2>2 DEF Idle
  <2>4. ~InSeq(k, pending) /\ Len(pending) = Slots /\ UNCHANGED queue /\ pending[i] \in Keys
    <3>1. Len(pending) >= Slots /\ ~InSeq(k, pending) /\ UNCHANGED queue
      BY <1>4 DEF ReadDisplace
    <3>2. pending[i] \in Keys
      BY ElementOfSeq DEF IInv, TypeOK
    <3>3. Len(pending) \in Nat /\ Slots \in Nat /\ Len(pending) <= Slots
      BY LenProperties, SlotsAssumption DEF IInv, TypeOK, TableExact
    <3>4. QED
      BY <3>1, <3>2, <3>3
  <2>5. QueueExact'
    BY <1>1, <2>4 DEF QInv, QueueExact, InSeq
  <2>6. GoalFresh(own)' /\ Displaced(own)'
    BY <1>1, <2>3, <2>4 DEF GoalFresh, Displaced, InSeq
  <2>7. QED
    BY <1>1, <1>2, <2>1, <2>2, <2>5, <2>6, LockedStep
<1>5. CASE CloseBegin(c)
  <2> DEFINE new == [Idle EXCEPT !.op = "close", !.at = "discard", !.todo = {k \in Keys : InSeq(k, pending)}]
  <2>1. call' = [call EXCEPT ![c] = new] /\ queue' = <<>>
    BY <1>5 DEF CloseBegin
  <2>2. PICK own : own = new
    OBVIOUS
  <2>3. own.op = "close"
    BY <2>2 DEF Idle
  <2>4. QueueExact'
    BY <2>1, EmptyHasNone DEF QueueExact
  <2>5. GoalFresh(own)' /\ Displaced(own)'
    BY <2>3 DEF GoalFresh, Displaced
  <2>6. QED
    BY <1>1, <1>2, <2>1, <2>2, <2>4, <2>5, LockedStep
<1>6. QED
  BY <1>3, <1>4, <1>5

\* A discard begins: the tickets to be discarded lose one, the victim.
LEMMA DiscardBeginQueue == ASSUME IInv, QInv, NEW c \in Callers, DiscardBegin(c) PROVE QInv'
<1> DEFINE k == Oldest(call[c].todo)
<1>1. PICK own : own = [call[c] EXCEPT !.at = "await", !.victim = k, !.todo = @ \ {k}]
  OBVIOUS
<1>2. /\ call' = [call EXCEPT ![c] = own] /\ control = c /\ call[c] \in Call
      /\ call[c].at = "discard" /\ call[c].todo # {}
      /\ UNCHANGED <<control, closed, pending, queue, raised>>
  BY <1>1 DEF DiscardBegin, At, IInv, TypeOK
<1>3. own.op = call[c].op /\ own.at = "await" /\ own.key = call[c].key /\ own.goal = call[c].goal
      /\ own.todo = call[c].todo \ {k}
  BY <1>1, <1>2 DEF Call
<1>4. call[c].op = "read" => own.todo = {}
  <2>1. ASSUME call[c].op = "read" PROVE k \in call[c].todo
    <3>1. PICK x \in Keys : call[c].todo = {x}
      BY <1>2, <2>1 DEF QInv, CallsFit, Displaced
    <3>2. InSeq(x, pending)
      BY <3>1 DEF IInv, DiscardsUnleased
    <3>3. PICK i \in 1..Len(pending) : pending[i] = x
      BY <3>2 DEF InSeq
    <3>4. Len(pending) \in Nat /\ Injective(pending)
      BY LenProperties DEF IInv, TypeOK, TableExact, Injective
    <3>5. \A j \in 1..(i - 1) : pending[j] # x
      BY <3>3, <3>4 DEF Injective
    <3>6. \E y \in call[c].todo : \E n \in 1..Len(pending) :
             pending[n] = y /\ \A j \in 1..(n - 1) : pending[j] \notin call[c].todo
      BY <3>1, <3>3, <3>5
    <3>7. QED
      BY <3>6 DEF Oldest
  <2>2. ASSUME call[c].op = "read" PROVE own.todo = {}
    BY <1>2, <1>3, <2>1, <2>2 DEF QInv, CallsFit, Displaced
  <2>3. QED
    BY <2>2
<1> HIDE DEF k
<1>5. QueueExact' /\ NoIdleSlot'
  BY <1>2 DEF QInv, QueueExact, NoIdleSlot, InSeq
<1>6. GoalFresh(own)' /\ Displaced(own)'
  BY <1>2, <1>3, <1>4 DEF QInv, CallsFit, GoalFresh, Displaced, InSeq
<1>7. QED
  BY <1>2, <1>5, <1>6, LockedStep

\* A discard ends: its victim leaves the table, or plan() or read() fails with it.
LEMMA DiscardEndsQueue == ASSUME IInv, QInv, NEW c \in Callers, DiscardEnd(c) \/ DiscardRaise(c) PROVE QInv'
<1>1. /\ control = c /\ call[c].at = "await" /\ call[c] \in Call /\ UNCHANGED <<closed, queue>>
      /\ call[c].victim \in Keys /\ InSeq(call[c].victim, pending)
  BY DEF IInv, TypeOK, DiscardsUnleased, DiscardEnd, DiscardRaise, At
<1>2. /\ \A x \in Keys : InSeq(x, pending') => InSeq(x, pending)
      /\ Pop(call[c].victim) \/ UNCHANGED pending
  <2>1. CASE Pop(call[c].victim)
    BY <1>1, <2>1, TablePopped DEF IInv
  <2>2. CASE UNCHANGED pending
    BY <2>2
  <2>3. QED
    BY <2>1, <2>2 DEF DiscardEnd, DiscardRaise
<1>3. QueueExact'
  BY <1>1, <1>2 DEF QInv, QueueExact, InSeq
<1>4. CASE DiscardEnd(c) \/ call[c].op = "close"
  <2>1. PICK own : own = [call[c] EXCEPT !.at = "discard"]
    OBVIOUS
  <2>2. call' = [call EXCEPT ![c] = own] /\ control' = c
    BY <1>1, <1>4, <2>1 DEF DiscardEnd, DiscardRaise
  <2>3. /\ own.op = call[c].op /\ own.at = "discard" /\ own.key = call[c].key /\ own.goal = call[c].goal
        /\ own.todo = call[c].todo /\ own.victim = call[c].victim
    BY <1>1, <2>1 DEF Call
  <2>4. NoIdleSlot'
    BY <2>2, NamesAssumption DEF NoIdleSlot
  <2>5. GoalFresh(own)'
    BY <1>1, <2>3 DEF QInv, CallsFit, GoalFresh
  <2>6. Displaced(own)'
    <3>1. CASE own.op # "read"
      BY <3>1 DEF Displaced
    <3>2. CASE own.op = "read"
      <4>1. Pop(call[c].victim) /\ call[c].op = "read"
        BY <1>4, <2>3, <3>2 DEF DiscardEnd
      <4>2. ~InSeq(call[c].key, pending) /\ call[c].todo = {} /\ Len(pending) = Slots /\ call[c].key \in Keys
        BY <1>1, <4>1 DEF QInv, CallsFit, Displaced, IInv, CallsMade
      <4>3. pending \in Seq(Keys) /\ Injective(pending)
        BY DEF IInv, TypeOK, TableExact, Injective
      <4>4. Len(pending') = Slots - 1 /\ ~InSeq(call[c].victim, pending') /\ ~InSeq(call[c].key, pending')
        BY <1>1, <1>2, <4>1, <4>2, <4>3, WithoutLength, WithoutElements DEF Pop
      <4>5. ~InSeq(call[c].victim, queue)
        BY <1>1 DEF QInv, QueueExact
      <4>6. call[c].victim # call[c].key
        BY <1>1, <4>2
      <4>7. QED
        BY <1>1, <2>3, <4>2, <4>4, <4>5, <4>6 DEF Displaced, InSeq
    <3>3. QED
      BY <3>1, <3>2
  <2>7. QED
    BY <1>1, <1>3, <2>2, <2>4, <2>5, <2>6, LockedStep
<1>5. CASE DiscardRaise(c) /\ call[c].op # "close"
  <2>1. call' = [call EXCEPT ![c] = Idle] /\ raised'
    BY <1>5 DEF DiscardRaise, Leave
  <2>2. NoIdleSlot' /\ GoalFresh(Idle)' /\ Displaced(Idle)'
    BY <2>1 DEF NoIdleSlot, GoalFresh, Displaced, Idle
  <2>3. QED
    BY <1>1, <1>3, <2>1, <2>2, LockedStep
<1>6. QED
  BY <1>4, <1>5

\* plan() builds the new queue.
LEMMA PlanQueueFits == ASSUME IInv, QInv, NEW c \in Callers, PlanReset(c) \/ PlanQueue(c) PROVE QInv'
<1>1. control = c /\ control' = c /\ call[c] \in Call /\ queue \in Seq(Keys) /\ UNCHANGED pending
  BY DEF PlanReset, PlanQueue, At, IInv, TypeOK
<1>2. NoIdleSlot'
  BY <1>1, NamesAssumption DEF NoIdleSlot
<1>3. CASE PlanReset(c)
  <2>1. PICK own : own = [call[c] EXCEPT !.at = "queue"]
    OBVIOUS
  <2>2. /\ call' = [call EXCEPT ![c] = own] /\ queue' = <<>>
        /\ own.op = "plan" /\ own.goal = call[c].goal /\ call[c].op = "plan"
    BY <1>1, <1>3, <2>1 DEF PlanReset, Call
  <2>3. QueueExact' /\ GoalFresh(own)' /\ Displaced(own)'
    BY <2>2, EmptyHasNone DEF QInv, CallsFit, QueueExact, GoalFresh, Displaced
  <2>4. QED
    BY <1>1, <1>2, <2>2, <2>3, LockedStep
<1>4. CASE PlanQueue(c) /\ call[c].goal = <<>>
  <2>1. PICK own : own = [call[c] EXCEPT !.at = "fill"]
    OBVIOUS
  <2>2. /\ call' = [call EXCEPT ![c] = own] /\ UNCHANGED queue /\ call[c].at = "queue"
        /\ own.op = call[c].op /\ own.goal = call[c].goal /\ own.at = "fill" /\ own.victim = call[c].victim
    BY <1>1, <1>4, <2>1 DEF PlanQueue, Call, At
  <2>3. call[c].op # "read"
    BY <2>2 DEF QInv, CallsFit, Displaced
  <2>4. QueueExact' /\ GoalFresh(own)' /\ Displaced(own)'
    BY <1>1, <2>2, <2>3 DEF QInv, CallsFit, QueueExact, GoalFresh, Displaced, InSeq
  <2>5. QED
    BY <1>1, <1>2, <2>2, <2>4, LockedStep
<1>5. CASE PlanQueue(c) /\ call[c].goal # <<>>
  <2>1. PICK own : own = [call[c] EXCEPT !.goal = Tail(call[c].goal)]
    OBVIOUS
  <2>2. /\ call' = [call EXCEPT ![c] = own] /\ call[c].at = "queue"
        /\ queue' = IF InSeq(Head(call[c].goal), pending) THEN queue ELSE Append(queue, Head(call[c].goal))
        /\ own.op = call[c].op /\ own.goal = Tail(call[c].goal) /\ own.at = "queue"
    BY <1>1, <1>5, <2>1 DEF PlanQueue, Call, At
  <2> DEFINE g == call[c].goal
             h == Head(g)
  <2>3. g \in Seq(Keys) /\ g # <<>>
    BY <1>1, <1>5 DEF Call
  <2>4. call[c].op = "plan"
    BY <1>1, <2>2 DEF QInv, CallsFit, Displaced, IInv, CallsMade, Locked, Call
  <2>5. Injective(g) /\ \A k \in Keys : InSeq(k, g) => ~InSeq(k, queue)
    BY <2>2, <2>4 DEF QInv, CallsFit, GoalFresh
  <2>6. /\ Tail(g) \in Seq(Keys) /\ h \in Keys /\ InSeq(h, g) /\ Injective(Tail(g)) /\ ~InSeq(h, Tail(g))
        /\ \A x : InSeq(x, g) <=> InSeq(x, Tail(g)) \/ x = h
    BY <2>3, <2>5, TailElements
  <2> HIDE DEF g, h
  <2>7. /\ Injective(queue')
        /\ \A x \in Keys : InSeq(x, queue') => InSeq(x, queue) \/ (x = h /\ ~InSeq(h, pending))
    <3>1. CASE InSeq(h, pending)
      BY <2>2, <3>1 DEF g, h, QInv, QueueExact
    <3>2. CASE ~InSeq(h, pending)
      <4>1. queue' = Append(queue, h) /\ ~InSeq(h, queue) /\ Injective(queue)
        BY <2>2, <2>5, <2>6, <3>2 DEF g, h, QInv, QueueExact
      <4>2. QED
        BY <1>1, <2>6, <3>2, <4>1, AppendElements
    <3>3. QED
      BY <3>1, <3>2
  <2>8. QueueExact'
    BY <1>1, <2>7 DEF QInv, QueueExact, InSeq
  <2>9. GoalFresh(own)'
    <3>1. \A x \in Keys : InSeq(x, Tail(g)) => ~InSeq(x, queue')
      BY <2>5, <2>6, <2>7
    <3>2. QED
      BY <2>2, <2>6, <3>1 DEF GoalFresh, g, InSeq
  <2>10. Displaced(own)'
    BY <2>2, <2>4 DEF Displaced
  <2>11. QED
    BY <1>1, <1>2, <2>2, <2>8, <2>9, <2>10, LockedStep
<1>6. QED
  BY <1>3, <1>4, <1>5

\* _fill submits one planned key.
LEMMA FillOneQueue == ASSUME IInv, QInv, NEW c \in Callers, FillOne(c) PROVE QInv'
<1>1. /\ control = c /\ control' = c /\ call' = call /\ call[c].at = "fill" /\ queue \in Seq(Keys) /\ queue # <<>>
      /\ queue' = Tail(queue) /\ pending \in Seq(Keys)
  BY DEF FillOne, At, MoreToFill, IInv, TypeOK
<1> DEFINE h == Head(queue)
<1>2. /\ Injective(queue') /\ ~InSeq(h, queue') /\ h \in Keys
      /\ \A x : InSeq(x, queue) <=> InSeq(x, queue') \/ x = h
  BY <1>1, TailElements DEF QInv, QueueExact
<1>3. ~InSeq(h, pending)
  BY <1>2 DEF QInv, QueueExact
<1>4. pending' = Append(pending, h)
  BY <1>3 DEF FillOne, Submit
<1> HIDE DEF h
<1>5. \A x : InSeq(x, pending') <=> InSeq(x, pending) \/ x = h
  BY <1>1, <1>2, <1>4, AppendElements
<1>6. QueueExact'
  <2>1. \A x \in Keys : InSeq(x, queue') => InSeq(x, queue) /\ x # h
    BY <1>2
  <2>2. \A x \in Keys : InSeq(x, queue') => ~InSeq(x, pending')
    BY <1>5, <2>1 DEF QInv, QueueExact
  <2>3. QED
    BY <1>2, <2>2 DEF QueueExact, InSeq
<1>7. NoIdleSlot'
  BY <1>1, NamesAssumption DEF NoIdleSlot
<1>8. GoalFresh(call[c]) /\ Displaced(call[c])
  BY DEF QInv, CallsFit
<1>9. PICK own : own = call[c]
  OBVIOUS
<1>10. GoalFresh(own)' /\ Displaced(own)'
  BY <1>1, <1>8, <1>9 DEF GoalFresh, Displaced
<1>11. call' = [call EXCEPT ![c] = own]
  BY <1>1, <1>9 DEF IInv, TypeOK
<1>12. QED
  BY <1>1, <1>6, <1>7, <1>10, <1>11, LockedStep

\* An operation gives the lock back: no slot idles while keys are planned.
LEMMA OperationEnds == ASSUME IInv, QInv, NEW c \in Callers, FillEnd(c) \/ CloseEnd(c) \/ ReadRetained(c) PROVE QInv'
<1>1. control \in {c, Nobody} /\ call' = [call EXCEPT ![c] = Idle] /\ UNCHANGED <<closed, pending, queue>>
  BY DEF FillEnd, CloseEnd, ReadRetained, Leave, At
<1>2. QueueExact'
  BY <1>1 DEF QInv, QueueExact, InSeq
<1>3. GoalFresh(Idle)' /\ Displaced(Idle)'
  BY DEF GoalFresh, Displaced, Idle
<1>4. NoIdleSlot'
  <2>1. CASE FillEnd(c)
    <3>1. Len(pending) \in Nat /\ Slots \in Nat /\ Len(pending) <= Slots
      BY LenProperties, SlotsAssumption DEF IInv, TypeOK, TableExact
    <3>2. closed \/ queue = <<>> \/ Len(pending) = Slots
      BY <2>1, <3>1 DEF FillEnd, MoreToFill
    <3>3. QED
      BY <1>1, <3>2 DEF NoIdleSlot
  <2>2. CASE CloseEnd(c)
    BY <1>1, <2>2 DEF CloseEnd, At, IInv, ClosesAll, NoIdleSlot
  <2>3. CASE ReadRetained(c)
    BY <1>1, <2>3 DEF ReadRetained, QInv, NoIdleSlot
  <2>4. QED
    BY <2>1, <2>2, <2>3
<1>5. QED
  BY <1>1, <1>2, <1>3, <1>4, LockedStep

\* read() of a prefetched record, and the end of a read.
LEMMA LeaseEndsQueue ==
    ASSUME IInv, QInv, NEW c \in Callers,
           \/ \E k \in Keys, consumer \in {c, Nobody} : ReadPrefetched(c, k, consumer)
           \/ ReadExit(c)
    PROVE  QInv'
<1>1. CASE ReadExit(c)
  <2>1. PICK own : own = [Idle EXCEPT !.op = "read", !.at = "fill"]
    OBVIOUS
  <2>2. /\ call' = [call EXCEPT ![c] = own] /\ control = Nobody /\ control' = c /\ UNCHANGED queue
        /\ own.op = "read" /\ own.at = "fill" /\ own.victim = Nobody
    BY <1>1, <2>1 DEF ReadExit, Idle
  <2>3. call[c].key \in Keys /\ Pop(call[c].key)
    BY <1>1 DEF IInv, CallsMade, Leasing, ReadExit
  <2>4. \A x \in Keys : InSeq(x, pending') => InSeq(x, pending)
    BY <2>3, TablePopped DEF IInv
  <2>5. QueueExact'
    BY <2>2, <2>4 DEF QInv, QueueExact, InSeq
  <2>6. NoIdleSlot' /\ GoalFresh(own)' /\ Displaced(own)'
    BY <2>2, NamesAssumption DEF NoIdleSlot, GoalFresh, Displaced
  <2>7. QED
    BY <2>2, <2>5, <2>6, LockedStep
<1>2. ASSUME NEW k \in Keys, NEW consumer \in {c, Nobody}, ReadPrefetched(c, k, consumer) PROVE QInv'
  <2>1. PICK own : own = [Idle EXCEPT !.op = "read", !.at = "wait", !.key = k, !.consumer = consumer]
    OBVIOUS
  <2>2. /\ call' = [call EXCEPT ![c] = own] /\ control = Nobody /\ control' = Nobody
        /\ UNCHANGED <<closed, pending, queue, raised>>
        /\ own.op = "read" /\ own.at = "wait"
    BY <1>2, <2>1 DEF ReadPrefetched, AwaitResult, Enter, Idle
  <2>3. QueueExact' /\ NoIdleSlot' /\ GoalFresh(own)' /\ Displaced(own)'
    BY <2>2 DEF QInv, QueueExact, NoIdleSlot, GoalFresh, Displaced, InSeq
  <2>4. QED
    BY <2>2, <2>3, LockedStep
<1>3. QED
  BY <1>1, <1>2

\* read() submits its own key: the queue loses the key, and the displaced one comes back.
LEMMA ReadSubmitsQueue ==
    ASSUME IInv, QInv, NEW c \in Callers, NEW k \in Keys, NEW consumer \in Callers \cup {Nobody},
           NEW q \in Seq(Keys), Injective(q), \A x \in Keys : InSeq(x, q) /\ x # k => ~InSeq(x, pending),
           control \in {c, Nobody}, queue' = Without(q, k), Submit(k, TRUE, consumer), AwaitResult(c, k, consumer),
           closed \/ raised \/ queue' = <<>> \/ Len(pending) + 1 = Slots, UNCHANGED <<closed, raised>>
    PROVE  QInv'
<1>1. PICK own : own = [Idle EXCEPT !.op = "read", !.at = "wait", !.key = k, !.consumer = consumer]
  OBVIOUS
<1>2. call' = [call EXCEPT ![c] = own] /\ own.op = "read" /\ own.at = "wait"
  BY <1>1 DEF AwaitResult, Idle
<1>3. /\ pending \in Seq(Keys) /\ pending' = Append(pending, k) /\ Len(pending') = Len(pending) + 1
      /\ \A x : InSeq(x, pending') <=> InSeq(x, pending) \/ x = k
  BY AppendElements DEF IInv, TypeOK, Submit
<1>4. Injective(queue') /\ \A x : InSeq(x, queue') <=> InSeq(x, q) /\ x # k
  BY WithoutElements
<1>5. QueueExact'
  <2>1. \A x \in Keys : InSeq(x, queue') => ~InSeq(x, pending')
    BY <1>3, <1>4
  <2>2. QED
    BY <1>4, <2>1 DEF QueueExact, InSeq
<1>6. NoIdleSlot' /\ GoalFresh(own)' /\ Displaced(own)'
  BY <1>2, <1>3 DEF NoIdleSlot, GoalFresh, Displaced
<1>7. QED
  BY <1>2, <1>5, <1>6, LockedStep

LEMMA ReadDemandQueue ==
    ASSUME IInv, QInv, NEW c \in Callers, NEW k \in Keys, NEW consumer \in {c, Nobody}, ReadDemand(c, k, consumer)
    PROVE  QInv'
<1>1. /\ control = Nobody /\ ~closed /\ Len(pending) < Slots /\ queue' = Without(queue, k)
      /\ Submit(k, TRUE, consumer) /\ AwaitResult(c, k, consumer) /\ UNCHANGED <<closed, raised>>
      /\ queue \in Seq(Keys)
  BY DEF ReadDemand, Enter, Open, IInv, TypeOK
<1>2. Len(pending) # Slots
  BY <1>1, SlotsAssumption, LenProperties DEF IInv, TypeOK
<1>3. raised \/ queue' = <<>>
  <2>1. raised \/ queue = <<>>
    BY <1>1, <1>2 DEF QInv, NoIdleSlot
  <2>2. Without(<<>>, k) = <<>>
    BY EmptyHasNone DEF Without
  <2>3. QED
    BY <1>1, <2>1, <2>2
<1>4. QED
  BY <1>1, <1>3, ReadSubmitsQueue DEF QInv, QueueExact

LEMMA ReadSubmitQueue == ASSUME IInv, QInv, NEW c \in Callers, ReadSubmit(c) PROVE QInv'
<1> DEFINE k == call[c].key
           v == call[c].victim
<1>1. /\ control = c /\ call[c].at = "discard" /\ call[c].op = "read" /\ call[c].todo = {} /\ call[c] \in Call
      /\ queue' = Without(<<v>> \o queue, k) /\ Submit(k, TRUE, call[c].consumer)
      /\ AwaitResult(c, k, call[c].consumer) /\ UNCHANGED <<closed, raised>> /\ queue \in Seq(Keys)
  BY DEF ReadSubmit, At, IInv, TypeOK
<1>2. k \in Keys /\ v \in Keys /\ call[c].consumer \in Callers \cup {Nobody}
  BY <1>1 DEF IInv, CallsMade, Call
<1>3. Len(pending) = Slots - 1 /\ v # k /\ ~InSeq(v, pending) /\ ~InSeq(v, queue)
  BY <1>1 DEF QInv, CallsFit, Displaced
<1>4. Len(pending) + 1 = Slots
  BY <1>3, SlotsAssumption
<1> HIDE DEF k, v
<1> DEFINE q == <<v>> \o queue
<1>5. q \in Seq(Keys) /\ Injective(q) /\ \A x : InSeq(x, q) <=> InSeq(x, queue) \/ x = v
  BY <1>1, <1>2, <1>3, ConsElements DEF QInv, QueueExact
<1>6. \A x \in Keys : InSeq(x, q) /\ x # k => ~InSeq(x, pending)
  BY <1>3, <1>5 DEF QInv, QueueExact
<1> HIDE DEF q
<1>7. queue' = Without(q, k)
  BY <1>1 DEF q
<1>8. QED
  BY <1>1, <1>2, <1>4, <1>5, <1>6, <1>7, ReadSubmitsQueue

LEMMA QueueInit == Init => QInv
BY EmptyHasNone DEF Init, QInv, QueueExact, CallsFit, GoalFresh, Displaced, NoIdleSlot, Idle

LEMMA QueueStep == ASSUME IInv, QInv, [Next]_vars PROVE QInv'
<1>1. CASE UNCHANGED vars
  BY <1>1, QueueKept DEF vars
<1>2. CASE \E k \in Keys : Fetch(k) \/ DropView(k)
  <2>1. UNCHANGED <<control, closed, pending, queue, call, raised>>
    <3>1. ASSUME NEW k \in Keys, Fetch(k) PROVE UNCHANGED CallerVars
      BY <3>1 DEF Fetch, FetchStart, FetchMap, FetchRead, FetchVerified, FetchInterrupted, FetchFailed, FetchAbort
    <3>2. QED
      BY <1>2, <3>1 DEF CallerVars, DropView
  <2>2. QED
    BY <2>1, QueueKept
<1>3. ASSUME NEW c \in Callers, Discard(c) \/ Plan(c) PROVE QInv'
  BY <1>3, DiscardBeginQueue, DiscardEndsQueue, PlanQueueFits, FillOneQueue, OperationEnds DEF Discard, Plan
<1>4. ASSUME NEW c \in Callers, Read(c) \/ BodyEnd(c) \/ CloseEnd(c) PROVE QInv'
  BY <1>4, LeaseGoesOn, ReadSubmitQueue, LeaseEndsQueue, OperationEnds DEF Read
<1>5. ASSUME NEW c \in Callers,
             \/ \E keys \in Plans : PlanBegin(c, keys)
             \/ CloseBegin(c)
             \/ \E k \in Keys, consumer \in {c, Nobody} :
                   ReadPrefetched(c, k, consumer) \/ ReadDemand(c, k, consumer) \/ ReadDisplace(c, k, consumer)
      PROVE QInv'
  <2>1. CASE \E k \in Keys, consumer \in {c, Nobody} : ReadPrefetched(c, k, consumer)
    BY <2>1, LeaseEndsQueue
  <2>2. CASE \E k \in Keys, consumer \in {c, Nobody} : ReadDemand(c, k, consumer)
    BY <2>2, ReadDemandQueue
  <2>3. CASE \/ \E keys \in Plans : PlanBegin(c, keys)
             \/ \E k \in Keys, consumer \in {c, Nobody} : ReadDisplace(c, k, consumer)
             \/ CloseBegin(c)
    BY <2>3, OperationBegins
  <2>4. QED
    BY <1>5, <2>1, <2>2, <2>3
<1>6. ASSUME NEW c \in Callers, SetCancel(c) PROVE QInv'
  <2>1. UNCHANGED <<control, closed, pending, queue, call, raised>>
    BY <1>6 DEF SetCancel
  <2>2. QED
    BY <2>1, QueueKept
<1>7. QED
  BY <1>1, <1>2, <1>3, <1>4, <1>5, <1>6 DEF Next

LEMMA QueueHolds == Spec => [](IInv /\ QInv)
<1>1. Init => IInv /\ QInv
  BY InitInv, QueueInit
<1>2. IInv /\ QInv /\ [Next]_vars => (IInv /\ QInv)'
  BY StepInv, QueueStep
<1>3. QED
  BY <1>1, <1>2, PTL DEF Spec

\* The plan queue has no duplicates and nothing that has a ticket, _submit never meets
\* its own assertion after a displacement, and no slot idles while planned keys wait
\* (plan(), _fill() and read()).
THEOREM PlanServed == Spec => []QueueServed
<1>1. ASSUME IInv, QInv PROVE QueueServed
  <2>1. \A i, j \in 1..Len(queue) : queue[i] = queue[j] => i = j
    BY <1>1 DEF QInv, QueueExact, Injective
  <2>2. ASSUME NEW i \in 1..Len(queue) PROVE ~InSeq(queue[i], pending)
    <3>1. queue[i] \in Keys /\ InSeq(queue[i], queue)
      BY <1>1, ElementOfSeq DEF IInv, TypeOK, InSeq
    <3>2. QED
      BY <1>1, <3>1 DEF QInv, QueueExact
  <2>3. ASSUME NEW c \in Callers, At(c, "discard"), call[c].op = "read", call[c].todo = {}
        PROVE  CanSubmit(call[c].key)
    <3>1. Len(pending) = Slots - 1 /\ ~InSeq(call[c].key, pending)
      BY <1>1, <2>3 DEF At, QInv, CallsFit, Displaced
    <3>2. QED
      BY <3>1, SlotsAssumption DEF CanSubmit
  <2>4. QED
    BY <1>1, <2>1, <2>2, <2>3 DEF QueueServed, QueueFresh, QInv
<1>2. IInv /\ QInv => QueueServed
  BY <1>1
<1>3. QED
  BY <1>2, QueueHolds, PTL

\* k's read was displaced and will be planned again.
Victim(k) == \E c \in Callers : call[c].op = "read" /\ call[c].victim = k
\* k may leave the schedule in this step.
Excused(k) ==
    \/ \E c \in Callers : call[c].at = "exit" /\ call[c].key = k
    \/ ticket[k].stage = "error"
    \/ control # Nobody /\ call[control].op \in {"plan", "close"}
    \/ closed'

LEMMA VictimStays ==
    ASSUME IInv, NEW c \in Callers, NEW new, call' = [call EXCEPT ![c] = new], NEW k \in Keys,
           call[c].op = "read" /\ call[c].victim = k => new.op = "read" /\ new.victim = k
    PROVE  Victim(k) => Victim(k)'
<1>1. \A d \in Callers : call'[d] = IF d = c THEN new ELSE call[d]
  BY DEF IInv, TypeOK
<1>2. QED
  BY <1>1 DEF Victim

\* A caller outside the lock, or about to give it back, displaces nothing.
LEMMA NoVictim ==
    ASSUME IInv, QInv, NEW c \in Callers, NEW k \in Keys,
           control # c \/ (call[c].op = "read" => call[c].at = "fill")
    PROVE  ~(call[c].op = "read" /\ call[c].victim = k)
BY NamesAssumption DEF IInv, CallsMade, QInv, CallsFit, Displaced

\* A step that keeps the table and the queue.
LEMMA KeptByCalls ==
    ASSUME IInv, QInv, NEW c \in Callers, NEW new, call' = [call EXCEPT ![c] = new], NEW k \in Keys, Scheduled(k),
           control # c \/ (call[c].op = "read" => call[c].at = "fill"),
           InSeq(k, pending) => InSeq(k, pending'), InSeq(k, queue) => InSeq(k, queue') \/ InSeq(k, pending')
    PROVE  Scheduled(k)'
<1>1. Victim(k) => Victim(k)'
  BY NoVictim, VictimStays
<1>2. QED
  BY <1>1 DEF Scheduled, Victim, InSeq

LEMMA StepKeepsPlan ==
    ASSUME IInv, QInv, [Next]_vars, NEW k \in Keys, Scheduled(k)
    PROVE  Scheduled(k)' \/ Excused(k)
<1>1. ASSUME UNCHANGED <<pending, queue, call>> PROVE Scheduled(k)'
  BY <1>1 DEF Scheduled, InSeq
<1>2. CASE UNCHANGED vars
  BY <1>1, <1>2 DEF vars
<1>3. CASE \E x \in Keys : Fetch(x) \/ DropView(x)
  <2>1. ASSUME NEW x \in Keys, Fetch(x) PROVE UNCHANGED CallerVars
    BY <2>1 DEF Fetch, FetchStart, FetchMap, FetchRead, FetchVerified, FetchInterrupted, FetchFailed, FetchAbort
  <2>2. UNCHANGED <<pending, queue, call>>
    BY <1>3, <2>1 DEF CallerVars, DropView
  <2>3. QED
    BY <1>1, <2>2
<1>4. ASSUME NEW c \in Callers, Discard(c) PROVE Scheduled(k)' \/ Excused(k)
  <2>1. control = c /\ control # Nobody /\ call[c] \in Call /\ call[c].op # "none"
    BY <1>4, NamesAssumption DEF Discard, DiscardBegin, DiscardEnd, DiscardRaise, At, IInv, TypeOK, CallsMade, Locked
  <2>2. CASE call[c].op # "read"
    BY <2>1, <2>2 DEF Call, Excused
  <2>3. CASE call[c].op = "read" /\ DiscardBegin(c)
    <3>1. PICK x : call' = [call EXCEPT ![c] = [call[c] EXCEPT !.at = "await", !.victim = x, !.todo = @ \ {x}]]
      BY <2>3 DEF DiscardBegin
    <3>2. call[c].victim # k /\ UNCHANGED <<pending, queue>>
      BY <2>3, NamesAssumption DEF DiscardBegin, At, QInv, CallsFit, Displaced
    <3>3. Victim(k) => Victim(k)'
      BY <3>1, <3>2, VictimStays
    <3>4. QED
      BY <3>2, <3>3 DEF Scheduled, Victim, InSeq
  <2>4. CASE call[c].op = "read" /\ DiscardEnd(c)
    <3>1. PICK own : own = [call[c] EXCEPT !.at = "discard"]
      OBVIOUS
    <3>2. /\ call' = [call EXCEPT ![c] = own] /\ own.op = "read" /\ own.victim = call[c].victim
          /\ Pop(call[c].victim) /\ call[c].victim \in Keys /\ UNCHANGED queue
      BY <2>1, <2>4, <3>1 DEF DiscardEnd, At, Call, IInv, DiscardsUnleased
    <3>3. Victim(k) => Victim(k)'
      BY <3>2, VictimStays
    <3>4. call'[c] = own
      BY <3>2 DEF IInv, TypeOK
    <3>5. InSeq(k, pending) => InSeq(k, pending') \/ Victim(k)'
      BY <3>2, <3>4, TablePopped DEF IInv, Victim
    <3>6. QED
      BY <3>2, <3>3, <3>5 DEF Scheduled, Victim, InSeq
  <2>5. CASE call[c].op = "read" /\ DiscardRaise(c)
    <3>1. call' = [call EXCEPT ![c] = Idle] /\ UNCHANGED queue /\ call[c].victim \in Keys
          /\ InSeq(call[c].victim, pending)
      BY <2>5 DEF DiscardRaise, Leave, At, IInv, DiscardsUnleased
    <3>2. CASE ticket[call[c].victim].stage = "error" /\ Pop(call[c].victim)
      <4>1. CASE k = call[c].victim
        BY <3>2, <4>1 DEF Excused
      <4>2. CASE k # call[c].victim
        <5>1. Victim(k) => Victim(k)'
          BY <3>1, <4>2, VictimStays
        <5>2. InSeq(k, pending) => InSeq(k, pending')
          BY <3>1, <3>2, <4>2, TablePopped DEF IInv
        <5>3. QED
          BY <3>1, <5>1, <5>2 DEF Scheduled, Victim, InSeq
      <4>3. QED
        BY <4>1, <4>2
    <3>3. CASE UNCHANGED pending
      <4>1. CASE k = call[c].victim
        BY <3>1, <3>3, <4>1 DEF Scheduled, InSeq
      <4>2. CASE k # call[c].victim
        <5>1. Victim(k) => Victim(k)'
          BY <3>1, <4>2, VictimStays
        <5>2. QED
          BY <3>1, <3>3, <5>1 DEF Scheduled, Victim, InSeq
      <4>3. QED
        BY <4>1, <4>2
    <3>4. QED
      BY <2>5, <3>2, <3>3 DEF DiscardRaise
  <2>6. QED
    BY <1>4, <2>2, <2>3, <2>4, <2>5 DEF Discard
<1>5. ASSUME NEW c \in Callers, Plan(c) PROVE Scheduled(k)' \/ Excused(k)
  <2>1. control = c /\ control # Nobody /\ call[c] \in Call
    BY <1>5, NamesAssumption DEF Plan, PlanReset, PlanQueue, FillOne, FillEnd, At, IInv, TypeOK
  <2>2. CASE call[c].op = "plan"
    BY <2>1, <2>2 DEF Excused
  <2>3. CASE call[c].op # "plan"
    <3>1. call[c].at \notin {"queue"} /\ (FillOne(c) \/ FillEnd(c))
      <4>1. ~PlanReset(c)
        BY <2>3 DEF PlanReset
      <4>2. call[c].at # "queue"
        BY <2>3 DEF IInv, CallsMade, Locked, Call, QInv, CallsFit, Displaced, TypeOK
      <4>3. QED
        BY <1>5, <4>1, <4>2 DEF Plan, PlanQueue, At
    <3>2. CASE FillEnd(c)
      BY <3>2, KeptByCalls DEF FillEnd, Leave, At
    <3>3. CASE FillOne(c)
      <4>1. /\ call' = [call EXCEPT ![c] = call[c]] /\ call[c].at = "fill" /\ queue \in Seq(Keys) /\ queue # <<>>
            /\ queue' = Tail(queue) /\ pending \in Seq(Keys)
            /\ (InSeq(Head(queue), pending) /\ UNCHANGED pending) \/ pending' = Append(pending, Head(queue))
        BY <3>3 DEF FillOne, Submit, At, MoreToFill, IInv, TypeOK
      <4>2. Head(queue) \in Keys /\ \A x : InSeq(x, queue) <=> InSeq(x, Tail(queue)) \/ x = Head(queue)
        BY <4>1, TailElements
      <4>3. /\ \A x : InSeq(x, pending) => InSeq(x, pending')
            /\ InSeq(Head(queue), pending')
        <5>1. CASE UNCHANGED pending
          BY <4>1, <4>2, <5>1, AppendElements
        <5>2. CASE pending' = Append(pending, Head(queue))
          BY <4>1, <4>2, <5>2, AppendElements
        <5>3. QED
          BY <4>1, <5>1, <5>2
      <4>4. QED
        BY <4>1, <4>2, <4>3, KeptByCalls
    <3>4. QED
      BY <3>1, <3>2, <3>3
  <2>4. QED
    BY <2>2, <2>3
<1>6. ASSUME NEW c \in Callers, CloseBegin(c) \/ CloseEnd(c) PROVE Excused(k)
  BY <1>6, NamesAssumption DEF CloseBegin, CloseEnd, At, Excused
<1>7. ASSUME NEW c \in Callers, NEW keys \in Plans, PlanBegin(c, keys) PROVE Scheduled(k)'
  BY <1>7, NamesAssumption, KeptByCalls DEF PlanBegin, Enter
<1>8. ASSUME NEW c \in Callers, NEW x \in Keys, NEW consumer \in {c, Nobody},
             ReadPrefetched(c, x, consumer) \/ ReadDisplace(c, x, consumer)
      PROVE  Scheduled(k)'
  <2>1. control # c /\ UNCHANGED <<pending, queue>> /\ \E new : call' = [call EXCEPT ![c] = new]
    BY <1>8, NamesAssumption DEF ReadPrefetched, ReadDisplace, AwaitResult, Enter
  <2>2. QED
    BY <2>1, KeptByCalls
<1>9. ASSUME NEW c \in Callers, NEW x \in Keys, NEW consumer \in {c, Nobody}, ReadDemand(c, x, consumer)
      PROVE  Scheduled(k)'
  <2>1. /\ control # c /\ queue' = Without(queue, x) /\ pending' = Append(pending, x)
        /\ \E new : call' = [call EXCEPT ![c] = new]
    BY <1>9, NamesAssumption DEF ReadDemand, Submit, AwaitResult, Enter
  <2>2. \A y : InSeq(y, queue') <=> InSeq(y, queue) /\ y # x
    <3>1. queue \in Seq(Keys) /\ Injective(queue)
      BY DEF IInv, TypeOK, QInv, QueueExact
    <3>2. QED
      BY <2>1, <3>1, WithoutElements
  <2>3. \A y : InSeq(y, pending') <=> InSeq(y, pending) \/ y = x
    BY <2>1, AppendElements DEF IInv, TypeOK
  <2>4. QED
    BY <2>1, <2>2, <2>3, KeptByCalls
<1>10. ASSUME NEW c \in Callers, ReadSubmit(c) PROVE Scheduled(k)'
  <2> DEFINE x == call[c].key
             v == call[c].victim
             q == <<v>> \o queue
  <2>1. /\ call[c].at = "discard" /\ call[c].op = "read" /\ call[c].todo = {}
        /\ queue' = Without(q, x) /\ pending' = Append(pending, x) /\ queue \in Seq(Keys) /\ pending \in Seq(Keys)
        /\ \E new : call' = [call EXCEPT ![c] = new]
    BY <1>10 DEF ReadSubmit, Submit, AwaitResult, At, IInv, TypeOK
  <2>2. x \in Keys /\ v \in Keys /\ v # x /\ ~InSeq(v, queue)
    BY <2>1 DEF IInv, CallsMade, QInv, CallsFit, Displaced
  <2>3. q \in Seq(Keys) /\ Injective(q) /\ \A y : InSeq(y, q) <=> InSeq(y, queue) \/ y = v
    BY <2>1, <2>2, ConsElements DEF QInv, QueueExact
  <2>4. \A y : InSeq(y, queue') <=> InSeq(y, q) /\ y # x
    <3> HIDE DEF q, x, v
    <3>1. \A y : InSeq(y, Without(q, x)) <=> InSeq(y, q) /\ y # x
      BY <2>3, WithoutElements
    <3>2. QED
      BY <2>1, <3>1
  <2>5. \A y : InSeq(y, pending') <=> InSeq(y, pending) \/ y = x
    BY <2>1, <2>2, AppendElements
  <2>6. CASE k = v \/ k = x
    BY <2>3, <2>4, <2>5, <2>6 DEF Scheduled, InSeq
  <2>7. CASE k # v /\ k # x
    <3>1. Victim(k) => Victim(k)'
      BY <2>1, <2>7, VictimStays
    <3>2. QED
      BY <2>3, <2>4, <2>5, <2>7, <3>1 DEF Scheduled, Victim, InSeq
  <2>8. QED
    BY <2>6, <2>7
<1>11. ASSUME NEW c \in Callers, ReadYield(c) \/ ReadAbort(c) \/ BodyEnd(c) \/ ReadRetained(c) PROVE Scheduled(k)'
  <2>1. UNCHANGED <<pending, queue>> /\ \E new : call' = [call EXCEPT ![c] = new]
    BY <1>11 DEF ReadYield, ReadAbort, BodyEnd, ReadRetained, Leave
  <2>2. control # c
    BY <1>11 DEF ReadYield, ReadAbort, BodyEnd, ReadRetained, IInv, CallsMade, Locked
  <2>3. QED
    BY <2>1, <2>2, KeptByCalls
<1>12. ASSUME NEW c \in Callers, ReadExit(c) PROVE Scheduled(k)' \/ Excused(k)
  <2>1. /\ Pop(call[c].key) /\ UNCHANGED queue /\ call[c].at = "exit" /\ control # c
        /\ \E new : call' = [call EXCEPT ![c] = new]
    BY <1>12, NamesAssumption DEF ReadExit
  <2>2. call[c].key \in Keys
    BY <2>1 DEF IInv, CallsMade, Leasing
  <2>3. CASE k = call[c].key
    BY <2>1, <2>3 DEF Excused
  <2>4. CASE k # call[c].key
    BY <2>1, <2>2, <2>4, TablePopped, KeptByCalls DEF IInv
  <2>5. QED
    BY <2>3, <2>4
<1>13. ASSUME NEW c \in Callers, SetCancel(c) PROVE Scheduled(k)'
  BY <1>1, <1>13 DEF SetCancel
<1>14. QED
  BY <1>2, <1>3, <1>4, <1>5, <1>6, <1>7, <1>8, <1>9, <1>10, <1>11, <1>12, <1>13 DEF Next, Read

\* Planned work is never dropped on the way: what leaves the table and the queue was
\* read, failed, or was given up by a new plan or by close() (_discard, _fill, read()).
THEOREM PlanKept == Spec => PlannedWorkKept
<1>1. ASSUME IInv, QInv, [Next]_vars
      PROVE  [\A k \in Keys : Scheduled(k) /\ ~Scheduled(k)' =>
                 \/ \E c \in Callers : call[c].at = "exit" /\ call[c].key = k
                 \/ ticket[k].stage = "error"
                 \/ control # Nobody /\ call[control].op \in {"plan", "close"}
                 \/ closed']_vars
  BY <1>1, StepKeepsPlan DEF Excused
<1>2. QED
  BY <1>1, QueueHolds, PTL DEF Spec, PlannedWorkKept

-----------------------------------------------------------------------------
(* The store implements the leases of StagingSlots.                        *)

\* The mapped state that a step leaves alone.
Stutter == UNCHANGED <<Held, Verified, Lessee, Shown, closed>>

-----------------------------------------------------------------------------
(* What a step does to the mapped state.                                     *)

LEMMA OnlyOne == /\ Only({}) = Nobody
                 /\ \A c : Only({c}) = c
BY DEF Only

\* The table decides who is held, the tickets which are verified.
LEMMA TicketsMapped ==
    ASSUME pending' = pending, \A k \in Keys : (ticket'[k].stage = "done") <=> (ticket[k].stage = "done")
    PROVE  Held' = Held /\ Verified' = Verified
BY DEF Held, Verified

\* One caller's call changes: only its lease and what it is shown may change.
LEMMA CallMoves ==
    ASSUME NEW c \in Callers, \A d \in Callers : d # c => call'[d] = call[d]
    PROVE  /\ \A k \in Keys : Lessors(k)' = IF call'[c].at \in Leasing /\ call'[c].key = k
                                            THEN Lessors(k) \cup {c} ELSE Lessors(k) \ {c}
           /\ Shown' = [Shown EXCEPT ![c] = IF call'[c].at = "body" THEN call'[c].key ELSE Nobody]
<1>1. ASSUME NEW k \in Keys
      PROVE  Lessors(k)' = IF call'[c].at \in Leasing /\ call'[c].key = k
                           THEN Lessors(k) \cup {c} ELSE Lessors(k) \ {c}
  BY DEF Lessors, Leases, Leasing
<1>2. Shown' = [Shown EXCEPT ![c] = IF call'[c].at = "body" THEN call'[c].key ELSE Nobody]
  <2> DEFINE Sees(told) == IF told.at = "body" THEN told.key ELSE Nobody
  <2>1. Shown = [d \in Callers |-> Sees(call[d])] /\ Shown' = [d \in Callers |-> Sees(call'[d])]
    BY DEF Shown
  <2> HIDE DEF Sees
  <2>2. Shown' = [Shown EXCEPT ![c] = Sees(call'[c])]
    BY <2>1
  <2>3. QED
    BY <2>2 DEF Sees
<1>3. QED
  BY <1>1, <1>2

\* A call that neither has a lease nor gets one.
LEMMA Bystander ==
    ASSUME NEW c \in Callers, \A d \in Callers : d # c => call'[d] = call[d],
           call[c].at \notin Leasing, call'[c].at \notin Leasing
    PROVE  Lessee' = Lessee /\ Shown' = Shown
<1>1. \A k \in Keys : Lessors(k)' = Lessors(k) \ {c}
  BY CallMoves
<1>2. \A k \in Keys : c \notin Lessors(k)
  BY DEF Lessors, Leases, Leasing
<1>3. \A k \in Keys : Lessors(k)' = Lessors(k)
  BY <1>1, <1>2
<1>4. Lessee' = Lessee
  BY <1>3 DEF Lessee
<1>5. Shown' = [Shown EXCEPT ![c] = Nobody]
  BY CallMoves DEF Leasing
<1>6. Shown = [Shown EXCEPT ![c] = Nobody]
  BY DEF Shown, Leasing
<1>7. QED
  BY <1>4, <1>5, <1>6

\* A call that keeps its lease.
LEMMA KeepsLease ==
    ASSUME NEW c \in Callers, \A d \in Callers : d # c => call'[d] = call[d],
           call[c].at \in Leasing, call'[c].at \in Leasing, call'[c].key = call[c].key
    PROVE  Lessee' = Lessee
<1>1. \A k \in Keys : Lessors(k)' = Lessors(k)
  BY CallMoves DEF Lessors, Leases, Leasing
<1>2. QED
  BY <1>1 DEF Lessee

\* The same calls: the same leases and the same keys shown.
LEMMA CallsMapped == ASSUME call' = call PROVE Lessee' = Lessee /\ Shown' = Shown
BY DEF Lessee, Lessors, Leases, Shown

-----------------------------------------------------------------------------
(* The leases.                                                               *)

LEMMA LessorIsLessee ==
    ASSUME IInv, NEW c \in Callers, NEW k \in Keys, Leases(c, k)
    PROVE  Lessors(k) = {c} /\ Lessee[k] = c
<1>1. Lessors(k) = {c}
  BY DEF IInv, LeaseExclusive, Lessors
<1>2. QED
  BY <1>1, OnlyOne DEF Lessee

LEMMA UnclaimedIsFree ==
    ASSUME IInv, NEW k \in Keys, ~ticket[k].claimed
    PROVE  Lessors(k) = {} /\ Lessee[k] = Nobody /\ \A c \in Callers : Shown[c] # k
<1>1. Lessors(k) = {}
  BY DEF IInv, LeaseExclusive, Lessors
<1>2. \A c \in Callers : Shown[c] # k
  BY <1>1, NamesAssumption DEF Shown, Lessors, Leases
<1>3. QED
  BY <1>1, <1>2, OnlyOne DEF Lessee

\* A key without a ticket has no lessee.
LEMMA AbsentIsFree ==
    ASSUME IInv, NEW k \in Keys, ~InSeq(k, pending)
    PROVE  Lessors(k) = {} /\ Lessee[k] = Nobody
<1>1. Lessors(k) = {}
  BY DEF IInv, LeaseExclusive, Lessors
<1>2. QED
  BY <1>1, OnlyOne DEF Lessee

\* No more keys are held than the table is long.
LEMMA HeldFits == ASSUME IInv, Len(pending) < Slots PROVE Cardinality(Held) < Slots
<1>1. Held \in SUBSET Keys /\ \A k \in Held : ticket[k].stage # "none"
  BY DEF Held, IInv, TableExact
<1>2. Cardinality(Held) <= Len(pending) /\ Cardinality(Held) \in Nat /\ Len(pending) \in Nat
  BY <1>1, TableFits DEF IInv
<1>3. QED
  BY <1>2, SlotsAssumption

-----------------------------------------------------------------------------
(* Steps of the store and what they are to its consumers.                    *)

Implements == [Staged!SNext]_(Staged!sVars)

LEMMA Stutters == ASSUME Stutter PROVE Implements
BY DEF Stutter, Implements, Staged!sVars

\* Both modules count with the same operator.
LEMMA CountAlike == \A S : Staged!Cardinality(S) = Cardinality(S)
BY DEF Staged!Cardinality, Cardinality

LEMMA MappedTypes ==
    /\ Held \in SUBSET Keys /\ Verified \in SUBSET Keys
    /\ Lessee = [k \in Keys |-> Lessee[k]] /\ Shown = [c \in Callers |-> Shown[c]]
BY DEF Held, Verified, Lessee, Shown

\* A reader verifies a record, or nothing is seen of what it does.
LEMMA FetchMaps == ASSUME IInv, NEW k \in Keys, Fetch(k) PROVE Implements
<1>1. /\ ticket \in [Keys -> Ticket] /\ pending' = pending /\ closed' = closed /\ call' = call
      /\ ticket[k].stage # "none" /\ ticket[k].stage # "done"
  BY DEF IInv, TypeOK, Fetch, FetchStart, FetchMap, FetchRead, FetchVerified, FetchInterrupted,
         FetchFailed, FetchAbort, CallerVars, Reading
<1>2. Lessee' = Lessee /\ Shown' = Shown
  BY <1>1, CallsMapped
<1>3. PICK stage : ticket' = [ticket EXCEPT ![k].stage = stage] /\ (stage = "done" => FetchVerified(k))
  BY DEF Fetch, FetchStart, FetchMap, FetchRead, FetchVerified, FetchInterrupted, FetchFailed, FetchAbort
<1>4. \A x \in Keys : ticket'[x].stage = IF x = k THEN stage ELSE ticket[x].stage
  BY <1>1, <1>3 DEF Ticket
<1>5. CASE stage # "done"
  <2>1. Held' = Held /\ Verified' = Verified
    BY <1>1, <1>4, <1>5, TicketsMapped
  <2>2. QED
    BY <1>1, <1>2, <2>1, Stutters DEF Stutter
<1>6. CASE stage = "done"
  <2>1. Held' = Held /\ k \in Held
    BY <1>1 DEF Held, IInv, TableExact
  <2>2. Verified' = Verified \cup {k}
    BY <1>4, <1>6 DEF Verified
  <2>3. Staged!Verify(k)
    BY <1>1, <1>2, <2>1, <2>2 DEF Staged!Verify
  <2>4. QED
    BY <2>3 DEF Implements, Staged!SNext
<1>7. QED
  BY <1>5, <1>6

\* Steps of plan(), read() and close() that only move the call on.
LEMMA CallGoesOnMaps ==
    ASSUME IInv, NEW c \in Callers,
           \/ \E keys \in Plans : PlanBegin(c, keys)
           \/ \E k \in Keys, consumer \in {c, Nobody} : ReadDisplace(c, k, consumer)
           \/ PlanReset(c) \/ PlanQueue(c) \/ FillEnd(c) \/ CloseEnd(c)
    PROVE  Implements
<1>1. call \in [Callers -> Call]
  BY DEF IInv, TypeOK
<1>2. /\ \A d \in Callers : d # c => call'[d] = call[d]
      /\ call[c].at \notin Leasing /\ call'[c].at \notin Leasing
  <2>1. ASSUME NEW keys \in Plans, PlanBegin(c, keys) PROVE <1>2!:
    BY <1>1, <2>1 DEF PlanBegin, Enter, Leasing, Call, Idle
  <2>2. ASSUME NEW k \in Keys, NEW consumer \in {c, Nobody}, ReadDisplace(c, k, consumer) PROVE <1>2!:
    BY <1>1, <2>2, ZenonT(40) DEF ReadDisplace, Enter, Leasing, Call, Idle
  <2>3. CASE PlanReset(c) \/ PlanQueue(c)
    BY <1>1, <2>3 DEF PlanReset, PlanQueue, At, Leasing, Call
  <2>4. CASE FillEnd(c) \/ CloseEnd(c)
    BY <1>1, <2>4 DEF FillEnd, CloseEnd, At, Leave, Leasing, Call, Idle
  <2>5. QED
    BY <2>1, <2>2, <2>3, <2>4
<1>3. UNCHANGED <<pending, ticket, closed>>
  BY DEF PlanBegin, ReadDisplace, PlanReset, PlanQueue, FillEnd, CloseEnd
<1>4. Held' = Held /\ Verified' = Verified
  BY <1>3, TicketsMapped
<1>5. QED
  BY <1>2, <1>3, <1>4, Bystander, Stutters DEF Stutter

\* A dropped view and a cancel event are not seen, nor is a step of anything else.
LEMMA EnvironmentMaps ==
    ASSUME (\E k \in Keys : DropView(k)) \/ (\E c \in Callers : SetCancel(c)) \/ UNCHANGED vars
    PROVE  Implements
<1>1. UNCHANGED <<pending, ticket, closed, call>>
  BY DEF DropView, SetCancel, vars
<1>2. QED
  BY <1>1, TicketsMapped, CallsMapped, Stutters DEF Stutter

\* close() begins only while nobody has a lease.
LEMMA CloseBeginMaps == ASSUME IInv, NEW c \in Callers, CloseBegin(c) PROVE Implements
<1>1. call \in [Callers -> Call]
  BY DEF IInv, TypeOK
<1>2. /\ \A d \in Callers : d # c => call'[d] = call[d]
      /\ call[c].at \notin Leasing /\ call'[c].at \notin Leasing
  BY <1>1 DEF CloseBegin, Enter, Leasing, Call, Idle
<1>3. UNCHANGED <<pending, ticket>> /\ closed' = TRUE
  BY DEF CloseBegin
<1>4. Held' = Held /\ Verified' = Verified /\ Lessee' = Lessee /\ Shown' = Shown
  BY <1>2, <1>3, TicketsMapped, Bystander
<1>5. ASSUME NEW k \in Keys PROVE Lessee[k] = Nobody
  <2>1. CASE InSeq(k, pending)
    <3>1. ~ticket[k].claimed
      BY <2>1 DEF CloseBegin, InSeq
    <3>2. QED
      BY <3>1, UnclaimedIsFree
  <2>2. CASE ~InSeq(k, pending)
    BY <2>2, AbsentIsFree
  <2>3. QED
    BY <2>1, <2>2
<1>6. Staged!Shut
  BY <1>3, <1>4, <1>5 DEF Staged!Shut
<1>7. QED
  BY <1>6 DEF Implements, Staged!SNext

\* A discard begins: no byte that was verified is lost yet.
LEMMA DiscardBeginMaps == ASSUME IInv, NEW c \in Callers, DiscardBegin(c) PROVE Implements
<1>1. call \in [Callers -> Call] /\ ticket \in [Keys -> Ticket] /\ call[c].at = "discard"
  BY DEF IInv, TypeOK, DiscardBegin, At
<1>2. /\ \A d \in Callers : d # c => call'[d] = call[d]
      /\ call[c].at \notin Leasing /\ call'[c].at \notin Leasing
  BY <1>1 DEF DiscardBegin, Leasing, Call
<1>3. UNCHANGED <<pending, closed>> /\ \A k \in Keys : (ticket'[k].stage = "done") <=> (ticket[k].stage = "done")
  BY <1>1 DEF DiscardBegin, Ticket
<1>4. QED
  BY <1>2, <1>3, TicketsMapped, Bystander, Stutters DEF Stutter

\* A record that leaves the table is held no more and verified no more.
LEMMA Unmapped ==
    ASSUME IInv, NEW k \in Keys, Pop(k)
    PROVE  Held' = Held \ {k} /\ Verified' = Verified \ {k}
<1>1. \A x \in Keys : InSeq(x, pending') <=> InSeq(x, pending) /\ x # k
  BY TablePopped DEF IInv, InSeq
<1>2. \A x \in Keys : ticket'[x] = IF x = k THEN NoTicket ELSE ticket[x]
  BY DEF Pop, IInv, TypeOK
<1>3. QED
  BY <1>1, <1>2 DEF Held, Verified, NoTicket

\* A discard ends: its slot is free, or it is kept by an exported view.
LEMMA DiscardEndsMap == ASSUME IInv, NEW c \in Callers, DiscardEnd(c) \/ DiscardRaise(c) PROVE Implements
<1> DEFINE k == call[c].victim
<1>1. call \in [Callers -> Call] /\ call[c].at = "await" /\ closed' = closed
  BY DEF IInv, TypeOK, DiscardEnd, DiscardRaise, At
<1>2. k \in Keys /\ InSeq(k, pending) /\ ~ticket[k].claimed
  BY <1>1, NamesAssumption DEF IInv, DiscardsUnleased
<1>3. /\ \A d \in Callers : d # c => call'[d] = call[d]
      /\ call[c].at \notin Leasing /\ call'[c].at \notin Leasing
  BY <1>1 DEF DiscardEnd, DiscardRaise, Leave, Leasing, Call, Idle
<1>4. Lessee' = Lessee /\ Shown' = Shown
  BY <1>3, Bystander
<1>5. Pop(k) \/ UNCHANGED <<pending, ticket>>
  BY DEF DiscardEnd, DiscardRaise
<1> HIDE DEF k
<1>6. CASE Pop(k)
  <2>1. Held' = Held \ {k} /\ Verified' = Verified \ {k} /\ k \in Held
    BY <1>2, <1>6, Unmapped DEF Held
  <2>2. Lessee[k] = Nobody /\ \A d \in Callers : Shown[d] # k
    BY <1>2, UnclaimedIsFree
  <2>3. Lessee' = [Lessee EXCEPT ![k] = Nobody]
    BY <1>4, <2>2, MappedTypes
  <2>4. Staged!Free(k)
    BY <1>1, <1>4, <2>1, <2>2, <2>3 DEF Staged!Free
  <2>5. QED
    BY <1>2, <2>4 DEF Implements, Staged!SNext
<1>7. CASE UNCHANGED <<pending, ticket>>
  BY <1>1, <1>4, <1>7, TicketsMapped, Stutters DEF Stutter
<1>8. QED
  BY <1>5, <1>6, <1>7

\* A record that enters the table is held, and its bytes are not verified.
LEMMA Taken ==
    ASSUME IInv, NEW k \in Keys, NEW claimed, NEW consumer, Submit(k, claimed, consumer)
    PROVE  /\ Held' = Held \cup {k} /\ Verified' = Verified /\ k \notin Held
           /\ Cardinality(Held) < Slots /\ Lessors(k) = {} /\ Lessee[k] = Nobody
<1>1. pending \in Seq(Keys) /\ pending' = Append(pending, k) /\ ~InSeq(k, pending) /\ Len(pending) < Slots
  BY DEF IInv, TypeOK, Submit, CanSubmit
<1>2. \A x : InSeq(x, pending') <=> InSeq(x, pending) \/ x = k
  BY <1>1, AppendElements
<1>3. Held' = Held \cup {k} /\ k \notin Held
  BY <1>1, <1>2 DEF Held
<1>4. /\ ticket[k].stage # "done" /\ ticket'[k].stage # "done"
      /\ \A x \in Keys : x # k => ticket'[x] = ticket[x]
  BY <1>1 DEF IInv, TypeOK, TableExact, Submit
<1>5. Verified' = Verified
  BY <1>4 DEF Verified
<1>6. QED
  BY <1>1, <1>3, <1>5, HeldFits, AbsentIsFree

\* A slot is filled ahead of any demand.
LEMMA FillOneMaps == ASSUME IInv, NEW c \in Callers, FillOne(c) PROVE Implements
<1> DEFINE k == Head(queue)
<1>1. queue # <<>> /\ closed = FALSE /\ closed' = closed /\ call' = call /\ queue \in Seq(Keys)
  BY DEF FillOne, MoreToFill, IInv, TypeOK
<1>2. k \in Keys
  BY <1>1, HeadTailProperties
<1>3. Lessee' = Lessee /\ Shown' = Shown
  BY <1>1, CallsMapped
<1>4. CASE InSeq(k, pending)
  BY <1>1, <1>3, <1>4, TicketsMapped, Stutters DEF Stutter, FillOne
<1>5. CASE ~InSeq(k, pending)
  <2>1. Submit(k, FALSE, Nobody)
    BY <1>5 DEF FillOne
  <2> HIDE DEF k
  <2>2. /\ Held' = Held \cup {k} /\ Verified' = Verified /\ k \notin Held
        /\ Cardinality(Held) < Slots /\ Lessee[k] = Nobody
    BY <1>2, <2>1, Taken
  <2>3. Lessee' = [Lessee EXCEPT ![k] = Nobody]
    BY <1>3, <2>2, MappedTypes
  <2>4. Staged!Take(Nobody, k)
    BY <1>1, <1>3, <2>2, <2>3, CountAlike DEF Staged!Take
  <2>5. QED
    BY <1>2, <2>4 DEF Implements, Staged!SNext
<1>6. QED
  BY <1>4, <1>5

\* A call that begins its lease of k is k's lessee, and is shown nothing yet.
LEMMA Leased ==
    ASSUME IInv, NEW c \in Callers, NEW k \in Keys, NEW consumer, AwaitResult(c, k, consumer),
           Lessors(k) = {}, call[c].at \notin Leasing
    PROVE  Lessee' = [Lessee EXCEPT ![k] = c] /\ Shown' = Shown
<1>1. call \in [Callers -> Call]
  BY DEF IInv, TypeOK
<1>2. /\ \A d \in Callers : d # c => call'[d] = call[d]
      /\ call'[c].at = "wait" /\ call'[c].key = k
  BY <1>1 DEF AwaitResult, Idle
<1>3. /\ \A x \in Keys : Lessors(x)' = IF x = k THEN Lessors(x) \cup {c} ELSE Lessors(x) \ {c}
      /\ Shown' = [Shown EXCEPT ![c] = Nobody]
  BY <1>2, CallMoves DEF Leasing
<1>4. \A x \in Keys : c \notin Lessors(x)
  BY DEF Lessors, Leases, Leasing
<1>5. Lessors(k)' = {c} /\ \A x \in Keys : x # k => Lessors(x)' = Lessors(x)
  BY <1>3, <1>4
<1>6. Lessee' = [Lessee EXCEPT ![k] = c]
  <2>1. Only({c}) = c
    BY OnlyOne
  <2>2. QED
    BY <1>5, <2>1 DEF Lessee
<1>7. Shown = [Shown EXCEPT ![c] = Nobody]
  BY DEF Shown, Leasing
<1>8. QED
  BY <1>3, <1>6, <1>7

\* A prefetched record is leased.
LEMMA ReadPrefetchedMaps ==
    ASSUME IInv, NEW c \in Callers, NEW k \in Keys, NEW consumer \in {c, Nobody}, ReadPrefetched(c, k, consumer)
    PROVE  Implements
<1>1. /\ InSeq(k, pending) /\ ~ticket[k].claimed /\ AwaitResult(c, k, consumer)
      /\ call[c].at \notin Leasing /\ ~closed /\ UNCHANGED <<closed, pending>>
  BY DEF ReadPrefetched, Enter, Open, Leasing
<1>2. Lessors(k) = {} /\ Lessee[k] = Nobody
  BY <1>1, UnclaimedIsFree
<1>3. Lessee' = [Lessee EXCEPT ![k] = c] /\ Shown' = Shown
  BY <1>1, <1>2, Leased
<1>4. \A x \in Keys : (ticket'[x].stage = "done") <=> (ticket[x].stage = "done")
  BY DEF ReadPrefetched, IInv, TypeOK, Ticket
<1>5. Held' = Held /\ Verified' = Verified /\ k \in Held
  BY <1>1, <1>4, TicketsMapped DEF Held
<1>6. Staged!Lease(c, k)
  BY <1>1, <1>2, <1>3, <1>5 DEF Staged!Lease
<1>7. QED
  BY <1>6 DEF Implements, Staged!SNext

\* A slot is taken for the caller that needs it, after a displacement or without one.
LEMMA ReadSubmitsMap ==
    ASSUME IInv, NEW c \in Callers, NEW k \in Keys, NEW consumer, Submit(k, TRUE, consumer),
           AwaitResult(c, k, consumer), ~closed, closed' = closed, call[c].at \notin Leasing
    PROVE  Implements
<1>1. /\ Held' = Held \cup {k} /\ Verified' = Verified /\ k \notin Held
      /\ Cardinality(Held) < Slots /\ Lessors(k) = {}
  BY Taken
<1>2. Lessee' = [Lessee EXCEPT ![k] = c] /\ Shown' = Shown
  BY <1>1, Leased
<1>3. Staged!Take(c, k)
  BY <1>1, <1>2, CountAlike DEF Staged!Take
<1>4. QED
  BY <1>3 DEF Implements, Staged!SNext

LEMMA ReadDemandMaps ==
    ASSUME IInv, NEW c \in Callers, NEW k \in Keys, NEW consumer \in {c, Nobody}, ReadDemand(c, k, consumer)
    PROVE  Implements
BY ReadSubmitsMap DEF ReadDemand, Enter, Open, Leasing

LEMMA ReadSubmitMaps == ASSUME IInv, NEW c \in Callers, ReadSubmit(c) PROVE Implements
<1>1. /\ call[c].at = "discard" /\ call[c].op = "read" /\ closed' = closed
      /\ Submit(call[c].key, TRUE, call[c].consumer) /\ AwaitResult(c, call[c].key, call[c].consumer)
  BY DEF ReadSubmit, At
<1>2. call[c].key \in Keys /\ ~closed
  BY <1>1 DEF IInv, CallsMade, ClosesAll
<1>3. QED
  BY <1>1, <1>2, ReadSubmitsMap DEF Leasing

\* A caller shows what it leases once it is verified, and hides it again.
LEMMA ReaderGoesOnMaps ==
    ASSUME IInv, NEW c \in Callers, ReadYield(c) \/ ReadAbort(c) \/ BodyEnd(c)
    PROVE  Implements
<1> DEFINE k == call[c].key
<1>1. /\ call \in [Callers -> Call] /\ call[c].at \in {"wait", "body"} /\ UNCHANGED <<pending, ticket, closed>>
  BY DEF IInv, TypeOK, ReadYield, ReadAbort, BodyEnd
<1>2. k \in Keys /\ Leases(c, k) /\ k # Nobody
  BY <1>1, NamesAssumption DEF IInv, CallsMade, Leasing, Leases
<1>3. /\ \A d \in Callers : d # c => call'[d] = call[d]
      /\ call'[c].key = k /\ call'[c].at = IF ReadYield(c) THEN "body" ELSE "exit"
  <2>1. CASE ReadYield(c)
    BY <1>1, <2>1 DEF ReadYield, Call
  <2>2. CASE ~ReadYield(c)
    BY <1>1, <2>2 DEF ReadAbort, BodyEnd, Call
  <2>3. QED
    BY <2>1, <2>2
<1>4. Lessee[k] = c
  BY <1>2, LessorIsLessee
<1>5. Held' = Held /\ Verified' = Verified
  BY <1>1, TicketsMapped
<1>6. Lessee' = Lessee
  BY <1>1, <1>3, KeepsLease DEF Leasing
<1>7. Shown' = [Shown EXCEPT ![c] = IF ReadYield(c) THEN k ELSE Nobody]
  BY <1>3, CallMoves
<1>8. Shown[c] = IF call[c].at = "body" THEN k ELSE Nobody
  BY DEF Shown
<1>9. CASE ReadYield(c)
  <2>1. k \in Verified /\ call[c].at = "wait"
    BY <1>2, <1>9 DEF ReadYield, Verified
  <2> HIDE DEF k
  <2>2. Staged!Show(c, k)
    BY <1>1, <1>4, <1>5, <1>6, <1>7, <1>8, <1>9, <2>1 DEF Staged!Show
  <2>3. QED
    BY <1>2, <2>2 DEF Implements, Staged!SNext
<1>10. CASE ~ReadYield(c) /\ call[c].at = "body"
  <2> HIDE DEF k
  <2>1. Staged!Hide(c)
    BY <1>1, <1>2, <1>5, <1>6, <1>7, <1>8, <1>10 DEF Staged!Hide
  <2>2. QED
    BY <2>1 DEF Implements, Staged!SNext
<1>11. CASE ~ReadYield(c) /\ call[c].at # "body"
  <2>1. Shown' = Shown
    BY <1>7, <1>8, <1>11, MappedTypes
  <2>2. QED
    BY <1>1, <1>5, <1>6, <2>1, Stutters DEF Stutter
<1>12. QED
  BY <1>9, <1>10, <1>11

\* The lessee of k goes: nobody leases it any more, and nothing was shown to it.
LEMMA LessorLeaves ==
    ASSUME IInv, NEW c \in Callers, NEW k \in Keys, call[c].at = "exit", call[c].key = k,
           \A d \in Callers : d # c => call'[d] = call[d], call'[c].at \notin Leasing
    PROVE  /\ Lessee' = [Lessee EXCEPT ![k] = Nobody] /\ Lessee[k] = c
           /\ Shown' = Shown /\ Shown[c] = Nobody /\ \A d \in Callers : Shown[d] # k
<1>1. Leases(c, k) /\ \A x \in Keys : x # k => ~Leases(c, x)
  BY DEF Leases
<1>2. /\ \A x \in Keys : Lessors(x)' = Lessors(x) \ {c}
      /\ Shown' = [Shown EXCEPT ![c] = Nobody]
  BY CallMoves DEF Leasing
<1>3. Lessors(k) = {c} /\ Lessee[k] = c
  BY <1>1, LessorIsLessee
<1>4. Lessors(k)' = {} /\ \A x \in Keys : x # k => Lessors(x)' = Lessors(x)
  <2>1. \A x \in Keys : x # k => c \notin Lessors(x)
    BY <1>1 DEF Lessors
  <2>2. QED
    BY <1>2, <1>3, <2>1, SMTT(30)
<1>5. Lessee' = [Lessee EXCEPT ![k] = Nobody]
  <2>1. Only({}) = Nobody
    BY OnlyOne
  <2>2. QED
    BY <1>4, <2>1 DEF Lessee
<1>6. Shown[c] = Nobody
  BY DEF Shown
<1>7. Shown' = Shown
  BY <1>2, <1>6, MappedTypes
<1>8. ASSUME NEW d \in Callers PROVE Shown[d] # k
  <2>1. d # c => ~Leases(d, k)
    BY <1>3 DEF Lessors
  <2>2. k # Nobody
    BY NamesAssumption
  <2>3. QED
    BY <1>6, <2>1, <2>2 DEF Shown, Leases
<1>9. QED
  BY <1>3, <1>5, <1>6, <1>7, <1>8

\* A lessee goes: its slot is free, or the record stays with the view it kept.
LEMMA ReadEndsMap == ASSUME IInv, NEW c \in Callers, ReadExit(c) \/ ReadRetained(c) PROVE Implements
<1> DEFINE k == call[c].key
<1>1. call \in [Callers -> Call] /\ call[c].at = "exit" /\ closed' = closed
  BY DEF IInv, TypeOK, ReadExit, ReadRetained
<1>2. k \in Keys /\ Leases(c, k)
  BY <1>1 DEF IInv, CallsMade, Leasing, Leases
<1>3. /\ \A d \in Callers : d # c => call'[d] = call[d]
      /\ call'[c].at \notin Leasing
  <2>1. CASE ReadExit(c)
    BY <1>1, <2>1 DEF ReadExit, Leasing, Idle
  <2>2. CASE ReadRetained(c)
    BY <1>1, <2>2 DEF ReadRetained, Leave, Leasing, Idle
  <2>3. QED
    BY <2>1, <2>2
<1>4. /\ Lessee' = [Lessee EXCEPT ![k] = Nobody] /\ Lessee[k] = c
      /\ Shown' = Shown /\ Shown[c] = Nobody /\ \A d \in Callers : Shown[d] # k
  BY <1>1, <1>2, <1>3, LessorLeaves
<1>5. CASE ReadExit(c)
  <2>1. Pop(k)
    BY <1>5 DEF ReadExit
  <2> HIDE DEF k
  <2>2. Held' = Held \ {k} /\ Verified' = Verified \ {k} /\ k \in Held
    BY <1>2, <2>1, Unmapped DEF Held, IInv, LeaseExclusive
  <2>3. Staged!Free(k)
    BY <1>1, <1>4, <2>2 DEF Staged!Free
  <2>4. QED
    BY <1>2, <2>3 DEF Implements, Staged!SNext
<1>6. CASE ReadRetained(c)
  <2>1. /\ ticket[k].stage = "done" /\ pending' = pending
        /\ ticket' = [ticket EXCEPT ![k].claimed = FALSE]
    BY <1>6 DEF ReadRetained
  <2> HIDE DEF k
  <2>2. \A x \in Keys : (ticket'[x].stage = "done") <=> (ticket[x].stage = "done")
    BY <2>1 DEF IInv, TypeOK, Ticket
  <2>3. Held' = Held /\ Verified' = Verified /\ k \in Verified
    BY <1>2, <2>1, <2>2, TicketsMapped DEF Verified
  <2>4. Staged!Leave(k)
    BY <1>1, <1>4, <2>3, NamesAssumption DEF Staged!Leave
  <2>5. QED
    BY <1>2, <2>4 DEF Implements, Staged!SNext
<1>7. QED
  BY <1>5, <1>6

-----------------------------------------------------------------------------
(* The refinement.                                                           *)

LEMMA InitMaps == Init => Staged!SInit
<1>1. ASSUME Init PROVE Staged!SInit
  <2>1. Held = {} /\ Verified = {}
    BY <1>1 DEF Init, Held, Verified, InSeq, NoTicket
  <2>2. \A k \in Keys : Lessors(k) = {}
    BY <1>1 DEF Init, Lessors, Leases, Idle
  <2>3. Lessee = [k \in Keys |-> Nobody]
    BY <2>2, OnlyOne DEF Lessee
  <2>4. Shown = [c \in Callers |-> Nobody]
    BY <1>1 DEF Init, Shown, Idle
  <2>5. QED
    BY <1>1, <2>1, <2>3, <2>4 DEF Init, Staged!SInit
<1>2. QED
  BY <1>1

LEMMA StepMaps == ASSUME IInv, [Next]_vars PROVE Implements
<1>1. CASE UNCHANGED vars
  BY <1>1, EnvironmentMaps
<1>2. ASSUME NEW k \in Keys, Fetch(k) \/ DropView(k) PROVE Implements
  BY <1>2, FetchMaps, EnvironmentMaps
<1>3. ASSUME NEW c \in Callers, NEW keys \in Plans, PlanBegin(c, keys) PROVE Implements
  BY <1>3, CallGoesOnMaps
<1>4. ASSUME NEW c \in Callers, NEW k \in Keys, NEW consumer \in {c, Nobody},
             ReadPrefetched(c, k, consumer) \/ ReadDemand(c, k, consumer) \/ ReadDisplace(c, k, consumer)
      PROVE  Implements
  BY <1>4, ReadPrefetchedMaps, ReadDemandMaps, CallGoesOnMaps
<1>5. ASSUME NEW c \in Callers, Discard(c) \/ Plan(c) PROVE Implements
  BY <1>5, DiscardBeginMaps, DiscardEndsMap, CallGoesOnMaps, FillOneMaps DEF Discard, Plan
<1>6. ASSUME NEW c \in Callers, Read(c) \/ BodyEnd(c) PROVE Implements
  BY <1>6, ReadSubmitMaps, ReaderGoesOnMaps, ReadEndsMap DEF Read
<1>7. ASSUME NEW c \in Callers, CloseBegin(c) \/ CloseEnd(c) \/ SetCancel(c) PROVE Implements
  BY <1>7, CloseBeginMaps, CallGoesOnMaps, EnvironmentMaps
<1>8. QED
  BY <1>1, <1>2, <1>3, <1>4, <1>5, <1>6, <1>7 DEF Next

\* To its consumers the store is one of verified slots that are leased one at a time:
\* each step of plan(), read(), close() and _fetch is a step of StagingSlots, or unseen.
THEOREM StoreImplementsSlots == Spec => ImplementsStagingSlots
<1>1. ASSUME IInv, [Next]_vars PROVE [Staged!SNext]_(Staged!sVars)
  BY <1>1, StepMaps DEF Implements
<1>2. QED
  BY <1>1, InitMaps, InvariantHolds, PTL DEF Spec, ImplementsStagingSlots, Staged!SSpec

=============================================================================
