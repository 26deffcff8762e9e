------------------------------ MODULE Q4Attention ------------------------------
(***************************************************************************)
(* Sparse attention over the 4-bit KV pool: minimax_q4kv.py, its reference *)
(* and its kernels.  The engine allocates pages to requests, shares a      *)
(* first page between two of them, frees pages and reuses them; each       *)
(* forward inserts the new tokens of a batch (W1) and then serves either a *)
(* decode batch (split over chunks of the selected blocks) or a prefill    *)
(* chunk (cut into slices whose pages are staged in one buffer).           *)
(*                                                                         *)
(* The row of a token is <<r, pos, version>>: who wrote it, the position   *)
(* it was rotated for, and how often that position was written before.     *)
(***************************************************************************)
EXTENDS Q4Pool, SequencesExt, FiniteSetsExt

CONSTANTS
    Reqs,          \* requests, numbered in the order of a batch
    MaxBlocks,     \* width of a block table
    TopK,          \* selected blocks per query and head
    ProgramBudget, \* 256: programs a decode launch is split into
    ProbeStep,     \* 8: rows the legacy planner probes first
    MaxProbe,      \* 512: and at most
    Caps,          \* page caps of the staging buffer to try
    Chunks,        \* tokens a request may bring to a prefill
    CaptureSize,   \* a decode batch is padded to a multiple of it
    DecodeLens,    \* tokens a request may bring to a decode (1 + drafts)
    Orders,        \* free lists to begin with: sequences of pages
    BatchBudget,   \* tokens of a forward (max_num_batched_tokens)
    MaxCalls,      \* forwards of a behaviour
    Picks(_)       \* of n blocks, what the indexer may select: for each head a row of topk_idx (-1: none)

ASSUME AttentionAssumption ==
    /\ Reqs \subseteq Nat /\ IsFiniteSet(Reqs)
    /\ \A k \in {MaxBlocks, TopK, ProgramBudget, ProbeStep, MaxProbe, CaptureSize} : k \in Nat \ {0}
    /\ Caps \subseteq Nat \ {0} /\ Chunks \subseteq Nat \ {0} /\ DecodeLens \subseteq Nat \ {0}
    /\ ProbeStep <= MaxProbe
    /\ \A order \in Orders : order \in Seq(Pages) /\ IsInjective(order)

\* A row of topk_idx has distinct blocks first, all if there are no more than topk, then -1.
ASSUME SelectionAssumption ==
    \A n \in 1..MaxBlocks : \A x \in Picks(n) :
        /\ x \in [KvHeads -> [1..TopK -> -1..(n - 1)]]
        /\ \A h \in KvHeads : \A i, j \in 1..TopK :
             x[h][i] >= 0 => i <= n /\ (x[h][i] = x[h][j] => i = j)

VARIABLES
    free,      \* free pages, a queue
    table,     \* table[r]: the pages of r
    rows,      \* rows[r]: the row last written for each position of r
    versions,  \* how often a position of r was written
    pool,      \* pool[page][token]: the rows packed there, in every slot of the page
    index,     \* index[page][token]: the fp8 cache of the indexer
    cap,       \* staging_max_pages
    capacity,  \* rows of the staging buffer, 0 before its first use
    call,      \* the forward in progress or the last one
    calls

vars == <<free, table, rows, versions, pool, index, cap, capacity, call, calls>>

--------------------------------------------------------------------------------
\* Requests and their pages (the engine).

Len0(r) == Len(rows[r])
Sorted(S) == [i \in 1..Cardinality(S) |-> CHOOSE x \in S : Cardinality({y \in S : y < x}) = i - 1]
BlocksFor(n) == (n + BlockSize - 1) \div BlockSize
Pad(s) == s \o [i \in 1..(MaxBlocks - Len(s)) |-> 0]

\* Prefix sums: cu[i] queries come before member i.
CuSeqlens(lens) == FoldLeft(LAMBDA cu, n : Append(cu, Last(cu) + n), <<0>>, lens)

Idle == [phase |-> "idle"]

Init ==
    /\ free \in Orders
    /\ table = [r \in Reqs |-> <<>>]
    /\ rows = [r \in Reqs |-> <<>>]
    /\ versions = [r \in Reqs |-> [p \in 0..(MaxBlocks * BlockSize - 1) |-> 0]]
    /\ pool = [pg \in Pages |-> [t \in Tokens |-> Nothing]]
    /\ index = [pg \in Pages |-> [t \in Tokens |-> Nothing]]
    /\ cap \in Caps
    /\ capacity = 0
    /\ call = Idle
    /\ calls = 0

\* A request begins with the first page of another one, which is full
\* (prefix caching: the page is in both block tables).
Share(r, o) ==
    /\ call.phase = "idle"
    /\ table[r] = <<>> /\ r # o /\ Len0(o) >= BlockSize
    /\ table' = [table EXCEPT ![r] = <<table[o][1]>>]
    /\ rows' = [rows EXCEPT ![r] = SubSeq(rows[o], 1, BlockSize)]
    /\ UNCHANGED <<free, versions, pool, index, cap, capacity, call, calls>>

\* A request ends; pages nobody else has go back to the queue.
Finish(r) ==
    /\ call.phase = "idle"
    /\ table[r] # <<>>
    /\ table' = [table EXCEPT ![r] = <<>>]
    /\ rows' = [rows EXCEPT ![r] = <<>>]
    /\ LET others == UNION {Range(table[o]) : o \in Reqs \ {r}}
       IN  free' = free \o SetToSeq(Range(table[r]) \ others)
    /\ UNCHANGED <<versions, pool, index, cap, capacity, call, calls>>

\* The forward returns.  The last token of a decode with drafts may have
\* been rejected: its position is written again.
Return ==
    /\ call.phase = "served"
    /\ \E rejecting \in IF call.kind = "decode" /\ call.cu[2] > 1 THEN SUBSET Range(call.members) ELSE {{}} :
         rows' = [r \in Reqs |-> IF r \in rejecting THEN Front(rows[r]) ELSE rows[r]]
    /\ call' = Idle
    /\ UNCHANGED <<free, table, versions, pool, index, cap, capacity, calls>>

--------------------------------------------------------------------------------
\* W1: the new tokens of a batch are written to the pool.

\* A token of the batch: its row and its slot (-1: padding of a captured
\* decode batch).
Token(r, p, tables) ==
    [row |-> <<r, p, versions[r][p]>>, slot |-> tables[r][p \div BlockSize + 1] * BlockSize + (p % BlockSize)]

BatchTokens(members, lens, tables) ==
    UNION {{Token(members[i], Len0(members[i]) + o - 1, tables) : o \in 1..lens[i]} : i \in DOMAIN members}

PaddingToken == [row |-> <<-1, 0, 0>>, slot |-> -1]

\* Variant: the sign of the slot is not looked at; Python's -1 // 128 counts from the end.
PageOfUnsigned(tok) == (tok.slot \div BlockSize) % NumPages

\* One program per token and head slot: K and V rows of a token go to the
\* page and the place its slot names; a negative slot is skipped.
PageOf(tok) == IF tok.slot < 0 THEN Nothing ELSE tok.slot \div BlockSize

InsertTokens(pages, toks) ==
    [pg \in Pages |-> [t \in Tokens |->
        LET at == {tok \in toks : PageOf(tok) = pg /\ tok.slot % BlockSize = t}
        IN  IF at = {} THEN pages[pg][t] ELSE (CHOOSE tok \in at : TRUE).row]]

InsertIndex(cache, toks) ==
    [pg \in Pages |-> [t \in Tokens |->
        LET at == {tok \in toks : tok.slot = pg * BlockSize + t}
        IN  IF at = {} THEN cache[pg][t] ELSE (CHOOSE tok \in at : TRUE).row]]

Insert(kind, members, lens, padding) ==
    LET need(i) == BlocksFor(Len0(members[i]) + lens[i]) - Len(table[members[i]])
        cuNeed == CuSeqlens([i \in DOMAIN members |-> need(i)])
        start(i) == cuNeed[i]
        total == Last(cuNeed)
        place(r) == CHOOSE i \in DOMAIN members : members[i] = r
        new == [r \in Reqs |-> IF r \in Range(members)
                               THEN table[r] \o SubSeq(free, start(place(r)) + 1, start(place(r)) + need(place(r)))
                               ELSE table[r]]
        toks == BatchTokens(members, lens, new)
        all == toks \cup {PaddingToken : i \in 1..padding}
    IN  /\ call.phase = "idle" /\ calls < MaxCalls
        /\ Last(CuSeqlens(lens)) <= BatchBudget
        /\ total <= Len(free)
        /\ \A i \in DOMAIN members : Len0(members[i]) + lens[i] <= MaxBlocks * BlockSize
        /\ table' = new
        /\ free' = SubSeq(free, total + 1, Len(free))
        /\ pool' = InsertTokens(pool, all)
        /\ index' = InsertIndex(index, all)
        /\ rows' = [r \in Reqs |-> IF r \in Range(members)
                                   THEN rows[r] \o [o \in 1..lens[place(r)] |->
                                          <<r, Len0(r) + o - 1, versions[r][Len0(r) + o - 1]>>]
                                   ELSE rows[r]]
        /\ versions' = [r \in Reqs |-> [p \in DOMAIN versions[r] |->
                          IF \E tok \in toks : tok.row[1] = r /\ tok.row[2] = p
                          THEN versions[r][p] + 1 ELSE versions[r][p]]]
        /\ call' = [phase |-> "inserted", kind |-> kind, members |-> members,
                    cu |-> CuSeqlens(lens), prefix |-> [i \in DOMAIN members |-> Len0(members[i])],
                    padding |-> padding]
        /\ calls' = calls + 1
        /\ UNCHANGED <<cap, capacity>>

InsertPrefill ==
    \E members \in {Sorted(S) : S \in (SUBSET Reqs) \ {{}}} :
        \E lens \in [DOMAIN members -> Chunks] : Insert("prefill", members, lens, 0)

InsertDecode ==
    \E members \in {Sorted(S) : S \in {T \in (SUBSET Reqs) \ {{}} : \A r \in T : Len0(r) > 0}} :
        \E n \in DecodeLens :
            Insert("decode", members, [i \in DOMAIN members |-> n], (-Len(members)) % CaptureSize)

--------------------------------------------------------------------------------
\* The attention call.  The engine hands over cu_seqlens_q, prefix_lens and
\* (as the length of rows[r]) seq_lens; queries are numbered from 1.

TotalQ == Last(call.cu)
MemberOf(q) == CHOOSE m \in DOMAIN call.members : call.cu[m] < q /\ q <= call.cu[m + 1]
Position(q) == LET m == MemberOf(q) IN call.prefix[m] + q - call.cu[m] - 1
NBlocks(pos) == (pos + BlockSize) \div BlockSize

\* What a query is to attend to, for every head: the positions of its
\* selected blocks up to its own, with the rows last written there.
Expected(q, picks) ==
    LET written == rows[call.members[MemberOf(q)]]
    IN  UNION {{<<h, p, written[p + 1], written[p + 1]>> :
                   p \in {x \in 0..Position(q) : (x \div BlockSize) \in Range(picks[h])}} : h \in KvHeads}

--------------------------------------------------------------------------------
\* The slice plan.

\* phys of _selected_page_bitmap: the pages a query selects, over all heads.
SelectedPages(q, picks) ==
    LET entry == Pad(table[call.members[MemberOf(q)]])
        blks  == UNION {Range(picks[h]) : h \in KvHeads}
    IN  {pg \in Pages : \E b \in blks : b >= 0 /\ b < MaxBlocks /\ entry[b + 1] = pg}

\* Rows 1..n in ranges <<first, last>>; a range that begins with a ends with last[a].
Ranges(n, last) ==
    LET from[a \in 1..(n + 1)] == IF a > n THEN <<>> ELSE <<<<a, last[a]>>>> \o from[last[a] + 1]
    IN  from[1]

\* The pages of rows a..b fit.
Covers(bitmap, max, a, b) == Cardinality(UNION {bitmap[i] : i \in a..b}) <= max

\* _greedy_row_slices: a range is grown by probes that double and then closed
\* row by row; a row that does not fit is a range of its own.
LastProbed(bitmap, max, a) ==
    LET n == Len(bitmap)
        grow[e \in a..n] == [step \in 1..MaxProbe |->
            LET nxt == Min({e + step, n})
            IN  IF e = n THEN n
                ELSE IF Covers(bitmap, max, a, nxt) THEN grow[nxt][Min({2 * step, MaxProbe})]
                ELSE Max({i \in e..nxt : Covers(bitmap, max, a, i)})]
    IN  IF Covers(bitmap, max, a, a) THEN grow[a][ProbeStep] ELSE a

GreedyRowSlices(bitmap, max) ==
    Ranges(Len(bitmap), [a \in 1..Len(bitmap) |-> LastProbed(bitmap, max, a)])

\* _first_row_at_or_after and _union_curve: how many pages the first k rows
\* from a select, by the row each page occurs first in.
FirstRow(bitmap, a) == [pg \in Pages |-> Min({i \in a..Len(bitmap) : pg \in bitmap[i]} \cup {Len(bitmap) + 1})]
UnionCurve(first, a, k) == Cardinality({pg \in Pages : first[pg] < a + k})

\* The last row from a for which the curve is not above max.
LastOnCurve(bitmap, max, a, first) ==
    a - 1 + Max({1} \cup {k \in 0..(Len(bitmap) + 1 - a) : UnionCurve(first, a, k) <= max})

\* Variant: first occurrences in the whole chunk, so that a page which a range
\* before had is not counted again.
GreedyRowSlicesFastDelta(bitmap, max) ==
    LET first == FirstRow(bitmap, 1)
        before(a) == Cardinality({pg \in Pages : first[pg] < a})
    IN  Ranges(Len(bitmap), [a \in 1..Len(bitmap) |-> LastOnCurve(bitmap, max + before(a), a, first)])

\* _greedy_row_slices_fast.
GreedyRowSlicesFast(bitmap, max) ==
    Ranges(Len(bitmap), [a \in 1..Len(bitmap) |-> LastOnCurve(bitmap, max, a, FirstRow(bitmap, a))])

\* A slice: members, queries lo..hi, and the union of what they select.
Slice(ms, lo, hi, pagesOf) ==
    LET pages == Sorted(UNION {pagesOf[q] : q \in lo..hi})
    IN  [reqs |-> ms, lo |-> lo, hi |-> hi, pages |-> pages, n |-> Len(pages)]

\* The members a..b, in order.
Run(a, b) == [i \in 1..(b + 1 - a) |-> a + i - 1]

\* plan_prefill_slices and plan_prefill_slices_fast: ranges of whole
\* requests; one request that does not fit is cut along its queries.
PlanSlices(pagesOf, fast) ==
    LET cu == call.cu
        greedy(bitmap) == IF fast THEN GreedyRowSlicesFast(bitmap, cap) ELSE GreedyRowSlices(bitmap, cap)
        ofReq == <<>> \o [m \in DOMAIN call.members |-> UNION {pagesOf[q] : q \in (cu[m] + 1)..cu[m + 1]}]
        whole(a, b) == Slice(Run(a, b), cu[a] + 1, cu[b + 1], pagesOf)
        cut(m) == LET ranges == greedy(SubSeq(pagesOf, cu[m] + 1, cu[m + 1]))
                  IN  [i \in DOMAIN ranges |->
                         Slice(Run(m, m), cu[m] + ranges[i][1], cu[m] + ranges[i][2], pagesOf)]
        parts == LET ranges == greedy(ofReq)
                 IN  <<>> \o [i \in DOMAIN ranges |->
                        LET a == ranges[i][1]
                            b == ranges[i][2]
                        IN  IF a = b /\ Cardinality(ofReq[a]) > cap THEN cut(a) ELSE <<whole(a, b)>>]
    IN  FoldLeft(LAMBDA slices, part : slices \o part, <<>>, parts)

--------------------------------------------------------------------------------
\* Staging.

\* The buffer after a fill: the pages of the slice in order, then a zero
\* page; a row of it is read as K and V of a head.
FillStagingBuffer(slice, i, h, t) ==
    IF i > slice.n THEN <<Nothing, Nothing>>
    ELSE LET page == pool[slice.pages[i]] IN <<TableRow(page, h, 0, t), TableRow(page, h, 1, t)>>

StagePages(slice, i, h, t) ==
    IF i > slice.n THEN <<Nothing, Nothing>>
    ELSE LET page == pool[slice.pages[i]] IN <<StageRow(page, h, 0, t), StageRow(page, h, 1, t)>>

\* The block table of member m with staged rows in place of pages.
FakeBlockTable(m, slice) ==
    LET entry == Pad(table[call.members[m]])
        lookup == [pg \in Pages |-> IF \E i \in 1..slice.n : slice.pages[i] = pg
                                    THEN (CHOOSE i \in 1..slice.n : slice.pages[i] = pg) - 1
                                    ELSE slice.n]
    IN  <<>> \o [b \in 1..MaxBlocks |-> lookup[Max({entry[b], 0})]]

\* The prefill kernel for one query (reference_prefill_attention):
\* what it reads of a staged pool, with a position and a length it was given.
KernelReads(slice, fast, blockTable, picks, qAbs, seqLen) ==
    LET realTopk == Min({TopK, NBlocks(qAbs)})
        blocks(h) == {b \in {picks[h][i] : i \in 1..realTopk} : b >= 0 /\ blockTable[b + 1] >= 0}
        staged(h, b, t) == IF fast THEN StagePages(slice, blockTable[b + 1] + 1, h, t)
                           ELSE FillStagingBuffer(slice, blockTable[b + 1] + 1, h, t)
    IN  UNION {{<<h, x[1] * BlockSize + x[2]>> \o staged(h, x[1], x[2]) :
                   x \in {y \in blocks(h) \X Tokens : /\ y[1] * BlockSize + y[2] <= qAbs
                                                      /\ y[1] * BlockSize + y[2] < seqLen}} : h \in KvHeads}

\* Variant: the prefix of the request, as if the slice began with it.
SlicePrefixUnmoved(m, slice) == call.prefix[m]

\* prefill_slice_metadata: the prefix a slice tells the kernel for a member,
\* so that the first query of the member in the slice keeps its position.
SlicePrefix(m, slice) ==
    call.prefix[m] + Max({call.cu[m], slice.lo - 1}) - call.cu[m]

SliceOffset(m, slice, q) == q - 1 - Max({call.cu[m], slice.lo - 1})

\* The slice does not cover a whole number of queries of each member.
SliceRefused(slice) ==
    LET covered(m) == Min({call.cu[m + 1], slice.hi}) - Max({call.cu[m], slice.lo - 1})
        lens == [i \in DOMAIN slice.reqs |-> covered(slice.reqs[i])]
    IN  Last(CuSeqlens(lens)) # slice.hi - slice.lo + 1 \/ \E i \in DOMAIN lens : lens[i] <= 0

\* What query q gets from the slice it is in.
SliceReads(slice, fast, q, picks) ==
    LET m == MemberOf(q)
    IN  KernelReads(slice, fast, FakeBlockTable(m, slice), picks,
                    SlicePrefix(m, slice) + SliceOffset(m, slice, q), Len0(call.members[m]))

\* _staging_buffer: grown when it is too small, never shrunk.
Grown(needed) == IF capacity < Max({cap, needed}) + 1 THEN Max({cap, needed}) + 1 ELSE capacity

\* What the indexer may select, for every query of the call.
Selections ==
    FoldLeft(LAMBDA acc, n : {Append(s, x) : s \in acc, x \in Picks(n)}, {<<>>},
             [q \in 1..TotalQ |-> NBlocks(Position(q))])

\* The slices are staged and attended one after the other; the buffer grows first.
PrefillSlices(picks, fast, slices) ==
    LET sizes   == {slices[i].n : i \in DOMAIN slices}
        sliceOf(q) == {i \in DOMAIN slices : slices[i].lo <= q /\ q <= slices[i].hi}
        refused == \/ Max(sizes) > Grown(Max(sizes)) - 1
                   \/ Len(slices) > 1 /\ \E i \in DOMAIN slices : SliceRefused(slices[i])
        out     == [q \in 1..TotalQ |-> UNION {SliceReads(slices[i], fast, q, picks[q]) : i \in sliceOf(q)}]
    IN  /\ capacity' = Grown(Max(sizes))
        /\ call' = [phase |-> "served", kind |-> "prefill", members |-> call.members,
                    cu |-> call.cu, prefix |-> call.prefix, picks |-> picks, fast |-> fast, refused |-> refused,
                    slices |-> slices, out |-> IF refused THEN <<>> ELSE out]

Prefill ==
    /\ call.phase = "inserted" /\ call.kind = "prefill"
    /\ \E picks \in Selections, fast \in BOOLEAN :
        LET pagesOf == <<>> \o [q \in 1..TotalQ |-> SelectedPages(q, picks[q])]
        IN  \E slices \in {PlanSlices(pagesOf, fast)} : PrefillSlices(picks, fast, slices)
    /\ UNCHANGED <<free, table, rows, versions, pool, index, cap, calls>>

--------------------------------------------------------------------------------
\* Decode.

\* The number of chunks: one, doubled as long as it does not exceed the target.
NumTopkChunks(totalQ) ==
    LET target == Max({1, Min({TopK, ProgramBudget \div Max({1, totalQ * NumKvHeads})})})
        doubled[n \in 1..target] == IF 2 * n <= target THEN doubled[2 * n] ELSE n
    IN  doubled[1]

\* The indices into topk that program c walks over.
ChunkIndices(c, chunks, nBlocks) ==
    LET chunk == (TopK + chunks - 1) \div chunks
    IN  (c * chunk)..(Min({c * chunk + chunk, Min({TopK, nBlocks})}) - 1)

\* What program c reads of the pool for a query and head; the chunk is kept
\* in the result: a position read by two chunks would be weighted twice.
ChunkReads(c, chunks, blockTable, picks, seqLen, decodeLen, o) ==
    LET queryPos == seqLen - decodeLen + o
        kvLen    == Max({queryPos + 1, 0})
        nBlocks  == BlocksFor(kvLen)
        valid(h) == {b \in {picks[h][i + 1] : i \in ChunkIndices(c, chunks, nBlocks)} : b >= 0 /\ b < nBlocks}
        row(h, side, x) == DecodeRow(pool[blockTable[x[1] + 1]], h, side, x[2])
    IN  UNION {{<<h, x[1] * BlockSize + x[2], row(h, 0, x), row(h, 1, x), c>> :
                   x \in {y \in valid(h) \X Tokens : y[1] * BlockSize + y[2] < kvLen}} : h \in KvHeads}

\* A padding request has length 0 and reads through a stale selection.
PaddedReads(chunks, picks, n) ==
    UNION {ChunkReads(c, chunks, Pad(<<>>), picks, 0, n, o) : c \in 0..(chunks - 1), o \in 0..(n - 1)}

Decode ==
    /\ call.phase = "inserted" /\ call.kind = "decode"
    /\ \E picks \in Selections :
        LET n      == call.cu[2]
            chunks == NumTopkChunks(TotalQ + call.padding * n)
            out    == [q \in 1..TotalQ |->
                         LET r == call.members[MemberOf(q)]
                         IN  UNION {ChunkReads(c, chunks, Pad(table[r]), picks[q], Len0(r), n, (q - 1) % n) :
                                    c \in 0..(chunks - 1)}]
        IN  call' = [phase |-> "served", kind |-> "decode", members |-> call.members,
                     cu |-> call.cu, prefix |-> call.prefix, picks |-> picks, out |-> out,
                     padded |-> IF call.padding = 0 THEN {} ELSE PaddedReads(chunks, picks[1], n)]
    /\ UNCHANGED <<free, table, rows, versions, pool, index, cap, capacity, calls>>

Next ==
    \/ \E r, o \in Reqs : Share(r, o)
    \/ \E r \in Reqs : Finish(r)
    \/ InsertPrefill
    \/ InsertDecode
    \/ Prefill
    \/ Decode
    \/ Return

Spec == Init /\ [][Next]_vars

--------------------------------------------------------------------------------
Served(kind) == call.phase = "served" /\ call.kind = kind

\* Every query of a chunk or a batch attends, per head, to the positions of
\* its own selected blocks up to its own position, each once, with the K and
\* the V row last written there: through slices, staged pages, moved
\* prefixes and chunks, with pages shared and reused.  Padding attends to
\* nothing.  (minimax_q4kv.py:652-716, minimax_q4kv_kernels.py:385-505)
QueriesAttendOwnTokens ==
    /\ Served("prefill") =>
         /\ ~call.refused
         /\ \A q \in 1..TotalQ : call.out[q] = Expected(q, call.picks[q])
    /\ Served("decode") =>
         /\ call.padded = {}
         /\ \A q \in 1..TotalQ :
              LET seen == call.out[q]
              IN  /\ {SubSeq(x, 1, 4) : x \in seen} = Expected(q, call.picks[q])
                  /\ Cardinality(seen) = Cardinality(Expected(q, call.picks[q]))

\* Whatever was written, freed, shared, reused and rejected: each position of
\* a request reads back, in K and V of every head and in the index cache, as
\* the row last written for it.  (minimax_q4kv_kernels.py:266-306)
PoolHoldsLatest ==
    \A r \in Reqs : \A p \in 0..(Len0(r) - 1) :
        LET pg == table[r][p \div BlockSize + 1]
            t  == p % BlockSize
        IN  /\ index[pg][t] = rows[r][p + 1]
            /\ \A h \in KvHeads, side \in Sides :
                 TableRow(pool[pg], h, side, t) = rows[r][p + 1]

\* The slices cut the chunk without a gap; each fits the cap unless it is one
\* query (the hard floor); the buffer has a row for every staged page and the
\* zero page, and never grows past what one query can select.
\* (minimax_q4kv_reference.py:1291-1383, minimax_q4kv.py:719-742)
SlicesFit ==
    Served("prefill") =>
        /\ call.slices[1].lo = 1 /\ Last(call.slices).hi = TotalQ
        /\ \A i \in DOMAIN call.slices :
             LET s == call.slices[i]
             IN  /\ s.lo <= s.hi /\ s.n < capacity
                 /\ s.n <= cap \/ s.lo = s.hi
                 /\ i > 1 => s.lo = call.slices[i - 1].hi + 1
        /\ capacity <= Max({cap, TopK * NumKvHeads}) + 1

\* The fast path and the reference agree: the bytes the write kernel left are
\* those the reference scatters, both planners cut the same slices, and both
\* fills stage the same rows.  (minimax_q4kv_reference.py:467-611, 912-1072)
PathsAgree ==
    /\ PackAddress = TableAddress /\ RowsApart
    /\ Served("prefill") =>
         LET pagesOf == <<>> \o [q \in 1..TotalQ |-> SelectedPages(q, call.picks[q])]
         IN  /\ PlanSlices(pagesOf, TRUE) = PlanSlices(pagesOf, FALSE)
             /\ \A i \in DOMAIN call.slices : \A j \in 1..(call.slices[i].n + 1), h \in KvHeads, t \in Tokens :
                  StagePages(call.slices[i], j, h, t) = FillStagingBuffer(call.slices[i], j, h, t)

\* The prefill path as served, whichever planner and fill it takes.
PrefillSlicesRight == SlicesFit /\ PathsAgree

===============================================================================
