--------------------------- MODULE EmbeddingLoad ---------------------------
(***************************************************************************)
(* A row-wise EXL3 embedding table in exllamav3's n-gram format (exl3.py,  *)
(* Exl3EmbeddingMethod): its shards and head tensors are delivered one by  *)
(* one, checked and finalised, and looked up.  A resident table copies the *)
(* shards into one tensor that the shard parameters alias; a table on disk *)
(* keeps the checkpoint's views and gathers rows on the host, each id of a *)
(* batch once.                                                             *)
(*                                                                         *)
(* A packed row is its shard, its row there and the version of the shard;  *)
(* a row that was looked up adds the head and the version of its bias.     *)
(* Left out: layer_multipliers, which nothing reads, and which of the two  *)
(* decoders runs.                                                          *)
(***************************************************************************)
EXTENDS Integers, Sequences, FiniteSets, SequencesExt, FiniteSetsExt

CONSTANT NotAsked

VARIABLES
    table,   \* the table, fixed, or NotAsked:
             \*   disk, sharded, shards, rows (of a shard), layouts (version -> [offsets, sizes]),
             \*   versions (a bound), fault (of the layer), misshaped (parts), graphs,
             \*   batches (of ids)
    tstage,  \* "created", "ready", "refused" or "failed"
    held,    \* part -> version in its parameter, or of the view kept (0: none)
    packed,  \* shard -> version of its rows in the resident tensor
    aliased, \* the shard parameters are views of the resident tensor
    offsets, \* version of head_offsets the host looks heads up in, of a table on disk
    fresh    \* history: nothing was delivered since the table was processed

tableVars == <<table, tstage, held, packed, aliased, offsets, fresh>>

-----------------------------------------------------------------------------
Shards == 0..(table.shards - 1)
ShardPart(s) == <<"shard", s>>
HeadBias == <<"head_bias">>
HeadOffsets == <<"head_offsets">>
HeadSizes == <<"head_vocab_sizes">>
TableParts == {ShardPart(s) : s \in Shards} \cup {HeadBias, HeadOffsets, HeadSizes}
TotalRows == table.shards * table.rows

\* What __init__ and create_weights refuse: another row width, another number
\* of rows, tensor parallelism, one trellis for several shards.
Refused == table.fault # "none" \/ (~table.sharded /\ table.shards # 1)

TableInit ==
    /\ tstage = IF table = NotAsked \/ Refused THEN "refused" ELSE "created"
    /\ held = IF table = NotAsked THEN <<>> ELSE [p \in TableParts |-> 0]
    /\ packed = IF table = NotAsked THEN <<>> ELSE [s \in Shards |-> 0]
    /\ aliased = TRUE /\ offsets = 0 /\ fresh = FALSE

\* The loader of a part.  An offset or a bias is copied into its parameter; a
\* shard into the resident tensor while the parameter aliases it, or its view
\* is kept.
LoadPart(p, v) ==
    /\ tstage \in {"created", "ready"}
    /\ IF p \in table.misshaped
       THEN tstage' = "failed" /\ UNCHANGED <<held, packed, fresh>>
       ELSE /\ held' = [held EXCEPT ![p] = v]
            /\ packed' = [s \in Shards |-> IF p = ShardPart(s) /\ ~table.disk /\ aliased
                                           THEN v ELSE packed[s]]
            /\ fresh' = FALSE /\ UNCHANGED tstage
    /\ UNCHANGED <<table, aliased, offsets>>

\* The engine moves the parameters of the layer, to a device or out of the way:
\* the resident tensor is no parameter and stays.
MoveParameters ==
    /\ tstage \in {"created", "ready"} /\ ~table.disk /\ aliased
    /\ aliased' = FALSE /\ fresh' = FALSE
    /\ UNCHANGED <<table, tstage, held, packed, offsets>>

-----------------------------------------------------------------------------
\* process_weights_after_loading

Missing == {p \in TableParts : held[p] = 0}

\* The heads are consecutive ranges of the table's rows.
LayoutGood ==
    LET offs  == table.layouts[held[HeadOffsets]].offsets
        sizes == table.layouts[held[HeadSizes]].sizes
    IN  /\ offs[1] = 0
        /\ \A i \in 1..(Len(offs) - 1) : offs[i + 1] = offs[i] + sizes[i]
        /\ Last(offs) + Last(sizes) <= TotalRows

\* _check_ngram_disk_graph_mode: a table on disk cannot be looked up inside a
\* captured graph.
GraphsRefused ==
    table.disk /\ table.graphs # NotAsked
        /\ (table.graphs.full \/ (table.graphs.split # {} /\ "lookup" \notin table.graphs.split))

ProcessTable ==
    /\ tstage \in {"created", "ready"}
    /\ IF Missing = {} /\ (table.disk \/ aliased) /\ LayoutGood /\ ~GraphsRefused
       THEN /\ tstage' = "ready" /\ fresh' = TRUE
            /\ offsets' = IF table.disk THEN held[HeadOffsets] ELSE offsets
       ELSE tstage' = "failed" /\ UNCHANGED <<fresh, offsets>>
    /\ UNCHANGED <<table, held, packed, aliased>>

-----------------------------------------------------------------------------
\* A lookup.

PackedRow(s, r, v) == [shard |-> s, row |-> r, version |-> v]

\* _lookup_packed: the resident tensor has the shards behind each other.
LookupPacked(id) == PackedRow(id \div table.rows, id % table.rows, packed[id \div table.rows])

\* _NgramDiskTable.gather
Gather(uid) ==
    IF table.shards = 1 THEN PackedRow(0, uid, held[ShardPart(0)])
    ELSE LET shard == uid \div table.rows
             local == uid - shard * table.rows
         IN  PackedRow(shard, local, held[ShardPart(shard)])

\* searchsorted from the right, less one, clamped.
HeadIn(offs, id) ==
    Min({Len(offs), Max({1, Cardinality({i \in DOMAIN offs : offs[i] <= id})})})

Decoded(row, head) == [row |-> row, head |-> head, bias |-> held[HeadBias]]

\* _embedding_impl of a resident table: id by id.
Resident(ids) ==
    LET offs == table.layouts[held[HeadOffsets]].offsets
    IN  [i \in DOMAIN ids |-> Decoded(LookupPacked(ids[i]), HeadIn(offs, ids[i]))]

\* _embedding_impl_disk: each id once, in an order that is the same for rows and heads, and
\* back to its places.
FromDisk(ids) ==
    LET offs    == table.layouts[offsets].offsets
        uids    == SetToSeq(ToSet(ids))
        inverse == [i \in DOMAIN ids |-> CHOOSE k \in DOMAIN uids : uids[k] = ids[i]]
        rows    == [k \in DOMAIN uids |-> Decoded(Gather(uids[k]), HeadIn(offs, uids[k]))]
    IN  [i \in DOMAIN ids |-> rows[inverse[i]]]

Embedding(ids) == IF table.disk THEN FromDisk(ids) ELSE Resident(ids)

-----------------------------------------------------------------------------
\* The bits of a row.

RowDim == 160
StateBits == 16
WordsPerRow(bits) == 1 + (RowDim * bits) \div 16

\* _ngram_bit_tables: the place of bit m of element i's state in the ring.
RingPosition(bits, i, m) == ((i - m \div bits) % RowDim) * bits + (m % bits)
WordOf(position) == 1 + position \div 16

\* At every width: an element's own bits are the whole ring, behind the scale
\* word; the rest of its state is its predecessor's, around the end of the row.
RingHoldsStates ==
    \A bits \in 1..8 :
        /\ {RingPosition(bits, i, m) : i \in 0..(RowDim - 1), m \in 0..(bits - 1)}
               = 0..(RowDim * bits - 1)
        /\ \A i \in 0..(RowDim - 1), m \in bits..(StateBits - 1) :
             RingPosition(bits, i, m) = RingPosition(bits, (i - 1) % RowDim, m - bits)
        /\ {WordOf(x) : x \in 0..(RowDim * bits - 1)} = 1..(WordsPerRow(bits) - 1)

-----------------------------------------------------------------------------
TableNext ==
    \/ \E p \in TableParts, v \in 1..table.versions : LoadPart(p, v)
    \/ MoveParameters
    \/ ProcessTable

\* An accepted table has all its parts, of a layout in which each head has its
\* own rows; it is refused only if that is not so, or the code says that it does
\* not support it.
TableAcceptedIsComplete == tstage = "ready" /\ fresh => Missing = {} /\ LayoutGood

TableRejectedIsBad ==
    \/ Missing # {} \/ ~LayoutGood \/ GraphsRefused \/ ~aliased \/ table.misshaped # {}

\* Each place of a batch gets the row of its own id in the version delivered
\* last, with the bias of the head whose range the id is in: from the device or
\* from the disk, one shard or several, ids repeated and in any order.
LooksUpOwnRow ==
    tstage = "ready" /\ fresh =>
        LET layout == table.layouts[held[HeadOffsets]]
            sizes  == table.layouts[held[HeadSizes]].sizes
            start(s) == s * table.rows
        IN  /\ RingHoldsStates
            /\ \A ids \in table.batches : \A i \in DOMAIN ids :
                 LET got == Embedding(ids)[i]
                     s   == CHOOSE x \in Shards : start(x) <= ids[i] /\ ids[i] < start(x + 1)
                 IN  /\ got.row = PackedRow(s, ids[i] - start(s), held[ShardPart(s)])
                     /\ got.bias = held[HeadBias]
                     /\ \A h \in DOMAIN sizes :
                          layout.offsets[h] <= ids[i] /\ ids[i] < layout.offsets[h] + sizes[h]
                              => got.head = h
=============================================================================
