-------------------------------- MODULE Q4Pool --------------------------------
(***************************************************************************)
(* The byte layout of a page of the 4-bit KV pool.  A page holds, per KV   *)
(* head, a K slot and a V slot; a slot is a run of data bytes, one row per *)
(* token, followed by a block of scale bytes.  K scales are linear, V      *)
(* scales are swizzled in quads of tokens.  The address arithmetic is      *)
(* written out five times in the code: the writer, the decode reader, the  *)
(* stage kernel, and two tables of the reference; each is a definition of  *)
(* its own here.                                                           *)
(*                                                                         *)
(* Every row of every slot is written at addresses no other row is written *)
(* at (RowsApart), so a page is the rows of its tokens: a reader that looks *)
(* at the addresses of a row gets it whole, and any other mixture of bytes *)
(* is Nothing.                                                             *)
(***************************************************************************)
EXTENDS Integers, Sequences, FiniteSets

CONSTANTS
    BlockSize,    \* POOL_BLOCK_SIZE, the tokens of a page (128)
    Quad,         \* tokens swizzled together (4)
    DataBytes,    \* DATA_BYTES of a row (64)
    ScaleBytes,   \* SCALE_BYTES of a row (8)
    NumKvHeads,
    NumPages,     \* pages of the pool
    Nothing       \* the row a byte belongs to that was never written

ASSUME LayoutAssumption ==
    /\ BlockSize \in Nat \ {0} /\ Quad \in Nat \ {0}
    /\ DataBytes \in Nat \ {0} /\ ScaleBytes \in Nat \ {0}
    /\ NumKvHeads \in Nat \ {0} /\ NumPages \in Nat \ {0}
    /\ BlockSize % Quad = 0 /\ ScaleBytes % Quad = 0
    /\ Nothing \notin Int

Sides      == {0, 1}                         \* K, V
KvHeads    == 0..(NumKvHeads - 1)
Pages      == 0..(NumPages - 1)
Slots      == 0..(2 * NumKvHeads - 1)
Tokens     == 0..(BlockSize - 1)
Groups     == 0..(ScaleBytes - 1)
Parts      == 0..(DataBytes + ScaleBytes - 1)
DataRegion == BlockSize * DataBytes
SlotBytes  == DataRegion + BlockSize * ScaleBytes
PerQuad    == ScaleBytes \div Quad           \* groups_per_quad

\* The vectorised table of the reference, and its copy for both sides.
ScaleOffsetTable ==
    [side \in Sides |-> [t \in Tokens |-> [g \in Groups |->
        IF side = 0 THEN t * ScaleBytes + g
        ELSE ((t \div Quad) * Quad + g \div PerQuad) * ScaleBytes
             + (g % PerQuad) * Quad + (t % Quad)]]]

\* scale_off of the write kernel.
PackScaleOffset(side, t, g) ==
    IF side = 0 THEN t * ScaleBytes + g
    ELSE ((t \div Quad) * Quad + g \div PerQuad) * ScaleBytes + (g % PerQuad) * Quad + (t % Quad)

\* Where the decode kernel and the stage kernel look for a scale.
DecodeScaleOffset(side, t, g) ==
    IF side = 1
    THEN ((t \div Quad) * Quad + g \div PerQuad) * ScaleBytes + (g % PerQuad) * Quad + (t % Quad)
    ELSE t * ScaleBytes + g

StageScaleOffset(side, t, g) ==
    IF side = 1
    THEN ((t \div Quad) * Quad + g \div PerQuad) * ScaleBytes + (g % PerQuad) * Quad + (t % Quad)
    ELSE t * ScaleBytes + g

\* The address in a page of part p of token t's row in slot s: its data
\* bytes, then its scales; of the write kernel and of the readers.
PackAddress ==
    [s \in Slots |-> [t \in Tokens |-> [p \in Parts |-> s * SlotBytes +
        IF p < DataBytes THEN t * DataBytes + p
        ELSE DataRegion + PackScaleOffset(s % 2, t, p - DataBytes)]]]

DecodeAddress ==
    [s \in Slots |-> [t \in Tokens |-> [p \in Parts |-> s * SlotBytes +
        IF p < DataBytes THEN t * DataBytes + p
        ELSE DataRegion + DecodeScaleOffset(s % 2, t, p - DataBytes)]]]

StageAddress ==
    [s \in Slots |-> [t \in Tokens |-> [p \in Parts |-> s * SlotBytes +
        IF p < DataBytes THEN t * DataBytes + p
        ELSE DataRegion + StageScaleOffset(s % 2, t, p - DataBytes)]]]

\* The reference scatters and gathers through the table.
TableAddress ==
    [s \in Slots |-> [t \in Tokens |-> [p \in Parts |-> s * SlotBytes +
        IF p < DataBytes THEN t * DataBytes + p
        ELSE DataRegion + ScaleOffsetTable[s % 2][t][p - DataBytes]]]]

\* Which token's row a reader finds at the addresses of each token.
Sees(address) ==
    [s \in Slots |-> [t \in Tokens |->
        IF \E x \in Tokens : \A p \in Parts : PackAddress[s][x][p] = address[s][t][p]
        THEN CHOOSE x \in Tokens : \A p \in Parts : PackAddress[s][x][p] = address[s][t][p]
        ELSE Nothing]]

DecodeSees == Sees(DecodeAddress)
StageSees  == Sees(StageAddress)
TableSees  == Sees(TableAddress)

Slot(head, side) == 2 * head + side

\* The row a reader gets for token t of a page, in a slot.
RowSeen(page, sees, s, t) == IF sees[s][t] = Nothing THEN Nothing ELSE page[sees[s][t]]

DecodeRow(page, h, side, t) == RowSeen(page, DecodeSees, Slot(h, side), t)
StageRow(page, h, side, t)  == RowSeen(page, StageSees, Slot(h, side), t)
TableRow(page, h, side, t)  == RowSeen(page, TableSees, Slot(h, side), t)

\* No byte of a page belongs to two rows.
RowsApart ==
    \A x, y \in Slots \X Tokens \X Parts :
        PackAddress[x[1]][x[2]][x[3]] = PackAddress[y[1]][y[2]][y[3]] => x = y
===============================================================================
