------------------------------ MODULE TpGeometry ------------------------------
(***************************************************************************)
(* How the intermediate dimension of a routed expert is cut among tensor-  *)
(* parallel ranks (exl3.py: aligned_tp_split, moe_tp_rotation, _narrow_tp, *)
(* shard_exl3_col, shard_exl3_row, create_weights, _load_exl3; the planned *)
(* shapes of mixed_k_guard.py).                                            *)
(*                                                                         *)
(* Every rank works alone and computes its cut three times: to size its    *)
(* parameters, to plan its arenas from the headers, and to narrow each     *)
(* tensor it is given.  A cut is a run of columns of the dimension, an     *)
(* interval [offset, length].  "trellis" is any of gate, up and down, cut  *)
(* in tiles of 16 columns; "scale" is the svh of gate and up or the suh of *)
(* down, cut in single columns.                                            *)
(***************************************************************************)
EXTENDS Integers

CONSTANT Cases  \* [size, tp, align, rotate, layer, planned]: a layer and the environment

Tile == 16

\* vLLM divides the dimension by tp before it calls create_weights; a trellis has
\* whole tiles
ASSUME CasesAssumption ==
    \A c \in Cases :
        /\ c.size \in Nat /\ c.tp \in Nat \ {0} /\ c.align \in Nat /\ c.layer \in Nat
        /\ c.rotate \in BOOLEAN /\ c.planned \in BOOLEAN
        /\ c.size % c.tp = 0 /\ c.size % Tile = 0 /\ c.size > 0

VARIABLES case,     \* the case, fixed
          width,    \* rank -> width of its parameters, NotYet before create_weights
          held,     \* <<rank, part>> -> the interval it holds, or Nothing
          refused   \* <<rank, step>> of the ranks that raised, "create" or "load"

vars == <<case, width, held, refused>>

Ranks == 0..(case.tp - 1)
Parts == {"trellis", "scale"}
Unit(part) == IF part = "trellis" THEN Tile ELSE 1

Interval(offset, length) == [offset |-> offset, length |-> length]
Nothing == Interval(-1, 0)
NotYet == -1

-----------------------------------------------------------------------------
(* The cuts.                                                               *)

\* Variant: the longer chunks are forgotten in the offsets.
BlocksBeforeBase(rank, base, rem) == rank * base
\* the blocks of the ranks before: base each, one more in the first rem
BlocksBefore(rank, base, rem) == rank * base + (IF rank < rem THEN rank ELSE rem)
\* Variant: the remainder is given to no rank.
BlocksOfBase(rank, base, rem) == base
BlocksOf(rank, base, rem) == base + (IF rank < rem THEN 1 ELSE 0)

\* aligned_tp_split
AlignedSplit(size, rank, tp, align) ==
    LET base == (size \div align) \div tp
        rem  == (size \div align) % tp
    IN  Interval(BlocksBefore(rank, base, rem) * align, BlocksOf(rank, base, rem) * align)

\* whether create_weights takes the aligned split
IsAligned == case.align > 0 /\ case.tp > 1 /\ case.size % case.align = 0

\* Variant: the layer's rotation is left out when loading.
LoadedChunkPlain(rank) == rank
\* moe_tp_rotation: rank r of layer L takes chunk (r + L) % tp
Rotation == IF case.rotate THEN case.layer % case.tp ELSE 0
Chunk(rank) == (rank + Rotation) % case.tp
\* the loader rotates by what create_weights left on the layer
LoadedChunk(rank) == IF IsAligned THEN Chunk(rank) ELSE rank

CreatedWidth(rank) ==
    IF IsAligned THEN AlignedSplit(case.size, Chunk(rank), case.tp, case.align).length
    ELSE case.size \div case.tp

\* Variant: the alignment is ignored by the loader.
EqualAlways(part) == TRUE
\* whether _narrow_tp takes the equal split
Equal(part) == case.align = 0

\* _narrow_tp refuses what it cannot cut without breaking a block or a chunk
Cuttable(part) == \/ case.tp = 1
                  \/ IF Equal(part) THEN (case.size \div Unit(part)) % case.tp = 0
                     ELSE case.size % case.align = 0

\* Variant: the aligned offset is taken for a number of units.
NarrowedUnconverted(rank, part) ==
    IF case.tp = 1 \/ Equal(part)
    THEN Interval((case.size \div case.tp) * rank, case.size \div case.tp)
    ELSE LET cut == AlignedSplit(case.size, rank, case.tp, case.align)
         IN  Interval(cut.offset * Unit(part), (cut.length \div Unit(part)) * Unit(part))
\* _narrow_tp
Narrowed(rank, part) ==
    IF case.tp = 1 THEN Interval(0, case.size)
    ELSE IF Equal(part)
    THEN LET chunk == (case.size \div Unit(part)) \div case.tp
         IN  Interval(chunk * rank * Unit(part), chunk * Unit(part))
    ELSE LET cut == AlignedSplit(case.size, rank, case.tp, case.align)
         IN  Interval((cut.offset \div Unit(part)) * Unit(part),
                      (cut.length \div Unit(part)) * Unit(part))

\* shard_prescanned_trellis_shapes: the planned width of every rank
PlannedWidth == ((case.size \div Tile) \div case.tp) * Tile

-----------------------------------------------------------------------------
(* The steps of a rank.                                                    *)

Init ==
    /\ case \in Cases
    /\ width = [r \in Ranks |-> NotYet]
    /\ held = [x \in Ranks \X Parts |-> Nothing]
    /\ refused = {}

WholeTiles(w) == w % Tile = 0

\* create_weights: a width of whole tiles, planned shapes that divide
Creatable(rank) == /\ WholeTiles(CreatedWidth(rank))
                   /\ case.planned => (case.size \div Tile) % case.tp = 0

Create(rank) ==
    /\ width[rank] = NotYet /\ <<rank, "create">> \notin refused
    /\ \/ /\ Creatable(rank)
          /\ width' = [width EXCEPT ![rank] = CreatedWidth(rank)]
          /\ UNCHANGED refused
       \/ ~Creatable(rank) /\ refused' = refused \cup {<<rank, "create">>} /\ UNCHANGED width
    /\ UNCHANGED <<case, held>>

\* _load_exl3 narrows a tensor and takes it when its shape is the parameter's, and
\* the arena slot's if there is one
Loadable(rank, part) ==
    LET cut == Narrowed(LoadedChunk(rank), part)
    IN  /\ Cuttable(part)
        /\ cut.length = width[rank]
        /\ case.planned /\ part = "trellis" => cut.length = PlannedWidth

Load(rank, part) ==
    /\ width[rank] # NotYet /\ held[<<rank, part>>] = Nothing /\ <<rank, "load">> \notin refused
    /\ \/ /\ Loadable(rank, part)
          /\ held' = [held EXCEPT ![<<rank, part>>] = Narrowed(LoadedChunk(rank), part)]
          /\ UNCHANGED refused
       \/ ~Loadable(rank, part) /\ refused' = refused \cup {<<rank, "load">>} /\ UNCHANGED held
    /\ UNCHANGED <<case, width>>

Next == \E rank \in Ranks : Create(rank) \/ \E part \in Parts : Load(rank, part)

Spec == Init /\ [][Next]_vars

-----------------------------------------------------------------------------
(* Properties.                                                             *)

Columns(i) == i.offset..(i.offset + i.length - 1)

TypeOK ==
    /\ case \in Cases
    /\ width \in [Ranks -> Nat \cup {NotYet}]
    /\ held \in [Ranks \X Parts -> [offset : Nat, length : Nat] \cup {Nothing}]
    /\ refused \subseteq Ranks \X {"create", "load"}

\* No column of an expert is held by two ranks: a partial sum over it would be
\* added twice by the all-reduce.
RanksDisjoint ==
    \A part \in Parts : \A r, s \in Ranks :
        r # s => Columns(held[<<r, part>>]) \cap Columns(held[<<s, part>>]) = {}

\* Once every rank holds its cut, every column is held by a rank.
RanksCover ==
    \A part \in Parts :
        (\A r \in Ranks : held[<<r, part>>] # Nothing)
            => \A x \in 0..(case.size - 1) : \E r \in Ranks : x \in Columns(held[<<r, part>>])

\* The tiles a rank holds are the columns of the scales it holds, as wide as its
\* parameters: the same cut of two tensors in different units.
TilesUnderScales ==
    \A r \in Ranks :
        held[<<r, "trellis">>] # Nothing /\ held[<<r, "scale">>] # Nothing =>
            held[<<r, "trellis">>] = held[<<r, "scale">>]

\* No shard boundary cuts a Hadamard block (the aligned split).
BlocksWhole ==
    \A x \in Ranks \X Parts :
        case.align > 0 /\ case.tp > 1 /\ held[x] # Nothing =>
            held[x].offset % case.align = 0 /\ held[x].length % case.align = 0

\* A rank that could size its parameters can load every tensor: create_weights, the header
\* scan and _load_exl3, which compute the cut apart, agree.  They part in two cases: a
\* dimension that has no whole blocks to split is created in equal shares and refused by
\* the loader, and arenas are planned in equal shares (shard_prescanned_trellis_shapes)
\* where the aligned split gives the rank another one (observation O).
UnequalShare(r) == IsAligned /\ CreatedWidth(r) * case.tp # case.size
CreatedIsLoadable ==
    \A r \in Ranks : <<r, "load">> \in refused =>
        \/ case.align > 0 /\ case.tp > 1 /\ ~IsAligned
        \/ case.planned /\ UnequalShare(r)
=============================================================================
