----------------------------- MODULE WeightProofs ------------------------------
(* From a checkpoint to the arena: the ranks cut an expert without overlap   *)
(* and along whole tiles and blocks, for every dimension, alignment, number  *)
(* of ranks and rotation, and the pinned bounce delivers every tensor, for   *)
(* any places, tensors and sizes.                                            *)
EXTENDS TpGeometry, BounceCopy, SequenceTheorems, TLAPS

-----------------------------------------------------------------------------
(* Arithmetic.                                                             *)

LEMMA DivMod == ASSUME NEW a \in Int, NEW b \in Int, b > 0 PROVE a = b * (a \div b) + (a % b)
BY Z3

LEMMA DivNat == ASSUME NEW a \in Nat, NEW b \in Nat \ {0} PROVE a \div b \in Nat /\ a % b \in 0..(b - 1)
BY SMT

LEMMA ModOnce == ASSUME NEW b \in Nat \ {0}, NEW a \in 0..(2 * b - 1)
                 PROVE (a < b => a % b = a) /\ (~(a < b) => a % b = a - b)
BY SMT

LEMMA MulMono == ASSUME NEW a \in Nat, NEW b \in Nat, NEW c \in Nat, a <= b
                 PROVE a * c <= b * c /\ a * c \in Nat
BY SMT

LEMMA MulMod == ASSUME NEW a \in Nat, NEW b \in Nat \ {0} PROVE (a * b) % b = 0
BY SMT

LEMMA MulDiv == ASSUME NEW a \in Nat, NEW b \in Nat \ {0} PROVE (a * b) \div b = a
BY SMT

LEMMA Multiple == ASSUME NEW a \in Nat, NEW b \in Nat \ {0}, a % b = 0
                  PROVE a = (a \div b) * b /\ a \div b \in Nat
<1>1. a = b * (a \div b) + (a % b) /\ a \div b \in Nat
  BY DivMod, DivNat
<1>2. QED
  BY <1>1, SMT

\* The blocks of a rank end where those of the next start, or before those of a
\* later one.
LEMMA BlocksInOrder ==
    ASSUME NEW base \in Nat, NEW rem \in Nat, NEW r \in Nat, NEW s \in Nat, r < s
    PROVE  /\ BlocksBefore(r, base, rem) \in Nat /\ BlocksOf(r, base, rem) \in Nat
           /\ BlocksBefore(r, base, rem) + BlocksOf(r, base, rem) <= BlocksBefore(s, base, rem)
<1>1. (r + 1) * base <= s * base /\ (r + 1) * base = r * base + base /\ r * base \in Nat /\ s * base \in Nat
  BY MulMono, SMT
<1>2. QED
  BY <1>1 DEF BlocksBefore, BlocksOf

\* A number of whole units.
Whole(a, u) == \E q \in Int : a = q * u

LEMMA WholeIfMod == ASSUME NEW a \in Nat, NEW u \in Nat \ {0}, a % u = 0 PROVE Whole(a, u)
BY Multiple DEF Whole

\* If the dimension and a rank's length are whole tiles, so is its offset: the
\* ranks before it are either all as long or make up the rest of the dimension.
LEMMA OffsetWhole ==
    ASSUME NEW base \in Nat, NEW rem \in Nat, NEW r \in Nat, NEW tp \in Nat, NEW align \in Nat,
           NEW u \in Nat \ {0},
           Whole((tp * base + rem) * align, u), Whole(BlocksOf(r, base, rem) * align, u)
    PROVE  Whole(BlocksBefore(r, base, rem) * align, u)
<1>1. PICK m \in Int : (tp * base + rem) * align = m * u
  BY DEF Whole
<1>2. PICK k \in Int : BlocksOf(r, base, rem) * align = k * u
  BY DEF Whole
<1>3. CASE r < rem
  <2>1. BlocksBefore(r, base, rem) * align = r * (BlocksOf(r, base, rem) * align)
    BY <1>3 DEF BlocksBefore, BlocksOf
  <2>2. BlocksBefore(r, base, rem) * align = (r * k) * u /\ r * k \in Int
    BY <2>1, <1>2, SMT
  <2>3. QED
    BY <2>2 DEF Whole
<1>4. CASE ~(r < rem)
  <2>1. base * align = k * u
    BY <1>2, <1>4 DEF BlocksOf
  <2>2. BlocksBefore(r, base, rem) * align = r * (base * align) + rem * align
    BY <1>4 DEF BlocksBefore
  <2>3. m * u = tp * (base * align) + rem * align
    BY <1>1, SMT
  <2>4. BlocksBefore(r, base, rem) * align = r * (k * u) + (m * u - tp * (k * u))
    BY <2>1, <2>2, <2>3, SMT
  <2>5. r * (k * u) + (m * u - tp * (k * u)) = (r * k + m - tp * k) * u /\ r * k + m - tp * k \in Int
    BY SMT
  <2>6. QED
    BY <2>4, <2>5 DEF Whole
<1>5. QED
  BY <1>3, <1>4

-----------------------------------------------------------------------------
(* The cut every rank should have.                                         *)

TrueCut(rank) ==
    IF case.tp = 1 THEN Interval(0, case.size)
    ELSE IF case.align = 0 THEN Interval((case.size \div case.tp) * rank, case.size \div case.tp)
    ELSE AlignedSplit(case.size, Chunk(rank), case.tp, case.align)

\* A case whose dimension is cut at all.
Cut == case.tp = 1 \/ case.align = 0 \/ IsAligned

CaseOK == case \in Cases

LEMMA CaseFacts == ASSUME CaseOK
                   PROVE /\ case.size \in Nat /\ case.tp \in Nat \ {0} /\ case.align \in Nat
                         /\ case.layer \in Nat /\ case.rotate \in BOOLEAN /\ case.planned \in BOOLEAN
                         /\ case.size % case.tp = 0 /\ case.size % Tile = 0
BY CasesAssumption DEF CaseOK

LEMMA TileFact == Tile \in Nat \ {0}
BY DEF Tile

LEMMA UnitFact == ASSUME NEW part \in Parts PROVE Unit(part) \in Nat \ {0} /\ Unit(part) \in {1, Tile}
BY DEF Unit, Tile

\* Two ranks have different chunks.
LEMMA ChunksDiffer ==
    ASSUME CaseOK, NEW r \in Ranks, NEW s \in Ranks, r # s
    PROVE  Chunk(r) \in Ranks /\ Chunk(s) \in Ranks /\ Chunk(r) # Chunk(s)
<1> DEFINE a == r + Rotation
           b == s + Rotation
           tp == case.tp
<1>1. Rotation \in 0..(tp - 1) /\ tp \in Nat \ {0}
  BY CaseFacts, DivNat DEF Rotation
<1>2. /\ a \in 0..(2 * tp - 1) /\ b \in 0..(2 * tp - 1)
      /\ a # b /\ a - b < tp /\ b - a < tp
  BY <1>1 DEF Ranks
<1>3. Chunk(r) = a % tp /\ Chunk(s) = b % tp /\ Ranks = 0..(tp - 1)
  BY DEF Chunk, Ranks
<1> HIDE DEF a, b, tp
<1>4. (a < tp => a % tp = a) /\ (~(a < tp) => a % tp = a - tp)
  BY ONLY <1>1, <1>2, ModOnce
<1>5. (b < tp => b % tp = b) /\ (~(b < tp) => b % tp = b - tp)
  BY ONLY <1>1, <1>2, ModOnce
<1>6. QED
  BY <1>1, <1>2, <1>3, <1>4, <1>5

LEMMA ChunkIsRank == ASSUME CaseOK, NEW r \in Ranks PROVE Chunk(r) \in Ranks
<1>1. Rotation \in Nat /\ case.tp \in Nat \ {0} /\ r \in Nat
  BY CaseFacts, DivNat DEF Rotation, Ranks
<1>2. (r + Rotation) % case.tp \in 0..(case.tp - 1)
  <2>1. r + Rotation \in Nat
    BY <1>1
  <2>2. QED
    BY ONLY <2>1, <1>1, DivNat, Zenon
<1>3. QED
  BY <1>2 DEF Chunk, Ranks

\* The blocks of the aligned split: their number is split by quotient and remainder.
LEMMA AlignedFacts ==
    ASSUME CaseOK, IsAligned
    PROVE  LET base == (case.size \div case.align) \div case.tp
               rem  == (case.size \div case.align) % case.tp
           IN  base \in Nat /\ rem \in Nat /\ case.size = (case.tp * base + rem) * case.align
<1> DEFINE blocks == case.size \div case.align
<1>0. case.size \in Nat /\ case.align \in Nat \ {0} /\ case.size % case.align = 0 /\ case.tp \in Nat \ {0}
  BY CaseFacts DEF IsAligned
<1>1. case.size = blocks * case.align /\ blocks \in Nat
  BY ONLY <1>0, Multiple
<1> HIDE DEF blocks
<1>2. blocks = case.tp * (blocks \div case.tp) + (blocks % case.tp)
  <2>1. case.tp \in Int /\ case.tp > 0 /\ blocks \in Int
    BY <1>0, <1>1
  <2>2. QED
    BY ONLY <2>1, DivMod, Zenon
<1>3. blocks \div case.tp \in Nat /\ blocks % case.tp \in 0..(case.tp - 1)
  BY ONLY <1>0, <1>1, DivNat, Zenon
<1>4. QED
  BY <1>0, <1>1, <1>2, <1>3 DEF blocks

\* The cuts of two ranks do not overlap.
LEMMA CutsDisjoint ==
    ASSUME CaseOK, Cut, NEW r \in Ranks, NEW s \in Ranks, r # s
    PROVE  Columns(TrueCut(r)) \cap Columns(TrueCut(s)) = {}
<1>1. case.tp # 1
  BY CaseFacts DEF Ranks
<1>2. CASE case.align = 0
  <2> DEFINE chunk == case.size \div case.tp
  <2>1. chunk \in Nat
    BY CaseFacts, DivNat
  <2> HIDE DEF chunk
  <2>2. \A i, j \in Ranks : i < j => chunk * i + chunk <= chunk * j /\ chunk * i \in Nat /\ chunk * j \in Nat
    <3>1. SUFFICES ASSUME NEW i \in Nat, NEW j \in Nat, i < j
                   PROVE chunk * i + chunk <= chunk * j /\ chunk * i \in Nat /\ chunk * j \in Nat
      BY CaseFacts DEF Ranks
    <3>2. (i + 1) * chunk <= j * chunk
      BY <2>1, <3>1, MulMono
    <3>3. QED
      BY <2>1, <3>2, SMT
  <2>3. TrueCut(r) = Interval(chunk * r, chunk) /\ TrueCut(s) = Interval(chunk * s, chunk)
    BY <1>1, <1>2 DEF TrueCut, chunk
  <2>4. r < s \/ s < r
    BY CaseFacts DEF Ranks
  <2>5. QED
    BY <2>1, <2>2, <2>3, <2>4 DEF Columns, Interval
<1>3. CASE case.align # 0
  <2> DEFINE base == (case.size \div case.align) \div case.tp
             rem  == (case.size \div case.align) % case.tp
             Start(c) == BlocksBefore(c, base, rem) * case.align
             Length(c) == BlocksOf(c, base, rem) * case.align
  <2>1. IsAligned
    BY <1>1, <1>3 DEF Cut
  <2>2. base \in Nat /\ rem \in Nat
    BY <2>1, AlignedFacts
  <2>3. \A i, j \in Ranks : i < j => Start(i) + Length(i) <= Start(j) /\ Start(i) \in Nat /\ Start(j) \in Nat /\ Length(i) \in Nat
    <3>1. SUFFICES ASSUME NEW i \in Nat, NEW j \in Nat, i < j
                   PROVE Start(i) + Length(i) <= Start(j) /\ Start(i) \in Nat /\ Start(j) \in Nat /\ Length(i) \in Nat
      BY CaseFacts DEF Ranks
    <3> HIDE DEF base, rem
    <3>2. /\ BlocksBefore(i, base, rem) \in Nat /\ BlocksOf(i, base, rem) \in Nat
          /\ BlocksBefore(i, base, rem) + BlocksOf(i, base, rem) <= BlocksBefore(j, base, rem)
      BY <2>2, <3>1, BlocksInOrder
    <3>3. BlocksBefore(j, base, rem) \in Nat
      BY <2>2, <3>1 DEF BlocksBefore
    <3>4. (BlocksBefore(i, base, rem) + BlocksOf(i, base, rem)) * case.align <= BlocksBefore(j, base, rem) * case.align
      BY <3>2, <3>3, CaseFacts, MulMono
    <3>5. QED
      BY <3>2, <3>3, <3>4, CaseFacts, SMT
  <2>4. TrueCut(r) = Interval(Start(Chunk(r)), Length(Chunk(r))) /\ TrueCut(s) = Interval(Start(Chunk(s)), Length(Chunk(s)))
    BY <1>1, <1>3 DEF TrueCut, AlignedSplit
  <2> HIDE DEF Start, Length
  <2>5. Chunk(r) \in Ranks /\ Chunk(s) \in Ranks /\ (Chunk(r) < Chunk(s) \/ Chunk(s) < Chunk(r))
    BY ChunksDiffer, CaseFacts DEF Ranks
  <2>6. QED
    BY <2>3, <2>4, <2>5 DEF Columns, Interval
<1>4. QED
  BY <1>2, <1>3
\* A number of whole units is not changed by rounding it down to units.
LEMMA Rounded == ASSUME NEW a \in Int, NEW q \in Int, NEW u \in Nat \ {0}, a = q * u
                 PROVE (a \div u) * u = a
<1>1. a \div u = q
  BY SMT
<1>2. QED
  BY <1>1

LEMMA MultipleOf == ASSUME NEW a \in Nat, NEW u \in Nat \ {0}, a % u = 0
                    PROVE (a \div u) * u = a
BY Multiple

\* Equal shares of whole units are the equal shares of the columns.
LEMMA EqualShares ==
    ASSUME NEW size \in Nat, NEW tp \in Nat \ {0}, NEW u \in Nat \ {0},
           size % u = 0, size % tp = 0, (size \div tp) % u = 0
    PROVE  /\ (size \div u) % tp = 0
           /\ ((size \div u) \div tp) * u = size \div tp
<1> DEFINE share == size \div tp
           k == share \div u
<1>1. size = share * tp /\ share \in Nat
  BY Multiple
<1> HIDE DEF share
<1>2. share = k * u /\ k \in Nat
  BY <1>1, Multiple DEF share
<1> HIDE DEF k
<1>3. size = (k * tp) * u /\ k * tp \in Nat
  BY <1>1, <1>2, SMT
<1>4. size \div u = k * tp
  BY ONLY <1>3, MulDiv, u \in Nat \ {0}
<1>5. (k * tp) % tp = 0 /\ (k * tp) \div tp = k
  BY ONLY <1>2, MulMod, MulDiv, tp \in Nat \ {0}
<1>6. QED
  BY <1>2, <1>4, <1>5 DEF share

\* What the loader narrows is the cut the rank should have, in tiles and in columns.
LEMMA NarrowedIsTrueCut ==
    ASSUME CaseOK, Cut, NEW r \in Ranks, NEW part \in Parts, WholeTiles(CreatedWidth(r))
    PROVE  /\ Cuttable(part)
           /\ Narrowed(LoadedChunk(r), part) = TrueCut(r)
           /\ TrueCut(r).length = CreatedWidth(r)
<1> DEFINE u == Unit(part)
<1>u. u \in Nat \ {0} /\ (u = 1 \/ u = Tile) /\ Tile \in Nat \ {0}
  BY UnitFact, TileFact
<1>w. \A a \in Nat : a % Tile = 0 => a % u = 0
  BY <1>u, SMT
<1> HIDE DEF u
<1>1. CASE case.tp = 1
  <2>1. ~IsAligned /\ CreatedWidth(r) = case.size
    BY <1>1, CaseFacts DEF IsAligned, CreatedWidth
  <2>2. QED
    BY <1>1, <2>1 DEF Cuttable, Narrowed, TrueCut, Interval
<1>2. CASE case.tp # 1 /\ case.align = 0
  <2>1. ~IsAligned /\ Equal(part)
    BY <1>2 DEF IsAligned, Equal
  <2>2. CreatedWidth(r) = case.size \div case.tp /\ LoadedChunk(r) = r
    BY <2>1 DEF CreatedWidth, LoadedChunk
  <2>3. case.size \div case.tp \in Nat /\ (case.size \div case.tp) % Tile = 0
    BY <2>2, CaseFacts, DivNat DEF WholeTiles
  <2>4. case.size % u = 0 /\ (case.size \div case.tp) % u = 0
    BY <2>3, <1>w, CaseFacts
  <2>5. (case.size \div u) % case.tp = 0 /\ ((case.size \div u) \div case.tp) * u = case.size \div case.tp
    <3>1. /\ case.size \in Nat /\ case.tp \in Nat \ {0} /\ u \in Nat \ {0}
          /\ case.size % u = 0 /\ case.size % case.tp = 0 /\ (case.size \div case.tp) % u = 0
      BY <2>4, <1>u, CaseFacts
    <3>2. QED
      BY ONLY <3>1, EqualShares
  <2> DEFINE chunk == (case.size \div u) \div case.tp
  <2>6. chunk \in Nat /\ r \in Nat
    <3>1. case.size \in Nat /\ case.tp \in Nat \ {0} /\ r \in Nat
      BY CaseFacts DEF Ranks
    <3>2. case.size \div u \in Nat
      BY ONLY <3>1, <1>u, DivNat
    <3>3. QED
      BY ONLY <3>1, <3>2, DivNat
  <2>7. chunk * r * u = (chunk * u) * r
    <3> HIDE DEF chunk
    <3>1. QED
      BY <2>6, <1>u, SMT
  <2>8. Narrowed(r, part) = Interval(chunk * r * u, chunk * u)
    BY <1>2, <2>1 DEF Narrowed, u
  <2>9. TrueCut(r) = Interval((case.size \div case.tp) * r, case.size \div case.tp)
    BY <1>2 DEF TrueCut
  <2>10. Cuttable(part)
    BY <2>1, <2>5 DEF Cuttable, u
  <2>11. QED
    BY <2>2, <2>5, <2>7, <2>8, <2>9, <2>10 DEF Interval
<1>3. CASE case.tp # 1 /\ case.align # 0
  <2> DEFINE base == (case.size \div case.align) \div case.tp
             rem  == (case.size \div case.align) % case.tp
             c == Chunk(r)
             off == BlocksBefore(c, base, rem) * case.align
             len == BlocksOf(c, base, rem) * case.align
  <2>1. IsAligned /\ ~Equal(part)
    BY <1>3 DEF Cut, Equal
  <2>2. base \in Nat /\ rem \in Nat /\ case.size = (case.tp * base + rem) * case.align
    BY <2>1, AlignedFacts
  <2>3. c \in Nat
    BY ChunkIsRank, CaseFacts DEF Ranks
  <2>4. AlignedSplit(case.size, c, case.tp, case.align) = Interval(off, len)
    BY DEF AlignedSplit
  <2>5. TrueCut(r) = Interval(off, len) /\ CreatedWidth(r) = len /\ LoadedChunk(r) = c
    BY <1>3, <2>1, <2>4 DEF TrueCut, CreatedWidth, LoadedChunk, Interval
  <2>6. Cuttable(part)
    BY <2>1 DEF Cuttable, IsAligned
  <2>7. Narrowed(c, part) = Interval((off \div u) * u, (len \div u) * u)
    BY <1>3, <2>1, <2>4 DEF Narrowed, Interval, u
  <2> HIDE DEF base, rem, c
  <2>8. off \in Nat /\ len \in Nat
    BY <2>2, <2>3, CaseFacts DEF BlocksBefore, BlocksOf
  <2>9. len % u = 0 /\ case.size % u = 0
    <3>1. len % Tile = 0
      BY <2>5 DEF WholeTiles
    <3>2. QED
      BY <3>1, <2>8, <1>w, CaseFacts
  <2>10. Whole(off, u) /\ Whole(len, u)
    <3> DEFINE tp == case.tp
               align == case.align
    <3>1. tp \in Nat /\ align \in Nat /\ case.size \in Nat
      BY CaseFacts
    <3>2. Whole(case.size, u) /\ Whole(len, u)
      <4> HIDE DEF len
      <4>1. QED
        BY ONLY <3>1, <2>8, <2>9, <1>u, WholeIfMod
    <3>3. Whole((tp * base + rem) * align, u) /\ Whole(BlocksOf(c, base, rem) * align, u)
      BY <3>2, <2>2
    <3> HIDE DEF tp, align
    <3>4. Whole(BlocksBefore(c, base, rem) * align, u)
      BY ONLY <3>1, <3>3, <2>2, <2>3, <1>u, OffsetWhole
    <3>5. QED
      BY <3>2, <3>4 DEF align
  <2> HIDE DEF off, len
  <2>11. (off \div u) * u = off /\ (len \div u) * u = len
    BY ONLY <2>8, <2>10, <1>u, Rounded DEF Whole
  <2>12. QED
    BY <2>5, <2>6, <2>7, <2>11 DEF Interval
<1>4. QED
  BY <1>1, <1>2, <1>3

-----------------------------------------------------------------------------
(* The specification.                                                      *)

\* A rank has its parameters only in the width of its cut, and holds only its cut.
CutsKept ==
    /\ \A r \in Ranks : width[r] # NotYet => width[r] = CreatedWidth(r) /\ WholeTiles(width[r])
    /\ \A x \in Ranks \X Parts :
          held[x] # Nothing => Cut /\ WholeTiles(CreatedWidth(x[1])) /\ held[x] = TrueCut(x[1])
    /\ \A r \in Ranks : <<r, "load">> \in refused => width[r] # NotYet

IInv == TypeOK /\ CutsKept

LEMMA WidthIsNat == ASSUME CaseOK, NEW r \in Ranks PROVE CreatedWidth(r) \in Nat
<1>1. CASE IsAligned
  <2> DEFINE base == (case.size \div case.align) \div case.tp
             rem  == (case.size \div case.align) % case.tp
  <2>1. base \in Nat /\ rem \in Nat
    BY <1>1, AlignedFacts
  <2>2. CreatedWidth(r) = BlocksOf(Chunk(r), base, rem) * case.align
    BY <1>1 DEF CreatedWidth, AlignedSplit, Interval
  <2> HIDE DEF base, rem
  <2>3. QED
    BY <2>1, <2>2, CaseFacts DEF BlocksOf
<1>2. CASE ~IsAligned
  BY <1>2, CaseFacts, DivNat DEF CreatedWidth
<1>3. QED
  BY <1>1, <1>2

LEMMA TrueCutType ==
    ASSUME CaseOK, Cut, NEW r \in Ranks
    PROVE  TrueCut(r) \in [offset : Nat, length : Nat]
<1>1. CASE case.tp = 1
  BY <1>1, CaseFacts DEF TrueCut, Interval
<1>2. CASE case.tp # 1 /\ case.align = 0
  <2> DEFINE chunk == case.size \div case.tp
  <2>1. chunk \in Nat /\ r \in Nat
    BY CaseFacts, DivNat DEF Ranks
  <2>2. TrueCut(r) = Interval(chunk * r, chunk)
    BY <1>2 DEF TrueCut
  <2> HIDE DEF chunk
  <2>3. chunk * r \in Nat
    BY <2>1, SMT
  <2>4. QED
    BY <2>1, <2>2, <2>3 DEF Interval
<1>3. CASE case.tp # 1 /\ case.align # 0
  <2> DEFINE base == (case.size \div case.align) \div case.tp
             rem  == (case.size \div case.align) % case.tp
             off == BlocksBefore(Chunk(r), base, rem)
             len == BlocksOf(Chunk(r), base, rem)
  <2>1. base \in Nat /\ rem \in Nat
    BY <1>3, AlignedFacts DEF Cut
  <2>2. TrueCut(r) = Interval(off * case.align, len * case.align)
    BY <1>3 DEF TrueCut, AlignedSplit
  <2>3. Chunk(r) \in Nat
    BY ChunkIsRank, CaseFacts DEF Ranks
  <2> HIDE DEF base, rem
  <2>4. off \in Nat /\ len \in Nat
    BY <2>1, <2>3, MulMono DEF BlocksBefore, BlocksOf
  <2> HIDE DEF off, len
  <2>5. off * case.align \in Nat /\ len * case.align \in Nat
    BY <2>4, CaseFacts, SMT
  <2>6. QED
    BY <2>2, <2>5 DEF Interval
<1>4. QED
  BY <1>1, <1>2, <1>3

\* A tensor that can be cut belongs to a case that is cut.
LEMMA CuttableIsCut == ASSUME CaseOK, NEW part \in Parts, Cuttable(part) PROVE Cut
BY CaseFacts DEF Cuttable, Cut, Equal, IsAligned

LEMMA InitInv == Init => IInv
<1> SUFFICES ASSUME Init PROVE IInv
  OBVIOUS
<1>1. TypeOK
  BY DEF Init, TypeOK, Ranks
<1>2. CutsKept
  BY DEF Init, CutsKept
<1>3. QED
  BY <1>1, <1>2 DEF IInv

LEMMA CreateInv == ASSUME IInv, NEW rank \in Ranks, Create(rank) PROVE IInv'
<1>1. CaseOK /\ CreatedWidth(rank) \in Nat
  BY WidthIsNat DEF IInv, TypeOK, CaseOK
<1>2. case' = case /\ held' = held /\ Ranks' = Ranks
  BY DEF Create, Ranks
<1>3. CASE Creatable(rank) /\ width' = [width EXCEPT ![rank] = CreatedWidth(rank)] /\ refused' = refused
  <2>1. TypeOK'
    BY <1>1, <1>2, <1>3 DEF IInv, TypeOK
  <2>2. CutsKept'
    BY <1>1, <1>2, <1>3, ZenonT(40) DEF IInv, TypeOK, CutsKept, Creatable, CreatedWidth, AlignedSplit, IsAligned,
      Chunk, Rotation, Cut, TrueCut, NotYet
  <2>3. QED
    BY <2>1, <2>2 DEF IInv
<1>4. CASE refused' = refused \cup {<<rank, "create">>} /\ width' = width
  <2>1. TypeOK'
    BY <1>2, <1>4 DEF IInv, TypeOK
  <2>2. CutsKept'
    BY <1>2, <1>4 DEF IInv, CutsKept, CreatedWidth, AlignedSplit, IsAligned, Chunk, Rotation, Cut, TrueCut
  <2>3. QED
    BY <2>1, <2>2 DEF IInv
<1>5. QED
  BY <1>3, <1>4 DEF Create

\* A rank that sized its parameters can load, if its case is cut at all and the share is not
\* one that was planned as another.
LEMMA CreatedLoads ==
    ASSUME IInv, NEW rank \in Ranks, NEW part \in Parts, width[rank] # NotYet, Cut,
           ~(case.planned /\ UnequalShare(rank))
    PROVE  Loadable(rank, part)
<1>1. CaseOK /\ WholeTiles(CreatedWidth(rank)) /\ width[rank] = CreatedWidth(rank)
  BY DEF IInv, TypeOK, CaseOK, CutsKept
<1>2. /\ Cuttable(part) /\ Narrowed(LoadedChunk(rank), part) = TrueCut(rank)
      /\ TrueCut(rank).length = CreatedWidth(rank)
  BY <1>1, NarrowedIsTrueCut
<1>3. ASSUME case.planned PROVE CreatedWidth(rank) = PlannedWidth
  <2>1. CreatedWidth(rank) = case.size \div case.tp
    <3>1. CASE ~IsAligned
      BY <3>1 DEF CreatedWidth
    <3>2. CASE IsAligned
      <4>1. PICK w \in Nat : w = CreatedWidth(rank)
        BY <1>1, WidthIsNat
      <4>2. w * case.tp = case.size /\ case.tp \in Nat \ {0}
        BY <1>1, <1>3, <3>2, <4>1, CaseFacts DEF UnequalShare
      <4>3. (w * case.tp) \div case.tp = w
        BY <4>2, MulDiv
      <4>4. QED
        BY <4>1, <4>2, <4>3
    <3>3. QED
      BY <3>1, <3>2
  <2> DEFINE size == case.size
             tp == case.tp
             t == Tile
  <2>2. size \in Nat /\ tp \in Nat \ {0} /\ t \in Nat \ {0} /\ size % t = 0 /\ size % tp = 0 /\ (size \div tp) % t = 0
    BY <1>1, <2>1, CaseFacts, TileFact DEF WholeTiles
  <2> HIDE DEF size, tp, t
  <2>3. ((size \div t) \div tp) * t = size \div tp
    BY <2>2, EqualShares
  <2>4. QED
    BY <2>1, <2>3 DEF PlannedWidth, size, tp, t
<1>4. QED
  BY <1>1, <1>2, <1>3 DEF Loadable

LEMMA LoadInv == ASSUME IInv, NEW rank \in Ranks, NEW part \in Parts, Load(rank, part)
                 PROVE  IInv'
<1>1. CaseOK /\ WholeTiles(CreatedWidth(rank)) /\ width[rank] # NotYet
  BY DEF IInv, TypeOK, CaseOK, CutsKept, Load
<1>2. case' = case /\ width' = width /\ Ranks' = Ranks
  BY DEF Load, Ranks
<1>3. CASE /\ Loadable(rank, part) /\ refused' = refused
           /\ held' = [held EXCEPT ![<<rank, part>>] = Narrowed(LoadedChunk(rank), part)]
  <2>1. Cut
    BY <1>1, <1>3, CuttableIsCut DEF Loadable
  <2>2. Narrowed(LoadedChunk(rank), part) = TrueCut(rank)
    BY <1>1, <2>1, NarrowedIsTrueCut
  <2>3. TrueCut(rank) \in [offset : Nat, length : Nat]
    BY <1>1, <2>1, TrueCutType
  <2>4. TypeOK'
    BY <1>2, <1>3, <2>2, <2>3 DEF IInv, TypeOK
  <2>5. CutsKept'
    <3>1. Cut' = Cut /\ (\A r \in Ranks : TrueCut(r)' = TrueCut(r) /\ CreatedWidth(r)' = CreatedWidth(r))
      BY <1>2 DEF Cut, TrueCut, CreatedWidth, AlignedSplit, IsAligned, Chunk, Rotation
    <3>2. QED
      BY <1>1, <1>2, <1>3, <2>1, <2>2, <3>1 DEF IInv, TypeOK, CutsKept
  <2>6. QED
    BY <2>4, <2>5 DEF IInv
<1>4. CASE refused' = refused \cup {<<rank, "load">>} /\ held' = held
  <2>1. TypeOK'
    BY <1>2, <1>4 DEF IInv, TypeOK
  <2>2. CutsKept'
    BY <1>1, <1>2, <1>4, ZenonT(40) DEF IInv, CutsKept, CreatedWidth, AlignedSplit, IsAligned, Chunk, Rotation, Cut, TrueCut
  <2>3. QED
    BY <2>1, <2>2 DEF IInv
<1>5. QED
  BY <1>3, <1>4 DEF Load

LEMMA StepInv == IInv /\ [Next]_vars => IInv'
<1> SUFFICES ASSUME IInv, [Next]_vars PROVE IInv'
  OBVIOUS
<1>1. CASE Next
  BY <1>1, CreateInv, LoadInv DEF Next
<1>2. CASE UNCHANGED vars
  BY <1>2 DEF vars, IInv, TypeOK, CutsKept, CreatedWidth, AlignedSplit, IsAligned, Chunk, Rotation,
    Cut, TrueCut, Ranks
<1>3. QED
  BY <1>1, <1>2

\* Only a load that cannot be cut, or was planned as another share, is refused.
LEMMA StepLoadable == IInv /\ CreatedIsLoadable /\ [Next]_vars => CreatedIsLoadable'
<1> SUFFICES ASSUME IInv, CreatedIsLoadable, [Next]_vars PROVE CreatedIsLoadable'
  OBVIOUS
<1> DEFINE Excused(r) == \/ case.align > 0 /\ case.tp > 1 /\ ~IsAligned
                         \/ case.planned /\ UnequalShare(r)
<1>1. ASSUME case' = case, \A r \in Ranks : <<r, "load">> \in refused' \ refused => Excused(r)
      PROVE  CreatedIsLoadable'
  <2>1. Ranks' = Ranks /\ \A r \in Ranks : Excused(r)' <=> Excused(r)
    BY <1>1 DEF Ranks, UnequalShare, CreatedWidth, AlignedSplit, IsAligned, Chunk, Rotation
  <2>2. \A r \in Ranks : <<r, "load">> \in refused => Excused(r)
    BY DEF CreatedIsLoadable
  <2>3. \A r \in Ranks : <<r, "load">> \in refused' => Excused(r)
    BY <1>1, <2>2
  <2> HIDE DEF Excused
  <2>4. \A r \in Ranks' : <<r, "load">> \in refused' => Excused(r)'
    BY <2>1, <2>3
  <2>5. QED
    BY <2>4 DEF CreatedIsLoadable, Excused
<1> HIDE DEF Excused
<1>2. ASSUME NEW rank \in Ranks, Create(rank) PROVE CreatedIsLoadable'
  BY <1>1, <1>2 DEF Create
<1>3. ASSUME NEW rank \in Ranks, NEW part \in Parts, Load(rank, part) PROVE CreatedIsLoadable'
  <2>1. CASE refused' = refused
    BY <1>1, <1>3, <2>1 DEF Load
  <2>2. CASE ~Loadable(rank, part) /\ refused' = refused \cup {<<rank, "load">>}
    <3>1. CaseOK /\ (~Cut \/ (case.planned /\ UnequalShare(rank)))
      BY <1>3, <2>2, CreatedLoads DEF Load, IInv, TypeOK, CaseOK
    <3>2. Excused(rank)
      BY <3>1, CaseFacts DEF Cut, Excused
    <3>3. QED
      BY <1>1, <1>3, <2>2, <3>2 DEF Load
  <2>3. QED
    BY <1>3, <2>1, <2>2 DEF Load
<1>4. CASE UNCHANGED vars
  BY <1>1, <1>4 DEF vars
<1>5. QED
  BY <1>2, <1>3, <1>4 DEF Next

-----------------------------------------------------------------------------
(* Nothing is left out.                                                    *)

LEMMA DivBetween == ASSUME NEW a \in Nat, NEW b \in Nat \ {0}
                    PROVE a \div b \in Nat /\ (a \div b) * b <= a /\ a < (a \div b) * b + b
<1>1. a = b * (a \div b) + (a % b) /\ a \div b \in Nat /\ a % b \in 0..(b - 1)
  <2>1. a \in Int /\ b \in Int /\ b > 0
    OBVIOUS
  <2>2. QED
    BY <2>1, DivMod, DivNat, Zenon
<1>2. b * (a \div b) = (a \div b) * b
  BY <1>1, SMT
<1>3. QED
  BY <1>1, <1>2

LEMMA LessFactor == ASSUME NEW a \in Nat, NEW b \in Nat, NEW c \in Nat, a * c < b * c PROVE a < b
<1> SUFFICES ASSUME b <= a PROVE FALSE
  OBVIOUS
<1>1. b * c <= a * c /\ a * c \in Nat /\ b * c \in Nat
  BY MulMono
<1>2. QED
  BY <1>1

\* Every block belongs to a chunk: to one of the rem longer ones, or to one of the rest.
LEMMA BlockHasChunk ==
    ASSUME NEW base \in Nat, NEW rem \in Nat, NEW tp \in Nat \ {0}, rem < tp,
           NEW b \in Nat, b < tp * base + rem
    PROVE  \E c \in 0..(tp - 1) :
              BlocksBefore(c, base, rem) <= b /\ b < BlocksBefore(c, base, rem) + BlocksOf(c, base, rem)
<1>1. PICK long \in Nat \ {0} : long = base + 1
  OBVIOUS
<1>2. PICK first \in Nat : first = rem * long /\ first = rem * base + rem
  BY <1>1, SMT
<1>3. CASE b < first
  <2>1. PICK c : c = b \div long
    OBVIOUS
  <2>2. c \in Nat /\ c * long <= b /\ b < c * long + long
    BY <1>1, <2>1, DivBetween
  <2>3. c < rem
    <3>1. c * long \in Nat /\ rem * long \in Nat
      BY <1>1, <2>2, MulMono
    <3>2. c * long < rem * long
      BY <1>2, <1>3, <2>2, <3>1
    <3>3. QED
      BY <1>1, <2>2, <3>2, LessFactor
  <2>4. c * long = c * base + c
    BY <1>1, <2>2, SMT
  <2>5. BlocksBefore(c, base, rem) = c * long /\ BlocksOf(c, base, rem) = long
    BY <1>1, <2>3, <2>4 DEF BlocksBefore, BlocksOf
  <2>6. QED
    BY <2>2, <2>3, <2>5
<1>4. CASE ~(b < first)
  <2>1. PICK d \in Nat : b = first + d
    <3>1. b - first \in Nat /\ b = first + (b - first)
      BY <1>4
    <3>2. QED
      BY <3>1
  <2>2. PICK n \in Nat : tp = rem + n
    <3>1. tp - rem \in Nat /\ tp = rem + (tp - rem)
      OBVIOUS
    <3>2. QED
      BY <3>1
  <2>3. tp * base = rem * base + n * base /\ rem * base \in Nat /\ n * base \in Nat
    BY <2>2, SMT
  <2>4. d < n * base
    BY <1>2, <2>1, <2>3
  <2>5. base \in Nat \ {0}
    <3>1. base # 0
      <4> SUFFICES ASSUME base = 0 PROVE FALSE
        OBVIOUS
      <4>1. n * base = 0
        BY <2>2, SMT
      <4>2. QED
        BY <2>1, <2>4, <4>1
    <3>2. QED
      BY <3>1
  <2>6. PICK q : q = d \div base
    OBVIOUS
  <2>7. q \in Nat /\ q * base <= d /\ d < q * base + base
    BY <2>1, <2>5, <2>6, DivBetween
  <2>8. q < n
    <3>1. q * base \in Nat
      BY <2>7, MulMono
    <3>2. q * base < n * base
      BY <2>1, <2>3, <2>4, <2>7, <3>1
    <3>3. QED
      BY <2>2, <2>7, <3>2, LessFactor
  <2>9. PICK c \in Nat : c = rem + q
    BY <2>7
  <2>10. c * base = rem * base + q * base
    BY <2>7, <2>9, SMT
  <2>11. c \in 0..(tp - 1) /\ ~(c < rem)
    BY <2>2, <2>7, <2>8, <2>9
  <2>12. BlocksBefore(c, base, rem) = c * base + rem /\ BlocksOf(c, base, rem) = base
    BY <2>11 DEF BlocksBefore, BlocksOf
  <2>13. q * base \in Nat
    BY <2>7, MulMono
  <2>14. QED
    BY <1>2, <2>1, <2>3, <2>7, <2>10, <2>11, <2>12, <2>13
<1>5. QED
  BY <1>3, <1>4

\* Every chunk belongs to a rank.
LEMMA ChunkHasRank == ASSUME CaseOK, NEW c \in Ranks PROVE \E r \in Ranks : Chunk(r) = c
<1>1. PICK tp, rot : tp = case.tp /\ rot = Rotation
  OBVIOUS
<1>2. rot \in 0..(tp - 1) /\ tp \in Nat \ {0} /\ c \in 0..(tp - 1) /\ Ranks = 0..(tp - 1)
  BY <1>1, CaseFacts, DivNat DEF Rotation, Ranks
<1>3. PICK r : r = IF c >= rot THEN c - rot ELSE c + tp - rot
  OBVIOUS
<1>4. r \in 0..(tp - 1) /\ (r + rot = c \/ r + rot = c + tp)
  BY <1>2, <1>3
<1>5. (r + rot) % tp = c
  <2>1. PICK a : a = r + rot
    OBVIOUS
  <2>2. a \in 0..(2 * tp - 1) /\ (a = c \/ a = c + tp)
    BY <1>2, <1>4, <2>1
  <2>3. (a < tp => a % tp = a) /\ (~(a < tp) => a % tp = a - tp)
    BY <1>2, <2>2, ModOnce
  <2>4. QED
    BY <1>2, <2>1, <2>2, <2>3
<1>6. QED
  BY <1>1, <1>2, <1>4, <1>5 DEF Chunk

\* Every column belongs to the cut of a rank.
LEMMA CutsCover ==
    ASSUME CaseOK, Cut, NEW x \in 0..(case.size - 1)
    PROVE  \E r \in Ranks : x \in Columns(TrueCut(r))
<1>1. case.size \in Nat /\ case.tp \in Nat \ {0} /\ case.size % case.tp = 0 /\ x \in Nat /\ x < case.size
  BY CaseFacts
<1>2. CASE case.tp = 1
  <2>1. 0 \in Ranks /\ Columns(TrueCut(0)) = 0..(0 + case.size - 1)
    BY <1>1, <1>2 DEF Ranks, TrueCut, Columns, Interval
  <2>2. QED
    BY <1>1, <2>1
<1>3. CASE case.tp # 1 /\ case.align = 0
  <2>1. PICK chunk : chunk = case.size \div case.tp
    OBVIOUS
  <2>2. PICK size, tp : size = case.size /\ tp = case.tp
    OBVIOUS
  <2>3. size \in Nat /\ tp \in Nat \ {0} /\ size % tp = 0 /\ chunk = size \div tp
    BY <1>1, <2>1, <2>2
  <2>4. size = chunk * tp /\ chunk \in Nat
    BY <2>3, Multiple
  <2>5. chunk \in Nat \ {0}
    <3>1. chunk # 0
      <4> SUFFICES ASSUME chunk = 0 PROVE FALSE
        OBVIOUS
      <4>1. size = 0
        BY <2>3, <2>4
      <4>2. QED
        BY <1>1, <2>2, <4>1
    <3>2. QED
      BY <2>4, <3>1
  <2>6. PICK r : r = x \div chunk
    OBVIOUS
  <2>7. r \in Nat /\ r * chunk <= x /\ x < r * chunk + chunk
    BY <1>1, <2>5, <2>6, DivBetween
  <2>8. r < tp
    <3>1. r * chunk \in Nat /\ tp * chunk = chunk * tp
      BY <2>3, <2>5, <2>7, SMT
    <3>2. r * chunk < tp * chunk
      BY <1>1, <2>2, <2>4, <2>7, <3>1
    <3>3. QED
      BY <2>3, <2>4, <2>7, <3>2, LessFactor
  <2>9. r \in Ranks
    BY <2>2, <2>3, <2>7, <2>8 DEF Ranks
  <2>10. PICK off \in Nat : off = r * chunk /\ off = chunk * r
    BY <2>5, <2>7, SMT
  <2>11. TrueCut(r) = Interval(off, chunk)
    BY <1>3, <2>1, <2>10 DEF TrueCut
  <2>12. x \in off..(off + chunk - 1)
    BY <1>1, <2>5, <2>7, <2>10
  <2>13. QED
    BY <2>9, <2>11, <2>12 DEF Columns, Interval
<1>4. CASE case.tp # 1 /\ case.align # 0
  <2>1. PICK base, rem, align, tp : /\ base = (case.size \div case.align) \div case.tp
                                    /\ rem = (case.size \div case.align) % case.tp
                                    /\ align = case.align /\ tp = case.tp
    OBVIOUS
  <2>2. IsAligned
    BY <1>4 DEF Cut
  <2>3. base \in Nat /\ rem \in Nat /\ case.size = (tp * base + rem) * align
    BY <2>1, <2>2, AlignedFacts
  <2>4. align \in Nat \ {0} /\ tp \in Nat \ {0}
    BY <1>4, <2>1, CaseFacts
  <2>5. rem < tp
    <3>1. case.size \in Nat /\ case.align \in Nat \ {0}
      BY <1>4, CaseFacts
    <3>2. case.size \div case.align \in Nat
      BY <3>1, DivNat
    <3>3. rem \in 0..(tp - 1)
      BY <2>1, <2>4, <3>2, DivNat
    <3>4. QED
      BY <2>4, <3>3
  <2>6. PICK n \in Nat : n = tp * base + rem
    <3>1. tp * base \in Nat
      BY <2>3, <2>4, MulMono
    <3>2. QED
      BY <2>3, <3>1
  <2>7. PICK b : b = x \div align
    OBVIOUS
  <2>8. b \in Nat /\ b * align <= x /\ x < b * align + align
    BY <1>1, <2>4, <2>7, DivBetween
  <2>9. b < n
    <3>1. b * align \in Nat /\ n * align \in Nat
      BY <2>4, <2>8, MulMono
    <3>2. b * align < n * align
      BY <1>1, <2>3, <2>6, <2>8, <3>1
    <3>3. QED
      BY <2>4, <2>8, <3>2, LessFactor
  <2>10. PICK c \in 0..(tp - 1) :
            BlocksBefore(c, base, rem) <= b /\ b < BlocksBefore(c, base, rem) + BlocksOf(c, base, rem)
    BY <2>3, <2>4, <2>5, <2>6, <2>8, <2>9, BlockHasChunk
  <2>11. PICK r \in Ranks : Chunk(r) = c
    <3>1. c \in Ranks
      BY <2>1, <2>10 DEF Ranks
    <3>2. QED
      BY <3>1, ChunkHasRank
  <2>12. PICK off, len : off = BlocksBefore(c, base, rem) /\ len = BlocksOf(c, base, rem)
    OBVIOUS
  <2>13. off \in Nat /\ len \in Nat /\ off <= b /\ b + 1 <= off + len
    <3>1. c \in Nat /\ c * base \in Nat
      BY <2>3, <2>4, <2>10, MulMono
    <3>2. off \in Nat /\ len \in Nat
      BY <2>3, <2>12, <3>1 DEF BlocksBefore, BlocksOf
    <3>3. QED
      BY <2>8, <2>10, <2>12, <3>2
  <2>14. /\ off * align \in Nat /\ len * align \in Nat /\ off * align <= b * align
         /\ (b + 1) * align <= (off + len) * align
    BY <2>4, <2>8, <2>13, MulMono
  <2>15. (b + 1) * align = b * align + align /\ (off + len) * align = off * align + len * align
    BY <2>4, <2>8, <2>13, SMT
  <2>16. x \in (off * align)..(off * align + len * align - 1)
    <3>1. b * align \in Nat
      BY <2>4, <2>8, MulMono
    <3>2. PICK o, l, m : o = off * align /\ l = len * align /\ m = b * align
      OBVIOUS
    <3>3. o \in Nat /\ l \in Nat /\ m \in Nat /\ o <= m /\ m + align <= o + l /\ m <= x /\ x < m + align
      BY <2>8, <2>14, <2>15, <3>1, <3>2
    <3>4. x \in o..(o + l - 1)
      BY <1>1, <2>4, <3>3
    <3>5. QED
      BY <3>2, <3>4
  <2>17. TrueCut(r) = Interval(off * align, len * align)
    BY <1>4, <2>1, <2>11, <2>12 DEF TrueCut, AlignedSplit
  <2>18. QED
    BY <2>16, <2>17 DEF Columns, Interval
<1>5. QED
  BY <1>2, <1>3, <1>4

-----------------------------------------------------------------------------
(* Results.                                                                *)

\* The state of the ranks is well formed (create_weights, _load_exl3).
THEOREM TypeCorrect == Spec => []TypeOK
<1>1. IInv => TypeOK
  BY DEF IInv
<1>2. QED
  BY InitInv, StepInv, <1>1, PTL DEF Spec

\* For any dimension, alignment, number of ranks and rotation, no column of an expert
\* is held by two ranks (aligned_tp_split, moe_tp_rotation, _narrow_tp).
THEOREM NoColumnTwice == Spec => []RanksDisjoint
<1>1. IInv => RanksDisjoint
  <2> SUFFICES ASSUME IInv, NEW part \in Parts, NEW r \in Ranks, NEW s \in Ranks, r # s
               PROVE Columns(held[<<r, part>>]) \cap Columns(held[<<s, part>>]) = {}
    BY DEF RanksDisjoint
  <2>1. Columns(Nothing) = {}
    BY DEF Columns, Nothing, Interval
  <2>2. \A q \in Ranks : held[<<q, part>>] # Nothing => Cut /\ held[<<q, part>>] = TrueCut(q)
    BY DEF IInv, CutsKept
  <2>3. CASE held[<<r, part>>] = Nothing \/ held[<<s, part>>] = Nothing
    BY <2>1, <2>3
  <2>4. CASE held[<<r, part>>] # Nothing /\ held[<<s, part>>] # Nothing
    BY <2>2, <2>4, CutsDisjoint DEF IInv, TypeOK, CaseOK
  <2>5. QED
    BY <2>3, <2>4
<1>2. QED
  BY InitInv, StepInv, <1>1, PTL DEF Spec

\* Once every rank holds its cut of a tensor, no column of it is missing, for any dimension, alignment,
\* number of ranks and rotation (aligned_tp_split, moe_tp_rotation, _narrow_tp).
THEOREM NoColumnMissing == Spec => []RanksCover
<1>1. IInv => RanksCover
  <2> SUFFICES ASSUME IInv, NEW part \in Parts, \A r \in Ranks : held[<<r, part>>] # Nothing,
                      NEW x \in 0..(case.size - 1)
               PROVE  \E r \in Ranks : x \in Columns(held[<<r, part>>])
    BY DEF RanksCover
  <2>1. CaseOK /\ \A r \in Ranks : Cut /\ held[<<r, part>>] = TrueCut(r)
    BY DEF IInv, CutsKept, TypeOK, CaseOK
  <2>2. 0 \in Ranks
    BY <2>1, CaseFacts DEF Ranks
  <2>3. QED
    BY <2>1, <2>2, CutsCover
<1>2. QED
  BY InitInv, StepInv, <1>1, PTL DEF Spec

\* The tiles and the scales of a rank are the same columns, although one is cut in
\* units of 16 and the other in single columns, and although the alignment need not
\* be a multiple of 16.
THEOREM TilesMeetScales == Spec => []TilesUnderScales
<1>1. IInv => TilesUnderScales
  BY DEF IInv, CutsKept, TilesUnderScales, Parts
<1>2. QED
  BY InitInv, StepInv, <1>1, PTL DEF Spec

\* With an alignment, shards begin and end at block boundaries.
THEOREM NoBlockCut == Spec => []BlocksWhole
<1>1. IInv => BlocksWhole
  <2> SUFFICES ASSUME IInv, NEW r \in Ranks, NEW part \in Parts, case.align > 0, case.tp > 1,
                      held[<<r, part>>] # Nothing
               PROVE /\ held[<<r, part>>].offset % case.align = 0
                     /\ held[<<r, part>>].length % case.align = 0
    BY DEF BlocksWhole
  <2> DEFINE base == (case.size \div case.align) \div case.tp
             rem  == (case.size \div case.align) % case.tp
             off == BlocksBefore(Chunk(r), base, rem)
             len == BlocksOf(Chunk(r), base, rem)
  <2>1. CaseOK /\ Cut /\ held[<<r, part>>] = TrueCut(r)
    BY DEF IInv, CutsKept, TypeOK, CaseOK
  <2>2. TrueCut(r) = Interval(off * case.align, len * case.align)
    BY <2>1, CaseFacts DEF TrueCut, AlignedSplit
  <2>3. base \in Nat /\ rem \in Nat /\ Chunk(r) \in Nat
    BY <2>1, AlignedFacts, ChunkIsRank, CaseFacts DEF Cut, Ranks
  <2> HIDE DEF base, rem
  <2>4. off \in Nat /\ len \in Nat
    BY <2>3, MulMono DEF BlocksBefore, BlocksOf
  <2> DEFINE align == case.align
  <2>5. align \in Nat \ {0}
    BY <2>1, CaseFacts
  <2> HIDE DEF off, len, align
  <2>6. (off * align) % align = 0 /\ (len * align) % align = 0
    BY <2>4, <2>5, MulMod
  <2>7. QED
    BY <2>1, <2>2, <2>6 DEF Interval, align
<1>2. QED
  BY InitInv, StepInv, <1>1, PTL DEF Spec

\* No tensor is refused but those of a dimension that cannot be cut in blocks, and those of a
\* rank whose aligned share is not the equal one its arenas were planned in: what
\* create_weights sized is what the loader narrows.
THEOREM LoadsWhatWasCreated == Spec => []CreatedIsLoadable
<1>1. Init => CreatedIsLoadable
  BY DEF Init, CreatedIsLoadable
<1>2. QED
  BY InitInv, StepInv, <1>1, StepLoadable, PTL DEF Spec

-----------------------------------------------------------------------------
(* The pinned bounce.                                                    *)

\* A slot has at most one copy in flight, and its event is that copy's place in
\* the stream; a filled buffer is not yet in flight.
SlotsAccounted ==
    /\ \A i \in DOMAIN stream : event[stream[i].slot] = i
    /\ stream # <<>> => pinned # NoBuffers
    /\ At("issue") => event[slot] = 0 /\ pinned # NoBuffers /\ pinned[slot] = call.data

BounceInv == BounceTypeOK /\ SlotsAccounted /\ LoadedArrives /\ BufferFits

USE SizeAssumption

\* Once both events have completed nothing is in flight.
LEMMA RetiredIsEmpty == ASSUME BounceInv, BothRetired PROVE stream = <<>>
<1>1. stream \in Seq([slot : Slots, dst : Dsts])
  BY DEF BounceInv, BounceTypeOK
<1>2. ASSUME stream # <<>> PROVE FALSE
  <2>1. 1 \in DOMAIN stream /\ stream[1].slot \in Slots
    <3>1. 1 \in 1..Len(stream) /\ DOMAIN stream = 1..Len(stream)
      BY <1>1, <1>2, EmptySeq, LenProperties
    <3>2. stream[1] \in [slot : Slots, dst : Dsts]
      BY <1>1, <3>1, ElementOfSeq
    <3>3. QED
      BY <3>1, <3>2
  <2>2. event[stream[1].slot] = 1
    BY <2>1 DEF BounceInv, SlotsAccounted
  <2>3. QED
    BY <2>1, <2>2 DEF BothRetired
<1>3. QED
  BY <1>2

\* No buffers and buffers are told apart by their domains.
LEMMA BuffersKnown == ASSUME BounceTypeOK, pinned # NoBuffers PROVE pinned \in [Slots -> Datas \cup {Garbage}]
BY DEF BounceTypeOK

LEMMA SlotsPinned == \A f : f \in [Slots -> Datas \cup {Garbage}] => f # NoBuffers
<1>1. 0 \in Slots /\ 0 \notin DOMAIN NoBuffers
  BY DEF Slots, NoBuffers
<1>2. QED
  BY <1>1

LEMMA BounceStarts == BounceInit => BounceInv
BY DEF BounceInit, BounceInv, BounceTypeOK, SlotsAccounted, LoadedArrives, BufferFits, At, Returned, Slots, NoBuffers

LEMMA CallInv == ASSUME BounceInv, NEW d \in Dsts, NEW x \in Datas, Call(d, x) PROVE BounceInv'
BY DEF Call, BounceInv, BounceTypeOK, SlotsAccounted, LoadedArrives, BufferFits, At, Returned

LEMMA GrowInv == ASSUME BounceInv, Grow PROVE BounceInv'
<1>1. stream = <<>> /\ stream' = <<>>
  BY RetiredIsEmpty DEF Grow
<1>2. call \in [at : {"grow", "wait", "issue"}, dst : Dsts, data : Datas]
  BY DEF BounceInv, BounceTypeOK, Grow, At, Returned
<1>3. BounceTypeOK'
  BY <1>1, <1>2 DEF BounceInv, BounceTypeOK, Grow, Goto, Slots
<1>4. pinned' # NoBuffers
  BY <1>3, SlotsPinned DEF Grow
<1>5. SlotsAccounted' /\ LoadedArrives'
  BY <1>1, <1>2 DEF BounceInv, LoadedArrives, SlotsAccounted, Grow, Goto, At
<1>6. BufferFits'
  BY <1>2, <1>4 DEF BufferFits, Grow, Goto, At
<1>7. QED
  BY <1>3, <1>5, <1>6 DEF BounceInv

LEMMA CopyDirectInv == ASSUME BounceInv, CopyDirect PROVE BounceInv'
<1>1. stream = <<>> /\ stream' = <<>>
  BY RetiredIsEmpty DEF CopyDirect
<1>2. call \in [at : {"grow", "wait", "issue"}, dst : Dsts, data : Datas]
  BY DEF BounceInv, BounceTypeOK, CopyDirect, At, Returned
<1>3. BounceTypeOK'
  BY <1>1, <1>2 DEF BounceInv, BounceTypeOK, CopyDirect, Slots
<1>4. SlotsAccounted' /\ BufferFits'
  BY <1>1 DEF SlotsAccounted, BufferFits, CopyDirect, At, Returned
<1>5. LoadedArrives'
  BY <1>1, <1>2 DEF BounceInv, BounceTypeOK, LoadedArrives, CopyDirect
<1>6. QED
  BY <1>3, <1>4, <1>5 DEF BounceInv

LEMMA FillInv == ASSUME BounceInv, Fill PROVE BounceInv'
<1>1. call \in [at : {"grow", "wait", "issue"}, dst : Dsts, data : Datas]
  BY DEF BounceInv, BounceTypeOK, Fill, At, Returned
<1>2. pinned # NoBuffers /\ pinned \in [Slots -> Datas \cup {Garbage}]
  BY BuffersKnown DEF BounceInv, BufferFits, Fill
<1>3. BounceTypeOK'
  BY <1>1, <1>2 DEF BounceInv, BounceTypeOK, Fill, Goto
<1>4. pinned' # NoBuffers
  BY <1>1, <1>2, SlotsPinned DEF Fill
<1>5. \A i \in DOMAIN stream : stream[i].slot # slot
  BY DEF BounceInv, BounceTypeOK, SlotsAccounted, Fill
<1>6. SlotsAccounted'
  BY <1>1, <1>2, <1>4 DEF BounceInv, BounceTypeOK, SlotsAccounted, Fill, Goto, At
<1>7. LoadedArrives'
  BY <1>2, <1>5 DEF BounceInv, BounceTypeOK, LoadedArrives, Fill
<1>8. BufferFits'
  BY <1>1, <1>4 DEF BounceInv, BufferFits, Fill, Goto, At
<1>9. QED
  BY <1>3, <1>6, <1>7, <1>8 DEF BounceInv

LEMMA IssueInv == ASSUME BounceInv, Issue PROVE BounceInv'
<1> DEFINE new == [slot |-> slot, dst |-> call.dst]
<1>1. call \in [at : {"grow", "wait", "issue"}, dst : Dsts, data : Datas]
  BY DEF BounceInv, BounceTypeOK, Issue, At, Returned
<1>2. /\ stream \in Seq([slot : Slots, dst : Dsts]) /\ new \in [slot : Slots, dst : Dsts]
      /\ stream' = Append(stream, new)
  BY <1>1 DEF BounceInv, BounceTypeOK, Issue
<1>3. /\ Len(stream') = Len(stream) + 1 /\ DOMAIN stream' = 1..(Len(stream) + 1)
      /\ stream'[Len(stream) + 1] = new
      /\ \A i \in DOMAIN stream : i \in DOMAIN stream' /\ stream'[i] = stream[i]
  BY <1>2
<1>4. BounceTypeOK'
  BY <1>1, <1>2, <1>3 DEF BounceInv, BounceTypeOK, Issue, Slots
<1>5. \A i \in DOMAIN stream : stream[i].slot # slot
  BY DEF BounceInv, BounceTypeOK, SlotsAccounted, Issue
<1>6. SlotsAccounted'
  <2>1. \A i \in DOMAIN stream' : event'[stream'[i].slot] = i
    BY <1>2, <1>3, <1>5 DEF BounceInv, BounceTypeOK, SlotsAccounted, Issue
  <2>2. QED
    BY <2>1 DEF BounceInv, SlotsAccounted, Issue, At, Returned
<1>7. LoadedArrives'
  <2>1. ASSUME NEW i \in DOMAIN stream',
               \A j \in DOMAIN stream' : j > i => stream'[j].dst # stream'[i].dst
        PROVE  pinned'[stream'[i].slot] = loaded'[stream'[i].dst]
    <3>1. CASE i = Len(stream) + 1
      BY <3>1, <1>1, <1>3 DEF BounceInv, BounceTypeOK, SlotsAccounted, Issue
    <3>2. CASE i \in DOMAIN stream
      <4>1. stream[i].dst # call.dst /\ stream[i].dst \in Dsts
        <5>1. i \in 1..Len(stream) /\ Len(stream) \in Nat
          BY <3>2, <1>2, LenProperties
        <5>2. stream[i] \in [slot : Slots, dst : Dsts]
          BY <5>1, <1>2, ElementOfSeq
        <5>3. Len(stream) + 1 \in DOMAIN stream' /\ Len(stream) + 1 > i
          BY <5>1, <1>3
        <5>4. stream'[Len(stream) + 1].dst # stream'[i].dst
          BY <5>3, <2>1
        <5>5. QED
          BY <5>2, <5>4, <3>2, <1>3
      <4>2. \A j \in DOMAIN stream : j > i => stream[j].dst # stream[i].dst
        <5>1. \A j \in DOMAIN stream : j \in DOMAIN stream' /\ stream'[j] = stream[j]
          BY <1>3
        <5>2. stream'[i] = stream[i]
          BY <3>2, <1>3
        <5>3. QED
          BY <5>1, <5>2, <2>1
      <4>3. pinned[stream[i].slot] = loaded[stream[i].dst]
        BY <3>2, <4>2 DEF BounceInv, LoadedArrives
      <4>4. QED
        BY <3>2, <4>1, <4>3, <1>3 DEF BounceInv, BounceTypeOK, Issue
    <3>3. QED
      BY <3>1, <3>2, <1>2, <1>3
  <2>2. ASSUME NEW d \in Dsts, \A i \in DOMAIN stream' : stream'[i].dst # d
        PROVE  arena'[d] = loaded'[d]
    <3>1. d # call.dst /\ \A i \in DOMAIN stream : stream[i].dst # d
      BY <2>2, <1>2, <1>3
    <3>2. QED
      BY <3>1 DEF BounceInv, BounceTypeOK, LoadedArrives, Issue
  <2>3. QED
    BY <2>1, <2>2 DEF LoadedArrives
<1>8. BufferFits'
  BY DEF BufferFits, Issue, At, Returned
<1>9. QED
  BY <1>4, <1>6, <1>7, <1>8 DEF BounceInv

LEMMA RetireInv == ASSUME BounceInv, Retire PROVE BounceInv'
<1>1. /\ stream \in Seq([slot : Slots, dst : Dsts]) /\ stream # <<>>
      /\ stream' = Tail(stream) /\ Head(stream) = stream[1]
      /\ stream[1] \in [slot : Slots, dst : Dsts] /\ 1 \in DOMAIN stream
  <2>1. stream \in Seq([slot : Slots, dst : Dsts]) /\ stream # <<>> /\ stream' = Tail(stream)
    BY DEF BounceInv, BounceTypeOK, Retire
  <2>2. 1 \in 1..Len(stream) /\ DOMAIN stream = 1..Len(stream)
    BY <2>1, EmptySeq, LenProperties
  <2>3. stream[1] \in [slot : Slots, dst : Dsts]
    BY <2>1, <2>2, ElementOfSeq
  <2>4. QED
    BY <2>1, <2>2, <2>3
<1>2. /\ stream' \in Seq([slot : Slots, dst : Dsts])
      /\ \A i \in DOMAIN stream' : i + 1 \in DOMAIN stream /\ stream'[i] = stream[i + 1]
      /\ \A i \in DOMAIN stream : i = 1 \/ (i - 1 \in DOMAIN stream' /\ stream'[i - 1] = stream[i])
  BY <1>1
<1>3. pinned # NoBuffers /\ pinned \in [Slots -> Datas \cup {Garbage}]
  BY <1>1, BuffersKnown DEF BounceInv, SlotsAccounted
<1>4. BounceTypeOK'
  BY <1>1, <1>2, <1>3 DEF BounceInv, BounceTypeOK, Retire
<1>5. SlotsAccounted'
  <2>1. ASSUME NEW i \in DOMAIN stream' PROVE event'[stream'[i].slot] = i
    <3>1. i + 1 \in DOMAIN stream /\ stream'[i] = stream[i + 1] /\ i \in Nat
      BY <1>1, <1>2
    <3>2. stream[i + 1].slot \in Slots
      <4>1. stream[i + 1] \in [slot : Slots, dst : Dsts]
        <5>1. i + 1 \in 1..Len(stream)
          BY <3>1, <1>1, LenProperties
        <5>2. QED
          BY <5>1, <1>1, ElementOfSeq
      <4>2. QED
        BY <4>1
    <3>3. event[stream[i + 1].slot] = i + 1
      BY <3>1 DEF BounceInv, SlotsAccounted
    <3>4. event' = [k \in Slots |-> IF event[k] > 0 THEN event[k] - 1 ELSE 0]
      BY DEF Retire
    <3>5. QED
      BY <3>1, <3>2, <3>3, <3>4
  <2>2. QED
    BY <2>1, <1>3 DEF BounceInv, BounceTypeOK, SlotsAccounted, Retire, At
<1>6. LoadedArrives'
  <2>1. ASSUME NEW i \in DOMAIN stream',
               \A j \in DOMAIN stream' : j > i => stream'[j].dst # stream'[i].dst
        PROVE  pinned'[stream'[i].slot] = loaded'[stream'[i].dst]
    <3>1. i + 1 \in DOMAIN stream /\ stream'[i] = stream[i + 1] /\ i \in Nat
      BY <1>1, <1>2
    <3>2. ASSUME NEW j \in DOMAIN stream, j > i + 1 PROVE stream[j].dst # stream[i + 1].dst
      <4>1. j \in Nat /\ j # 1 /\ j - 1 \in DOMAIN stream' /\ stream'[j - 1] = stream[j]
        BY <3>1, <3>2, <1>1, <1>2
      <4>2. j - 1 > i
        BY <3>1, <3>2, <4>1
      <4>3. QED
        BY <2>1, <3>1, <4>1, <4>2
    <3>3. QED
      BY <3>1, <3>2 DEF BounceInv, LoadedArrives, Retire
  <2>2. ASSUME NEW d \in Dsts, \A i \in DOMAIN stream' : stream'[i].dst # d
        PROVE  arena'[d] = loaded'[d]
    <3>1. \A i \in DOMAIN stream : i = 1 \/ stream[i].dst # d
      BY <2>2, <1>2
    <3>2. CASE stream[1].dst = d
      <4>1. \A j \in DOMAIN stream : j > 1 => stream[j].dst # stream[1].dst
        BY <3>1, <3>2, <1>1
      <4>2. pinned[stream[1].slot] = loaded[d]
        BY <4>1, <3>2, <1>1 DEF BounceInv, LoadedArrives
      <4>3. QED
        BY <4>2, <3>2, <1>1 DEF BounceInv, BounceTypeOK, Retire
    <3>3. CASE stream[1].dst # d
      BY <3>1, <3>3, <1>1 DEF BounceInv, BounceTypeOK, LoadedArrives, Retire
    <3>4. QED
      BY <3>2, <3>3
  <2>3. QED
    BY <2>1, <2>2 DEF LoadedArrives
<1>7. BufferFits'
  BY DEF BounceInv, BufferFits, Retire, At
<1>8. QED
  BY <1>4, <1>5, <1>6, <1>7 DEF BounceInv

LEMMA BounceSteps == BounceInv /\ [BounceNext]_bounceVars => BounceInv'
<1> SUFFICES ASSUME BounceInv, [BounceNext]_bounceVars PROVE BounceInv'
  OBVIOUS
<1>1. CASE UNCHANGED bounceVars
  BY <1>1 DEF bounceVars, BounceInv, BounceTypeOK, SlotsAccounted, LoadedArrives, BufferFits, At
<1>2. CASE BounceNext
  BY <1>2, CallInv, GrowInv, CopyDirectInv, FillInv, IssueInv, RetireInv DEF BounceNext, Copy
<1>3. QED
  BY <1>1, <1>2

LEMMA BounceInvariance == BounceSpec => []BounceInv
BY BounceStarts, BounceSteps, PTL DEF BounceSpec

\* The state of the bounce is always well formed: two slots, records that name
\* a slot and a place, tensors in the buffers.
THEOREM BounceTypeCorrect == BounceSpec => []BounceTypeOK
<1>1. BounceInv => BounceTypeOK
  BY DEF BounceInv
<1>2. QED
  BY <1>1, BounceInvariance, PTL

\* Whatever the interleaving of calls and copy engine, what is in flight is what
\* the calls gave and what has arrived is what was loaded.
THEOREM DeliversWhatWasLoaded == BounceSpec => []LoadedArrives
<1>1. BounceInv => LoadedArrives
  BY DEF BounceInv
<1>2. QED
  BY <1>1, BounceInvariance, PTL

\* No tensor is copied through a buffer that is too small for it.
THEOREM BuffersLargeEnough == BounceSpec => []BufferFits
<1>1. BounceInv => BufferFits
  BY DEF BounceInv
<1>2. QED
  BY <1>1, BounceInvariance, PTL

-----------------------------------------------------------------------------
(* Refinement of CopyQueue.                                                *)

LEMMA InFlightEmpty == stream = <<>> => InFlight = <<>>
<1> SUFFICES ASSUME stream = <<>> PROVE InFlight = <<>>
  OBVIOUS
<1>1. InFlight \in Seq({}) /\ Len(InFlight) = 0
  BY DEF InFlight
<1>2. QED
  BY <1>1, EmptySeq

LEMMA FunctionIsSeq == ASSUME NEW S, NEW n \in Nat, NEW f \in [1..n -> S]
                       PROVE  f \in Seq(S) /\ Len(f) = n
OBVIOUS

LEMMA InFlightType == BounceInv => /\ InFlight \in Seq([dst : Dsts, data : Datas \cup {Garbage}])
                              /\ Len(InFlight) = Len(stream)
<1> SUFFICES ASSUME BounceInv PROVE /\ InFlight \in Seq([dst : Dsts, data : Datas \cup {Garbage}])
                               /\ Len(InFlight) = Len(stream)
  OBVIOUS
<1> DEFINE Carried == [dst : Dsts, data : Datas \cup {Garbage}]
<1>1. stream \in Seq([slot : Slots, dst : Dsts]) /\ Len(stream) \in Nat /\ DOMAIN stream = 1..Len(stream)
  BY LenProperties DEF BounceInv, BounceTypeOK
<1>2. ASSUME NEW i \in 1..Len(stream)
      PROVE  [dst |-> stream[i].dst, data |-> pinned[stream[i].slot]]
                \in [dst : Dsts, data : Datas \cup {Garbage}]
  <2>1. stream[i] \in [slot : Slots, dst : Dsts]
    BY <1>1, ElementOfSeq
  <2>2. pinned \in [Slots -> Datas \cup {Garbage}]
    BY <1>1, BuffersKnown, EmptySeq DEF BounceInv, SlotsAccounted
  <2>3. QED
    BY <2>1, <2>2
<1>3. InFlight \in [1..Len(stream) -> Carried]
  BY <1>1, <1>2 DEF InFlight
<1> HIDE DEF Carried
<1>4. InFlight \in Seq(Carried) /\ Len(InFlight) = Len(stream)
  BY <1>1, <1>3, FunctionIsSeq
<1>5. QED
  BY <1>4 DEF Carried

LEMMA IssueRequests == ASSUME BounceInv, Issue PROVE Abstract!Request(call.dst, call.data)
<1> DEFINE new == [slot |-> slot, dst |-> call.dst]
           request == [dst |-> call.dst, data |-> call.data]
<1>1. /\ stream \in Seq([slot : Slots, dst : Dsts])
      /\ call \in [at : {"grow", "wait", "issue"}, dst : Dsts, data : Datas]
      /\ slot \in Slots /\ stream' = Append(stream, new) /\ pinned' = pinned
  BY DEF BounceInv, BounceTypeOK, Issue, At, Returned
<1>2. /\ Len(stream') = Len(stream) + 1 /\ stream'[Len(stream) + 1] = new
      /\ DOMAIN stream' = 1..(Len(stream) + 1) /\ Len(stream) \in Nat
      /\ \A i \in 1..Len(stream) : stream'[i] = stream[i]
  BY <1>1
<1>3. pinned[slot] = call.data
  BY DEF BounceInv, SlotsAccounted, Issue
<1>4. BounceInv'
  BY IssueInv
<1>5. /\ Len(InFlight) = Len(stream) /\ Len(InFlight') = Len(stream) + 1
      /\ InFlight \in Seq([dst : Dsts, data : Datas \cup {Garbage}])
      /\ InFlight' \in Seq([dst : Dsts, data : Datas \cup {Garbage}])
  <2>1. (InFlight \in Seq([dst : Dsts, data : Datas \cup {Garbage}]) /\ Len(InFlight) = Len(stream))'
    BY <1>4, InFlightType, PTL
  <2>2. QED
    BY <2>1, <1>2, InFlightType
<1>6. request \in [dst : Dsts, data : Datas \cup {Garbage}]
  BY <1>1
<1>7. /\ Append(InFlight, request) \in Seq([dst : Dsts, data : Datas \cup {Garbage}])
      /\ Len(Append(InFlight, request)) = Len(stream) + 1
      /\ Append(InFlight, request)[Len(stream) + 1] = request
      /\ \A i \in 1..Len(stream) : Append(InFlight, request)[i] = InFlight[i]
  BY <1>2, <1>5, <1>6
<1>8. ASSUME NEW i \in 1..(Len(stream) + 1) PROVE InFlight'[i] = Append(InFlight, request)[i]
  <2>1. InFlight'[i] = [dst |-> stream'[i].dst, data |-> pinned[stream'[i].slot]]
    BY <1>1, <1>2 DEF InFlight
  <2>2. CASE i = Len(stream) + 1
    BY <2>1, <2>2, <1>2, <1>3, <1>7
  <2>3. CASE i \in 1..Len(stream)
    BY <2>1, <2>3, <1>1, <1>2, <1>7 DEF InFlight
  <2>4. i = Len(stream) + 1 \/ i \in 1..Len(stream)
    BY <1>2
  <2>5. QED
    BY <2>2, <2>3, <2>4
<1>9. InFlight' = Append(InFlight, request)
  BY <1>5, <1>7, <1>8, SeqEqual
<1>10. QED
  BY <1>9 DEF Abstract!Request, Issue

LEMMA RetireDelivers == ASSUME BounceInv, Retire PROVE Abstract!Deliver
<1>1. /\ stream \in Seq([slot : Slots, dst : Dsts]) /\ stream # <<>>
      /\ stream' = Tail(stream) /\ pinned' = pinned
  BY DEF BounceInv, BounceTypeOK, Retire
<1>2. /\ Len(stream) \in Nat \ {0} /\ Len(stream') = Len(stream) - 1
      /\ DOMAIN stream = 1..Len(stream) /\ DOMAIN stream' = 1..(Len(stream) - 1)
      /\ \A i \in 1..(Len(stream) - 1) : stream'[i] = stream[i + 1]
      /\ Head(stream) = stream[1]
  BY <1>1, EmptySeq, HeadTailProperties, LenProperties
<1>3. BounceInv'
  BY RetireInv
<1>4. /\ InFlight \in Seq([dst : Dsts, data : Datas \cup {Garbage}]) /\ InFlight # <<>>
      /\ Len(InFlight) = Len(stream)
  BY <1>2, InFlightType
<1>5. (InFlight \in Seq([dst : Dsts, data : Datas \cup {Garbage}]) /\ Len(InFlight) = Len(stream))'
  BY <1>3, InFlightType, PTL
<1>6. /\ Tail(InFlight) \in Seq([dst : Dsts, data : Datas \cup {Garbage}])
      /\ Len(Tail(InFlight)) = Len(stream) - 1 /\ Head(InFlight) = InFlight[1]
      /\ \A i \in 1..(Len(stream) - 1) : Tail(InFlight)[i] = InFlight[i + 1]
  BY <1>2, <1>4, HeadTailProperties
<1>7. ASSUME NEW i \in 1..(Len(stream) - 1) PROVE InFlight'[i] = Tail(InFlight)[i]
  <2>1. InFlight'[i] = [dst |-> stream'[i].dst, data |-> pinned[stream'[i].slot]]
    BY <1>1, <1>2 DEF InFlight
  <2>2. i + 1 \in 1..Len(stream)
    BY <1>2
  <2>3. QED
    BY <2>1, <2>2, <1>2, <1>6 DEF InFlight
<1>8. InFlight' = Tail(InFlight)
  BY <1>2, <1>5, <1>6, <1>7, SeqEqual
<1>9. Head(InFlight) = [dst |-> stream[1].dst, data |-> pinned[stream[1].slot]]
  BY <1>2, <1>6 DEF InFlight
<1>10. arena' = [arena EXCEPT ![Head(InFlight).dst] = Head(InFlight).data]
  <2>1. Head(InFlight).dst = Head(stream).dst /\ Head(InFlight).data = pinned[Head(stream).slot]
    BY <1>2, <1>9
  <2>2. QED
    BY <2>1 DEF Retire
<1>11. QED
  BY <1>4, <1>8, <1>10 DEF Abstract!Deliver

LEMMA InFlightKept == ASSUME BounceInv, stream' = stream,
                             \A i \in DOMAIN stream : pinned'[stream[i].slot] = pinned[stream[i].slot]
                      PROVE  InFlight' = InFlight
BY DEF InFlight

\* Seen from outside, the bounce is an ordered asynchronous copy: every call
\* takes effect once, in order, with the bytes the tensor had when it was made.
THEOREM RefinesCopyQueue == BounceSpec => ImplementsCopyQueue
<1>1. BounceInit => Abstract!Init
  BY InFlightEmpty DEF BounceInit, Abstract!Init
<1>2. ASSUME BounceInv, [BounceNext]_bounceVars PROVE [Abstract!Next]_<<InFlight, arena>>
  <2>1. CASE UNCHANGED bounceVars
    BY <2>1, <1>2, InFlightKept DEF bounceVars
  <2>2. ASSUME NEW d \in Dsts, NEW x \in Datas, Call(d, x) PROVE UNCHANGED <<InFlight, arena>>
    BY <2>2, <1>2, InFlightKept DEF Call
  <2>3. CASE Grow
    <3>1. stream = <<>> /\ stream' = <<>>
      BY <2>3, <1>2, RetiredIsEmpty DEF Grow
    <3>2. InFlight' = InFlight
      BY <3>1 DEF InFlight
    <3>3. QED
      BY <2>3, <3>2 DEF Grow
  <2>4. CASE CopyDirect
    <3>1. stream = <<>> /\ stream' = <<>>
      BY <2>4, <1>2, RetiredIsEmpty DEF CopyDirect
    <3>2. InFlight = <<>> /\ InFlight' = InFlight
      BY <3>1, InFlightEmpty DEF InFlight
    <3>3. call \in [at : {"grow", "wait", "issue"}, dst : Dsts, data : Datas]
      BY <2>4, <1>2 DEF BounceInv, BounceTypeOK, CopyDirect, At, Returned
    <3>4. Abstract!CopyNow(call.dst, call.data)
      BY <2>4, <3>2 DEF CopyDirect, Abstract!CopyNow
    <3>5. QED
      BY <3>3, <3>4 DEF Abstract!Next
  <2>5. CASE Fill
    <3>1. \A i \in DOMAIN stream : stream[i].slot # slot /\ stream[i].slot \in Slots
      <4>1. stream \in Seq([slot : Slots, dst : Dsts]) /\ DOMAIN stream = 1..Len(stream)
        BY <1>2, LenProperties DEF BounceInv, BounceTypeOK
      <4>2. \A i \in DOMAIN stream : stream[i] \in [slot : Slots, dst : Dsts]
        BY <4>1, ElementOfSeq
      <4>3. \A i \in DOMAIN stream : event[stream[i].slot] = i /\ i # 0
        BY <1>2, <4>1 DEF BounceInv, SlotsAccounted
      <4>4. QED
        BY <2>5, <4>2, <4>3 DEF Fill
    <3>2. QED
      BY <2>5, <1>2, <3>1, InFlightKept, BuffersKnown DEF Fill, BounceInv, BufferFits
  <2>6. CASE Issue
    <3>1. call \in [at : {"grow", "wait", "issue"}, dst : Dsts, data : Datas]
      BY <2>6, <1>2 DEF BounceInv, BounceTypeOK, Issue, At, Returned
    <3>2. QED
      BY <2>6, <1>2, <3>1, IssueRequests DEF Abstract!Next
  <2>7. CASE Retire
    BY <2>7, <1>2, RetireDelivers DEF Abstract!Next
  <2>8. QED
    BY <1>2, <2>1, <2>2, <2>3, <2>4, <2>5, <2>6, <2>7 DEF BounceNext, Copy
<1>3. QED
  BY <1>1, <1>2, BounceInvariance, PTL DEF BounceSpec, ImplementsCopyQueue, Abstract!Spec
=============================================================================
