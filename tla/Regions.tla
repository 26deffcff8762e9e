------------------------------- MODULE Regions -------------------------------
(***************************************************************************)
(* The arena allocator of experiments/dsv41_nvme/expert_store.py (Regions):*)
(* first fit over a sorted list of free (offset, length) runs, neighbours  *)
(* merged on release.  A region is the record of its two attributes.       *)
(***************************************************************************)
EXTENDS Naturals, SequencesExt

CONSTANT Align    \* ALIGN, in bytes

ASSUME AlignAssumption == Align \in Nat \ {0}

Aligned(n) == ((n + Align - 1) \div Align) * Align

NewRegion(size, base) == [free |-> <<<<base, size>>>>, allocated |-> [o \in {} |-> 0]]

\* the list positions whose run is long enough; allocate takes the first one
Fits(r, nbytes) == {i \in DOMAIN r.free : r.free[i][2] >= Aligned(nbytes)}
CanAllocate(r, nbytes) == Fits(r, nbytes) # {}
FirstFit(r, nbytes) == CHOOSE i \in Fits(r, nbytes) : \A j \in Fits(r, nbytes) : i <= j
AllocatedAt(r, nbytes) == r.free[FirstFit(r, nbytes)][1]

\* allocate, when CanAllocate (it returns None otherwise)
Allocate(r, nbytes) ==
    LET i == FirstFit(r, nbytes)
        run == r.free[i]
        size == Aligned(nbytes)
    IN  [free |-> IF run[2] > size THEN [r.free EXCEPT ![i] = <<run[1] + size, run[2] - size>>]
                  ELSE RemoveAt(r.free, i),
         allocated |-> [o \in DOMAIN r.allocated \cup {run[1]} |->
                           IF o = run[1] THEN size ELSE r.allocated[o]]]

\* Variant: no merging.
NoMerge(runs) == runs

\* one pass over the sorted runs, joining each to its predecessor if they touch
Joined(merged, run) ==
    IF merged # <<>> /\ Last(merged)[1] + Last(merged)[2] = run[1]
    THEN Append(Front(merged), <<Last(merged)[1], Last(merged)[2] + run[2]>>)
    ELSE Append(merged, run)
Merge(runs) == FoldLeft(Joined, <<>>, runs)

\* sorted() of the free list with a run appended: the list itself is sorted
Before(runs, run) == CHOOSE n \in 0..Len(runs) : \A i \in DOMAIN runs : i <= n <=> runs[i][1] < run[1]
Sorted(runs, run) == InsertAt(runs, Before(runs, run) + 1, run)

Release(r, offset) ==
    [free |-> Merge(Sorted(r.free, <<offset, r.allocated[offset]>>)),
     allocated |-> [o \in DOMAIN r.allocated \ {offset} |-> r.allocated[o]]]

-----------------------------------------------------------------------------
(* What the two lists are to mean, independently of how they are kept.     *)

Bytes(offset, size) == offset..(offset + size - 1)
FreeBytes(r)  == UNION {Bytes(r.free[i][1], r.free[i][2]) : i \in DOMAIN r.free}
OwnedBytes(r) == UNION {Bytes(o, r.allocated[o]) : o \in DOMAIN r.allocated}

\* Free runs and allocations partition the region exactly.
Partition(r, size, base) ==
    /\ FreeBytes(r) \cup OwnedBytes(r) = Bytes(base, size)
    /\ FreeBytes(r) \cap OwnedBytes(r) = {}
    /\ \A o, p \in DOMAIN r.allocated :
          o # p => Bytes(o, r.allocated[o]) \cap Bytes(p, r.allocated[p]) = {}

=============================================================================
