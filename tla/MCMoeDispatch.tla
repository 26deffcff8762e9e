---------------------------- MODULE MCMoeDispatch ----------------------------
(* Three experts and the sentinel; one choice per token for up to five tokens (five   *)
(* over two experts), two choices for up to three.  Native takes two rows at most,    *)
(* one by its own limits, coop three slots, the scratch three rows per expert and an  *)
(* expert is fat from three rows on, so every band meets every other.                 *)
EXTENDS MoeDispatch, TLC

One == {<<x>> : x \in 0..NumExperts}
Two == {<<x, y>> : x \in 0..NumExperts, y \in 0..NumExperts}
UpTo(n, tokens) == UNION {[1..m -> tokens] : m \in 1..n}
MCBatches == UpTo(4, One) \cup [1..5 -> {<<0>>, <<2>>, <<Remote>>}]
                            \cup UpTo(3, {t \in Two : t[1] < t[2]})

Uniform == [e \in 0..2 |-> <<2, 2, 2>>]
OneMixed == [e \in 0..2 |-> <<2, 2, 3>>]
Scattered == [e \in 0..2 |-> IF e = 1 THEN <<2, 2, 2>> ELSE <<2, 3, 4>>]

NoCaps == [bit |-> <<>>, all |-> NoLimit, measured |-> FALSE]
Base == [k |-> Uniform, bits |-> 2, books |-> <<"mcg", "mcg", "mcg">>, act |-> "silu",
         clamp |-> FALSE, abi |-> 0, shape |-> "wide", v41 |-> FALSE, caps |-> NoCaps,
         ext |-> TRUE, coop |-> TRUE, mixedk |-> TRUE, ranges |-> TRUE, mode |-> "unified",
         packed |-> FALSE, lpt |-> FALSE, orders |-> TRUE]
Native == {[Base EXCEPT !.abi = 1, !.caps.all = 1],
           [Base EXCEPT !.abi = 1, !.clamp = TRUE, !.ext = FALSE],
           [Base EXCEPT !.abi = 2, !.shape = "narrow", !.books = <<"mcg", "mcg", "mul1">>],
           [Base EXCEPT !.abi = 2, !.shape = "v41", !.v41 = TRUE],
           [Base EXCEPT !.abi = 3, !.shape = "v41", !.v41 = TRUE, !.caps.bit = 2 :> 1],
           [Base EXCEPT !.abi = 3, !.caps.measured = TRUE]}
\* The config's bit width is that of the trellises, or the layer is mixed, or its kernels
\* take their K from somewhere else.
MCCases == Native \cup
           {Base,
            [Base EXCEPT !.act = "relu2"],
            [Base EXCEPT !.ext = FALSE, !.bits = 3],
            [Base EXCEPT !.ext = FALSE, !.bits = 3, !.abi = 2],
            [Base EXCEPT !.k = OneMixed],
            [Base EXCEPT !.k = OneMixed, !.lpt = TRUE, !.coop = FALSE],
            [Base EXCEPT !.k = Scattered],
            [Base EXCEPT !.k = Scattered, !.lpt = TRUE],
            [Base EXCEPT !.k = Scattered, !.lpt = TRUE, !.orders = FALSE],
            [Base EXCEPT !.k = Scattered, !.mode = "grouped", !.lpt = TRUE, !.orders = FALSE],
            [Base EXCEPT !.k = Scattered, !.mode = "grouped", !.packed = TRUE]}
\* physically uniform, at another bit width than the config's
MCPhysical == {[Base EXCEPT !.bits = 3]}
MCMeasured == 2 :> 1 @@ 3 :> 1
=============================================================================
