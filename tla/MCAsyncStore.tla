---------------------------- MODULE MCAsyncStore ----------------------------
(* Small instances of AsyncStore for TLC.                                  *)
EXTENDS AsyncStore, TLC

CONSTANTS k1, k2, k3

MCKeys  == {k1, k2, k3}
MCPlans == {<<k1, k2, k3>>, <<k3>>}
MCOneKept == {k1}
Symmetry == Permutations(Callers)
=============================================================================
