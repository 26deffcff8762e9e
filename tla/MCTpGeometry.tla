----------------------------- MODULE MCTpGeometry -----------------------------
EXTENDS TpGeometry, FiniteSets

\* up to four ranks, dimensions of whole and of half blocks of 8, 24 and 32
Case(size, tp, align, rotate, layer, planned) ==
    [size |-> size, tp |-> tp, align |-> align, rotate |-> rotate, layer |-> layer,
     planned |-> planned]

\* every split and rotation, with and without arenas planned from headers
MCAll ==
    {Case(s, tp, align, rotate, layer, planned) :
        s \in {32, 48, 64, 96, 144, 160, 192, 240, 288}, tp \in {1, 2, 3, 4},
        align \in {0, 8, 24, 32}, rotate \in BOOLEAN, layer \in {1, 2}, planned \in BOOLEAN}
MCCases == {c \in MCAll : c.size % c.tp = 0 /\ (c.layer = 1 \/ c.rotate)}
=============================================================================
