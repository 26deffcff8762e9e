------------------------------ MODULE MCMoeLoad ------------------------------
(* Rank 1 of two expert-parallel ranks, a checkpoint of four experts: placed    *)
(* linearly it holds experts 2 and 3, placed round robin 1 and 3.               *)
EXTENDS MoeLoad

MCGlobal == 0..3
MCLocalOf ==
    [linear      |-> [g \in MCGlobal |-> IF g < 2 THEN Remote ELSE g - 2],
     round_robin |-> [g \in MCGlobal |-> IF g % 2 = 0 THEN Remote ELSE g \div 2]]
MCOffset == 2

Checkpoint(k(_, _), codebook(_, _)) ==
    [t \in MCGlobal \X {"gate", "up", "down"} |->
        [k |-> k(t[1], t[2]), codebook |-> codebook(t[1], t[2])]]

Four(g, p) == 4
ByExpert(g, p) == CASE g = 3 -> 3 [] g = 1 -> 5 [] OTHER -> 4
ByProjection(g, p) == IF p = "down" THEN 5 ELSE 4
Mcg(g, p) == {"mcg"}
Split(g, p) == IF p = "down" THEN {"mul1"} ELSE {"mcg"}
Disagreeing(g, p) == IF g = 3 THEN {"mul1"} ELSE {"mcg"}
Doubled(g, p) == {"mcg", "mul1"}
Unmarked(g, p) == IF p = "up" THEN {} ELSE {"mcg"}

Way(arena, prescan, gateless, placement, versions) ==
    [arena |-> arena, prescan |-> prescan, gateless |-> gateless, placement |-> placement,
     versions |-> versions, alias |-> FALSE, uva |-> FALSE, marked |-> {}]
Ways(gateless, versions) ==
    {Way(TRUE, TRUE, gateless, "linear", versions),
     Way(TRUE, TRUE, gateless, "round_robin", versions),
     Way(TRUE, FALSE, gateless, "linear", versions),
     Way(FALSE, FALSE, gateless, "linear", versions)}
Cross(configs, packs) == {[config |-> c, pack |-> p] : c \in configs, p \in packs}

\* Gateless layers: two versions of every tensor of packs with uniform and mixed bit
\* widths, one of packs with bad markers.  Layers with a gate, one version: uniform and
\* mixed bit widths.
MCCases ==
    Cross(Ways(TRUE, 2),
          {Checkpoint(Four, Mcg), Checkpoint(ByExpert, Split), Checkpoint(ByProjection, Mcg)})
    \cup Cross(Ways(TRUE, 1),
               {Checkpoint(Four, Disagreeing), Checkpoint(Four, Doubled), Checkpoint(Four, Unmarked)})
    \cup Cross(Ways(FALSE, 1), {Checkpoint(Four, Split), Checkpoint(ByExpert, Mcg)})
\* marks and requirements of the offloader, with and without arenas, and aliases
    \cup Cross({[w EXCEPT !.uva = u, !.marked = marks] :
                   w \in Ways(TRUE, 1) \ {Way(TRUE, TRUE, TRUE, "round_robin", 1)}, u \in BOOLEAN,
                   marks \in {Segments, Segments \ {"w2_suh"}}}
                \cup {[w EXCEPT !.uva = TRUE] : w \in Ways(TRUE, 1)}
                \cup {[w EXCEPT !.alias = TRUE] : w \in Ways(TRUE, 1)},
               {Checkpoint(Four, Mcg)})
\* an arena plan made from the headers
MCPlanned == Cross({Way(TRUE, TRUE, FALSE, "linear", 1)}, {Checkpoint(Four, Split)})
=============================================================================
