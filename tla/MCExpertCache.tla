---------------------------- MODULE MCExpertCache ----------------------------
(* Three experts of different size compete for the region of their layer,   *)
(* whose free space can fragment; it lies behind the region of a layer      *)
(* nobody reads.                                                            *)
EXTENDS ExpertCache

CONSTANTS a1, a2, a3

MCKeys == {a1, a2, a3}
MCLayerOf == [k \in MCKeys |-> 2]
MCSizeOf  == [k \in MCKeys |-> IF k = a3 THEN 2 ELSE 1]
MCQuota   == <<1, 2>>
=============================================================================
