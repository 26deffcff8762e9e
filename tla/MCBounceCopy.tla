----------------------------- MODULE MCBounceCopy ----------------------------
(* Two places, a small and two large tensors: any order of calls makes the  *)
(* buffers grow, fall back to direct copies and reuse both slots.           *)
EXTENDS BounceCopy

CONSTANTS small, large, other

MCDatas == {small, large, other}
MCSizeOf == [x \in MCDatas |-> IF x = small THEN 1 ELSE 2]
=============================================================================
