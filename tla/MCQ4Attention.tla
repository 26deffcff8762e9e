----------------------------- MODULE MCQ4Attention -----------------------------
(***************************************************************************)
(* Two requests of up to four blocks of two tokens, of which three are     *)
(* selected, over two KV heads: the queries of the fourth block choose,    *)
(* and may choose other blocks for each head.                              *)
(***************************************************************************)
EXTENDS Q4Attention, Q4Codec

MCPicks(n) ==
    CASE n = 1 -> {[h \in KvHeads |-> <<0, -1, -1>>]}
      [] n = 2 -> {[h \in KvHeads |-> IF h = 0 THEN <<1, 0, -1>> ELSE <<0, 1, -1>>]}
      [] n = 3 -> {[h \in KvHeads |-> <<2, 0, 1>>]}
      [] OTHER -> {[h \in KvHeads |-> IF h = 0 THEN <<n - 1, 0, 1>> ELSE <<n - 2, n - 1, 0>>],
                   [h \in KvHeads |-> <<0, 1, 2>>]}

MCOrders == {<<4, 0, 5, 2, 1, 3>>}

\* A row that was written went through conversions that keep its values, in the
\* kernel as in the reference.  (minimax_q4kv_kernels.py:187-213)
WrittenValuesKept == call.phase = "inserted" => ConversionsRound
================================================================================
