---------------------------- MODULE MCEarlyData ----------------------------
(* A small instance of EarlyData for TLC: two shards share a replay store,  *)
(* with clocks one unit apart, and a third has its own.                     *)
EXTENDS EarlyData

MCStoreOf == [s \in Shards |-> IF s = "alone" THEN "private" ELSE "shared"]

MCClockAhead == [s \in Shards |-> IF s = "ahead" THEN 1 ELSE 0]
=============================================================================
