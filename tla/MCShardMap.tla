------------------------------ MODULE MCShardMap ------------------------------
(* Every shard map of at most three keys over the slots 0 .. 2: all ranges, in *)
(* both spellings of a single slot, and keys that do not parse.                *)
EXTENDS ShardMap

Keys == {<<a, b>> : a, b \in Slots} \cup {<<a>> : a \in Slots}
            \cup {<<>>, <<0, 3>>, <<0, 1, 2>>}

MCShardMaps == {ks \in SUBSET Keys : Cardinality(ks) <= 3}
===============================================================================
