---------------------------- MODULE MCOpenSearch ----------------------------
(***************************************************************************)
(* One build key at a time: two chunks over one shard merged to one        *)
(* segment, or over two shards merged to one each.                         *)
(***************************************************************************)
EXTENDS OpenSearch

CONSTANTS k1, k2, w1, w2, c1, c2

MCChunks == [k \in Keys |-> 2]
MCTarget == [k \in Keys |-> 1]
MCShards == [k \in Keys |-> IF k = k1 THEN 1 ELSE 2]

==============================================================================
