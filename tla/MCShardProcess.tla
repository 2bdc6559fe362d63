--------------------------- MODULE MCShardProcess ---------------------------
(***************************************************************************)
(* Values for the constants of ShardProcess that a cfg cannot write.       *)
(***************************************************************************)
EXTENDS ShardProcess, TLC

CONSTANTS sveltos1, capi1, s1

\* One cluster of each kind.
MCKindOf ==
  [c \in Clusters |-> IF c = capi1 THEN "Cluster" ELSE "SveltosCluster"]

\* A cluster is created without a shard or in one, joins it, and is deleted, in
\* this order, in which it may skip steps.
Rank == (NoShard :> 0) @@ (s1 :> 1) @@ (None :> 2)

AnyMove == (Shards \cup {NoShard, None}) \X (Shards \cup {NoShard, None})

ForwardMoves == {m \in AnyMove : Rank[m[1]] < Rank[m[2]]}

=============================================================================
