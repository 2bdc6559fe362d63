--------------------------- MODULE MCShardRollout ---------------------------
(***************************************************************************)
(* Values for the constants of ShardRollout that a cfg cannot write.       *)
(***************************************************************************)
EXTENDS ShardRollout, TLC

CONSTANTS sveltos1, capi1, s1, s2

\* Clusters of both kinds, so that both cluster reconcilers run.
MCKindOf ==
  [c \in Clusters |-> IF c = capi1 THEN "Cluster" ELSE "SveltosCluster"]

NoMisfits == [p \in Configs |-> {}]

\* Users may do anything: create, re-annotate, delete.
AnyMove == (ShardKeys \cup {None}) \X (ShardKeys \cup {None})

\* Clusters get a shard, and none gives one up.
Joins == {m \in AnyMove : m[1] \notin Shards}

ShardSymmetry == Permutations({s1, s2})

=============================================================================
