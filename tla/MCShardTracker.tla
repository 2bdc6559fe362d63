--------------------------- MODULE MCShardTracker ---------------------------
(***************************************************************************)
(* Values for the constants of ShardTracker that a cfg cannot write.       *)
(***************************************************************************)
EXTENDS ShardTrackerInv, TLC

CONSTANTS sveltos1, sveltos2, capi1, s1, s2, misfit

\* Clusters of both kinds, so that both cluster reconcilers run.
MCKindOf ==
  [c \in Clusters |-> IF c = capi1 THEN "Cluster" ELSE "SveltosCluster"]

\* The patches of one ConfigMap, misfit, do not apply to the last template.
MCMisfits == [p \in Configs |-> IF p = misfit THEN {NumComponents} ELSE {}]

\* Users may do anything: create, re-annotate, delete.
AnyMove == (ShardKeys \cup {None}) \X (ShardKeys \cup {None})

\* A cluster never returns to a shard it has left: created, annotated with s1,
\* then s2, then deleted.
Rank == (None :> 3) @@ (NoShard :> 0) @@ (s1 :> 1) @@ (s2 :> 2)
ForwardMoves == {m \in AnyMove : Rank[m[1]] < Rank[m[2]]}

\* The two shards play the same part in every invariant.
ShardSymmetry == Permutations({s1, s2})

=============================================================================
