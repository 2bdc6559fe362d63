-------------------------- MODULE MCShardManifests --------------------------
(***************************************************************************)
(* Values for the constants of ShardManifests, and their symmetry.         *)
(***************************************************************************)
EXTENDS ShardManifests

\* The addon-controller and the classifier get their options apart, so that one
\* need not be combined with each of the other's.
MCOptions == {f \in Flags : f.driftDetectionConfig = f.sveltosAgentConfig}

\* Shard keys, and what is read of them: spaces and comments at the end are lost.
MCRendered == [s \in Shards |-> IF s \in {"a", "a ", "a #b"} THEN "a" ELSE s]

\* The order of the keys is any, and labels are only compared.
Symmetry == Permutations(Keys) \cup Permutations(Labels)

=============================================================================
