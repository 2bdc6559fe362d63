----------------------------- MODULE ShardFleet -----------------------------
(***************************************************************************)
(* What the shard-controller promises, without goroutines, mutex, queues   *)
(* or failures: which clusters each shard serves and which of its          *)
(* Deployments exist.  ShardTracker implements this specification.         *)
(*                                                                         *)
(* Deployments start one by one and at any time; what is promised is when  *)
(* a cluster may be counted as served, and when controllers may be taken   *)
(* away (trackCluster and stopTrackingCluster of                           *)
(* internal/controller/utils.go, and the comments above them).             *)
(***************************************************************************)
CONSTANTS
  Clusters,     \* clusters of the management cluster
  Shards,       \* the shards with controllers of their own
  NoShard,      \* the shard key of clusters left to the default controllers
  Components    \* the controllers deployed for each shard

VARIABLES
  members,      \* for each shard key, the clusters it serves
  running       \* for each shard, the controllers that exist

vars == <<members, running>>

ShardKeys == Shards \cup {NoShard}

Init ==
  /\ members = [s \in ShardKeys |-> {}]
  /\ running = [s \in Shards |-> {}]

\* A controller of the shard is deployed.
Start(s, k) ==
  /\ running' = [running EXCEPT ![s] = @ \cup {k}]
  /\ UNCHANGED members

\* The cluster is served by the shard, and by no other.  The first cluster of a
\* shard waits until the shard has all its controllers.
Join(c, s) ==
  /\ s = NoShard \/ members[s] # {} \/ running[s] = Components
  /\ members' = [x \in ShardKeys |-> IF x = s THEN members[x] \cup {c}
                                              ELSE members[x] \ {c}]
  /\ UNCHANGED running

\* The cluster is served by no shard.
Leave(c) ==
  /\ members' = [x \in ShardKeys |-> members[x] \ {c}]
  /\ UNCHANGED running

\* A controller is removed, when at most one cluster still uses it: the one that
\* is leaving.
Retire(s, k) ==
  /\ members[s] = {} \/ \E c \in Clusters : members[s] = {c}
  /\ running' = [running EXCEPT ![s] = @ \ {k}]
  /\ UNCHANGED members

\* The process starts again with nothing but what is running.
Restart ==
  /\ members' = [s \in ShardKeys |-> {}]
  /\ UNCHANGED running

Next ==
  \/ \E s \in Shards, k \in Components : Start(s, k) \/ Retire(s, k)
  \/ \E c \in Clusters, s \in ShardKeys : Join(c, s)
  \/ \E c \in Clusters : Leave(c)
  \/ Restart

Spec == Init /\ [][Next]_vars

=============================================================================
