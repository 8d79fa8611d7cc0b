------------------------------ MODULE MCShards ------------------------------
(* Two collectors, which may be given the same directory or two, a         *)
(* partition of two seeds, so that one full collection or two shards cover *)
(* it; a debug collection and one that is refused.                         *)
EXTENDS ShardGate, TLC

OneCondition == {"actuator_fault"}
Asked == {<<"formal_shard", {1}>>, <<"formal_shard", {2}>>, <<"formal_shard", {1, 2}>>,
          <<"full_partition", {1, 2}>>, <<"debug", {1}>>}
Labels == {"offline_labels", "run_manifest"}
Same == {p @@ q @@ r : p \in Permutations(Collector), q \in Permutations(Dir),
                       r \in Permutations(Weights)}
=============================================================================
