----------------------------- MODULE ShardGate -----------------------------
(***************************************************************************)
(* validate_formal_shard_set of monitor_gate.py over the directories of    *)
(* ShardCollection: which lists of shards pass, and what that says of the  *)
(* runs that wrote them.  The gate reads files; a value in a file is the   *)
(* value the run that wrote it had.                                        *)
(***************************************************************************)
EXTENDS ShardCollection

\* Only finitely many directories can be listed on the command line of the gate.
ASSUME DirAssumption == IsFiniteSet(Dir)

Author(d, n) == run[fs[d][n].by]
Metrics(d) == Author(d, "metrics")
Manifest(d) == Author(d, "run_manifest")
Integrity(d) == Author(d, "shard_integrity")
Software(d) == Author(d, "software_versions")

\* Present, not empty, and what the readers of JSON, JSONL and HDF5 accept.
Readable(d) == \A n \in Artifacts : fs[d][n].form \in {"whole", "altered"}

ValidationPassed(d) == Author(d, "artifact_validation").valid = "passed"

\* Mutant: partition_complete expected of every formal role.
EveryRoleComplete(d) ==
  LET role == Metrics(d).role
      seeds == Metrics(d).seeds
  IN /\ role \in FormalRoles
     /\ Manifest(d).role = role /\ Integrity(d).role = role
     /\ Manifest(d).seeds = seeds /\ Integrity(d).seeds = seeds
     /\ seeds = SceneSeeds

RolesAndSeedsAgree(d) ==
  LET role == Metrics(d).role
      seeds == Metrics(d).seeds
  IN /\ role \in FormalRoles
     /\ Manifest(d).role = role /\ Integrity(d).role = role
     /\ seeds # {} /\ seeds \subseteq SceneSeeds
     /\ Manifest(d).seeds = seeds /\ Integrity(d).seeds = seeds
     /\ (seeds = SceneSeeds) = (role = "full_partition")

\* The hashes a run took of the protocol file, against the file as it is.
ProtocolIsCurrent(d) ==
  /\ Manifest(d).hash = repo.protocol
  /\ Integrity(d).hash = repo.protocol
  /\ Author(d, "monitor_inputs").hash = repo.protocol
  /\ Author(d, "offline_labels").hash = repo.protocol

PolicyUnchanged(d) ==
  /\ Metrics(d).weights = Manifest(d).weights
  /\ Metrics(d).weights = Author(d, "policy_state_before").weights
  /\ Metrics(d).weights = Author(d, "policy_state_after").weights

SnapshotIsClean(d) == Software(d).dirty = "clean"

\* Mutant: only what the seal lists is compared, not the checksums.
FilesAreListed(d) == \A n \in Hashed : seal[d][n].by = fs[d][n].by

ChecksumsAgree(d) == \A n \in Hashed : seal[d][n] = fs[d][n]

\* Mutant: the plan in the artifacts is taken as it is.
EpisodesFollowOwnPlan(d) ==
  /\ fs[d]["monitor_inputs"].eps = fs[d]["offline_labels"].eps
  /\ fs[d]["monitor_inputs"].eps = Episodes(Metrics(d).seeds)
  /\ Author(d, "offline_labels").plan = Manifest(d).plan

\* The plan is computed again, from the protocol file as it is.
EpisodesFollowPlan(d) ==
  /\ fs[d]["monitor_inputs"].eps = fs[d]["offline_labels"].eps
  /\ fs[d]["monitor_inputs"].eps = Episodes(Metrics(d).seeds)
  /\ Author(d, "offline_labels").plan = repo.protocol
  /\ Manifest(d).plan = repo.protocol

StreamsAgree(d) ==
  \A n \in {"episodes", "dataset_index", "audit_stream"} :
     fs[d][n].eps = fs[d]["monitor_inputs"].eps

\* _validate_shard
ShardPasses(d) ==
  /\ Readable(d)
  /\ ValidationPassed(d)
  /\ RolesAndSeedsAgree(d)
  /\ ProtocolIsCurrent(d)
  /\ PolicyUnchanged(d)
  /\ SnapshotIsClean(d)
  /\ ChecksumsAgree(d)
  /\ EpisodesFollowPlan(d)
  /\ StreamsAgree(d)

Fingerprint(d) ==
  <<Metrics(d).hash, Metrics(d).weights, Software(d).commit, Software(d).dirty>>

\* Mutant: missing seeds are not looked for.
SeedsDisjoint(shards) ==
  \A i, j \in DOMAIN shards :
     i # j => Metrics(shards[i]).seeds \cap Metrics(shards[j]).seeds = {}

\* The shards together, shards a sequence of directories.
SeedsCoverPartition(shards) ==
  /\ UNION {Metrics(shards[i]).seeds : i \in DOMAIN shards} = SceneSeeds
  /\ \A i, j \in DOMAIN shards :
       i # j => Metrics(shards[i]).seeds \cap Metrics(shards[j]).seeds = {}

GatePasses(shards) ==
  /\ shards # <<>>
  /\ \A i, j \in DOMAIN shards : i # j => shards[i] # shards[j]
  /\ \A i \in DOMAIN shards : ShardPasses(shards[i])
  /\ SeedsCoverPartition(shards)
  /\ \A i, j \in DOMAIN shards : Fingerprint(shards[i]) = Fingerprint(shards[j])
  /\ Len(shards) > 1 => \A i \in DOMAIN shards : Metrics(shards[i]).role # "full_partition"

ShardLists == UNION {[1..k -> Dir] : k \in 1..Cardinality(Dir)}

-----------------------------------------------------------------------------
(* Properties.                                                             *)

\* The episodes of the partition, each exactly once, are in the label channels
\* of a list of shards that passes.
PassedShardsCoverPartition ==
  \A shards \in ShardLists : GatePasses(shards) =>
     \A e \in Episodes(SceneSeeds) :
        Cardinality({i \in DOMAIN shards : e \in fs[shards[i]]["offline_labels"].eps}) = 1

\* A shard that passes is what one run left behind that got through to its seal:
\* every file of it, whole, every channel with the run's own plan and nothing
\* else.  No killed, failed or debug run, no mixture of two, no file that was
\* damaged later.
PassedShardsAreRunsAsFinished ==
  \A shards \in ShardLists : GatePasses(shards) =>
     \A i \in DOMAIN shards : \E c \in Collector :
        /\ run[c].pc = "done" /\ run[c].role # "debug" /\ run[c].dir = shards[i]
        /\ \A n \in Artifacts :
             fs[shards[i]][n] = [by |-> c, form |-> "whole",
               eps |-> IF n \in Streams THEN Episodes(run[c].seeds) ELSE {}]

\* The runs behind a list that passes were planned from the protocol the gate
\* reads, though each read it before it hashed it, talked to servers with one
\* parameter hash, and recorded one commit and a clean work tree.
PassedShardsShareProvenance ==
  \A shards \in ShardLists : GatePasses(shards) =>
     \E w \in Weights, h \in Commits : \A i \in DOMAIN shards : \E c \in Collector :
        /\ run[c].dir = shards[i] /\ run[c].pc = "done"
        /\ run[c].plan = repo.protocol /\ run[c].hash = repo.protocol
        /\ run[c].weights = w
        /\ run[c].commit = h /\ run[c].dirty = "clean"

\* The gate refuses no good campaign: runs that wrote their seals, whose seeds make
\* the partition, with one protocol, commit and parameter hash, and no damage.
GoodCampaign(campaign) ==
  /\ \A c \in campaign :
       /\ run[c].pc = "done" /\ run[c].role # "debug"
       /\ run[c].plan = repo.protocol /\ run[c].hash = repo.protocol
       /\ run[c].dirty = "clean"
       /\ \A n \in Artifacts : fs[run[c].dir][n].form = "whole"
  /\ \A b, c \in campaign :
       /\ run[b].commit = run[c].commit /\ run[b].weights = run[c].weights
       /\ b # c => run[b].seeds \cap run[c].seeds = {}
  /\ UNION {run[c].seeds : c \in campaign} = SceneSeeds

Campaign(shards) ==
  {c \in Collector : run[c].pc = "done" /\ \E i \in DOMAIN shards : run[c].dir = shards[i]}

GoodCampaignsPass ==
  \A shards \in ShardLists :
     GoodCampaign(Campaign(shards)) /\ Cardinality(Campaign(shards)) = Len(shards)
       => GatePasses(shards)

\* The commit in software_versions.json is the one whose code collected the
\* shard.  The code asks for "a clean repository snapshot; commit the frozen
\* protocol and implementation before collecting" (collect_monitor_dataset.py:439).
RecordedCommitIsTheCodeThatRan ==
  \A shards \in ShardLists : GatePasses(shards) =>
     \A i \in DOMAIN shards : Software(shards[i]).commit = Software(shards[i]).code
=============================================================================
