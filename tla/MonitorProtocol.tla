-------------------------- MODULE MonitorProtocol --------------------------
(***************************************************************************)
(* The validators of src/vla_recovery_bench/monitor_protocol.py: which     *)
(* monitor protocol, which relock of it (v1.2, v1.3, v1.4) and which probe *)
(* protocol are accepted.                                                  *)
(*                                                                         *)
(* A file content has a name, and the name stands for its SHA-256.  What a *)
(* content declares is a record.  The many settings the validators and the *)
(* parent comparison look at are one field, body: "invalid" when           *)
(* validate_monitor_protocol objects to one of them, "frozen" when all are *)
(* those of the protocol v1.0 that was registered; research, the protocol  *)
(* version both kinds of protocol target, is apart.  A list of scene seeds *)
(* is a block, named; a block stands for seeds that are sorted, distinct   *)
(* and of the number the split requires.  A relock has the fields below    *)
(* RelockMetadata besides; relock_decisions, monitor_retraining and        *)
(* fresh_data_policy are named after the version they are approved for.    *)
(***************************************************************************)
CONSTANTS
  Document,       \* [content -> fields of a monitor protocol]
  ProbeDocument,  \* [content -> fields of a probe protocol]
  Approved        \* the pinned contents, as [path -> content]

\* Blocks the relocks are tied to: scene seeds 1000-1049 and so on.
RelockSeeds == [v12 |-> [calibration |-> "1000-1049", validation |-> "1100-1149"],
                v13 |-> [calibration |-> "1000-1049", validation |-> "1150-1199"],
                v14 |-> [calibration |-> "1200-1249", validation |-> "1250-1299"]]

Relocked(d) == "version" \in DOMAIN d

\* The settings are those required and no seed is in two splits.
ValidMonitorProtocol(d) ==
  /\ d.research = "1.4" /\ d.body # "invalid"
  /\ \A p, q \in DOMAIN d.splits : p # q => d.splits[p] # d.splits[q]

RelockMetadata == {"version", "parent", "reason", "decisions"}
RelockV13Metadata == RelockMetadata \cup {"supersedes", "sources", "retraining"}
RelockV14Metadata == RelockV13Metadata \cup {"fresh"}

\* A document without the fields given and without the splits a relock moves.
Without(d, fields) ==
  [f \in DOMAIN d \ fields |->
     IF f = "splits" THEN [p \in {"pilot", "train", "final_test"} |-> d.splits[p]] ELSE d[f]]

\* The document declares the content its parent has.
ParentAgrees(d, parentHash) == d.parent.hash = parentHash

SeedsAre(d, seeds) ==
  /\ d.splits.calibration = seeds.calibration
  /\ d.splits.validation = seeds.validation

\* Mutant: the parent of v1.2 is the one declared, as in v1.3.
ValidRelockV12AnyParent(d, parent, parentHash) ==
  /\ ValidMonitorProtocol(d)
  /\ ParentAgrees(d, parentHash)
  /\ SeedsAre(d, RelockSeeds.v12)
  /\ d.decisions = "1.2"
  /\ ValidMonitorProtocol(parent)
  /\ Without(d, RelockMetadata) = Without(parent, {})

\* The registered v1.0 is the parent, and all else is as in the parent.
ValidRelockV12(d, parent, parentHash) ==
  /\ ValidMonitorProtocol(d)
  /\ d.parent = [path |-> "v1.0", hash |-> Approved["v1.0"]]
  /\ ParentAgrees(d, parentHash)
  /\ SeedsAre(d, RelockSeeds.v12)
  /\ d.decisions = "1.2"
  /\ ValidMonitorProtocol(parent)
  /\ Without(d, RelockMetadata) = Without(parent, {})

\* The parent is the one declared; which one that is, is not pinned.
ValidRelockV13(d, parent, parentHash) ==
  /\ ValidMonitorProtocol(d)
  /\ ParentAgrees(d, parentHash)
  /\ d.supersedes = [path |-> "v1.2", hash |-> Approved["v1.2"]]
  /\ SeedsAre(d, RelockSeeds.v13)
  /\ d.decisions = "1.3" /\ d.retraining = "1.3"
  /\ d.sources.train = [path |-> "v1.0", hash |-> Approved["v1.0"]]
  /\ d.sources.calibration = [path |-> "v1.2", hash |-> Approved["v1.2"]]
  /\ d.sources.validation.path = "self"
  /\ ValidMonitorProtocol(parent)
  /\ Without(d, RelockV13Metadata) = Without(parent, {})

ValidRelockV14(d, parent, parentHash) ==
  /\ ValidMonitorProtocol(d)
  /\ d.parent = [path |-> "v1.3", hash |-> Approved["v1.3"]]
  /\ d.supersedes = d.parent
  /\ ParentAgrees(d, parentHash)
  /\ SeedsAre(d, RelockSeeds.v14)
  /\ d.decisions = "1.4" /\ d.retraining = "1.4" /\ d.fresh = "1.4"
  /\ d.sources.train = [path |-> "v1.3", hash |-> Approved["v1.3"]]
  /\ d.sources.calibration.path = "self" /\ d.sources.validation.path = "self"
  /\ ValidMonitorProtocol(parent)
  /\ Without(d, RelockV14Metadata) = Without(parent, RelockV14Metadata)

\* validate_monitor_relock_protocol
ValidRelock(d, parent, parentHash) ==
  \/ d.version = "1.2" /\ ValidRelockV12(d, parent, parentHash)
  \/ d.version = "1.3" /\ ValidRelockV13(d, parent, parentHash)
  \/ d.version = "1.4" /\ ValidRelockV14(d, parent, parentHash)

\* validate_probe_protocol: version 1.1 fixes what version 1.0 leaves open.
ValidProbeProtocol(probe, d) ==
  /\ probe.research = d.research
  /\ probe.version \in {"1.0", "1.1"}
  /\ probe.eligibility = "frozen"
  /\ probe.version = "1.1" => probe.settings = "frozen"

\* What must be the same in all sources of a mixed set (_protocol_contract).
Contract(d) == [research |-> d.research, body |-> d.body]
=============================================================================
