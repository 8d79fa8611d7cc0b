------------------------------ MODULE ProbeLock ------------------------------
(***************************************************************************)
(* The lock of the diagnostic probe: lock_threshold and main of            *)
(* scripts/lock_diagnostic_probe.py issue it, main and _validate_lock of   *)
(* scripts/run_diagnostic_probe.py accept it or refuse to run.  Both read  *)
(* files that may be replaced while they work: protocols, probe protocol,  *)
(* monitor checkpoint and its metrics.  Between the step that loads a file *)
(* and the one that takes its hash there is always one of somebody else.   *)
(*                                                                         *)
(* A shard directory is what the gate of ShardGate takes it for: collected *)
(* under the protocol content the gate is given, or refused; a gate reads  *)
(* its files in one step.  Two checkpoints never have the same risk        *)
(* threshold (they are order statistics of real-valued risks of two        *)
(* networks).  The policy manifest, the reports in the lock that nothing   *)
(* reads again, and the exit code of a refusal are left out.               *)
(***************************************************************************)
EXTENDS MonitorProtocol, ProbeThreshold, Sequences

CONSTANTS
  Lockers,        \* processes that may issue a lock
  Runs,           \* diagnostic probe runs
  None, Torn,     \* no file; a file whose writer was killed while it wrote
  Replacements,   \* [path -> contents the file may have]
  Checkpoints,
  RiskThreshold,  \* [checkpoint -> the threshold saved with it]
  Blocks,         \* lists of scene seeds
  Metrics,        \* [content -> what a metrics.json says]
  Scenarios       \* who is run with which arguments, on what files and scores,
                  \* and how many files are replaced meanwhile

Paths == DOMAIN Replacements
Protocols == {p \in Paths : Replacements[p] \subseteq DOMAIN Document}
Versions == {"1.2", "1.3", "1.4"}

VersionOf(content) ==
  IF Relocked(Document[content]) THEN Document[content].version ELSE None

ASSUME NoneAssumption ==
  /\ None \notin Versions /\ None \notin DOMAIN Document
  /\ Lockers \cap Runs = {}
ASSUME ThresholdAssumption ==
  /\ RiskThreshold \in [Checkpoints -> Nat]
  /\ \A m, n \in Checkpoints : RiskThreshold[m] = RiskThreshold[n] => m = n
  /\ "monitor" \in Paths /\ Replacements["monitor"] \subseteq Checkpoints

\* Splits name blocks and declared sources exist.
ASSUME DocumentAssumption ==
  \A c \in DOMAIN Document :
     /\ Document[c].splits.calibration \in Blocks /\ Document[c].splits.validation \in Blocks
     /\ VersionOf(c) \in {"1.3", "1.4"} =>
          \A p \in {"calibration", "validation"} :
             Document[c].sources[p].path \in Protocols \cup {"self"}

\* What the pinned documents have to do with each other: v1.0 is no relock, and
\* v1.2 and v1.3 differ from it where a relock may.
ASSUME PinnedAssumption ==
  /\ \A p \in {"v1.0", "v1.2", "v1.3"} :
       Approved[p] \in DOMAIN Document /\ (p \in Paths => p \in Protocols)
  /\ \A c \in DOMAIN Document : {"body", "splits"} \subseteq DOMAIN Document[c]
  /\ DOMAIN Document[Approved["v1.0"]] \cap RelockV14Metadata = {}
  /\ Contract(Document[Approved["v1.2"]]) = Contract(Document[Approved["v1.0"]])
  /\ SeedsAre(Document[Approved["v1.2"]], RelockSeeds.v12)
  /\ VersionOf(Approved["v1.3"]) = "1.3"
  /\ Without(Document[Approved["v1.3"]], RelockV14Metadata) = Without(Document[Approved["v1.0"]], {})

ASSUME ScenarioAssumption ==
  \A s \in Scenarios :
     /\ s.edits \in Nat
     /\ DOMAIN s.file = Paths /\ \A p \in Paths : s.file[p] \in Replacements[p]
     /\ s.score \in [Checkpoints -> [Blocks -> Seq(Summary) \ {<<>>}]]
     /\ DOMAIN s.args \subseteq Lockers \cup Runs
     /\ \A q \in DOMAIN s.args : s.args[q].protocol \in Protocols

VARIABLES
  file,    \* the content at each path; its name is its hash
  edits,   \* files that may still be replaced
  score,   \* [checkpoint -> [seed block -> summaries of its clean episodes]]
  args,    \* the arguments of the processes that are started
  pc,
  me,      \* the local variables of each process
  dir      \* the output directory of each locker that has files

vars == <<file, edits, score, args, pc, me, dir>>

Process == Lockers \cup Runs

NoLocals ==
  [protocol |-> None, probe |-> None, parent |-> None, source |-> None,
   mixed |-> None, calibration |-> None, validation |-> None, hash |-> None,
   loaded |-> None, entropy |-> None, lock |-> None]

EmptyDir == [lock |-> None, failure |-> None, artifact |-> None]

Init ==
  /\ \E s \in Scenarios : file = s.file /\ score = s.score /\ args = s.args /\ edits = s.edits
  /\ pc = [q \in Process |-> IF q \in DOMAIN args THEN "starting" ELSE "idle"]
  /\ me = [q \in Process |-> NoLocals]
  /\ dir = [o \in {args[q].output : q \in DOMAIN args} |-> EmptyDir]

Doc(q) == Document[me[q].protocol]
IsVersion(d, versions) == Relocked(d) /\ d.version \in versions
Target(q) == args[q].protocol
ParentExists(d) == d.parent.path \in Paths

\* On to the next place when the checks pass, to the failure path when not.
Proceed(q, passed, next) ==
  pc' = [pc EXCEPT ![q] = IF passed THEN next
                          ELSE IF q \in Lockers THEN "failing" ELSE "refused"]

Keep(q, locals) == me' = [me EXCEPT ![q] = locals]

-----------------------------------------------------------------------------
(* Issuing a lock.                                                         *)

LoadDocuments(l) ==
  /\ pc[l] = "starting" /\ l \in Lockers
  /\ Keep(l, [NoLocals EXCEPT !.protocol = file[Target(l)], !.probe = file["probe"]])
  /\ Proceed(l, TRUE, IF Relocked(Document[file[Target(l)]]) THEN "loading parent" ELSE "sources")
  /\ UNCHANGED <<file, edits, score, args, dir>>

LoadParent(l) ==
  /\ pc[l] = "loading parent"
  /\ IF ParentExists(Doc(l))
     THEN Keep(l, [me[l] EXCEPT !.parent = file[Doc(l).parent.path]])
     ELSE UNCHANGED me
  /\ Proceed(l, ParentExists(Doc(l)), "checking parent")
  /\ UNCHANGED <<file, edits, score, args, dir>>

\* The parent is read a second time, to take its hash.
CheckRelock(l) ==
  /\ pc[l] = "checking parent"
  /\ Proceed(l, ValidRelock(Doc(l), Document[me[l].parent], file[Doc(l).parent.path]), "sources")
  /\ UNCHANGED <<file, edits, score, args, me, dir>>

\* The paths of the protocols under which the shards were collected.  A path
\* given on the command line must be the declared one.
ResolveSources(l) ==
  /\ pc[l] = "sources"
  /\ LET probe == ProbeDocument[me[l].probe]
         declares == IsVersion(Doc(l), {"1.3", "1.4"})
         path(partition) ==
           IF declares /\ Doc(l).sources[partition].path # "self"
           THEN Doc(l).sources[partition].path
           ELSE Target(l)
     IN /\ Keep(l, [me[l] EXCEPT !.source =
                      [calibration |-> path("calibration"), validation |-> path("validation")]])
        /\ \E agrees \in (IF declares THEN BOOLEAN ELSE {TRUE}) :
             Proceed(l, ValidProbeProtocol(probe, Doc(l)) /\ probe.version = "1.1" /\ agrees,
                     IF IsVersion(Doc(l), {"1.3"}) THEN "mixed gate" ELSE "calibration gate")
  /\ UNCHANGED <<file, edits, score, args, dir>>

\* The sources are those the target declares, and of one contract.
SourcesMatch(target, source) ==
  /\ target.sources.calibration.path = source.calibration
  /\ target.sources.calibration.hash = file[source.calibration]
  /\ target.sources.validation.path = "self"
  /\ Contract(Document[file[source.calibration]]) = Contract(target)

\* validate_mixed_source_shard_set before its shards: the target is read again,
\* and its hash is in the report.
MixedGate(l) ==
  /\ pc[l] = "mixed gate"
  /\ LET target == Document[file[Target(l)]]
         passed == /\ ValidMonitorProtocol(target)
                   /\ IsVersion(target, {"1.3"}) /\ ParentExists(target)
                   /\ ValidRelock(target, Document[file[target.parent.path]], file[target.parent.path])
                   /\ SourcesMatch(target, me[l].source)
     IN /\ Proceed(l, passed, "calibration gate")
        /\ IF passed THEN Keep(l, [me[l] EXCEPT !.mixed = file[Target(l)]]) ELSE UNCHANGED me
  /\ UNCHANGED <<file, edits, score, args, dir>>

\* validate_formal_shard_set of one partition: its protocol is read again, the
\* shards were collected under what is read, or are refused, and its hash is in
\* the report.
FormalGate(l, partition, next) ==
  LET d == Document[file[me[l].source[partition]]]
      valid == /\ ValidMonitorProtocol(d)
               /\ Relocked(d) =>
                    /\ ParentExists(d)
                    /\ ValidRelock(d, Document[file[d.parent.path]], file[d.parent.path])
  IN /\ \E collected \in BOOLEAN : Proceed(l, valid /\ collected, next)
     /\ Keep(l, [me[l] EXCEPT ![partition] = file[me[l].source[partition]]])
     /\ UNCHANGED <<file, edits, score, args, dir>>

GateCalibration(l) == pc[l] = "calibration gate" /\ FormalGate(l, "calibration", "validation gate")
GateValidation(l) == pc[l] = "validation gate" /\ FormalGate(l, "validation", "metrics")

\* A gate that passed, and no other checkpoint than the one it passed for.
CheckMetrics(l) ==
  /\ pc[l] = "metrics"
  /\ LET metrics == Metrics[file["metrics"]]
     IN Proceed(l, metrics.passed /\ metrics.model \in {None, file["monitor"]}, "loading monitor")
  /\ Keep(l, [me[l] EXCEPT !.hash = file["monitor"]])
  /\ UNCHANGED <<file, edits, score, args, dir>>

LoadMonitor(l) ==
  /\ pc[l] = "loading monitor"
  /\ Keep(l, [me[l] EXCEPT !.loaded = file["monitor"]])
  /\ Proceed(l, TRUE, "calibrating")
  /\ UNCHANGED <<file, edits, score, args, dir>>

Summaries(q, block) == score[me[q].loaded][block]
Risk(q) == RiskThreshold[me[q].loaded]
\* The seeds of the shards a gate took.
Seeds(l, partition) == Document[me[l][partition]].splits[partition]

Calibrate(l) ==
  /\ pc[l] = "calibrating"
  /\ LET clean == Summaries(l, Seeds(l, "calibration"))
     IN /\ Proceed(l, ChoiceSucceeds(clean, Risk(l)), "validating")
        /\ IF Capacity(clean, Risk(l)) >= 0
           THEN Keep(l, [me[l] EXCEPT !.entropy = ChooseEntropyThreshold(clean, Risk(l))])
           ELSE UNCHANGED me
  /\ UNCHANGED <<file, edits, score, args, dir>>

\* Independent data, and the budget kept on the holdout.
HoldoutPasses(l) ==
  /\ IsVersion(Doc(l), {"1.4"}) => "500-511" \notin {Seeds(l, "calibration"), Seeds(l, "validation")}
  /\ Seeds(l, "calibration") # Seeds(l, "validation")
  /\ WithinBudget(Summaries(l, Seeds(l, "validation")), Risk(l), me[l].entropy)

Validate(l) ==
  /\ pc[l] = "validating"
  /\ Proceed(l, HoldoutPasses(l), "hashing")
  /\ UNCHANGED <<file, edits, score, args, me, dir>>

\* The lock: the hashes of the protocol and of the probe protocol are taken now,
\* that of the checkpoint was taken before it was loaded, and those of the
\* protocols the gates read are in their reports.
Lock(l) ==
  [protocol |-> file[Target(l)], probe |-> file["probe"], monitor |-> me[l].hash,
   mixed |-> me[l].mixed, calibration |-> me[l].calibration, validation |-> me[l].validation,
   risk |-> Risk(l), entropy |-> me[l].entropy,
   version |-> VersionOf(me[l].protocol)]

HashInputs(l) ==
  /\ pc[l] = "hashing"
  /\ Keep(l, [me[l] EXCEPT !.lock = Lock(l)])
  /\ Proceed(l, TRUE, "claiming")
  /\ UNCHANGED <<file, edits, score, args, dir>>

Output(l) == dir[args[l].output]
Write(l, name, content) == dir' = [dir EXCEPT ![args[l].output][name] = content]

\* ensure_empty_output_dir
Claim(l) ==
  /\ pc[l] = "claiming"
  /\ Proceed(l, Output(l) = EmptyDir, "writing lock")
  /\ UNCHANGED <<file, edits, score, args, me, dir>>

\* write_json_once, twice: it refuses a file that exists.
WriteLock(l) ==
  /\ pc[l] = "writing lock"
  /\ Proceed(l, Output(l).lock = None, "sealing")
  /\ IF Output(l).lock = None THEN Write(l, "lock", me[l].lock) ELSE UNCHANGED dir
  /\ UNCHANGED <<file, edits, score, args, me>>

Seal(l) ==
  /\ pc[l] = "sealing"
  /\ Proceed(l, Output(l).artifact = None, "locked")
  /\ IF Output(l).artifact = None
     THEN Write(l, "artifact", [status |-> "passed", lock |-> Output(l).lock])
     ELSE UNCHANGED dir
  /\ UNCHANGED <<file, edits, score, args, me>>

\* The failure record goes into a directory that is empty, or is not written.
ClaimForFailure(l) ==
  /\ pc[l] = "failing"
  /\ pc' = [pc EXCEPT ![l] = IF Output(l) = EmptyDir THEN "writing failure" ELSE "failed"]
  /\ UNCHANGED <<file, edits, score, args, me, dir>>

WriteFailure(l) ==
  /\ pc[l] = "writing failure"
  /\ IF Output(l).failure = None
     THEN /\ Write(l, "failure", "failure")
          /\ pc' = [pc EXCEPT ![l] = "sealing failure"]
     ELSE /\ pc' = [pc EXCEPT ![l] = "failed"]
          /\ UNCHANGED dir
  /\ UNCHANGED <<file, edits, score, args, me>>

SealFailure(l) ==
  /\ pc[l] = "sealing failure"
  /\ pc' = [pc EXCEPT ![l] = "failed"]
  /\ IF Output(l).artifact = None
     THEN Write(l, "artifact", [status |-> "failed", lock |-> None])
     ELSE UNCHANGED dir
  /\ UNCHANGED <<file, edits, score, args, me>>

\* A locker is killed; the file it was writing stays as far as it was written.
\* Before it writes, a kill is a locker that takes no more steps.
Killed(l) ==
  /\ pc[l] \in {"claiming", "writing lock", "sealing", "writing failure", "sealing failure"}
  /\ pc' = [pc EXCEPT ![l] = "killed"]
  /\ \/ UNCHANGED dir
     \/ pc[l] = "writing lock" /\ Output(l).lock = None /\ Write(l, "lock", Torn)
     \/ pc[l] \in {"sealing", "sealing failure"} /\ Output(l).artifact = None
          /\ Write(l, "artifact", Torn)
     \/ pc[l] = "writing failure" /\ Output(l).failure = None /\ Write(l, "failure", Torn)
  /\ UNCHANGED <<file, edits, score, args, me>>

-----------------------------------------------------------------------------
(* Using a lock.                                                           *)

\* main loads the protocol to check the probe protocol against it, and again when
\* it checks the lock.
LoadConfiguration(r) ==
  /\ pc[r] = "starting" /\ r \in Runs
  /\ LET probe == ProbeDocument[file["probe"]]
         protocol == Document[file[Target(r)]]
     IN Proceed(r, ValidProbeProtocol(probe, protocol) /\ Metrics[file["metrics"]].passed,
                "loading checkpoint")
  /\ UNCHANGED <<file, edits, score, args, me, dir>>

LoadCheckpoint(r) ==
  /\ pc[r] = "loading checkpoint"
  /\ Keep(r, [me[r] EXCEPT !.loaded = file["monitor"]])
  /\ Proceed(r, TRUE, "reading lock")
  /\ UNCHANGED <<file, edits, score, args, dir>>

ReadLock(r) ==
  /\ pc[r] = "reading lock"
  /\ Keep(r, [me[r] EXCEPT !.lock = Output(r).lock])
  /\ Proceed(r, Output(r).lock \notin {None, Torn}, "hashing protocol")
  /\ UNCHANGED <<file, edits, score, args, dir>>

HashProtocol(r) ==
  /\ pc[r] = "hashing protocol"
  /\ Proceed(r, me[r].lock.protocol = file[Target(r)], "loading protocol")
  /\ UNCHANGED <<file, edits, score, args, me, dir>>

\* The protocol and the parent it names.
LoadProtocol(r) ==
  /\ pc[r] = "loading protocol"
  /\ LET d == Document[file[Target(r)]]
         supported == IsVersion(d, Versions) /\ ParentExists(d)
     IN /\ Proceed(r, supported, "checking protocol")
        /\ IF supported
           THEN Keep(r, [me[r] EXCEPT !.protocol = file[Target(r)], !.parent = file[d.parent.path]])
           ELSE UNCHANGED me
  /\ UNCHANGED <<file, edits, score, args, dir>>

\* The lock was issued under the version of the protocol.
VersionAgrees(r) == me[r].lock.version = Doc(r).version

CheckProtocol(r) ==
  /\ pc[r] = "checking protocol"
  /\ Proceed(r, /\ ValidRelock(Doc(r), Document[me[r].parent], file[Doc(r).parent.path])
                /\ VersionAgrees(r),
             "checking checkpoint")
  /\ UNCHANGED <<file, edits, score, args, me, dir>>

\* Mutant: only the hash of the checkpoint is compared.
CheckpointHashAgrees(r) == me[r].lock.monitor = file["monitor"]

\* The file has the hash, and the monitor loaded before has the threshold.
CheckpointAgrees(r) ==
  /\ me[r].lock.monitor = file["monitor"]
  /\ me[r].lock.risk = Risk(r)

CheckCheckpoint(r) ==
  /\ pc[r] = "checking checkpoint"
  /\ Proceed(r, CheckpointAgrees(r) /\ me[r].lock.probe = file["probe"], "checking seal")
  /\ UNCHANGED <<file, edits, score, args, me, dir>>

CheckSeal(r) ==
  /\ pc[r] = "checking seal"
  /\ LET artifact == Output(r).artifact
     IN Proceed(r, /\ artifact \notin {None, Torn}
                   /\ artifact = [status |-> "passed", lock |-> Output(r).lock],
                "started")
  /\ UNCHANGED <<file, edits, score, args, me, dir>>

-----------------------------------------------------------------------------
Unfinished == {q \in DOMAIN args : pc[q] \notin {"locked", "failed", "killed", "started", "refused"}}

\* Somebody replaces a file.
Replace(p) ==
  /\ Unfinished # {} /\ edits > 0
  /\ edits' = edits - 1
  /\ \E c \in Replacements[p] \ {file[p]} : file' = [file EXCEPT ![p] = c]
  /\ UNCHANGED <<score, args, pc, me, dir>>

Issue(l) ==
  \/ LoadDocuments(l) \/ LoadParent(l) \/ CheckRelock(l) \/ ResolveSources(l)
  \/ MixedGate(l) \/ GateCalibration(l) \/ GateValidation(l) \/ CheckMetrics(l)
  \/ LoadMonitor(l) \/ Calibrate(l) \/ Validate(l) \/ HashInputs(l)
  \/ Claim(l) \/ WriteLock(l) \/ Seal(l)
  \/ ClaimForFailure(l) \/ WriteFailure(l) \/ SealFailure(l) \/ Killed(l)

Use(r) ==
  \/ LoadConfiguration(r) \/ LoadCheckpoint(r) \/ ReadLock(r) \/ HashProtocol(r)
  \/ LoadProtocol(r) \/ CheckProtocol(r) \/ CheckCheckpoint(r) \/ CheckSeal(r)

Next ==
  \/ \E l \in Lockers : Issue(l)
  \/ \E r \in Runs : Use(r)
  \/ \E p \in Paths : Replace(p)

Spec == Init /\ [][Next]_vars

-----------------------------------------------------------------------------
(* Properties.                                                             *)

Chosen == {l \in Lockers : pc[l] \in {"validating", "hashing", "claiming", "writing lock", "sealing", "locked"}}

\* The entropy threshold a locker has chosen keeps the budget on the clean
\* calibration episodes and no lower one does, with ties, risk alarms that use
\* up the budget and a budget that has room for all (choose_entropy_threshold).
LockedThresholdIsLeast ==
  \A l \in Chosen :
     IsLeastWithinBudget(Summaries(l, Seeds(l, "calibration")), Risk(l), me[l].entropy)

Started == {r \in Runs : pc[r] = "started"}

\* The lock records that the gates read the protocol the run holds; the shards
\* for the calibration of a v1.3 relock are those of v1.2.  Nothing compares
\* these hashes (_validate_lock).
GatesReadTheProtocol(r) ==
  /\ me[r].lock.validation = me[r].protocol
  /\ me[r].lock.calibration =
       IF VersionOf(me[r].protocol) = "1.3" THEN Approved["v1.2"] ELSE me[r].protocol

\* When the gates read the protocol a run holds, the thresholds it starts with
\* are the least on the calibration block and keep the budget on the validation
\* block of that protocol, for the monitor the run holds in memory: whichever of
\* several lockers wrote the lock, and whatever checkpoint, metrics, probe
\* protocol or parent was replaced between the steps of the locker and the run.
RunsKeepTheBudget ==
  \A r \in Started : GatesReadTheProtocol(r) =>
     LET splits == Doc(r).splits
         entropy == me[r].lock.entropy
     IN /\ IsLeastWithinBudget(Summaries(r, splits.calibration), Risk(r), entropy)
        /\ WithinBudget(Summaries(r, splits.validation), Risk(r), entropy)

\* The protocol of a run that starts under a v1.2 or v1.4 relock differs from the
\* registered protocol v1.0 in the calibration and validation seeds and the
\* metadata of a relock only, also when the parent it names was replaced with it.
\* One of v1.3 has the settings of v1.0 when the lock records that the gate of the
\* mixed sources read it, whatever parent it names.
StartedRunsAreApproved ==
  \A r \in Started :
     IF VersionOf(me[r].protocol) = "1.3"
     THEN me[r].lock.mixed = me[r].protocol =>
            Contract(Doc(r)) = Contract(Document[Approved["v1.0"]])
     ELSE Without(Doc(r), RelockV14Metadata) = Without(Document[Approved["v1.0"]], {})

SeedsOf(version) ==
  IF version = "1.2" THEN RelockSeeds.v12
  ELSE IF version = "1.3" THEN RelockSeeds.v13 ELSE RelockSeeds.v14

\* Every list of scene seeds behind a started run is the one its version is
\* documented with: those the thresholds of its lock were chosen and checked on
\* (docs/MONITOR_RELOCK_V1_4.md: "all earlier relock artifacts are excluded from
\* threshold selection"), and those of the splits no relock may move
\* (docs/MONITOR_RELOCK_V1_3.md: train "600-699").  The code enforces neither: the
\* gates read the protocol anew and no one compares the seeds in the lock, and the
\* parent of a v1.3 relock, which vouches for the other splits, is not pinned.
StartedRunsUseRegisteredSeeds ==
  \A r \in Started :
    LET seeds == SeedsOf(VersionOf(me[r].protocol))
        lock == me[r].lock
    IN /\ Document[lock.calibration].splits.calibration = seeds.calibration
       /\ Document[lock.validation].splits.validation = seeds.validation
       /\ \A p \in {"pilot", "train", "final_test"} :
            Doc(r).splits[p] = Document[Approved["v1.0"]].splits[p]
=============================================================================
