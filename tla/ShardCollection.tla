-------------------------- MODULE ShardCollection --------------------------
(***************************************************************************)
(* The files of a formal collection campaign: main of                      *)
(* scripts/collect_monitor_dataset.py, one process per shard, each writing *)
(* its output directory.  The gate that reads them is in ShardGate.        *)
(*                                                                         *)
(* Around them, external: the repository (and the protocol file in it) may *)
(* be edited and committed while collectors run, a collector may fail or   *)
(* be killed at any point, closed files may be damaged afterwards.         *)
(*                                                                         *)
(* A file is <<who wrote it, what became of it, the episodes in it>>; what *)
(* else a run puts in a file are the values of its own record in run, all  *)
(* of them assigned once and before the file is written.  What an episode  *)
(* contains is the matter of FaultedEpisode.                               *)
(***************************************************************************)
EXTENDS Integers, Sequences, FiniteSets

CONSTANTS
  Collector,   \* processes, each one call of main
  Dir,         \* output directories
  SeedCount,   \* the partition has the scene seeds 1..SeedCount, in order
  Conditions,  \* CONDITIONS
  Weights,     \* parameter hashes a policy server can report
  None,        \* no process
  Requests,    \* bound: the <<role, seeds>> asked for on the command lines
  Fragile,     \* bound: the files that may be damaged
  MaxEvents    \* bound: changes of the repository, failures, kills, damaged files

ASSUME SeedCountAssumption == SeedCount \in Nat \ {0}
ASSUME NoneAssumption == None \notin Collector
ASSUME EventsAssumption == MaxEvents \in Nat
ASSUME RequestsAssumption ==
  Requests \subseteq {"debug", "formal_shard", "full_partition"} \X SUBSET (1..SeedCount)
ASSUME FragileAssumption ==
  Fragile \subseteq {"monitor_inputs", "offline_labels", "dataset_index", "episodes",
    "audit_stream", "run_manifest", "metrics", "software_versions",
    "policy_state_before", "policy_state_after", "artifact_validation", "shard_integrity"}

VARIABLES
  run,         \* the local variables of each collector
  fs,          \* the files of each directory
  seal,        \* the checksums in shard_integrity.json of each directory
  repo,        \* HEAD, whether the work tree is dirty, the protocol file
  events       \* changes of the repository, failures, kills, damaged files so far

vars == <<run, fs, seal, repo, events>>

Roles == {"debug", "formal_shard", "full_partition"}
FormalRoles == {"formal_shard", "full_partition"}
SceneSeeds == 1..SeedCount
Episodes(seeds) == seeds \X Conditions

Streams == {"monitor_inputs", "offline_labels", "dataset_index", "episodes",
            "audit_stream"}
Hashed == Streams \cup
  {"run_manifest", "metrics", "software_versions", "policy_state_before",
   "policy_state_after", "artifact_validation"}
Artifacts == Hashed \cup {"shard_integrity"}
Files == Artifacts \cup {"policy_server_log"}

Forms == {"absent", "empty", "torn", "open", "whole", "altered"}
Absent == [by |-> None, form |-> "absent", eps |-> {}]
Made(c, form) == [by |-> c, form |-> form, eps |-> {}]
NoSeal == [n \in Hashed |-> Absent]
Present(d, n) == fs[d][n].form # "absent"

\* A process before it was started.
Idle == [pc |-> "idle", dir |-> None, role |-> "debug", seeds |-> {}, code |-> 0,
         plan |-> 0, hash |-> 0, commit |-> 0, dirty |-> "unknown",
         weights |-> None, valid |-> "unknown"]

\* The places of main.  Serving: inside the try statement.  "done": the seal is
\* written; what is left is to shut down the server, which writes no file.
Serving == {"started", "ready", "opening", "inputs_opened", "labels_opened",
            "index_opened", "episodes_opened", "episode", "audited", "written", "indexed",
            "closed", "measured", "summed", "manifested", "sealing"}
Running == {"configured", "verified", "claimed", "identified"} \cup Serving
Ended == {"done", "failed", "crashed"}

Commits == 0..MaxEvents
Uncommitted == -1

RunStates ==
  [pc : {"idle"} \cup Running \cup Ended, dir : Dir \cup {None}, role : Roles,
   seeds : SUBSET SceneSeeds, code : Commits \cup {Uncommitted}, plan : Commits,
   hash : Commits, commit : Commits, dirty : {"unknown", "clean", "dirty"},
   weights : Weights \cup {None}, valid : {"unknown", "passed", "failed"}]
FileStates ==
  [by : Collector \cup {None}, form : Forms, eps : SUBSET Episodes(SceneSeeds)]

TypeOK ==
  /\ run \in [Collector -> RunStates]
  /\ fs \in [Dir -> [Files -> FileStates]]
  /\ seal \in [Dir -> [Hashed -> FileStates]]
  /\ repo \in [head : Commits, tree : {"clean", "dirty"}, protocol : Commits]
  /\ events \in 0..MaxEvents

Init ==
  /\ run = [c \in Collector |-> Idle]
  /\ fs = [d \in Dir |-> [n \in Files |-> Absent]]
  /\ seal = [d \in Dir |-> NoSeal]
  /\ repo = [head |-> 0, tree |-> "clean", protocol |-> 0]
  /\ events = 0

-----------------------------------------------------------------------------
(* The collector.                                                          *)

Go(c, pc) == run' = [run EXCEPT ![c].pc = pc]
Outside == UNCHANGED <<repo, events>>

\* --seed-offset and --max-scene-seeds choose consecutive seeds, --scene-seed
\* one, neither all of them; the role must fit the choice.
LegalRequest(role, seeds) ==
  /\ \E first, last \in SceneSeeds : first <= last /\ seeds = first..last
  /\ role = "formal_shard" => seeds # SceneSeeds
  /\ role = "full_partition" => seeds = SceneSeeds

\* Python has imported the implementation; the protocol is read, the plan built.
Launch(c, d, role, seeds) ==
  /\ run[c].pc = "idle"
  /\ LegalRequest(role, seeds)
  /\ run' = [run EXCEPT ![c] =
       [Idle EXCEPT !.pc = "configured", !.dir = d, !.role = role, !.seeds = seeds,
                    !.code = IF repo.tree = "dirty" THEN Uncommitted ELSE repo.head,
                    !.plan = repo.protocol]]
  /\ UNCHANGED <<fs, seal>> /\ Outside

\* The protocol file is hashed, after it was read; formal collection wants a
\* clean work tree.  The checkpoint is verified after that.
VerifyInputs(c) ==
  /\ run[c].pc = "configured"
  /\ run' = [run EXCEPT
       ![c].hash = repo.protocol,
       ![c].pc = IF run[c].role # "debug" /\ repo.tree = "dirty"
                 THEN "failed" ELSE "verified"]
  /\ UNCHANGED <<fs, seal>> /\ Outside

\* ensure_empty_output_dir
ClaimDirectory(c) ==
  /\ run[c].pc = "verified"
  /\ Go(c, IF \E n \in Files : Present(run[c].dir, n) THEN "failed" ELSE "claimed")
  /\ UNCHANGED <<fs, seal>> /\ Outside

\* Mutant: a commit as git describe --dirty gives it.
ReadCommitDirty(c) ==
  /\ run[c].pc = "claimed"
  /\ run' = [run EXCEPT ![c].pc = "identified",
                        ![c].commit = IF repo.tree = "dirty" THEN Uncommitted ELSE repo.head]
  /\ UNCHANGED <<fs, seal>> /\ Outside

\* _git_commit, one call of git before that of _git_dirty
ReadCommit(c) ==
  /\ run[c].pc = "claimed"
  /\ run' = [run EXCEPT ![c].pc = "identified", ![c].commit = repo.head]
  /\ UNCHANGED <<fs, seal>> /\ Outside

\* Mutant: open(..., "w").
CreatesAnyway(d, n) == n \in Files

\* open(..., "x"): the file is created and the run goes on as next, or
\* FileExistsError ends it.
Creates(d, n) == ~Present(d, n)
WriteOnce(c, n, next) ==
  /\ IF Creates(run[c].dir, n)
     THEN /\ fs' = [fs EXCEPT ![run[c].dir][n] = Made(c, "whole")]
          /\ run' = [run EXCEPT ![c] = next]
     ELSE Go(c, "failed") /\ UNCHANGED fs
  /\ UNCHANGED seal /\ Outside

WriteSoftwareVersions(c) ==
  /\ run[c].pc = "identified"
  /\ WriteOnce(c, "software_versions",
               [run[c] EXCEPT !.pc = "started", !.dirty = repo.tree])

StartServer(c) ==
  /\ run[c].pc = "started"
  /\ WriteOnce(c, "policy_server_log", [run[c] EXCEPT !.pc = "ready"])

\* Whoever serves the port reports its parameters.
RecordPolicyBefore(c) ==
  /\ run[c].pc = "ready"
  /\ \E w \in Weights :
       WriteOnce(c, "policy_state_before",
                 [run[c] EXCEPT !.pc = "opening", !.weights = w])

\* The files of its directory after the channels a collector has open were closed.
Closed(c, form) ==
  [n \in Files |->
     IF fs[run[c].dir][n].by = c /\ fs[run[c].dir][n].form = "open"
     THEN [fs[run[c].dir][n] EXCEPT !.form = form] ELSE fs[run[c].dir][n]]

\* MonitorDatasetWriter.__init__ opens its two files, the with statement the three
\* streams: the place before each, the channel, and the place after it.
Openings == {<<"opening", "monitor_inputs", "inputs_opened">>,
             <<"inputs_opened", "offline_labels", "labels_opened">>,
             <<"labels_opened", "dataset_index", "index_opened">>,
             <<"index_opened", "episodes", "episodes_opened">>,
             <<"episodes_opened", "audit_stream", "episode">>}

\* The writer looks for both its files first.  A name that is taken ends the run,
\* and the channels it has opened are closed.
OpenStream(c, n, next) ==
  /\ IF Creates(run[c].dir, n) /\ (n = "monitor_inputs" => Creates(run[c].dir, "offline_labels"))
     THEN fs' = [fs EXCEPT ![run[c].dir][n] = Made(c, "open")] /\ Go(c, next)
     ELSE fs' = [fs EXCEPT ![run[c].dir] = Closed(c, "whole")] /\ Go(c, "failed")
  /\ UNCHANGED seal /\ Outside

OpenStreams(c) ==
  \E o \in Openings : run[c].pc = o[1] /\ OpenStream(c, o[2], o[3])

\* _run_episode writes its four channels in this order.  The plan is ordered
\* by a hash: some order.  The episode under way is the one that is in the
\* audit and not yet in the channel to be written.
Record(c, names, eps, pc) ==
  /\ fs' = [fs EXCEPT ![run[c].dir] = [n \in Files |->
              IF n \in names
              THEN [fs[run[c].dir][n] EXCEPT !.eps = fs[run[c].dir][n].eps \cup eps]
              ELSE fs[run[c].dir][n]]]
  /\ Go(c, pc)
  /\ UNCHANGED seal /\ Outside

Recorded(c, n) == fs[run[c].dir][n].eps

AuditEpisode(c) ==
  /\ run[c].pc = "episode"
  /\ ~(Episodes(run[c].seeds) \subseteq Recorded(c, "episodes"))
  /\ LET e == CHOOSE e \in Episodes(run[c].seeds) \ Recorded(c, "episodes") : TRUE
     IN Record(c, {"audit_stream"}, {e}, "audited")

\* MonitorDatasetWriter.write_episode
WriteEpisode(c) ==
  /\ run[c].pc = "audited"
  /\ Record(c, {"monitor_inputs", "offline_labels"}, Recorded(c, "audit_stream"), "written")

IndexEpisode(c) ==
  /\ run[c].pc = "written"
  /\ Record(c, {"dataset_index"}, Recorded(c, "monitor_inputs"), "indexed")

SummariseEpisode(c) ==
  /\ run[c].pc = "indexed"
  /\ Record(c, {"episodes"}, Recorded(c, "dataset_index"), "episode")

\* All episodes recorded: the channels are closed.
CloseStreams(c) ==
  /\ run[c].pc = "episode"
  /\ Episodes(run[c].seeds) \subseteq Recorded(c, "episodes")
  /\ fs' = [fs EXCEPT ![run[c].dir] = Closed(c, "whole")]
  /\ Go(c, "closed")
  /\ UNCHANGED seal /\ Outside

\* The server reports its parameters again; others than before are an error.
RecordPolicyAfter(c) ==
  /\ run[c].pc = "closed"
  /\ \E w \in Weights :
       IF w = run[c].weights
       THEN WriteOnce(c, "policy_state_after", [run[c] EXCEPT !.pc = "measured"])
       ELSE Go(c, "failed") /\ UNCHANGED <<fs, seal>> /\ Outside

WriteMetrics(c) ==
  /\ run[c].pc = "measured"
  /\ WriteOnce(c, "metrics", [run[c] EXCEPT !.pc = "summed"])

WriteRunManifest(c) ==
  /\ run[c].pc = "summed"
  /\ WriteOnce(c, "run_manifest", [run[c] EXCEPT !.pc = "manifested"])

\* validate_monitor_dataset looks at the size of all it requires, and into the
\* HDF5 channels and the policy states; not into the JSONL streams.
Opened == {"monitor_inputs", "offline_labels", "policy_state_before", "policy_state_after"}
DatasetErrors(c) ==
  LET d == run[c].dir IN
  \/ \E n \in Streams \cup Opened : fs[d][n].form \in {"absent", "empty"}
  \/ \E n \in Opened : fs[d][n].form = "torn"
  \/ fs[d]["monitor_inputs"].eps # fs[d]["offline_labels"].eps
  \/ Cardinality(fs[d]["monitor_inputs"].eps) # Cardinality(Episodes(run[c].seeds))

ValidateDataset(c) ==
  /\ run[c].pc = "manifested"
  /\ WriteOnce(c, "artifact_validation",
               IF DatasetErrors(c) THEN [run[c] EXCEPT !.pc = "failed", !.valid = "failed"]
               ELSE [run[c] EXCEPT !.pc = "sealing", !.valid = "passed"])

\* build_shard_integrity_manifest refuses missing and empty files; the
\* checksums are those of the files as they are now.
Seal(c) ==
  LET d == run[c].dir IN
  /\ run[c].pc = "sealing"
  /\ IF \E n \in Hashed : fs[d][n].form \in {"absent", "empty"}
     THEN Go(c, "failed") /\ UNCHANGED <<fs, seal>> /\ Outside
     ELSE /\ Creates(d, "shard_integrity")
          /\ fs' = [fs EXCEPT ![d]["shard_integrity"] = Made(c, "whole")]
          /\ seal' = [seal EXCEPT ![d] = [n \in Hashed |-> fs[d][n]]]
          /\ Go(c, "done")
          /\ Outside

\* Something that need not happen does.
Event == events < MaxEvents /\ events' = events + 1

\* An exception inside the try statement: a server that does not come up or
\* answer, a fault that was not applied, a policy that is not frozen.  The
\* with statement closes the channels.
Fail(c) ==
  /\ run[c].pc \in Serving
  /\ Event
  /\ fs' = [fs EXCEPT ![run[c].dir] = Closed(c, "whole")]
  /\ Go(c, "failed")
  /\ UNCHANGED <<seal, repo>>

\* The file main creates next.
NextFile(pc) ==
  CASE \E o \in Openings : o[1] = pc -> {o[2] : o \in {o \in Openings : o[1] = pc}}
    [] pc = "identified" -> {"software_versions"}
    [] pc = "started" -> {"policy_server_log"}
    [] pc = "ready" -> {"policy_state_before"}
    [] pc = "closed" -> {"policy_state_after"}
    [] pc = "measured" -> {"metrics"}
    [] pc = "summed" -> {"run_manifest"}
    [] pc = "manifested" -> {"artifact_validation"}
    [] pc = "sealing" -> {"shard_integrity"}
    [] OTHER -> {}

\* The process is killed: the channels it has open are left whole, empty or
\* torn; the file it was about to write is not there, empty or torn.
Crash(c) ==
  /\ run[c].pc \in Running
  /\ Event
  /\ \E form \in {"whole", "empty", "torn"} :
       LET begun == {n \in NextFile(run[c].pc) : form # "whole" /\ Creates(run[c].dir, n)}
       IN fs' = [fs EXCEPT ![run[c].dir] = [n \in Files |->
                   IF n \in begun THEN Made(c, form)
                   ELSE Closed(c, form)[n]]]
  /\ Go(c, "crashed")
  /\ UNCHANGED <<seal, repo>>

-----------------------------------------------------------------------------
(* Around the collectors.  Every change of the protocol file changes the   *)
(* plan and the hash.                                                      *)

\* The work tree is edited.
Edit ==
  /\ Event
  /\ \E p \in {repo.protocol, repo.protocol + 1} :
       repo' = [repo EXCEPT !.tree = "dirty", !.protocol = p]
  /\ UNCHANGED <<run, fs, seal>>

\* What was edited is committed, or a newer commit is checked out.
Advance ==
  /\ Event
  /\ \E p \in {repo.protocol, repo.protocol + 1} :
       repo' = [head |-> repo.head + 1, tree |-> "clean", protocol |-> p]
  /\ UNCHANGED <<run, fs, seal>>

\* A closed file loses its contents; a sealed one may also change and still be
\* well formed.
Damage(d, n, form) ==
  /\ fs[d][n].form = "whole"
  /\ Event
  /\ form = "altered" => n \in Hashed /\ Present(d, "shard_integrity")
  /\ fs' = [fs EXCEPT ![d][n].form = form]
  /\ UNCHANGED <<run, seal, repo>>

Collect(c) ==
  \/ \E d \in Dir, request \in Requests : Launch(c, d, request[1], request[2])
  \/ VerifyInputs(c)
  \/ ClaimDirectory(c)
  \/ ReadCommit(c)
  \/ WriteSoftwareVersions(c)
  \/ StartServer(c)
  \/ RecordPolicyBefore(c)
  \/ OpenStreams(c)
  \/ AuditEpisode(c)
  \/ WriteEpisode(c)
  \/ IndexEpisode(c)
  \/ SummariseEpisode(c)
  \/ CloseStreams(c)
  \/ RecordPolicyAfter(c)
  \/ WriteMetrics(c)
  \/ WriteRunManifest(c)
  \/ ValidateDataset(c)
  \/ Seal(c)
  \/ Fail(c)
  \/ Crash(c)

Next ==
  \/ \E c \in Collector : Collect(c)
  \/ Edit
  \/ Advance
  \/ \E d \in Dir, n \in Fragile, form \in {"empty", "torn", "altered"} : Damage(d, n, form)

Spec == Init /\ [][Next]_vars

-----------------------------------------------------------------------------
\* A directory holds the files of one run only: of two collectors that both
\* found it empty, one gives up before it has written anything.
\* (ensure_empty_output_dir checks first and the files are created later)
OneRunPerDirectory ==
  \A d \in Dir : \A m, n \in Files :
     Present(d, m) /\ Present(d, n) => fs[d][m].by = fs[d][n].by
=============================================================================
