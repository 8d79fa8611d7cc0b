# Verification of vla-recovery-bench

The repository runs a frozen vision-language-action policy in a simulator,
injects faults into what it sees and does, watches it with a monitor, and
records everything as evidence for a study. What has to be right is therefore
the bookkeeping: which action of which policy query was executed, which inputs
a fault corrupted, which alarm is credited to which fault, what a run that
failed leaves behind. This directory models that bookkeeping in TLA+, checks it
with TLC and proves the core of it with TLAPS.

Paths below are relative to the repository; `vrb/` stands for
`src/vla_recovery_bench/`.

## 1. The system

| Component | Code | State | Operations |
|---|---|---|---|
| Policy adapter | `vrb/groot_adapter.py` | queue of actions not yet executed, requested chunk, chunk id, cursor, last emitted action | `act`, `reset`, `repeat_last_action`, `force_requery` |
| Experiment runner | `vrb/runner.py`, `vrb/faults.py`, `vrb/dummy.py` | episode, step, consumed faults, applied and detected faults, own chunk id and position, retry count, results, events | `run`, `_run_episode`, `_apply_due_faults`, `FaultSchedule.reset/due`, `RetryRecoveryController.decide` |
| Environment adapter | `vrb/robocasa_adapter.py` | countdowns of dropout, actuator and observation faults, their variant and cameras, last executed action, two frame caches | `reset`, `inject_fault`, `step`, `apply_pending_observation_fault`, `close` |
| Episode loops of the scripts | `scripts/collect_monitor_dataset.py`, `scripts/run_identifiability_pilot.py` | schedule, rows, exposure labels | the loop of an episode |
| Diagnostic probe | `scripts/run_diagnostic_probe.py`, `vrb/diagnostic_probe.py` | trigger, probe offset, post window, alarms, prefix of the pair | `run_episode` (passive and probe arm), `trigger_from_prediction`, pair validation |
| Policy server and client | `scripts/serve_groot_policy.py`, `TorchZmqPolicyClient`, `_start_server` and the `finally` clauses of the scripts | server process and the port it holds, torch generator, requests not yet handled; socket of the client | start, ping, `set_seed`, `get_action`, `get_policy_state`, `kill`, terminate, wait |
| Shard collection | `scripts/collect_monitor_dataset.py`, `vrb/artifacts.py`, `vrb/monitor_dataset.py` | output directory, write-once files, streams, seal | collect, validate, seal |
| Shard gate | `vrb/monitor_gate.py` | none: reads sealed shards | `validate_formal_shard_set`, `validate_mixed_source_shard_set` |
| Probe lock | `scripts/lock_diagnostic_probe.py`, `choose_entropy_threshold` in `vrb/diagnostic_probe.py`, `_validate_lock` in `scripts/run_diagnostic_probe.py` | input files (protocols, probe protocol, checkpoint, metrics), output directory with lock, seal or failure record | choose threshold, issue lock, accept lock |
| Monitor protocol | `vrb/monitor_protocol.py` | none | validators of the protocol and of its relocks v1.2 to v1.4, `schedule_for_row`, `monitor_episode_plan` |
| Temporal monitor | `vrb/monitor.py` | history of features | `observe`, `reset`, loading |
| Recorder, metrics | `vrb/recording.py`, `vrb/metrics.py` | append-only file | `record`, `close`, aggregation |
| Training, analysis, setup scripts | other `scripts/` | none that survives a call | |

How they interact. One thread runs an episode. In every step it injects the
faults due before the action, asks the policy for an action, gives it to the
environment, injects the faults due after the step, lets the environment
corrupt the observation it has just returned (the pending hook), shows the
result to the monitor, and asks the recovery controller what to do, which may
reset the policy. The policy calls the server, a process of its own, over a
request socket. Everything is written to append-only or write-once files; the
gate and the lock read the files of finished runs.

What is hard about it. There is little concurrency; the hazards are of other
kinds (the list with lines is `hazards` in `PROJECT.json`):

* the same fact kept in several places by several objects: the chunk in the
  deque, in the tuple shown to the monitor and in the counters of the runner;
  the exposure of a row in the plan and in the countdowns of the adapter;
* sequences of legal calls that meet in the middle: a recovery inside a chunk,
  a rejected answer, two faults whose windows overlap, a hook that runs twice;
* one-shot objects shared by episodes: the schedule, the fault state, the caches;
* online decisions that are scored afterwards: matching alarms to faults;
* calls that fail in any place, and what is left behind;
* a server process whose lifetime is a run's, and a port that outlives both:
  answers that come late, servers that hang, runs that are killed;
* files that are read, hashed and read again while others may replace them;
* order statistics at their limits: ties, a budget used up, a budget of nothing.

## 2. Modules

| Module | Models | Composition |
|---|---|---|
| `ChunkStream` | what a chunked policy promises: actions in order, once each, nothing of a discarded chunk | abstract specification |
| `GrootPolicy` | `GrootRoboCasaPolicy` | refines `ChunkStream` |
| `GrootPolicyProofs` | proofs about `GrootPolicy` | |
| `ExperimentRunner` | `ExperimentRunner`, `FaultSchedule`, `RetryRecoveryController` | EXTENDS `GrootPolicy`: its actions make the policy's calls |
| `ExperimentRunnerProofs` | proofs about `ExperimentRunner` | EXTENDS `GrootPolicyProofs`, whose lemmas it cites |
| `RoboCasaEnvironment` | fault state and operations of the environment adapter | |
| `FaultedEpisode` | the episode loop around the adapter, audit declarations and labels | EXTENDS `RoboCasaEnvironment`: its actions make the adapter's calls |
| `FaultProofs` | proofs about `FaultedEpisode`: type, windows, actuator faults | |
| `DeclaredFaultProofs` | proofs about `FaultedEpisode`: observation faults that do not overlap, labels | EXTENDS `FaultProofs`, whose lemmas it cites |
| `DiagnosticProbe` | the two arms of a pair of probe episodes and the pair gate | EXTENDS `GrootPolicy` |
| `ProbeProofs` | proofs about `DiagnosticProbe` | EXTENDS `GrootPolicyProofs`, whose lemmas it cites |
| `ShardCollection` | `main` of the collector, several processes, their directories, the repository | |
| `ShardGate` | `validate_formal_shard_set` | EXTENDS `ShardCollection`: reads the files its actions wrote |
| `ShardProofs` | proofs about `ShardCollection` and `ShardGate` | |
| `PolicyServer` | server processes, sockets, and the runs that start, call and stop them | |
| `ServerProofs` | proofs about `PolicyServer` | |
| `MonitorProtocol` | the validators of the protocol, its relocks and the probe protocol | |
| `ProbeThreshold` | `choose_entropy_threshold`, and a reference definition | |
| `ProbeLock` | the locker, the validation of a lock by a probe run, files replaced meanwhile | EXTENDS `MonitorProtocol` and `ProbeThreshold`: its actions evaluate their operators on the files they read |
| `ProbeLockProofs` | proofs about `ProbeThreshold` and `ProbeLock` | the second part cites the theorem of the first |
| `MCGrootPolicy`, `MCRunner`, `MCFaults`, `MCProbe`, `MCShards`, `MCServer`, `MCLock` | instances for TLC | |

Operators whose comment begins with *Mutant* belong to no behaviour of the
specification. Each is a definition with one plausible programming error
(a missing reset, an off-by-one, a dropped condition); substituted for the
definition it follows, it makes the property it is meant for fail. They record
that no property holds for lack of a case.

### GrootPolicy

An action is a pair of the query it comes from and its position in that chunk,
so "the right action" needs no arrays. `ActFromQueue` and `ActAfterQuery` are
the two ways through `act`; `ActQueryFails` is an exception of the client (time
out or server error), `ActAnswerRejected` one of `_validate_action_chunk`, after
the query was counted. `PolicyReset`, `PolicyRepeatLast` and
`PolicyForceRequery` are the methods of those names. The variables are the
fields of the object; -1 and `NoAction` stand for `None`.

### ExperimentRunner

`pc` names the places of `run` and `_run_episode` between which external code
runs: `before` (faults due before the action are injected one by one, then
`Act`), `acted` (`StepEnvironment`, which also takes the faults due after the
step), `after` (injected, then `Observe`), `decide` (`Decide`: recovery,
bookkeeping of the chunk, end of the episode). Environment, monitor and
controller are protocols: their answers are choices. Every call may raise, the
recorder's also after the event was written, in its flush (`RaiseInTry`, where
`Recording` names the event the step at hand writes; `StartExperimentRaises`
before the try block). The except clause records the failure or raises itself
(`RecordFailure`), and the finally clause closes the environment or raises too
(`CloseEnvironment`), also when completion is already recorded. `matches` is the
`matched_fault_id` of the step events, with the step: a score can then be held
against the alarms it was made from.

### RoboCasaEnvironment and FaultedEpisode

A frame is the observation it was captured in and how it looks; an executed
action is the step that requested it and what was done to it. This tells apart
everything the properties speak of: a camera is corrupted when it does not show
the present, clean frame. Countdowns, takeover of an active fault by a new one,
the two caches and the pending hook are modelled as coded. `FaultedEpisode`
follows the loop the runner and the scripts share, keeps all inputs and executed
actions of the episode, and states what is declared about them: the first
affected input (`DeclaredFirst`), the label of the collector (`IsExposed`) and
of the pilot (`PilotExposed`).

### DiagnosticProbe

One pair: `BeginArm` (new policy, server seeded, monitor reset), then a loop
whose head chooses between the normal `act` (`ActNormally`) and the probe script
(`RepeatPrevious`, `ForceRequery` followed by `ActInProbe`, `ActInProbe`), and
`Observe` for the rest of the step, up to `EndArm` and the gate `ValidatePair`.

The claim of a pair is counterfactual: both arms would have gone on alike. The
model therefore needs one world for both. `outcomes` is the environment as a
function of the actions executed so far, `verdicts` the monitor as a function of
everything shown to it since its reset; both are chosen value by value when a
value is first needed, and the second arm meets the values the first has fixed.
What is not reproducible in the code, the measured latency of a query, is chosen
anew each time and is a part of what the monitor is shown. An executed action is
named by the draw of the server's random generator since `set_seed`, so a server
that was not seeded again gives other actions.

### ShardCollection and ShardGate

Each collector is a process with the local variables of `main` in `run[c]`; `pc`
names the file it writes next. Between any two files another collector, an edit
or commit of the repository, an exception (`Fail`) or a kill (`Crash`) may come.
A file in `fs[d][n]` is who created it, its form (absent, empty, torn, open,
whole, altered) and the episodes in it. Whatever else a run writes into a file
is a value of its own record, assigned once, so the gate reads it there
(`Author`). `WriteOnce` is creation with mode `x`: when the file exists, the run
fails. The five streams are opened one after another (`Openings`), so a kill or a
name that is taken leaves the first few, empty; the writer looks for both its
files before it opens one. The four channels of an episode are written in four
actions, so a kill finds them at different lengths. `Seal` records the files as they are.

Two versions are told apart that the code treats as one: `plan`, the protocol as
it was read, and `hash`, the protocol as it was hashed; and `code`, the commit
Python imported, next to `commit`, the one git reported later.

The gate has no state. `ShardPasses` is one conjunct per section of
`_validate_shard`, `GatePasses` adds what is compared among the shards. Its
properties are invariants: in every reachable state of the collectors, for every
list of directories.

An edit of the protocol is taken to change both its plan and its hash. Damage
that keeps a file well formed is admitted after the seal only: nothing
in the repository promises to notice it earlier.

### PolicyServer

Run `r` starts server `r`. A run is at the place of its next call (`Endpoint`
names the call made there) or at a step of its shutdown; `call` is where its
request is: with the client (`queued`), in the inbox of a server (`sent`), or
`answered`. `Start` holds the steps of `_start_server`, `Work` those of the try
block, `Shutdown` those of the finally clause, `Serve` those of a server
process. Deadlines have no clock: one may pass whenever something is waited for.
A client that gave up leaves its request in the inbox; the server handles it and
answers no one, which still draws from its generator. An action is named by the
seed and the draw it was computed from.

The scripts differ in one place only, the exception their shutdown catches, and
`CatchesExpired` is that difference: `subprocess.TimeoutExpired` in the pilot, the
clean baseline and the probe, `TimeoutError` in the collector. A run becomes
`cut` when its process is killed, or when closing the environment raises before
the finally clause reaches the server. The runs use one port one after the
other; each script has its own default port.

### MonitorProtocol, ProbeThreshold and ProbeLock

A file content has a name, and the name stands for its hash: two files have one
hash exactly when they are equal. A list of scene seeds is a block with a name.
The many settings the validators compare with fixed values are one field,
`body`. What remains is what ties a relock to its parent, to what it supersedes
and to the protocols under which its shards were collected. The validators of v1.2
and v1.4 pin path and hash of the parent; that of v1.3 compares the hash with the
one the document itself declares, and the contract the mixed gate compares has
no splits in it. The models keep these differences.

A clean episode is its largest risk and its largest entropy, on a scale of
levels. Level `x` is written `2x` as a threshold and `2x + 1` is numpy's
`nextafter` of it, so that "one above the largest" is exact and ties are ties.
`IsLeastWithinBudget` is the reference: the budget is kept, and by no lower
threshold.

In `ProbeLock` a locker and a run are processes with local variables in
`me[q]`, and every place between two reads of a file is a place where `Replace`
may put another content at any path that may hold it, a relock of another version
too. A file is loaded and hashed in different steps when the code opens it twice.
The protocol of a locker is read four times: when it is loaded, by the mixed gate
(v1.3), by the gate of a partition, whose shards give the summaries, and for its
hash in the lock; the lock keeps what each of the gates read, as its reports do. A kill leaves the file being written torn.
`Lock` takes the version from the protocol in memory, the hash of the protocol
from the file as it is then, and the hash of the checkpoint from before the
checkpoint was loaded, as the code does.

## 3. Runs

| Run | Question | Bounds and why they suffice |
|---|---|---|
| `policy` | do the copies of a chunk agree and is the stream of actions the promised one, under any sequence of calls | chunk of 3, 5 queries: every call arrives at the first, a middle and the last position, and several chunks follow each other |
| `runner_matching` | is each detection an alarm inside the window of its fault and each false alarm one that found no open fault, does online matching credit as many faults as the best matching in hindsight, and do the runner's own chunk id and position describe the policy's chunk | 2 faults, 3 steps, window of 1, chunk of 2: faults share a step, overlap, come too late or never; every pattern of alarms, any recovery action in any step; declared step either of the two the adapters use |
| `runner_lifecycle` | schedule replayed, retries bounded, run accounted for, run ends | 2 episodes over one schedule, one fault, one retry; any call may raise anywhere, the flush of a record and the close of the environment too |
| `faults_episodes` | do the declared windows and the labels computed from the plan agree with the adapter's countdowns; what do two faults do to each other; do unusable ones stop the episode | 2 episodes of 5 steps in one environment: the first with any pair of families, variants and phases (durations 1 and 2, bad durations, variants and cameras and unimplemented kinds before a fault in order) or any schedule of the protocols, the second any schedule of the protocols: windows that begin at the first step, end inside or outlive the episode |
| `faults_hook_duration` | *violation*: the hook shortens an active fault | |
| `probe_pair` | are the arms of a pair comparable, and does the probe keep its script and its cost | 4 probe steps as in the code, chunk of 4, horizon 6, two latencies, both orders of the arms: triggers at every place of a chunk, before and at the horizon; episodes that end inside a probe, at its last step, after it |
| `shards` | what does a passed gate say of the runs behind the shards, and does it refuse good ones | 2 collectors, 2 directories, 2 seeds, 2 parameter hashes, one event (edit, commit, failure, kill, damage): both collectors in one directory or apart, one full collection or two shards, two that overlap, a debug one, a request that is refused |
| `shards_commit` | *violation*: the recorded commit is another than the code that ran | as `shards` |
| `server` | does a run stop its server, hear no other, act on draws of its own seed, and end | 2 runs, 2 episodes, up to 2 action queries in each, 3 events (crash, kill, error, exception): a second run meets whatever the first left; the third event is a failure of the second run on top of what left the first one's server |
| `server_left` | *violation*: the collector leaves a slow server behind | as `server`, no event needed |
| `lock` | is a chosen threshold the least one, does a run keep the budget on the blocks of its protocol, and is that protocol the registered one | one locker over every four clean episodes of two risk and three entropy levels with a rate of one half: ties, a budget used up or exceeded by risk alarms, and room for one or two; two lockers that share an output beside a run, over six states of the files (registered; drifted with their parents; half of that; another monitor; old seeds; a v1.3 with a parent of its own) and four choices of protocols, with one replacement at any moment, also of one version by another |
| `lock_seeds` | *violation*: a started run rests on other seeds than its version is documented with | one locker, one run; a v1.3 with a parent of its own, or v1.4 and two replacements |

`MaxQueries` bounds `inference_count`; in the runs of the runner it exceeds what
an episode can use, in `policy` the calls after the last query are all still
explored. All other bounds are parameters of the program (`horizon`,
`episodes`, `max_retries`, `detection_match_window`, durations).

Deadlock is checked in every run but those of the shards, the servers and the
lock, whose processes may all have ended: in the others, a state in which a loop
could not go on would be reported.
In the runs of the shards `MaxEvents` bounds what need not happen, not the
collectors; one event is enough because each hazard listed is one event between
two steps of a collector, and two collectors add the second actor. `Fragile`
restricts damage to one HDF5 channel and one JSON file;
`Requests` is the list of command lines. The episodes of a plan are taken in one
fixed order, as a hash orders them. Collectors, directories and hashes are
symmetric: no expression compares them but for equality. In `server`,
`MaxEvents` bounds what goes wrong by itself; time limits may pass in every step.
In `lock`, `edits` bounds how often a file is replaced; what holds for any number,
and what for how many, is proved (section 4).
`Finished` and `Closed` are the states after the program's end. In
`PolicySpec` the caller may always reset.

Fairness: `RunsEnd` assumes of a run that it goes on: it computes, its call is
answered, or a time limit passes (weak fairness of its own steps; every wait in
the scripts has a limit). The loop that waits for readiness goes round and round
between its clock and its ping, so the passing of its deadline is enabled again
and again and needs strong fairness: a clock that is read for ever passes any
deadline. Nothing is assumed of servers, which may hang in every state.

`RunTerminates` assumes weak fairness of `Next`, that is, the only
thread keeps running and every call returns or raises. The policy client has a
receive time-out and the simulator steps are synchronous, so a call that never
returns is a defect outside this code.

### What the violations show

* An after-step actuator fault makes the hook consume a step of an observation
  fault that is already active (`vrb/robocasa_adapter.py:206`), against its
  docstring. The protocols inject one fault per episode.
* The commit in `software_versions.json` is asked of git when the code already
  runs (`scripts/collect_monitor_dataset.py:463`): after a checkout in between, the
  shard names a clean commit whose code did not collect it, and passes, against
  lines 439-440 of that script and `docs/RESEARCH_SPECIFICATION.md:856`. What
  does hold is `PassedShardsShareProvenance`: one recorded commit, and the
  protocol that was planned from is the one the gate reads.
* The collector waits for its server and kills it in a handler for `TimeoutError`
  (`scripts/collect_monitor_dataset.py:650`). `Popen.wait` raises
  `subprocess.TimeoutExpired`, which is another class: a server slower than 30
  seconds is left on the port, and the run ends with that exception. The same
  shutdown at `scripts/run_identifiability_pilot.py:1052` catches the right one.
  With it, no server is left (`server`, and proved).
* `StartedRunsUseRegisteredSeeds` fails in two ways. A v1.3 relock may name a parent
  of its own with other pilot, training and final test seeds (`OwnParentScenarios`,
  the trace TLC reports): its validator (`vrb/monitor_protocol.py:298-300`) pins
  neither path nor hash, while the messages that say so, at lines 220 and 233,
  stand in the validator of v1.2. Nothing has to be replaced for that. What does
  hold of v1.3 is `V13RunsHaveTheContract`: the settings are the registered ones.
* The other way is a swap (`SwapScenarios`). The threshold of a lock is chosen on
  the shards of the protocol as the gates read it
  (`scripts/lock_diagnostic_probe.py:241-272`); the hash in the lock is that of the
  protocol at line 365. Whoever puts the v1.2 protocol in the place of v1.4
  meanwhile, and v1.4 back, gets a lock of v1.4 with a threshold of the seeds
  1000-1049. `_validate_lock` compares the hash and the version and never the
  seeds, so the run starts, against `docs/MONITOR_RELOCK_V1_4.md:11`. The reports
  of the gates, with the hashes they read, are in the lock: comparing them would
  be enough, which is what the condition `GatesReadTheProtocol` of
  `RunsKeepTheBudget` says.

`PairRejectedOnlyByLatency` holds and is worth reading the other way round: the
gate can reject a pair although nothing differs but measured latencies, because
the monitor sees them (`vrb/monitor.py:281`).

Five more facts about the code that the models brought out, for which there is
no run of their own:

* `recovery_success` (`vrb/runner.py:315`) needs no detected fault, only a retry and
  an applied fault: after a false alarm it is true of a run that detected none.
  `docs/RESEARCH_SPECIFICATION.md:783` asks for the other measure.
* An `actuator_variant` injected after a step declares that step as the first
  affected one (`vrb/robocasa_adapter.py:278`), which was over, unlike the comment
  at `vrb/runner.py:112` has it. The protocols inject these faults before the
  action, and there `ActionsAlteredAsDeclared` holds.
* `StartedRunsAreApproved` needs a bound on the replacements. A run hashes its
  protocol (`scripts/run_diagnostic_probe.py:757`) before it loads it (line 759):
  somebody who replaces the protocol of v1.2 or v1.4 and the pinned parent between
  the two, and puts the parent back before its hash is taken, is not noticed. That
  is three replacements; TLC finds the sequence with three `edits` in the instance
  of `lock`, and `RunsAreApproved` proves that two do not suffice.
* `RunsKeepTheBudget` depends on a comparison that looks redundant. The run loads
  its checkpoint (line 1020) before it hashes the file (line 786); a checkpoint replaced in
  between has the locked hash, and only the comparison of the risk threshold saved
  in the one in memory refuses it. The mutant of `RunsKeepTheBudget` drops it.
* With a rate below one, the branch of `choose_entropy_threshold` for a budget that
  has room for every episode is never taken. The final stage of the probe asks for
  a field `final_lock`, which the locker does not write.

## 4. Proofs

`GrootPolicyProofs` proves, for every chunk length and every number of queries,

* `PolicyTypeCorrect`: `PolicySpec => []PolicyTypeOK`;
* `PolicyCopiesAgree`: `QueueIsRestOfChunk`;
* `PolicyMetadataAgrees`: `EmittedIsDeclared`;
* `PolicyImplementsStream`: `PolicySpec` implements `ChunkStream`, step by step and
  under every sequence of calls.

Assumptions: the chunk length is positive and `NoAction` is no action. The
inductive invariant `PolicyInv` adds `QueueIsFresh` to the three properties: a
non-empty queue comes from the query counted last, and something was emitted
from it. Without it a queue could, as far as the properties say, hold actions
of an older query, and the step `ServeNext` of the abstract stream could not be
shown. `PolicyStepInv` is stated for any step of the policy so that modules
which extend `GrootPolicy` can cite it.

`ExperimentRunnerProofs` proves, for any set of faults, schedule, horizon,
number of episodes, match window, chunk length and retry budget,

* `RunnerTypeCorrect`: `RunnerTypeOK` (positions stay inside the chunk, delays
  inside the window, steps inside the horizon);
* `MatchingSound`: `MatchingIsSound`, that is, for each detection of every run: the
  alarm, the fault, the window and the onset, and for each other alarm that no
  fault was open;
* `GreedyMatchingMaximal`: `GreedyMatchingIsMaximum`;
* `ScheduleReplayed`: `ScheduleIsReplayed`;
* `MonitorSeesAction`: `WindowShowsAction`, when the policy exposes its chunk
  (other policies get a window of past actions, `vrb/runner.py:172`);
* `ChunkIdsNameQueries`: `ChunkIdNamesOneQuery`;
* `RetryBudgetKept`: `RetriesAreBounded`;
* `RunAccounted`: `RunIsAccountedFor`, with calls, flushes and `close` raising anywhere;
* `RunnerImplementsStream`: the abstract stream of actions is implemented under the
  episode loop too, across its episodes, recoveries and exceptions: `PolicyCalls`
  makes a behaviour of the runner one of `PolicySpec`.

Assumptions: the ranges of the configuration (`ConfigAssumption`), faults
numbered by naturals, decisions among the two verdicts. The argument has two
layers. `RunnerInv` is the type, `PolicyInv` and `LoopInv`; `PolicyCalls` shows
that every step of the loop is a step of the policy or leaves it alone, so
`PolicyStepInv` carries `PolicyInv` over without repeating its proof. `LoopInv`
(inside the loop the step is below the horizon) is needed even for the type: a
loop that had passed the horizon would never meet `step + 1 = Horizon` again.
On top of it each property has its own strengthening: `MatchInv` adds that the
alarms so far are of earlier steps (an alarm then adds a step to the set) and
that due faults are consumed but not applied; `JustifiedInv` that a fault is
applied no later than the step the loop is in: one that is injected now then
comes after every earlier alarm, and what was open for them stays as it was;
`ScheduleInv` says what has been
consumed at each place of the loop, which differs by the phases passed;
`ChunkInv` ties the counters of the runner to the cursor of the policy, with a
case for the empty queue, before and after the action; `RetryInv` is tighter
inside the loop than outside; `JournalInv` follows the exception
path: inside the try block the counts are exact, and an exception on its way out
may have left one event more.

`GreedyMatchingMaximal` quantifies over all assignments of the episode's alarms
to its faults, and that greedy credits as many faults as any is not inductive: an
assignment that credits as many, but older faults, keeps a younger one open for the
next alarm. `GreedyInv` therefore compares at every step: no assignment credits
more faults *that begin before that step* than greedy does. Take an
assignment and a step t. If it does not use the new alarm, or uses it for a fault
that begins at t or later, the old fact is enough. If it uses the alarm for an
earlier fault and greedy credits one that begins before t, both sides grow by one.
If greedy does not, no fault that is open now begins before t, since it takes the oldest
of the open ones: every fault from `step - MatchWindow` to t is credited
already, and of the older ones the assignment counts what it counted before the
alarm (`CountsAdd` puts the two parts together). It is here that all windows have
one length: what is still open is a matter of where it begins.

`ProbeProofs` proves, for any horizon, chunk length, length of a probe, latencies,
and any environment and monitor, every property of `probe_pair`:

* `ProbeTypeCorrect`: `ProbeTypeOK`;
* `ScriptKept`: `ProbeKeepsItsScript`;
* `ProbeCostKept`: `ProbeStaysInBudget`;
* `RejectedOnlyByLatency`: `PairRejectedOnlyByLatency`;
* `PostWindowsCompare`: `PostWindowsAreComparable`;
* `ArmsServeTheStream`: inside an arm, every step is one of `ChunkStream` or leaves
  it alone. (Between two arms the script makes a new policy object, which
  starts a stream of its own.)

Assumptions: the horizon is positive, a probe has at least two steps and a chunk
covers its fresh part (16 actions in the code, of which three are used), latencies are
positive. `PolicyInv` is inherited from the policy. `LoopHolds` says where in its
probe an arm stands, by the trigger and the offset; `CursorHolds` which action of
which query the policy would give next, so that the script is a statement about
actions and not about calls. `Witnessed` is the heart: the contexts an arm was
judged by are entries of the one table of verdicts, its actions of the one
table of outcomes. Two arms that agree up to a step are asked the same
question there and get the same answer (`ArmsAlike`), and a rejected pair
must then differ in a measured latency. It holds of a summary as of the arm under
way, which is how the first arm is still known when the second one runs.

`ShardProofs` proves, for any number of collectors, directories, seeds,
parameter hashes and events,

* `ShardTypeCorrect`: `TypeOK`;
* `OneRun`: `OneRunPerDirectory`;
* `ShardsCoverPartition`: `PassedShardsCoverPartition`;
* `ShardsAreRunsAsFinished`: `PassedShardsAreRunsAsFinished`;
* `ShardsShareProvenance`: `PassedShardsShareProvenance`;
* `CampaignsAccepted`: `GoodCampaignsPass`;
* `SealedShardsAreFinal`, a property of steps: once the seal of a directory is begun,
  nothing but damage from outside changes its files, and nothing its checksums.

Assumptions: `None` is no collector, `MaxEvents` is a natural, requests and
fragile files are of the listed kinds, there are finitely many directories
(`DirAssumption`: the gate is given a list of them). `TypeInv` adds two facts to
the type that it needs to be inductive: a started collector has a directory
(`Placed`), and commits and protocol versions do not outnumber the events
(`Counted`). For ownership, `Owned` says that the author of
`software_versions.json`, the first file of every run, wrote every file there is,
and `Held` that a collector inside its try statement is that author. Together they
are inductive, and they show where the guarantee comes from: a run creates the
first file only if it is absent, and by `Owned` nothing is there without it.
`ensure_empty_output_dir` is not used in the argument; it stops a run before a server
loads the checkpoint, and guards against files no collector wrote, which the model
does not have.

For the gate, `SealInv` says what the files hold at every place of `main`.
`ChannelsHold` is the order in which an episode reaches the channels: each has the
episodes of the one before, up to the one under way. `RecordHolds` says that a run
past its own validation was found valid. `OpenedEmpty` says that the streams opened so
far hold no episode. `DirectoryHolds` says when a file can be
damaged without the seal knowing: never, if the seal is of the file as it was
written, and a whole seal is that of a run that is done. A shard whose checksums
agree is then what its author left (`PassedRun`), and the three conclusions follow from what the
gate compares among such shards. `SealedShardsAreFinal` needs one invariant more,
`SealedByEnded`: whoever began a seal has ended. By ownership every file there is
its own, so a run that may go on neither holds the directory nor has a channel to
close in it; what it still tries, to create `software_versions.json` or to be
killed doing so, finds the file there. `CampaignsAccepted` goes the other way: from a run that is done
and whose files are whole, every condition of the gate is derived.

`ProbeLockProofs` first proves `ChosenThresholdIsLeast`: for every finite set of
clean episodes, every risk threshold and every rate below one, whenever the risk
alarms stay inside the budget, `choose_entropy_threshold` returns the least
threshold that keeps it. The corollary `ChoiceFailsByRiskOnly` says that its last
check never fails. The argument: among finitely many episodes there is one whose
entropy has fewer than k below it and at least k at or below it (`KthEntropyExists`: the
least entropy with at least k at or below it); just above that entropy at most
`capacity` episodes alarm, at it more than `capacity` do, and every lower
threshold alarms at least as often.

Then it proves, for any number of lockers, runs, kills, replaced files,
documents and scores,

* `ChosenThresholdsAreLeast`: `LockedThresholdIsLeast`;
* `RunsAlwaysKeepTheBudget`: `RunsKeepTheBudget`, that is, if the gates read the
  protocol the run holds;
* `V13RunsHaveTheContract`: a v1.3 run whose protocol the mixed gate read has the
  settings of the registered v1.0, whatever parent it names;
* `LockFilesAreWrittenOnce`, a property of steps: a file of a lock directory that is
  there is never replaced;
* `StartedRunsHoldTheSealedLock`: the lock a started run goes by is the one in its
  directory, and the one sealed there as passed;

and, with up to two replaced files,

* `RunsAreApproved`: `StartedRunsAreApproved`. The bound concerns runs of v1.2 and v1.4
  only, and cannot be raised: three replacements mislead a run (section 3).

Assumptions: no two checkpoints have one risk threshold; declared sources exist;
and `PinnedAssumption`, which says what the pinned files are: the approved v1.0 is
no relock, the approved v1.2 agrees with it in the contract and has the seeds of
v1.2, the approved v1.3 agrees with v1.0 but for the metadata of a relock and the
seeds it moves. Nothing is assumed of which version a path holds when, or of which
parent a v1.3 names.

The inductive invariant `LockInv` says for every process
what it has made sure of so far (`PastRelock`, `PastSources`, `PastMixed`,
`PastCalibration` and so on are the places at which each check lies behind it)
and for every output directory that a lock in it is `Sound`: for some checkpoint
with the lock's risk threshold, its entropy threshold is the least on the
calibration block, and keeps the budget on the validation block, of the documents
the gates read. Those are contents and not paths, so no replacement can change
what the lock says of them; that they are the protocol the run holds is the one
thing nobody checks. `Sound` also has the contract of what the mixed gate read
(`ContractHolds`), which that gate compares with v1.2, whose hash `ValidRelock`
pins (`RelockPins`). `HeldInv` adds what a run has read of the directory; it stays
true because files are written once.

`ApprovalInv`, for `RunsAreApproved`, counts. `Kept` says of every content that a
locker or a lock has passed, or that is in the place of one: the parent in the
file system is proper unless a replacement was used, and the content is good or
the replacements left are too few to hide that it is not (`Guarded`). A
replacement uses up what the invariant then allows to be wrong; once none is left
that matters, the parent a run reads is the proper one and the validator decides
(`ParentKept`).

`ServerProofs` proves, for any number of runs, episodes, actions and events,

* `ServerTypeCorrect`: `ServerTypeOK`;
* `ServersEndWithTheirRuns`: `NoServerOutlivesItsRun`, if `CatchesExpired`;
* `AnswersAreOwn`: `OwnServerAnswers`, if `CatchesExpired`;
* `SeededActionsReproduced`: `SeededActionsAreReproducible`.

Assumptions: the bounds are naturals, episodes and actions at least one, `None`
is no run. `ServerInv` adds three things. `PlacesHold` ties the place of a run to
its call, its episode and its server. `OneAfterTheOther` says that all runs before
one that was launched have ended. `OwnHolds` says of every request in an inbox and
every answer that it is between a run and its own server or that of a cut run.
The point of the proof is delivery: a request reaches the server that is bound;
if that server is not the run's own, then it is that of an earlier run, which has
ended, and by `NoServerOutlivesItsRun` was cut; a later run has not been launched.

`SeedInv`, on top of it, is about the generators and needs nothing of the
shutdown. `RequestHolds` says of every request in an inbox that a server is
asked by other runs only when its own is over, that a request whose answer is
awaited is the one of the call under way, and that one that is not awaited any more is a
ping: a run that gives up a call of another kind gives up its calls. So
nothing but the calls of the episode moves the generator between the reset that
seeds it and the action that is compared, and `DrawHolds` can say at every place
of a call, queued, on the way or answered, which draw comes next.

`FaultProofs` and `DeclaredFaultProofs` prove, for any schedules of any faults, in
any episode, and any cameras, durations, horizon and number of episodes, every
property that `faults_episodes` checks on pairs:

* `FaultTypeCorrect`: `TypeOK`;
* `CorruptionStays`: `CorruptionStaysInWindows`;
* `AlteredAsDeclared`: `ActionsAlteredAsDeclared`;
* `CorruptedAsDeclared`, `UnknownCameraStopsEpisode`, `StaleFrameIsOld`:
  `InputsCorruptedAsDeclared`, `UnknownCameraFailsClosed`, `StaleFramePrecedesFault`;
* `LabelsAreRight`, `PilotExposureIsRight`: `ExposureMatchesCorruption`,
  `PilotExposureReachesPolicy`.

Assumptions: there is a camera, the horizon is positive, schedules hold faults.
`NextInput` is the number of the input that is transformed next; it is what
makes `step` and the hook, which transforms an input again, one case. `StayInv`
is loose, for any overlaps: the countdown ends no later than some declared
window, and the cameras are those some applied fault names. `DeclaredInv` is
exact, for windows that do not overlap: a running countdown belongs to one
applied fault (`IsActive`), ends with its window, and carries its cameras and its
variant; when none runs, every window has ended. `CachesHold` says that the frame
caches precede the next input, and `HookHolds` that the observation the hook is
given is untouched. The case that needs the precondition is the injection: a
fault whose window overlaps no other finds no countdown running. It only speaks
of the faults applied so far, and what is applied only grows, so a state that
meets it comes from one that met it (`ApartBefore`). `ActuatorInv` is the same
for actions, with the elapsed steps and the action a hold repeats. The labels
need one more fact (`LoopInv`): at the end of a row every fault whose step has
come was applied.

Only model-checked: liveness (`RunTerminates`, `RunsEnd`), which the prover cannot
reach. Every other property of a passing run is stated by a theorem. What the
four violation runs refute is no theorem, of course; `server_left` has its
counterpart in `ServersEndWithTheirRuns`, under `CatchesExpired`, and `lock_seeds` in
`RunsAlwaysKeepTheBudget`, under `GatesReadTheProtocol`, and `V13RunsHaveTheContract`. Two theorems hold within limits only, which are those of
the code: `RunsAreApproved` up to two replacements, and the properties of declared
faults for faults that do not overlap.

## 5. Not modelled

Pixels, action values, clipping and saturation counts; rewards and latencies;
the text of events; networks, training and the monitor's history of features; statistics over
finished artifacts; the file behind the recorder; the assignment of factors to
scene seeds and the order of an episode plan, which a hash decides; the policy
manifest, and what a lock reports for its reader only; the simulator and the
server loop of the external packages; straight-line setup and smoke scripts.
`components` in `PROJECT.json` gives the reason for each part.

## 6. Plan

1. Core (done): policy, runner, environment faults, with proofs.
2. `DiagnosticProbe` (done for one pair, with proofs). Next: the plan of several
   pairs with the validations around it.
3. `PolicyServer` (done, with proofs).
4. `ShardCollection` and `ShardGate` (done for formal shards, with proofs).
5. `MonitorProtocol`, `ProbeThreshold`, `ProbeLock` (done, with proofs). Next: the
   validation of the artifacts a probe run leaves behind.
6. The history of the temporal monitor and the recorder's file.
