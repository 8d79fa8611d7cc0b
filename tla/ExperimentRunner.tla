------------------------- MODULE ExperimentRunner -------------------------
(***************************************************************************)
(* ExperimentRunner.run and _run_episode (runner.py) with the FaultSchedule*)
(* (faults.py) they consume, driving the chunked policy of GrootPolicy.    *)
(*                                                                         *)
(* The environment, the monitor and the recovery controller are reached    *)
(* through protocols, so their answers are choices of the model: whether a *)
(* fault was applied and which first affected input it declares, how the   *)
(* transition ended, whether an alarm was raised, which recovery action    *)
(* was decided.  The controller can be fixed to RetryRecoveryController.   *)
(* Any of these calls, and the recorder, may raise where MayRaise allows.  *)
(*                                                                         *)
(* Rewards, latencies, wall time and the text of events are abstracted;    *)
(* observations are not modelled here (see FaultedEpisode).                *)
(***************************************************************************)
EXTENDS GrootPolicy, FiniteSets

CONSTANTS
  Faults,          \* fault ids: the places of the faults in FaultSchedule._faults
  Episodes,        \* config.episodes
  Horizon,         \* config.horizon
  MatchWindow,     \* config.detection_match_window
  SharedSchedule,  \* no fault_schedule_factory: one schedule for every episode
  ExposesChunk,    \* the policy has a requested_action_chunk attribute
  Decisions,       \* what the monitor may decide, a subset of Verdicts
  RetryController, \* recovery is RetryRecoveryController, else any controller
  MaxRetries,      \* its max_retries
  MayRaise         \* external calls may raise

ASSUME FaultsAssumption == Faults \subseteq Nat
ASSUME ConfigAssumption ==
  /\ Episodes \in Nat \ {0}
  /\ Horizon \in Nat \ {0}
  /\ MatchWindow \in Nat
  /\ MaxRetries \in Nat
ASSUME SwitchAssumption ==
  /\ SharedSchedule \in BOOLEAN
  /\ ExposesChunk \in BOOLEAN
  /\ RetryController \in BOOLEAN
  /\ MayRaise \in BOOLEAN

\* monitor_decision.failure_detected, as read by the matching branch.
Verdicts == {"quiet", "alarm"}

ASSUME DecisionsAssumption == Decisions \subseteq Verdicts

Phases == {"before_action", "after_step"}

RecoveryActions ==
  {"continue", "requery_policy", "reissue_current_chunk", "switch_camera_subset",
   "diagnostic_probe", "retry", "replan", "request_help", "terminate"}

\* The actions after which run() resets the policy.
RequeryActions == {"requery_policy", "reissue_current_chunk", "retry", "replan"}

\* A schedule gives each fault its key (step, phase); a step no episode
\* reaches stands for a fault that never comes due.
Schedules == [Faults -> [step : 0..Horizon, phase : Phases]]

VARIABLES
  pc,                 \* where run() is
  schedule,           \* the FaultSchedule in use: fault id -> step and phase
  consumed,           \* FaultSchedule._consumed
  due,                \* faults returned by due() and not yet injected
  episode,            \* episode_id
  step,               \* control step of the episode
  applied,            \* applied_faults in insertion order, with the step of injection
  detected,           \* detected_faults
  delays,             \* detection_delays
  matches,            \* matched_fault_id of the step events that have one
  falseAlarms,        \* false_alarms
  verdict,            \* the monitor decision of the current step
  alarmSteps,         \* steps of this episode whose recorded decision is an alarm
  retryCount,         \* retry_count; recovery_attempted is retryCount > 0
  chunkId,            \* chunk_id of the runner
  chunkPosition,      \* chunk_position of the runner
  history,            \* requested_action_history
  measured,           \* len(policy_latencies): queries seen by this episode
  transition,         \* how the current transition ended
  reason,             \* termination_reason
  results,            \* results, one record per finished episode
  journal,            \* how often each kind of event was recorded
  environment         \* "open" until environment.close returns or raises

scheduleVars == <<schedule, consumed, due>>
matchVars == <<applied, detected, delays, matches, falseAlarms, verdict, alarmSteps>>
chunkVars == <<chunkId, chunkPosition, history, measured>>
endVars == <<transition, reason>>
runVars == <<results, journal, environment>>

vars == <<policyVars, pc, scheduleVars, episode, step, matchVars, chunkVars,
          retryCount, endVars, runVars>>

Events == {"experiment_start", "episode_start", "fault_injection", "step",
           "episode_end", "completed", "failed"}

Transitions == {"running", "success", "environment_done"}

Reasons == {"horizon", "success", "environment_done", "request_help", "terminate"}

\* "refused" is an exception before the try block, "failed" one on its way to
\* the except clause, "unwinding" one on its way to the finally clause.
Locations == {"start", "episode", "before", "acted", "after", "decide",
              "episode_end", "failed", "closing", "unwinding",
              "returned", "raised", "refused"}

\* Locations inside the try block of run().
InTry == {"episode", "before", "acted", "after", "decide", "episode_end"}

AppliedFaults == [fault : Faults, first : Nat, at : Nat]

Matches == [fault : Faults, alarm : 0..Horizon]

EpisodeResults ==
  [reason : Reasons, steps : Nat, faults : Nat, detected : Nat,
   falseAlarms : Nat, retries : Nat]

RunnerTypeOK ==
  /\ PolicyTypeOK
  /\ pc \in Locations
  /\ schedule \in Schedules
  /\ consumed \in SUBSET Faults
  /\ due \in SUBSET Faults
  /\ episode \in 0..Episodes
  /\ step \in 0..Horizon
  /\ applied \in Seq(AppliedFaults)
  /\ detected \in SUBSET Faults
  /\ delays \in Seq(0..MatchWindow)
  /\ matches \in Seq(Matches)
  /\ falseAlarms \in Nat
  /\ verdict \in Verdicts
  /\ alarmSteps \in SUBSET (0..Horizon)
  /\ retryCount \in Nat
  /\ chunkId \in Nat
  /\ chunkPosition \in 0..(ChunkLength - 1)
  /\ history \in Seq(Actions)
  /\ measured \in Nat
  /\ transition \in Transitions
  /\ reason \in Reasons
  /\ results \in Seq(EpisodeResults)
  /\ journal \in [Events -> Nat]
  /\ environment \in {"open", "closed", "close_raised"}

-----------------------------------------------------------------------------
(* FaultSchedule.due, the first half: the faults of the key (step, phase)  *)
(* that were not handed out before; the caller adds them to consumed.      *)
DueFaults(used, atStep, phase) ==
  {f \in Faults : /\ schedule[f] = [step |-> atStep, phase |-> phase]
                  /\ f \notin used}

\* Mutant: reset leaves the consumed faults of the previous episode.
ResetScheduleKeepsConsumed ==
  /\ due' = {f \in Faults \ consumed :
               schedule'[f] = [step |-> 0, phase |-> "before_action"]}
  /\ consumed' = consumed \cup due'

\* reset() clears the consumed faults, then due() of step 0 is taken.
ResetSchedule ==
  /\ due' = {f \in Faults : schedule'[f] = [step |-> 0, phase |-> "before_action"]}
  /\ consumed' = due'

\* due() as the episode loop calls it: hand the faults out and consume them.
TakeDue(atStep, phase) ==
  /\ due' = DueFaults(consumed, atStep, phase)
  /\ consumed' = consumed \cup due'

\* The loop injects due faults in the order of the schedule.
FirstDue(f) == f \in due /\ \A g \in due : f <= g

Record(event) == journal' = [journal EXCEPT ![event] = @ + 1]

Init ==
  /\ PolicyInit
  /\ pc = "start"
  /\ schedule \in Schedules
  /\ consumed = {} /\ due = {}
  /\ episode = 0 /\ step = 0
  /\ applied = <<>> /\ detected = {} /\ delays = <<>> /\ matches = <<>>
  /\ falseAlarms = 0
  /\ verdict = "quiet" /\ alarmSteps = {}
  /\ retryCount = 0
  /\ chunkId = 0 /\ chunkPosition = 0 /\ history = <<>> /\ measured = 0
  /\ transition = "running" /\ reason = "horizon"
  /\ results = <<>>
  /\ journal = [e \in Events |-> 0]
  /\ environment = "open"

-----------------------------------------------------------------------------
(* run: before the try block.                                              *)

StartExperiment ==
  /\ pc = "start"
  /\ Record("experiment_start")
  /\ pc' = "episode"
  /\ UNCHANGED <<policyVars, scheduleVars, episode, step, matchVars, chunkVars,
                 retryCount, endVars, results, environment>>

\* The first record raises outside the try block, in its write or in the
\* flush after it: nothing closes the environment.
StartExperimentRaises ==
  /\ pc = "start"
  /\ MayRaise
  /\ UNCHANGED journal \/ Record("experiment_start")
  /\ pc' = "refused"
  /\ UNCHANGED <<policyVars, scheduleVars, episode, step, matchVars, chunkVars,
                 retryCount, endVars, results, environment>>

-----------------------------------------------------------------------------
(* _run_episode: the resets, episode_start, and due() of step 0.  With a   *)
(* factory the schedule is a new one; reset() clears what was consumed.    *)
BeginEpisode ==
  /\ pc = "episode"
  /\ episode < Episodes
  /\ IF SharedSchedule THEN UNCHANGED schedule ELSE schedule' \in Schedules
  /\ PolicyReset
  /\ ResetSchedule
  /\ step' = 0
  /\ applied' = <<>> /\ detected' = {} /\ delays' = <<>> /\ matches' = <<>>
  /\ falseAlarms' = 0
  /\ verdict' = "quiet" /\ alarmSteps' = {}
  /\ retryCount' = 0
  /\ chunkId' = 0 /\ chunkPosition' = 0 /\ history' = <<>> /\ measured' = 0
  /\ transition' = "running" /\ reason' = "horizon"
  /\ Record("episode_start")
  /\ pc' = "before"
  /\ UNCHANGED <<episode, results, environment>>

\* One round of _apply_due_faults.  The environment answers whether it
\* applied the fault.  The first affected input is the step before an action
\* and the next step after one, unless the environment declares the other:
\* the adapters of the repository declare no third.
InjectFault ==
  /\ pc \in {"before", "after"}
  /\ \E f \in Faults :
       /\ FirstDue(f)
       /\ due' = due \ {f}
       /\ \/ UNCHANGED applied
          \/ \E first \in {step, step + 1} :
               applied' = Append(applied, [fault |-> f, first |-> first, at |-> step])
  /\ Record("fault_injection")
  /\ UNCHANGED <<policyVars, pc, schedule, consumed, episode, step, detected, delays,
                 matches, falseAlarms, verdict, alarmSteps, chunkVars, retryCount,
                 endVars, results, environment>>

\* policy.act and the latency it reports, if it queried.
Act ==
  /\ pc = "before"
  /\ due = {}
  /\ PolicyAct
  /\ history' = Append(history, emittedAction')
  /\ measured' = IF latency' = "measured" THEN measured + 1 ELSE measured
  /\ pc' = "acted"
  /\ UNCHANGED <<scheduleVars, episode, step, matchVars, chunkId, chunkPosition,
                 retryCount, endVars, runVars>>

\* environment.step, then due() of the after-step phase.
StepEnvironment ==
  /\ pc = "acted"
  /\ transition' \in Transitions
  /\ TakeDue(step, "after_step")
  /\ pc' = "after"
  /\ UNCHANGED <<policyVars, schedule, episode, step, matchVars, chunkVars,
                 retryCount, reason, runVars>>

\* The context of the monitor is built (after the pending-observation hook,
\* which changes the observation only), the monitor decides, and an alarm is
\* matched to the oldest fault that is still undetected and in the window.
CandidatesBeforeOnset ==  \* Mutant: without injection_step <= step.
  {i \in DOMAIN applied : /\ applied[i].fault \notin detected
                          /\ step - applied[i].first <= MatchWindow}

CandidatesOutOfWindow ==  \* Mutant: without the test of the window.
  {i \in DOMAIN applied : /\ applied[i].fault \notin detected
                          /\ applied[i].first <= step}

Candidates ==
  {i \in DOMAIN applied :
     /\ applied[i].fault \notin detected
     /\ applied[i].first <= step
     /\ step - applied[i].first <= MatchWindow}

NewestCandidate(i) ==  \* Mutant: max instead of min.
  /\ i \in Candidates
  /\ \A j \in Candidates : \/ applied[i].first > applied[j].first
                           \/ applied[i].first = applied[j].first /\ i <= j

\* min(unmatched, key=first affected input): the first inserted on a tie.
BestCandidate(i) ==
  /\ i \in Candidates
  /\ \A j \in Candidates : \/ applied[i].first < applied[j].first
                           \/ applied[i].first = applied[j].first /\ i <= j

MatchAlarm ==
  \/ \E i \in DOMAIN applied :
       /\ BestCandidate(i)
       /\ detected' = detected \cup {applied[i].fault}
       /\ delays' = Append(delays, step - applied[i].first)
       /\ matches' = Append(matches, [fault |-> applied[i].fault, alarm |-> step])
       /\ UNCHANGED falseAlarms
  \/ /\ Candidates = {}
     /\ falseAlarms' = falseAlarms + 1
     /\ UNCHANGED <<detected, delays, matches>>

Observe ==
  /\ pc = "after"
  /\ due = {}
  /\ verdict' \in Decisions
  /\ \/ /\ verdict' = "alarm"
        /\ alarmSteps' = alarmSteps \cup {step}
        /\ MatchAlarm
     \/ /\ verdict' = "quiet"
        /\ UNCHANGED <<alarmSteps, detected, delays, matches, falseAlarms>>
  /\ pc' = "decide"
  /\ UNCHANGED <<policyVars, scheduleVars, episode, step, applied, chunkVars,
                 retryCount, endVars, runVars>>

-----------------------------------------------------------------------------
(* recovery.decide.  RetryRecoveryController retries until its budget is   *)
(* used up and then requests help; another controller may decide anything. *)
DecidedOneTooMany ==  \* Mutant: one retry more than the budget.
  IF RetryController
  THEN IF verdict = "quiet" THEN {"continue"}
       ELSE IF retryCount > MaxRetries THEN {"request_help"} ELSE {"retry"}
  ELSE RecoveryActions

Decided ==
  IF RetryController
  THEN IF verdict = "quiet" THEN {"continue"}
       ELSE IF retryCount >= MaxRetries THEN {"request_help"} ELSE {"retry"}
  ELSE RecoveryActions

\* Mutant: the chunk is left one step late.
AdvanceChunkLate ==
  /\ IF chunkPosition + 1 > ChunkLength
     THEN chunkId' = chunkId + 1 /\ chunkPosition' = 0
     ELSE chunkId' = chunkId /\ chunkPosition' = chunkPosition + 1
  /\ UNCHANGED <<policyVars, history>>

\* Chunk bookkeeping of a step whose recovery action keeps the queue.
AdvanceChunk ==
  /\ IF chunkPosition + 1 >= ChunkLength
     THEN chunkId' = chunkId + 1 /\ chunkPosition' = 0
     ELSE chunkId' = chunkId /\ chunkPosition' = chunkPosition + 1
  /\ UNCHANGED <<policyVars, history>>

\* Mutant: the new chunk takes the id of the discarded one.
RestartChunkKeepsId ==
  /\ PolicyReset
  /\ chunkPosition' = 0
  /\ history' = <<>>
  /\ UNCHANGED chunkId

\* Chunk bookkeeping of a step whose recovery action resets the policy:
\* "Stateful action-chunk policies must not continue a stale queue".
RestartChunk ==
  /\ PolicyReset
  /\ chunkId' = chunkId + 1
  /\ chunkPosition' = 0
  /\ history' = <<>>

\* Why the loop is left after a step; "running" when it goes on.
Ending(action) ==
  IF transition = "success" THEN "success"
  ELSE IF action \in {"request_help", "terminate"} THEN action
  ELSE IF transition = "environment_done" THEN "environment_done"
  ELSE IF step + 1 = Horizon THEN "horizon"
  ELSE "running"

Recover(action) ==
  /\ pc = "decide"
  /\ retryCount' = IF action = "continue" THEN retryCount ELSE retryCount + 1
  /\ IF action \in RequeryActions THEN RestartChunk ELSE AdvanceChunk
  /\ Record("step")
  /\ IF Ending(action) = "running"
     THEN /\ step' = step + 1
          /\ TakeDue(step', "before_action")
          /\ pc' = "before"
          /\ UNCHANGED reason
     ELSE /\ reason' = Ending(action)
          /\ pc' = "episode_end"
          /\ UNCHANGED <<step, consumed, due>>
  /\ UNCHANGED <<schedule, episode, matchVars, measured, transition, results, environment>>

Decide == \E action \in Decided : Recover(action)

\* The EpisodeResult, the episode_end event, results.append.
EpisodeResult ==
  [reason |-> reason, steps |-> step + 1, faults |-> Len(applied),
   detected |-> Cardinality(detected), falseAlarms |-> falseAlarms,
   retries |-> retryCount]

EndEpisode ==
  /\ pc = "episode_end"
  /\ results' = Append(results, EpisodeResult)
  /\ Record("episode_end")
  /\ episode' = episode + 1
  /\ pc' = "episode"
  /\ UNCHANGED <<policyVars, scheduleVars, step, matchVars, chunkVars, retryCount,
                 endVars, environment>>

-----------------------------------------------------------------------------
(* run: the end of the try block, the except clause and the finally clause *)

CompleteExperiment ==
  /\ pc = "episode"
  /\ episode = Episodes
  /\ Record("completed")
  /\ pc' = "closing"
  /\ UNCHANGED <<policyVars, scheduleVars, episode, step, matchVars, chunkVars,
                 retryCount, endVars, results, environment>>

\* The event that the rest of the step at hand writes.
Recording(event) ==
  \/ event = "episode_start" /\ pc = "episode" /\ episode < Episodes
  \/ event = "completed" /\ pc = "episode" /\ episode = Episodes
  \/ event = "fault_injection" /\ pc \in {"before", "after"} /\ due # {}
  \/ event = "step" /\ pc = "decide"
  \/ event = "episode_end" /\ pc = "episode_end"

\* Any call inside the try block may raise: reset, inject_fault, act, step,
\* observe, decide, execute, aggregate_episode_metrics, or the recorder, whose
\* flush may raise after the event was written.  A policy that raises may have
\* made its query.
RaiseInTry ==
  /\ pc \in InTry
  /\ MayRaise
  /\ pc' = "failed"
  /\ \/ UNCHANGED journal
     \/ \E event \in Events : Recording(event) /\ Record(event)
  /\ \/ UNCHANGED policyVars
     \/ pc = "before" /\ due = {} /\ PolicyActRaises
  /\ UNCHANGED <<scheduleVars, episode, step, matchVars, chunkVars, retryCount,
                 endVars, results, environment>>

\* Mutant: the except clause swallows the error and goes on.
RecordFailureContinues ==
  /\ pc = "failed"
  /\ pc' = "episode"
  /\ UNCHANGED <<policyVars, scheduleVars, episode, step, matchVars, chunkVars,
                 retryCount, endVars, runVars>>

\* The except clause records the failure and re-raises; when that record
\* raises too, or the exception is an interrupt that the clause lets pass, the
\* finally clause still runs.
RecordFailure ==
  /\ pc = "failed"
  /\ \/ Record("failed")
     \/ UNCHANGED journal
  /\ pc' = "unwinding"
  /\ UNCHANGED <<policyVars, scheduleVars, episode, step, matchVars, chunkVars,
                 retryCount, endVars, results, environment>>

\* Mutant: only a run without an exception closes the environment.
CloseWhenCompleted ==
  /\ pc \in {"closing", "unwinding"}
  /\ environment' = IF pc = "closing" THEN "closed" ELSE environment
  /\ pc' = IF pc = "closing" THEN "returned" ELSE "raised"
  /\ UNCHANGED <<policyVars, scheduleVars, episode, step, matchVars, chunkVars,
                 retryCount, endVars, results, journal>>

\* The finally clause.  close() may raise as any call: run() then raises also
\* after the event of completion.
CloseEnvironment ==
  /\ pc \in {"closing", "unwinding"}
  /\ \/ /\ environment' = "closed"
        /\ pc' = IF pc = "closing" THEN "returned" ELSE "raised"
     \/ /\ MayRaise
        /\ environment' = "close_raised"
        /\ pc' = "raised"
  /\ UNCHANGED <<policyVars, scheduleVars, episode, step, matchVars, chunkVars,
                 retryCount, endVars, results, journal>>

\* run() has returned or re-raised.
Finished ==
  /\ pc \in {"returned", "raised", "refused"}
  /\ UNCHANGED vars

Next ==
  \/ StartExperiment
  \/ StartExperimentRaises
  \/ BeginEpisode
  \/ InjectFault
  \/ Act
  \/ StepEnvironment
  \/ Observe
  \/ Decide
  \/ EndEpisode
  \/ CompleteExperiment
  \/ RaiseInTry
  \/ RecordFailure
  \/ CloseEnvironment
  \/ Finished

Spec == Init /\ [][Next]_vars

\* One thread runs the loop and every call it makes returns or raises.
FairSpec == Spec /\ WF_vars(Next)

-----------------------------------------------------------------------------
(* Properties: fault matching                                              *)

FaultsApplied == {applied[i].fault : i \in DOMAIN applied}

\* The alarms that could be credited to a fault: raised after it was applied,
\* at or after its first affected input, and not later than the window.
Creditable(alarmStep, i) ==
  /\ applied[i].at <= alarmStep
  /\ applied[i].first <= alarmStep
  /\ alarmStep - applied[i].first <= MatchWindow

\* What an alarm could have been credited to when it was raised: no earlier
\* alarm had taken it.
Open(alarmStep) ==
  {i \in DOMAIN applied :
     /\ Creditable(alarmStep, i)
     /\ \A k \in DOMAIN matches : matches[k].alarm < alarmStep =>
          matches[k].fault # applied[i].fault}

\* A detection is one alarm credited to the fault of the earliest onset among
\* those then open, and its delay is the time since that onset.
MatchIsJustified(k) ==
  /\ matches[k].alarm \in alarmSteps
  /\ \E i \in Open(matches[k].alarm) :
       /\ matches[k].fault = applied[i].fault
       /\ delays[k] = matches[k].alarm - applied[i].first
       /\ \A j \in Open(matches[k].alarm) : applied[i].first <= applied[j].first

MatchedAlarms == {matches[k].alarm : k \in DOMAIN matches}

\* The counters of the episode agree, and the schedule applies a fault once.
CountsAgree ==
  /\ Cardinality(detected) = Len(delays)
  /\ Len(delays) + falseAlarms = Cardinality(alarmSteps)
  /\ detected \subseteq FaultsApplied
  /\ FaultsApplied \subseteq consumed \ due
  /\ Cardinality(FaultsApplied) = Len(applied)

\* Scores never outrun evidence, nor fall behind it.  Each detection is an alarm
\* at or after the first affected input of the fault it is credited to and no
\* later than the window; an alarm is a false alarm exactly when no such fault
\* was open, as in the step of an after-step fault whose first affected input
\* is the next one; and every alarm is counted once.
MatchingIsSound ==
  /\ CountsAgree
  /\ Len(matches) = Len(delays)
  /\ detected = {matches[k].fault : k \in DOMAIN matches}
  /\ \A k \in DOMAIN matches : MatchIsJustified(k)
  /\ \A alarmStep \in alarmSteps \ MatchedAlarms : Open(alarmStep) = {}

\* Some assignment of distinct faults to n distinct alarms.
MatchingOfSize(n) ==
  \E matched \in {m \in SUBSET alarmSteps : Cardinality(m) = n} :
    \E credit \in [matched -> DOMAIN applied] :
      /\ \A a \in matched : Creditable(a, credit[a])
      /\ \A a, b \in matched : credit[a] = credit[b] => a = b

\* Matching online, oldest fault first, credits as many faults as the best
\* assignment of the episode's alarms to its faults made in hindsight: recall
\* and the number of false alarms do not depend on the matching rule.
GreedyMatchingIsMaximum ==
  pc = "episode_end" => ~MatchingOfSize(Cardinality(detected) + 1)

\* No fault is lost or replayed out of place: when the loop decides at a step,
\* the faults handed out in this episode are those whose key has passed, in
\* the first episode and in every later one that reuses the schedule.
ScheduleIsReplayed ==
  pc = "decide" => consumed = {f \in Faults : schedule[f].step <= step}

-----------------------------------------------------------------------------
(* Properties: chunk metadata                                              *)

\* The requested_action_chunk of the monitor context.
MonitorChunk ==
  IF ExposesChunk THEN requestedChunk
  ELSE SubSeq(history, IF Len(history) > ChunkLength THEN Len(history) - ChunkLength + 1
                       ELSE 1, Len(history))

\* The chunk shown to the monitor holds the requested action at the position
\* the runner declares for it, which it counts itself and never reads from
\* the policy; context_to_feature raises on a context where they differ.
WindowShowsAction ==
  pc = "after" =>
    /\ chunkPosition + 1 \in DOMAIN MonitorChunk
    /\ MonitorChunk[chunkPosition + 1] = emittedAction

\* A chunk id of the runner names one policy query of the episode, although
\* the policy restarts its own ids at every reset: ids are neither reused nor
\* skipped by a recovery, wherever in the chunk it falls.
ChunkIdNamesOneQuery ==
  pc \in {"after", "decide"} => measured = chunkId + 1

-----------------------------------------------------------------------------
(* Properties: the run                                                     *)

\* RetryRecoveryController never exceeds its budget, and the request for help
\* that follows the last retry is the last decision of the episode.
RetriesAreBounded ==
  RetryController =>
    /\ retryCount <= MaxRetries + 1
    /\ retryCount = MaxRetries + 1 =>
         pc \notin {"before", "acted", "after", "decide"}

\* What a run leaves behind, whichever call raises and when: close was called
\* whenever the try block was entered; a run that returns has closed the
\* environment and has one result, one episode_start and one episode_end per
\* episode and no failure; completion is recorded only with every result, also
\* by a run that still raises in the flush of that event or in close; a run
\* that recorded a failure never returns; and an episode_end without its result
\* is one whose flush raised.
RunIsAccountedFor ==
  /\ pc \in {"returned", "raised"} => environment # "open"
  /\ pc = "returned" =>
       /\ environment = "closed"
       /\ Len(results) = Episodes
       /\ journal["episode_start"] = Episodes /\ journal["episode_end"] = Episodes
       /\ journal["completed"] = 1 /\ journal["failed"] = 0
  /\ journal["completed"] > 0 =>
       Len(results) = Episodes /\ journal["episode_end"] = Episodes
  /\ journal["failed"] > 0 => pc \in {"unwinding", "raised"}
  /\ journal["episode_end"] # Len(results) =>
       /\ journal["episode_end"] = Len(results) + 1
       /\ pc \in {"failed", "unwinding", "raised"}

\* Every run ends, whatever the monitor and the controller decide.
RunTerminates == <>(pc \in {"returned", "raised", "refused"})
=============================================================================
