----------------------- MODULE ExperimentRunnerProofs -----------------------
(***************************************************************************)
(* Proofs about ExperimentRunner, for any faults, horizon, chunk length,   *)
(* match window and number of episodes.                                    *)
(***************************************************************************)
EXTENDS ExperimentRunner, GrootPolicyProofs, FiniteSetTheorems

USE FaultsAssumption, ConfigAssumption, ChunkLengthAssumption, MaxQueriesAssumption

InLoop == {"before", "acted", "after", "decide"}

\* The horizon is not passed inside the loop, an episode in progress is one
\* of the configured ones, and what was detected can be counted.
LoopInv ==
  /\ pc \in InLoop => step < Horizon
  /\ pc \in InLoop \cup {"episode_end"} => episode < Episodes
  /\ IsFiniteSet(detected)

\* The runner drives the policy through its interface only.
LEMMA PolicyCalls == [Next]_vars => [PolicyNext]_policyVars
<1> SUFFICES ASSUME [Next]_vars PROVE [PolicyNext]_policyVars
  OBVIOUS
<1> USE DEF PolicyNext
<1>1. CASE BeginEpisode
  BY <1>1 DEF BeginEpisode
<1>2. CASE Act
  BY <1>2 DEF Act
<1>3. CASE Decide
  <2>1. PICK action \in Decided : Recover(action)
    BY <1>3 DEF Decide
  <2> QED
    BY <2>1 DEF Recover, RestartChunk, AdvanceChunk
<1>4. CASE RaiseInTry
  BY <1>4 DEF RaiseInTry
<1>5. CASE \/ StartExperiment \/ StartExperimentRaises \/ InjectFault \/ StepEnvironment
           \/ Observe \/ EndEpisode \/ CompleteExperiment \/ RecordFailure
           \/ CloseEnvironment
  BY <1>5 DEF StartExperiment, StartExperimentRaises, InjectFault, StepEnvironment,
              Observe, EndEpisode, CompleteExperiment, RecordFailure, CloseEnvironment
<1>6. CASE Finished \/ UNCHANGED vars
  BY <1>6 DEF Finished, vars
<1> QED
  BY <1>1, <1>2, <1>3, <1>4, <1>5, <1>6 DEF Next

-----------------------------------------------------------------------------
LEMMA RunnerInitType == Init => RunnerTypeOK
<1> SUFFICES ASSUME Init PROVE RunnerTypeOK
  OBVIOUS
<1>1. PolicyTypeOK
  BY PolicyInitInv DEF Init, PolicyInv
<1>2. /\ <<>> \in Seq(AppliedFaults) /\ <<>> \in Seq(0..MatchWindow) /\ <<>> \in Seq(Matches)
      /\ <<>> \in Seq(Actions) /\ <<>> \in Seq(EpisodeResults)
  OBVIOUS
<1> QED
  BY <1>1, <1>2 DEF Init, RunnerTypeOK, Locations, Verdicts, Transitions, Reasons

\* An event is one more of its kind.
LEMMA RecordType ==
  ASSUME journal \in [Events -> Nat], NEW event \in Events, Record(event)
  PROVE  journal' \in [Events -> Nat]
BY DEF Record

\* act returns an action, never "none".
LEMMA ServedAction ==
  ASSUME PolicyTypeOK, PolicyAct
  PROVE  emittedAction' \in Actions
<1>1. CASE ActFromQueue
  BY <1>1 DEF ActFromQueue, PolicyTypeOK
<1>2. CASE ActAfterQuery
  <2>1. inferenceCount' \in 1..MaxQueries
    BY <1>2 DEF ActAfterQuery, PolicyTypeOK
  <2>2. emittedAction' = <<inferenceCount', 0>>
    BY <1>2, <2>1, ChunkFacts DEF ActAfterQuery
  <2> QED
    BY <2>1, <2>2 DEF Actions
<1> QED
  BY <1>1, <1>2 DEF PolicyAct

LEMMA RunnerStepType ==
  RunnerTypeOK /\ LoopInv /\ PolicyTypeOK' /\ [Next]_vars => RunnerTypeOK'
<1> SUFFICES ASSUME RunnerTypeOK, LoopInv, PolicyTypeOK', [Next]_vars PROVE RunnerTypeOK'
  OBVIOUS
<1>e. /\ <<>> \in Seq(AppliedFaults) /\ <<>> \in Seq(0..MatchWindow) /\ <<>> \in Seq(Matches)
      /\ <<>> \in Seq(Actions)
  OBVIOUS
<1> USE DEF RunnerTypeOK, scheduleVars, matchVars, chunkVars, endVars, runVars
<1>1. CASE StartExperiment
  BY <1>1, RecordType DEF StartExperiment, Locations, Events
<1>2. CASE StartExperimentRaises
  BY <1>2, RecordType DEF StartExperimentRaises, Locations, Events
<1>3. CASE BeginEpisode
  <2>1. schedule' \in Schedules
    BY <1>3 DEF BeginEpisode
  <2>2. due' \in SUBSET Faults /\ consumed' \in SUBSET Faults
    BY <1>3 DEF BeginEpisode, ResetSchedule
  <2>3. journal' \in [Events -> Nat]
    BY <1>3, RecordType DEF BeginEpisode, Events
  <2> QED
    BY <1>3, <1>e, <2>1, <2>2, <2>3
       DEF BeginEpisode, Locations, Verdicts, Transitions, Reasons
<1>4. CASE InjectFault
  <2>1. journal' \in [Events -> Nat]
    BY <1>4, RecordType DEF InjectFault, Events
  <2>2. PICK f \in Faults :
          /\ due' = due \ {f}
          /\ \/ UNCHANGED applied
             \/ \E first \in {step, step + 1} :
                  applied' = Append(applied, [fault |-> f, first |-> first, at |-> step])
    BY <1>4 DEF InjectFault
  <2>3. \A first \in {step, step + 1} :
          [fault |-> f, first |-> first, at |-> step] \in AppliedFaults
    BY DEF AppliedFaults
  <2>4. applied' \in Seq(AppliedFaults)
    <3>1. \A a \in AppliedFaults : Append(applied, a) \in Seq(AppliedFaults)
      OBVIOUS
    <3> QED
      BY <2>2, <2>3, <3>1
  <2> QED
    BY <1>4, <2>1, <2>2, <2>4 DEF InjectFault
<1>5. CASE Act
  <2>1. emittedAction' \in Actions
    BY <1>5, ServedAction DEF Act
  <2> QED
    BY <1>5, <2>1 DEF Act, Locations
<1>6. CASE StepEnvironment
  <2>1. due' \in SUBSET Faults /\ consumed' \in SUBSET Faults
    BY <1>6 DEF StepEnvironment, TakeDue, DueFaults
  <2> QED
    BY <1>6, <2>1 DEF StepEnvironment, Locations
<1>7. CASE Observe
  <2>1. verdict' \in Verdicts
    BY <1>7, DecisionsAssumption DEF Observe
  <2>2. alarmSteps' \in SUBSET (0..Horizon)
    BY <1>7 DEF Observe
  <2>3. /\ detected' \in SUBSET Faults
        /\ delays' \in Seq(0..MatchWindow)
        /\ matches' \in Seq(Matches)
        /\ falseAlarms' \in Nat
    <3>1. CASE MatchAlarm
      <4>1. CASE Candidates = {} /\ UNCHANGED <<detected, delays, matches>>
                 /\ falseAlarms' = falseAlarms + 1
        BY <4>1
      <4>2. ASSUME NEW i \in DOMAIN applied, BestCandidate(i),
                   detected' = detected \cup {applied[i].fault},
                   delays' = Append(delays, step - applied[i].first),
                   matches' = Append(matches, [fault |-> applied[i].fault, alarm |-> step]),
                   UNCHANGED falseAlarms
            PROVE  /\ detected' \in SUBSET Faults
                   /\ delays' \in Seq(0..MatchWindow)
                   /\ matches' \in Seq(Matches)
                   /\ falseAlarms' \in Nat
        <5>1. applied[i] \in AppliedFaults
          BY <4>2
        <5>2. applied[i].fault \in Faults /\ applied[i].first \in Nat
          BY <5>1 DEF AppliedFaults
        <5>3. step - applied[i].first \in 0..MatchWindow
          BY <4>2, <5>2 DEF BestCandidate, Candidates
        <5>4. delays' \in Seq(0..MatchWindow)
          <6> HIDE DEF RunnerTypeOK
          <6>1. delays \in Seq(0..MatchWindow)
            BY DEF RunnerTypeOK
          <6> QED
            BY <4>2, <5>3, <6>1
        <5>5. matches' \in Seq(Matches)
          <6>1. [fault |-> applied[i].fault, alarm |-> step] \in Matches
            BY <5>2 DEF Matches
          <6>2. \A m \in Matches : Append(matches, m) \in Seq(Matches)
            OBVIOUS
          <6> QED
            BY <4>2, <6>1, <6>2
        <5> QED
          BY <4>2, <5>2, <5>4, <5>5
      <4> QED
        BY <3>1, <4>1, <4>2 DEF MatchAlarm
    <3>2. CASE UNCHANGED <<alarmSteps, detected, delays, matches, falseAlarms>>
      BY <3>2
    <3> QED
      BY <1>7, <3>1, <3>2 DEF Observe
  <2> QED
    BY <1>7, <2>1, <2>2, <2>3 DEF Observe, Locations
<1>8. CASE Decide
  <2>1. PICK action \in Decided : Recover(action)
    BY <1>8 DEF Decide
  <2>2. /\ chunkId' \in Nat
        /\ chunkPosition' \in 0..(ChunkLength - 1)
        /\ history' \in Seq(Actions)
    <3>1. CASE RestartChunk
      BY <3>1, <1>e DEF RestartChunk
    <3>2. CASE AdvanceChunk
      BY <3>2 DEF AdvanceChunk
    <3> QED
      BY <2>1, <3>1, <3>2 DEF Recover
  <2>3. /\ step' \in 0..Horizon /\ consumed' \in SUBSET Faults /\ due' \in SUBSET Faults
        /\ reason' \in Reasons /\ pc' \in Locations
    <3>1. CASE Ending(action) = "running"
      <4>1. step + 1 # Horizon
        BY <3>1 DEF Ending
      <4>2. step' = step + 1
        BY <2>1, <3>1 DEF Recover
      <4>3. step' \in 0..Horizon
        BY <2>1, <4>1, <4>2 DEF Recover, LoopInv, InLoop
      <4> QED
        BY <2>1, <3>1, <4>3 DEF Recover, TakeDue, DueFaults, Locations
    <3>2. CASE Ending(action) # "running"
      <4>1. Ending(action) \in Reasons
        BY <3>2 DEF Ending, Reasons
      <4> QED
        BY <2>1, <3>2, <4>1 DEF Recover, Locations
    <3> QED
      BY <3>1, <3>2
  <2>4. retryCount' \in Nat
    BY <2>1 DEF Recover
  <2>5. journal' \in [Events -> Nat]
    BY <2>1, RecordType DEF Recover, Events
  <2> QED
    BY <2>1, <2>2, <2>3, <2>4, <2>5 DEF Recover
<1>9. CASE EndEpisode
  <2>1. Cardinality(detected) \in Nat
    BY FS_CardinalityType DEF LoopInv
  <2>2. EpisodeResult \in EpisodeResults
    BY <2>1 DEF EpisodeResult, EpisodeResults
  <2>3. results' \in Seq(EpisodeResults)
    BY <1>9, <2>2 DEF EndEpisode
  <2>4. journal' \in [Events -> Nat]
    BY <1>9, RecordType DEF EndEpisode, Events
  <2>5. episode' \in 0..Episodes
    BY <1>9 DEF EndEpisode, LoopInv
  <2> QED
    BY <1>9, <2>3, <2>4, <2>5 DEF EndEpisode, Locations
<1>10. CASE CompleteExperiment
  BY <1>10, RecordType DEF CompleteExperiment, Locations, Events
<1>11. CASE RaiseInTry
  BY <1>11, RecordType DEF RaiseInTry, Locations
<1>12. CASE RecordFailure
  BY <1>12, RecordType DEF RecordFailure, Locations, Events
<1>13. CASE CloseEnvironment
  BY <1>13 DEF CloseEnvironment, Locations
<1>14. CASE Finished \/ UNCHANGED vars
  BY <1>14 DEF Finished, vars
<1> QED
  BY <1>1, <1>2, <1>3, <1>4, <1>5, <1>6, <1>7, <1>8, <1>9, <1>10, <1>11, <1>12, <1>13,
     <1>14 DEF Next

LEMMA LoopStepInv ==
  RunnerTypeOK /\ LoopInv /\ [Next]_vars => LoopInv'
<1> SUFFICES ASSUME RunnerTypeOK, LoopInv, [Next]_vars PROVE LoopInv'
  OBVIOUS
<1> USE DEF LoopInv, InLoop
<1>1. CASE BeginEpisode
  <2>1. IsFiniteSet({})
    BY FS_EmptySet
  <2> QED
    BY <1>1, <2>1 DEF BeginEpisode, RunnerTypeOK
<1>2. CASE Observe
  <2>1. IsFiniteSet(detected')
    <3>1. \A f : IsFiniteSet(detected \cup {f})
      BY FS_AddElement
    <3> QED
      BY <1>2, <3>1 DEF Observe, MatchAlarm
  <2> QED
    BY <1>2, <2>1 DEF Observe
<1>3. CASE Decide
  <2>1. PICK action \in Decided : Recover(action)
    BY <1>3 DEF Decide
  <2>2. UNCHANGED <<detected, episode>>
    BY <2>1 DEF Recover, matchVars
  <2>3. CASE Ending(action) = "running"
    <3>1. step + 1 # Horizon
      BY <2>3 DEF Ending
    <3>2. step' = step + 1 /\ pc' = "before"
      BY <2>1, <2>3 DEF Recover
    <3> QED
      BY <2>1, <2>2, <3>1, <3>2 DEF Recover, RunnerTypeOK
  <2>4. CASE Ending(action) # "running"
    BY <2>1, <2>2, <2>4 DEF Recover
  <2> QED
    BY <2>3, <2>4
<1>4. CASE InjectFault \/ Act \/ StepEnvironment
  BY <1>4 DEF InjectFault, Act, StepEnvironment, matchVars
<1>5. CASE \/ StartExperiment \/ StartExperimentRaises \/ EndEpisode
           \/ CompleteExperiment \/ RaiseInTry \/ RecordFailure \/ CloseEnvironment
  BY <1>5 DEF StartExperiment, StartExperimentRaises, EndEpisode, CompleteExperiment,
              RaiseInTry, RecordFailure, CloseEnvironment, matchVars
<1>6. CASE Finished \/ UNCHANGED vars
  BY <1>6 DEF Finished, vars, matchVars
<1> QED
  BY <1>1, <1>2, <1>3, <1>4, <1>5, <1>6 DEF Next

\* What every other proof about the runner rests on.
RunnerInv ==
  /\ RunnerTypeOK
  /\ PolicyInv
  /\ LoopInv

LEMMA RunnerInitInv == Init => RunnerInv
<1>1. Init => LoopInv
  BY FS_EmptySet DEF Init, LoopInv, InLoop
<1> QED
  BY <1>1, RunnerInitType, PolicyInitInv DEF RunnerInv, Init

LEMMA RunnerStepInv == RunnerInv /\ [Next]_vars => RunnerInv'
<1> SUFFICES ASSUME RunnerInv, [Next]_vars PROVE RunnerInv'
  OBVIOUS
<1>1. PolicyInv'
  BY PolicyCalls, PolicyStepInv DEF RunnerInv
<1>2. RunnerTypeOK'
  BY <1>1, RunnerStepType DEF RunnerInv, PolicyInv
<1>3. LoopInv'
  BY LoopStepInv DEF RunnerInv
<1> QED
  BY <1>1, <1>2, <1>3 DEF RunnerInv

\* The state of the loop is well typed in every run: positions stay inside
\* the chunk, delays inside the window, steps inside the horizon.
THEOREM RunnerTypeCorrect == Spec => []RunnerTypeOK
<1>1. RunnerInv => RunnerTypeOK
  BY DEF RunnerInv
<1> QED
  BY RunnerInitInv, RunnerStepInv, <1>1, PTL DEF Spec

-----------------------------------------------------------------------------
(* Retries                                                                 *)

\* Inside the loop the budget is never exceeded; only the request for help
\* counts one more, and it leaves the loop.
RetryInv ==
  RetryController => retryCount <= IF pc \in InLoop THEN MaxRetries ELSE MaxRetries + 1

LEMMA RetryStepInv == RunnerInv /\ RetryInv /\ [Next]_vars => RetryInv'
<1> SUFFICES ASSUME RunnerInv, RetryInv, [Next]_vars, RetryController
             PROVE  retryCount' <= IF pc' \in InLoop THEN MaxRetries ELSE MaxRetries + 1
  BY DEF RetryInv
<1> USE DEF RetryInv, InLoop
<1>1. retryCount \in Nat
  BY DEF RunnerInv, RunnerTypeOK
<1>2. CASE BeginEpisode
  BY <1>2 DEF BeginEpisode
<1>3. CASE Decide
  <2>1. PICK action \in Decided : Recover(action)
    BY <1>3 DEF Decide
  <2>2. retryCount <= MaxRetries
    BY <2>1 DEF Recover
  <2>3. \/ action = "continue"
        \/ action = "retry" /\ retryCount < MaxRetries
        \/ action = "request_help"
    BY <2>1, <1>1, <2>2 DEF Decided
  <2>4. CASE action = "request_help"
    <3>1. Ending(action) # "running"
      BY <2>4 DEF Ending
    <3>2. pc' = "episode_end" /\ retryCount' = retryCount + 1
      BY <2>1, <2>4, <3>1 DEF Recover
    <3> QED
      BY <1>1, <2>2, <3>2
  <2>5. CASE action # "request_help"
    BY <2>1, <1>1, <2>2, <2>3, <2>5 DEF Recover
  <2> QED
    BY <2>4, <2>5
<1>4. CASE \/ StartExperiment \/ StartExperimentRaises \/ InjectFault \/ Act
           \/ StepEnvironment \/ Observe \/ EndEpisode
           \/ CompleteExperiment \/ RaiseInTry \/ RecordFailure \/ CloseEnvironment
  BY <1>1, <1>4 DEF StartExperiment, StartExperimentRaises, InjectFault, Act,
              StepEnvironment, Observe, EndEpisode, CompleteExperiment,
              RaiseInTry, RecordFailure, CloseEnvironment
<1>5. CASE Finished \/ UNCHANGED vars
  BY <1>5 DEF Finished, vars
<1> QED
  BY <1>2, <1>3, <1>4, <1>5 DEF Next

\* RetryRecoveryController keeps its budget in every run, and its request for
\* help is the last decision of an episode.
THEOREM RetryBudgetKept == Spec => []RetriesAreBounded
<1>1. Init => RetryInv
  BY DEF Init, RetryInv, InLoop
<1>2. RunnerInv /\ RetryInv => RetriesAreBounded
  BY DEF RunnerInv, RunnerTypeOK, RetryInv, InLoop, RetriesAreBounded
<1> QED
  BY RunnerInitInv, RunnerStepInv, RetryStepInv, <1>1, <1>2, PTL DEF Spec

-----------------------------------------------------------------------------
(* The run                                                                 *)

\* How the journal follows the control of run(): what has been counted inside
\* the try block is exact, an exception on its way out may have left one event
\* more, and completion is recorded only when every episode has its result.
JournalInv ==
  /\ Len(results) = episode
  /\ pc \in {"start", "refused"} => episode = 0 /\ environment = "open"
  /\ pc \in {"start", "refused", "closing", "returned"} \cup InTry =>
       journal["episode_end"] = episode /\ journal["failed"] = 0
  /\ pc \in {"failed", "unwinding", "raised"} =>
       /\ journal["episode_end"] \in {episode, episode + 1}
       /\ journal["episode_end"] = episode + 1 => journal["completed"] = 0
  /\ pc = "failed" => journal["failed"] = 0
  /\ pc \in {"start", "refused"} \cup InTry => journal["completed"] = 0
  /\ pc \in {"start", "refused"} => journal["episode_start"] = 0
  /\ pc = "episode" => journal["episode_start"] = episode
  /\ pc \in InTry \ {"episode"} => journal["episode_start"] = episode + 1
  /\ pc \in {"closing", "returned"} =>
       /\ episode = Episodes /\ journal["completed"] = 1
       /\ journal["episode_start"] = Episodes
  /\ journal["completed"] > 0 => episode = Episodes
  /\ pc = "returned" => environment = "closed"
  /\ pc = "raised" => environment # "open"

\* A record changes the count of its own kind only.
LEMMA RecordCounts ==
  ASSUME journal \in [Events -> Nat], NEW event \in Events, Record(event)
  PROVE  /\ journal'[event] = journal[event] + 1
         /\ \A other \in Events \ {event} : journal'[other] = journal[other]
BY DEF Record

LEMMA JournalStepInv == RunnerInv /\ JournalInv /\ [Next]_vars => JournalInv'
<1> SUFFICES ASSUME RunnerInv, JournalInv, [Next]_vars PROVE JournalInv'
  OBVIOUS
<1>0. /\ journal \in [Events -> Nat] /\ results \in Seq(EpisodeResults)
      /\ episode \in 0..Episodes /\ pc \in Locations
      /\ \A e \in Events : journal[e] \in Nat
  BY DEF RunnerInv, RunnerTypeOK
<1>c. ASSUME NEW e \in Events, Record(e)
      PROVE  /\ journal'[e] = journal[e] + 1
             /\ \A other \in Events \ {e} : journal'[other] = journal[other]
  BY <1>0, <1>c, RecordCounts
<1>n. /\ journal["episode_start"] \in Nat /\ journal["episode_end"] \in Nat
      /\ journal["completed"] \in Nat /\ journal["failed"] \in Nat
  BY <1>0 DEF Events
<1> USE DEF JournalInv, InTry
<1>1. CASE StartExperiment \/ StartExperimentRaises
  <2>1. Record("experiment_start") \/ UNCHANGED journal
    BY <1>1 DEF StartExperiment, StartExperimentRaises
  <2>2. \A e \in {"episode_start", "episode_end", "completed", "failed"} :
          journal'[e] = journal[e]
    BY <1>c, <2>1 DEF Events
  <2> QED
    BY <1>1, <1>n, <2>2 DEF StartExperiment, StartExperimentRaises
<1>2. CASE BeginEpisode
  <2>1. Record("episode_start")
    BY <1>2 DEF BeginEpisode
  <2>2. /\ journal'["episode_start"] = journal["episode_start"] + 1
        /\ \A e \in {"episode_end", "completed", "failed"} : journal'[e] = journal[e]
    BY <1>c, <2>1 DEF Events
  <2> QED
    BY <1>2, <1>n, <2>2 DEF BeginEpisode
<1>3. CASE InjectFault \/ Decide
  <2>1. Record("fault_injection") \/ Record("step")
    BY <1>3 DEF InjectFault, Decide, Recover
  <2>2. \A e \in {"episode_start", "episode_end", "completed", "failed"} :
          journal'[e] = journal[e]
    BY <1>c, <2>1 DEF Events
  <2>3. /\ pc \in InTry \ {"episode"} /\ pc' \in InTry \ {"episode"}
        /\ UNCHANGED <<results, episode, environment>>
    BY <1>3 DEF InjectFault, Decide, Recover
  <2> QED
    BY <1>n, <2>2, <2>3
<1>4. CASE Act \/ StepEnvironment \/ Observe
  <2>1. /\ pc \in InTry \ {"episode"} /\ pc' \in InTry \ {"episode"}
        /\ UNCHANGED <<results, journal, episode, environment>>
    BY <1>4 DEF Act, StepEnvironment, Observe, runVars
  <2> QED
    BY <2>1
<1>5. CASE EndEpisode
  <2>1. Record("episode_end") /\ Len(results') = Len(results) + 1
    BY <1>0, <1>5 DEF EndEpisode
  <2>2. /\ journal'["episode_end"] = journal["episode_end"] + 1
        /\ \A e \in {"episode_start", "completed", "failed"} : journal'[e] = journal[e]
    BY <1>c, <2>1 DEF Events
  <2> QED
    BY <1>5, <1>n, <2>1, <2>2 DEF EndEpisode
<1>6. CASE CompleteExperiment
  <2>1. Record("completed")
    BY <1>6 DEF CompleteExperiment
  <2>2. /\ journal'["completed"] = journal["completed"] + 1
        /\ \A e \in {"episode_start", "episode_end", "failed"} : journal'[e] = journal[e]
    BY <1>c, <2>1 DEF Events
  <2> QED
    BY <1>6, <1>n, <2>2 DEF CompleteExperiment
<1>7. CASE RaiseInTry
  <2>1. /\ pc \in InTry /\ pc' = "failed" /\ UNCHANGED <<results, episode, environment>>
    BY <1>7 DEF RaiseInTry
  <2>2. CASE UNCHANGED journal
    BY <1>0, <1>n, <2>1, <2>2
  <2>3. ASSUME NEW event \in Events, Recording(event), Record(event)
        PROVE  JournalInv'
    <3>1. CASE event \in {"episode_start", "fault_injection", "step"}
      <4>1. \A e \in {"episode_end", "completed", "failed"} : journal'[e] = journal[e]
        BY <1>c, <2>3, <3>1 DEF Events
      <4> QED
        BY <1>n, <2>1, <4>1
    <3>2. CASE event = "completed"
      <4>1. /\ journal'["completed"] = journal["completed"] + 1
            /\ \A e \in {"episode_end", "failed"} : journal'[e] = journal[e]
        BY <1>c, <2>3, <3>2 DEF Events
      <4>2. episode = Episodes
        BY <2>3, <3>2 DEF Recording
      <4> QED
        BY <1>n, <2>1, <4>1, <4>2
    <3>3. CASE event = "episode_end"
      <4>1. /\ journal'["episode_end"] = journal["episode_end"] + 1
            /\ \A e \in {"completed", "failed"} : journal'[e] = journal[e]
        BY <1>c, <2>3, <3>3 DEF Events
      <4> QED
        BY <1>n, <2>1, <4>1
    <3> QED
      BY <2>3, <3>1, <3>2, <3>3 DEF Recording
  <2> QED
    BY <1>7, <2>2, <2>3 DEF RaiseInTry
<1>8. CASE RecordFailure
  <2>1. \A e \in {"episode_start", "episode_end", "completed"} : journal'[e] = journal[e]
    <3>1. CASE Record("failed")
      BY <1>c, <3>1 DEF Events
    <3>2. CASE UNCHANGED journal
      BY <3>2
    <3> QED
      BY <1>8, <3>1, <3>2 DEF RecordFailure
  <2> QED
    BY <1>8, <1>n, <2>1 DEF RecordFailure
<1>9. CASE CloseEnvironment
  <2>1. /\ UNCHANGED <<results, episode, journal>> /\ environment' # "open"
        /\ \/ pc = "closing" /\ pc' = "returned" /\ environment' = "closed"
           \/ pc \in {"closing", "unwinding"} /\ pc' = "raised"
    BY <1>9 DEF CloseEnvironment
  <2> QED
    BY <1>n, <2>1
<1>10. CASE Finished \/ UNCHANGED vars
  BY <1>10 DEF Finished, vars, runVars
<1> QED
  BY <1>1, <1>2, <1>3, <1>4, <1>5, <1>6, <1>7, <1>8, <1>9, <1>10 DEF Next

\* Whichever call raises, close or the flush of the last record included, a run
\* that entered its try block has called close, a run that returns is complete
\* and closed, completion is recorded only with a result for every episode, and
\* a run that recorded a failure raises.
THEOREM RunAccounted == Spec => []RunIsAccountedFor
<1>1. Init => JournalInv
  BY DEF Init, JournalInv, InTry, Events
<1>2. RunnerInv /\ JournalInv => RunIsAccountedFor
  <2> SUFFICES ASSUME RunnerInv, JournalInv PROVE RunIsAccountedFor
    OBVIOUS
  <2>1. /\ pc \in Locations /\ episode \in 0..Episodes
        /\ journal["episode_end"] \in Nat /\ journal["completed"] \in Nat
        /\ journal["failed"] \in Nat
    BY DEF RunnerInv, RunnerTypeOK, Events
  <2> QED
    BY <2>1 DEF JournalInv, RunIsAccountedFor, Locations, InTry
<1> QED
  BY RunnerInitInv, RunnerStepInv, JournalStepInv, <1>1, <1>2, PTL DEF Spec

-----------------------------------------------------------------------------
(* The schedule                                                            *)

\* The faults whose key has passed when the loop has taken due() of a phase.
PassedBefore(atStep) ==
  {f \in Faults : \/ schedule[f].step < atStep
                  \/ schedule[f].step = atStep /\ schedule[f].phase = "before_action"}

PassedAfter(atStep) == {f \in Faults : schedule[f].step <= atStep}

ScheduleInv ==
  /\ pc \in {"before", "acted"} => consumed = PassedBefore(step)
  /\ pc \in {"after", "decide"} => consumed = PassedAfter(step)

LEMMA KeyFacts ==
  ASSUME RunnerTypeOK, NEW f \in Faults
  PROVE  /\ schedule[f].step \in 0..Horizon
         /\ schedule[f].phase \in Phases
         /\ \A atStep, phase : schedule[f] = [step |-> atStep, phase |-> phase] <=>
              schedule[f].step = atStep /\ schedule[f].phase = phase
BY DEF RunnerTypeOK, Schedules

LEMMA ScheduleStepInv == RunnerInv /\ ScheduleInv /\ [Next]_vars => ScheduleInv'
<1> SUFFICES ASSUME RunnerInv, ScheduleInv, [Next]_vars PROVE ScheduleInv'
  OBVIOUS
<1>0. RunnerTypeOK /\ RunnerTypeOK' /\ step \in Nat /\ consumed \subseteq Faults
  <2>1. RunnerInv'
    BY RunnerStepInv
  <2>2. RunnerTypeOK /\ RunnerTypeOK'
    BY <2>1 DEF RunnerInv
  <2>3. step \in Nat /\ consumed \subseteq Faults
    BY <2>2 DEF RunnerTypeOK
  <2> QED
    BY <2>2, <2>3
<1>1. CASE BeginEpisode
  <2>1. ASSUME NEW f \in Faults
        PROVE  f \in consumed' <=> f \in PassedBefore(step)'
    <3>1. /\ schedule'[f].step \in Nat
          /\ schedule'[f] = [step |-> 0, phase |-> "before_action"] <=>
               schedule'[f].step = 0 /\ schedule'[f].phase = "before_action"
      <4>1. schedule' \in [Faults -> [step : 0..Horizon, phase : Phases]]
        BY <1>0 DEF RunnerTypeOK, Schedules
      <4>2. schedule'[f] \in [step : 0..Horizon, phase : Phases]
        BY <4>1
      <4> QED
        BY <4>2
    <3> QED
      BY <1>1, <3>1 DEF BeginEpisode, ResetSchedule, PassedBefore
  <2>2. consumed' \subseteq Faults /\ PassedBefore(step)' \subseteq Faults
    BY <1>0 DEF RunnerTypeOK, PassedBefore
  <2> QED
    BY <1>1, <2>1, <2>2 DEF BeginEpisode, ScheduleInv
<1>2. CASE StepEnvironment
  <2>1. ASSUME NEW f \in Faults
        PROVE  f \in consumed' <=> f \in PassedAfter(step)
    <3>1. /\ schedule[f].step \in Nat
          /\ schedule[f].phase \in Phases
          /\ schedule[f] = [step |-> step, phase |-> "after_step"] <=>
               schedule[f].step = step /\ schedule[f].phase = "after_step"
      BY <1>0, KeyFacts
    <3>2. /\ consumed = PassedBefore(step)
          /\ consumed' = consumed \cup DueFaults(consumed, step, "after_step")
      BY <1>2 DEF StepEnvironment, ScheduleInv, TakeDue
    <3> QED
      BY <1>0, <3>1, <3>2 DEF DueFaults, PassedBefore, PassedAfter, Phases
  <2>2. consumed' \subseteq Faults /\ PassedAfter(step) \subseteq Faults
    BY <1>0 DEF RunnerTypeOK, PassedAfter
  <2> QED
    BY <1>2, <2>1, <2>2 DEF StepEnvironment, ScheduleInv, PassedAfter
<1>3. CASE Decide
  <2>1. PICK action \in Decided : Recover(action)
    BY <1>3 DEF Decide
  <2>2. CASE Ending(action) = "running"
    <3>1. /\ consumed = PassedAfter(step) /\ step' = step + 1 /\ pc' = "before"
          /\ consumed' = consumed \cup DueFaults(consumed, step + 1, "before_action")
          /\ UNCHANGED schedule
      BY <2>1, <2>2 DEF Recover, TakeDue, ScheduleInv
    <3>2. ASSUME NEW f \in Faults
          PROVE  f \in consumed' <=> f \in PassedBefore(step)'
      <4>1. /\ schedule[f].step \in Nat
            /\ schedule[f] = [step |-> step + 1, phase |-> "before_action"] <=>
                 schedule[f].step = step + 1 /\ schedule[f].phase = "before_action"
        BY <1>0, KeyFacts
      <4>2. f \in consumed <=> schedule[f].step < step + 1
        BY <1>0, <3>1, <4>1 DEF PassedAfter
      <4>3. f \in DueFaults(consumed, step + 1, "before_action") <=>
              /\ schedule[f].step = step + 1 /\ schedule[f].phase = "before_action"
              /\ f \notin consumed
        BY <4>1 DEF DueFaults
      <4> QED
        BY <1>0, <3>1, <4>1, <4>2, <4>3 DEF PassedBefore
    <3>3. consumed' \subseteq Faults /\ PassedBefore(step)' \subseteq Faults
      BY <1>0 DEF RunnerTypeOK, PassedBefore
    <3> QED
      BY <3>1, <3>2, <3>3 DEF ScheduleInv
  <2>3. CASE Ending(action) # "running"
    BY <2>1, <2>3 DEF Recover, ScheduleInv
  <2> QED
    BY <2>2, <2>3
<1>4. CASE InjectFault \/ Act \/ Observe
  BY <1>4 DEF InjectFault, Act, Observe, scheduleVars, ScheduleInv, PassedBefore, PassedAfter
<1>5. CASE \/ StartExperiment \/ StartExperimentRaises \/ EndEpisode
           \/ CompleteExperiment \/ RaiseInTry \/ RecordFailure \/ CloseEnvironment
  BY <1>5 DEF StartExperiment, StartExperimentRaises, EndEpisode, CompleteExperiment,
              RaiseInTry, RecordFailure, CloseEnvironment, ScheduleInv
<1>6. CASE Finished \/ UNCHANGED vars
  BY <1>6 DEF Finished, vars, scheduleVars, ScheduleInv, PassedBefore, PassedAfter
<1> QED
  BY <1>1, <1>2, <1>3, <1>4, <1>5, <1>6 DEF Next

\* No fault of the schedule is lost or replayed, in any episode and whether
\* the schedule is shared between episodes or made anew.
THEOREM ScheduleReplayed == Spec => []ScheduleIsReplayed
<1>1. Init => ScheduleInv
  BY DEF Init, ScheduleInv
<1>2. ScheduleInv => ScheduleIsReplayed
  BY DEF ScheduleInv, ScheduleIsReplayed, PassedAfter
<1> QED
  BY RunnerInitInv, RunnerStepInv, ScheduleStepInv, <1>1, <1>2, PTL DEF Spec

-----------------------------------------------------------------------------
(* Chunk metadata                                                          *)

\* The position the runner counts is the cursor of the policy, and the chunk
\* id it counts is the number of queries of the episode but one; before an
\* action both are those of the action to come.
ChunkInv ==
  /\ pc = "before" =>
       \/ queue = <<>> /\ chunkPosition = 0 /\ measured = chunkId
       \/ queue # <<>> /\ chunkPosition = nextPosition /\ measured = chunkId + 1
  /\ pc \in {"acted", "after", "decide"} =>
       /\ emittedAction # NoAction
       /\ chunkPosition = emittedPosition
       /\ measured = chunkId + 1
       /\ Len(queue) = ChunkLength - nextPosition

LEMMA ActKeepsChunkInv ==
  ASSUME RunnerInv, RunnerInv', ChunkInv, Act
  PROVE  ChunkInv'
<1>1. /\ queue \in Seq(Actions) /\ emittedAction' # NoAction /\ pc' = "acted"
      /\ pc = "before" /\ PolicyAct /\ UNCHANGED <<chunkId, chunkPosition>>
      /\ measured' = IF latency' = "measured" THEN measured + 1 ELSE measured
  BY ServedAction, ActionsAreNotNone DEF RunnerInv, RunnerTypeOK, PolicyTypeOK, Act
<1>2. CASE ActFromQueue
  <2>1. Len(queue) = ChunkLength - nextPosition /\ Len(queue') = Len(queue) - 1
    BY <1>1, <1>2 DEF ActFromQueue, RunnerInv, PolicyInv, QueueIsRestOfChunk
  <2> QED
    BY <1>1, <1>2, <2>1
       DEF ActFromQueue, ChunkInv, RunnerInv, RunnerTypeOK, PolicyTypeOK
<1>3. CASE ActAfterQuery
  <2>1. inferenceCount' \in 1..MaxQueries
    BY <1>3 DEF ActAfterQuery, RunnerInv, RunnerTypeOK, PolicyTypeOK
  <2>2. Len(queue') = ChunkLength - 1
    BY <1>3, <2>1, ChunkFacts DEF ActAfterQuery
  <2> QED
    BY <1>1, <1>3, <2>2 DEF ActAfterQuery, ChunkInv
<1> QED
  BY <1>1, <1>2, <1>3 DEF PolicyAct

LEMMA DecideKeepsChunkInv ==
  ASSUME RunnerInv, ChunkInv, Decide
  PROVE  ChunkInv'
<1>1. PICK action \in Decided : Recover(action)
  BY DEF Decide
<1>2. /\ pc' \in {"before", "episode_end"} /\ measured' = measured
      /\ RestartChunk \/ AdvanceChunk
      /\ measured = chunkId + 1 /\ chunkPosition = emittedPosition
      /\ emittedAction # NoAction /\ Len(queue) = ChunkLength - nextPosition
  BY <1>1 DEF Recover, ChunkInv
<1>3. CASE RestartChunk
  BY <1>2, <1>3 DEF RestartChunk, PolicyReset, ChunkInv
<1>4. CASE AdvanceChunk
  <2>1. /\ nextPosition = chunkPosition + 1 /\ nextPosition \in 1..ChunkLength
        /\ queue \in Seq(Actions)
        /\ chunkId \in Nat
    BY <1>2 DEF RunnerInv, RunnerTypeOK, PolicyInv, PolicyTypeOK, EmittedIsDeclared
  <2>2. queue = <<>> <=> nextPosition = ChunkLength
    BY <1>2, <2>1
  <2>3. UNCHANGED policyVars
    BY <1>4 DEF AdvanceChunk
  <2>4. queue' = queue /\ nextPosition' = nextPosition
    BY <2>3 DEF policyVars
  <2>5. CASE chunkPosition + 1 >= ChunkLength
    <3>1. queue' = <<>> /\ chunkPosition' = 0 /\ chunkId' = chunkId + 1
      BY <1>4, <2>1, <2>2, <2>4, <2>5 DEF AdvanceChunk
    <3> QED
      BY <1>2, <3>1 DEF ChunkInv
  <2>6. CASE ~(chunkPosition + 1 >= ChunkLength)
    <3>1. queue' # <<>> /\ chunkPosition' = nextPosition' /\ chunkId' = chunkId
      BY <1>4, <2>1, <2>2, <2>4, <2>6 DEF AdvanceChunk
    <3> QED
      BY <1>2, <3>1 DEF ChunkInv
  <2> QED
    BY <2>5, <2>6
<1> QED
  BY <1>2, <1>3, <1>4

LEMMA ChunkStepInv == RunnerInv /\ ChunkInv /\ [Next]_vars => ChunkInv'
<1> SUFFICES ASSUME RunnerInv, ChunkInv, [Next]_vars PROVE ChunkInv'
  OBVIOUS
<1>1. CASE BeginEpisode
  BY <1>1 DEF BeginEpisode, PolicyReset, ChunkInv
<1>2. CASE Act
  BY <1>2, RunnerStepInv, ActKeepsChunkInv
<1>3. CASE Decide
  BY <1>3, DecideKeepsChunkInv
<1>4. CASE InjectFault \/ StepEnvironment \/ Observe
  BY <1>4 DEF InjectFault, StepEnvironment, Observe, policyVars, chunkVars, ChunkInv
<1>5. CASE \/ StartExperiment \/ StartExperimentRaises \/ EndEpisode
           \/ CompleteExperiment \/ RaiseInTry \/ RecordFailure \/ CloseEnvironment
  BY <1>5 DEF StartExperiment, StartExperimentRaises, EndEpisode, CompleteExperiment,
              RaiseInTry, RecordFailure, CloseEnvironment, ChunkInv
<1>6. CASE Finished \/ UNCHANGED vars
  BY <1>6 DEF Finished, vars, policyVars, chunkVars, ChunkInv
<1> QED
  BY <1>1, <1>2, <1>3, <1>4, <1>5, <1>6 DEF Next

\* A chunk id of the runner names exactly one policy query of the episode,
\* whichever recoveries discard or keep the queue.
THEOREM ChunkIdsNameQueries == Spec => []ChunkIdNamesOneQuery
<1>1. Init => ChunkInv
  BY DEF Init, ChunkInv
<1>2. ChunkInv => ChunkIdNamesOneQuery
  BY DEF ChunkInv, ChunkIdNamesOneQuery
<1> QED
  BY RunnerInitInv, RunnerStepInv, ChunkStepInv, <1>1, <1>2, PTL DEF Spec

\* With a policy that shows its requested chunk, the monitor always finds the
\* requested action at the position the runner declares, for every chunk
\* length and every sequence of recoveries.
THEOREM MonitorSeesAction == ExposesChunk => (Spec => []WindowShowsAction)
<1> SUFFICES ASSUME ExposesChunk PROVE Spec => []WindowShowsAction
  OBVIOUS
<1>1. Init => ChunkInv
  BY DEF Init, ChunkInv
<1>2. RunnerInv /\ ChunkInv => WindowShowsAction
  <2> SUFFICES ASSUME RunnerInv, ChunkInv, pc = "after"
               PROVE  /\ chunkPosition + 1 \in DOMAIN requestedChunk
                      /\ requestedChunk[chunkPosition + 1] = emittedAction
    BY DEF WindowShowsAction, MonitorChunk
  <2>1. emittedAction # NoAction /\ chunkPosition = emittedPosition
    BY DEF ChunkInv
  <2>2. /\ emittedPosition \in 0..(ChunkLength - 1)
        /\ Len(requestedChunk) = ChunkLength
        /\ requestedChunk[emittedPosition + 1] = emittedAction
        /\ requestedChunk \in Seq(Actions)
    BY <2>1 DEF RunnerInv, PolicyInv, PolicyTypeOK, EmittedIsDeclared
  <2> QED
    BY <2>1, <2>2
<1> QED
  BY RunnerInitInv, RunnerStepInv, ChunkStepInv, <1>1, <1>2, PTL DEF Spec

-----------------------------------------------------------------------------
(* Fault matching                                                          *)

\* CountsAgree with what makes it inductive: every due fault has been
\* handed out, the sets can be counted, and the alarms of the episode lie
\* before the step the monitor is about to decide.
MatchInv ==
  /\ CountsAgree
  /\ due \subseteq consumed
  /\ IsFiniteSet(FaultsApplied)
  /\ IsFiniteSet(alarmSteps)
  /\ pc \in {"before", "acted", "after"} => alarmSteps \subseteq 0..(step - 1)
  /\ pc = "decide" => alarmSteps \subseteq 0..step

\* Injecting a fault that was handed out and not injected adds one fault.
LEMMA AppendApplies ==
  ASSUME applied \in Seq(AppliedFaults), NEW a \in AppliedFaults,
         applied' = Append(applied, a)
  PROVE  FaultsApplied' = FaultsApplied \cup {a.fault}
<1>1. /\ Len(applied) \in Nat
      /\ DOMAIN applied' = 1..(Len(applied) + 1)
      /\ applied'[Len(applied) + 1] = a
      /\ \A i \in 1..Len(applied) : applied'[i] = applied[i]
      /\ DOMAIN applied = 1..Len(applied)
  OBVIOUS
<1>2. FaultsApplied' \subseteq FaultsApplied \cup {a.fault}
  <2>1. ASSUME NEW i \in DOMAIN applied'
        PROVE  applied'[i].fault \in FaultsApplied \cup {a.fault}
    <3>1. i \in DOMAIN applied \/ i = Len(applied) + 1
      BY <1>1
    <3> QED
      BY <1>1, <3>1 DEF FaultsApplied
  <2> QED
    BY <2>1 DEF FaultsApplied
<1>3. FaultsApplied \subseteq FaultsApplied'
  <2>1. ASSUME NEW i \in DOMAIN applied
        PROVE  applied[i].fault \in FaultsApplied'
    <3>1. i \in DOMAIN applied' /\ applied'[i] = applied[i]
      BY <1>1
    <3> QED
      BY <3>1 DEF FaultsApplied
  <2> QED
    BY <2>1 DEF FaultsApplied
<1>4. a.fault \in FaultsApplied'
  <2>1. Len(applied) + 1 \in DOMAIN applied'
    BY <1>1
  <2> QED
    BY <1>1, <2>1 DEF FaultsApplied
<1> QED
  BY <1>2, <1>3, <1>4

LEMMA InjectKeepsMatchInv ==
  ASSUME RunnerInv, MatchInv, InjectFault
  PROVE  MatchInv'
<1>0. applied \in Seq(AppliedFaults) /\ step \in Nat
  BY DEF RunnerInv, RunnerTypeOK
<1>1. /\ UNCHANGED <<pc, consumed, step, detected, delays, falseAlarms, alarmSteps>>
      /\ pc \in {"before", "after"}
  BY DEF InjectFault
<1>2. PICK f \in Faults :
        /\ f \in due
        /\ due' = due \ {f}
        /\ \/ UNCHANGED applied
           \/ \E first \in {step, step + 1} :
                applied' = Append(applied, [fault |-> f, first |-> first, at |-> step])
  BY DEF InjectFault, FirstDue
<1>3. CASE UNCHANGED applied
  <2>1. FaultsApplied' = FaultsApplied
    BY <1>3 DEF FaultsApplied
  <2> QED
    BY <1>1, <1>2, <1>3, <2>1 DEF MatchInv, CountsAgree
<1>4. CASE \E first \in {step, step + 1} :
             applied' = Append(applied, [fault |-> f, first |-> first, at |-> step])
  <2>1. PICK first \in {step, step + 1} :
          applied' = Append(applied, [fault |-> f, first |-> first, at |-> step])
    BY <1>4
  <2>2. [fault |-> f, first |-> first, at |-> step] \in AppliedFaults
    BY <1>0 DEF AppliedFaults
  <2>3. FaultsApplied' = FaultsApplied \cup {f}
    BY <1>0, <2>1, <2>2, AppendApplies
  <2>4. f \notin FaultsApplied /\ FaultsApplied \subseteq consumed \ due /\ due \subseteq consumed
        /\ IsFiniteSet(FaultsApplied)
    BY <1>2 DEF MatchInv, CountsAgree
  <2>5. /\ IsFiniteSet(FaultsApplied')
        /\ Cardinality(FaultsApplied') = Cardinality(FaultsApplied) + 1
    BY <2>3, <2>4, FS_AddElement
  <2>6. Len(applied') = Len(applied) + 1
    BY <1>0, <2>1, <2>2
  <2>7. FaultsApplied' \subseteq consumed' \ due'
    BY <1>1, <1>2, <2>3, <2>4
  <2>8. Cardinality(FaultsApplied') = Len(applied')
    BY <2>5, <2>6 DEF MatchInv, CountsAgree
  <2>9. detected' \subseteq FaultsApplied'
    BY <1>1, <2>3 DEF MatchInv, CountsAgree
  <2> QED
    BY <1>1, <1>2, <2>5, <2>7, <2>8, <2>9 DEF MatchInv, CountsAgree
<1> QED
  BY <1>2, <1>3, <1>4

LEMMA ObserveKeepsMatchInv ==
  ASSUME RunnerInv, MatchInv, Observe
  PROVE  MatchInv'
<1>0. /\ step \in Nat /\ delays \in Seq(0..MatchWindow) /\ falseAlarms \in Nat
      /\ applied \in Seq(AppliedFaults) /\ IsFiniteSet(detected)
  BY DEF RunnerInv, RunnerTypeOK, LoopInv
<1>1. /\ pc = "after" /\ pc' = "decide"
      /\ UNCHANGED <<consumed, due, step, applied>>
  BY DEF Observe, scheduleVars
<1>2. FaultsApplied' = FaultsApplied
  BY <1>1 DEF FaultsApplied
<1>3. /\ alarmSteps \subseteq 0..(step - 1) /\ IsFiniteSet(alarmSteps)
      /\ Cardinality(detected) = Len(delays)
      /\ Len(delays) + falseAlarms = Cardinality(alarmSteps)
      /\ detected \subseteq FaultsApplied
  BY <1>1 DEF MatchInv, CountsAgree
<1>4. CASE UNCHANGED <<alarmSteps, detected, delays, falseAlarms>>
  <2>1. alarmSteps' \subseteq 0..step
    BY <1>0, <1>3, <1>4
  <2> QED
    BY <1>1, <1>2, <1>4, <2>1 DEF MatchInv, CountsAgree
<1>5. CASE alarmSteps' = alarmSteps \cup {step} /\ MatchAlarm
  <2>1. step \notin alarmSteps
    BY <1>0, <1>3
  <2>2. /\ IsFiniteSet(alarmSteps')
        /\ Cardinality(alarmSteps') = Cardinality(alarmSteps) + 1
    BY <1>3, <1>5, <2>1, FS_AddElement
  <2>3. alarmSteps' \subseteq 0..step'
    BY <1>0, <1>1, <1>3, <1>5
  <2>4. /\ Cardinality(detected') = Len(delays')
        /\ Len(delays') + falseAlarms' = Cardinality(alarmSteps) + 1
        /\ detected' \subseteq FaultsApplied
    <3>1. CASE falseAlarms' = falseAlarms + 1 /\ UNCHANGED <<detected, delays>>
      BY <1>0, <1>3, <3>1
    <3>2. ASSUME NEW i \in DOMAIN applied, BestCandidate(i),
                 detected' = detected \cup {applied[i].fault},
                 delays' = Append(delays, step - applied[i].first),
                 UNCHANGED falseAlarms
          PROVE  /\ Cardinality(detected') = Len(delays')
                 /\ Len(delays') + falseAlarms' = Cardinality(alarmSteps) + 1
                 /\ detected' \subseteq FaultsApplied
      <4>1. /\ applied[i].fault \notin detected
            /\ applied[i].fault \in FaultsApplied
        BY <3>2 DEF BestCandidate, Candidates, FaultsApplied
      <4>2. Cardinality(detected') = Cardinality(detected) + 1
        BY <1>0, <3>2, <4>1, FS_AddElement
      <4>3. applied[i] \in AppliedFaults
        BY <1>0, <3>2
      <4>4. applied[i].first \in Nat
        BY <4>3 DEF AppliedFaults
      <4>5. step - applied[i].first \in 0..MatchWindow
        BY <1>0, <3>2, <4>4 DEF BestCandidate, Candidates
      <4>6. Len(delays') = Len(delays) + 1
        BY <1>0, <3>2, <4>5
      <4>7. detected' \subseteq FaultsApplied
        BY <1>3, <3>2, <4>1
      <4>8. Len(delays) \in Nat
        BY <1>0
      <4> QED
        BY <1>0, <1>3, <3>2, <4>2, <4>6, <4>7, <4>8
    <3> QED
      BY <1>5, <3>1, <3>2 DEF MatchAlarm
  <2> QED
    BY <1>1, <1>2, <2>2, <2>3, <2>4 DEF MatchInv, CountsAgree
<1> QED
  BY <1>4, <1>5 DEF Observe

LEMMA MatchStepInv == RunnerInv /\ MatchInv /\ [Next]_vars => MatchInv'
<1> SUFFICES ASSUME RunnerInv, MatchInv, [Next]_vars PROVE MatchInv'
  OBVIOUS
<1>0. step \in Nat
  BY DEF RunnerInv, RunnerTypeOK
<1>1. CASE BeginEpisode
  <2>1. /\ applied' = <<>> /\ detected' = {} /\ delays' = <<>> /\ falseAlarms' = 0
        /\ alarmSteps' = {} /\ due' = consumed'
    BY <1>1 DEF BeginEpisode, ResetSchedule
  <2>2. FaultsApplied' = {}
    BY <2>1 DEF FaultsApplied
  <2> QED
    BY <2>1, <2>2, FS_EmptySet DEF MatchInv, CountsAgree
<1>2. CASE InjectFault
  BY <1>2, InjectKeepsMatchInv
<1>3. CASE Observe
  BY <1>3, ObserveKeepsMatchInv
<1>4. CASE StepEnvironment
  <2>1. UNCHANGED <<step, applied, detected, delays, falseAlarms, alarmSteps>>
    BY <1>4 DEF StepEnvironment, matchVars
  <2>2. FaultsApplied' = FaultsApplied
    BY <2>1 DEF FaultsApplied
  <2>3. due' \cap consumed = {} /\ consumed' = consumed \cup due'
    BY <1>4 DEF StepEnvironment, TakeDue, DueFaults
  <2> QED
    BY <1>4, <2>1, <2>2, <2>3 DEF StepEnvironment, MatchInv, CountsAgree
<1>5. CASE Decide
  <2>1. PICK action \in Decided : Recover(action)
    BY <1>5 DEF Decide
  <2>2. UNCHANGED <<applied, detected, delays, falseAlarms, alarmSteps>>
    BY <2>1 DEF Recover, matchVars
  <2>3. FaultsApplied' = FaultsApplied
    BY <2>2 DEF FaultsApplied
  <2>4. CASE Ending(action) = "running"
    <3>1. /\ pc = "decide" /\ pc' = "before" /\ step' = step + 1
          /\ due' \cap consumed = {} /\ consumed' = consumed \cup due'
      BY <2>1, <2>4 DEF Recover, TakeDue, DueFaults
    <3>2. step' - 1 = step
      BY <1>0, <3>1
    <3> QED
      BY <2>2, <2>3, <3>1, <3>2 DEF MatchInv, CountsAgree
  <2>5. CASE Ending(action) # "running"
    BY <2>1, <2>2, <2>3, <2>5 DEF Recover, MatchInv, CountsAgree
  <2> QED
    BY <2>4, <2>5
<1>6. CASE \/ Act \/ StartExperiment \/ StartExperimentRaises \/ EndEpisode
           \/ CompleteExperiment \/ RaiseInTry \/ RecordFailure \/ CloseEnvironment
           \/ Finished \/ UNCHANGED vars
  <2>1. UNCHANGED <<consumed, due, step, applied, detected, delays, falseAlarms, alarmSteps>>
    BY <1>6 DEF Act, StartExperiment, StartExperimentRaises, EndEpisode,
                CompleteExperiment, RaiseInTry, RecordFailure, CloseEnvironment,
                Finished, vars, scheduleVars, matchVars
  <2>2. \/ pc = "before" /\ pc' = "acted"
        \/ pc' = pc
        \/ pc' \notin {"before", "acted", "after", "decide"}
    BY <1>6 DEF Act, StartExperiment, StartExperimentRaises, EndEpisode,
                CompleteExperiment, RaiseInTry, RecordFailure, CloseEnvironment,
                Finished, vars
  <2>3. FaultsApplied' = FaultsApplied
    BY <2>1 DEF FaultsApplied
  <2> QED
    BY <2>1, <2>2, <2>3 DEF MatchInv, CountsAgree
<1> QED
  BY <1>1, <1>2, <1>3, <1>4, <1>5, <1>6 DEF Next

\* The places of applied and what stands there.
LEMMA AppliedFacts ==
  ASSUME RunnerInv
  PROVE  /\ DOMAIN applied = 1..Len(applied) /\ Len(applied) \in Nat
         /\ \A i \in DOMAIN applied : /\ applied[i] \in AppliedFaults /\ applied[i].first \in Nat
                                      /\ applied[i].fault \in Faults /\ applied[i].at \in Nat
<1>1. applied \in Seq(AppliedFaults)
  BY DEF RunnerInv, RunnerTypeOK
<1>2. DOMAIN applied = 1..Len(applied) /\ Len(applied) \in Nat /\ \A i \in DOMAIN applied : applied[i] \in AppliedFaults
  BY <1>1
<1> QED
  BY <1>2 DEF AppliedFaults

\* MatchingIsSound beside the counts, with what makes it inductive: every fault
\* applied so far was applied at or before the step the loop is in.
JustifiedInv ==
  /\ Len(matches) = Len(delays)
  /\ detected = {matches[k].fault : k \in DOMAIN matches}
  /\ \A k \in DOMAIN matches : MatchIsJustified(k)
  /\ \A alarmStep \in alarmSteps \ MatchedAlarms : Open(alarmStep) = {}
  /\ pc \in InLoop => \A i \in DOMAIN applied : applied[i].at <= step

\* A fault that is injected comes too late for the alarms so far.
LEMMA InjectKeepsJustified ==
  ASSUME RunnerInv, MatchInv, JustifiedInv, InjectFault
  PROVE  JustifiedInv'
<1>1. /\ step \in Nat /\ alarmSteps \subseteq 0..(step - 1) /\ pc \in InLoop
      /\ UNCHANGED <<pc, step, detected, delays, matches, alarmSteps>>
      /\ applied \in Seq(AppliedFaults)
  BY DEF InjectFault, MatchInv, RunnerInv, RunnerTypeOK, InLoop
<1>2. CASE UNCHANGED applied
  <2>1. UNCHANGED <<applied, detected, delays, matches, alarmSteps, pc, step>>
    BY <1>1, <1>2
  <2> QED
    BY <2>1 DEF JustifiedInv, MatchIsJustified, MatchedAlarms, Open, Creditable
<1>3. ASSUME NEW f \in Faults, NEW first \in {step, step + 1},
             applied' = Append(applied, [fault |-> f, first |-> first, at |-> step])
      PROVE  JustifiedInv'
  <2> DEFINE last == Len(applied) + 1
  <2>1. [fault |-> f, first |-> first, at |-> step] \in AppliedFaults
    BY <1>1 DEF AppliedFaults
  <2>2. /\ Len(applied) \in Nat /\ DOMAIN applied = 1..Len(applied) /\ DOMAIN applied' = 1..last
        /\ applied'[last].at = step /\ \A i \in DOMAIN applied : applied'[i] = applied[i]
    BY <1>1, <1>3, <2>1
  <2>3. ASSUME NEW a \in alarmSteps
        PROVE  Open(a)' = Open(a)
    <3>1. a \in Int /\ ~(step <= a)
      BY <1>1
    <3>2. \A i \in DOMAIN applied : i \in Open(a)' <=> i \in Open(a)
      BY <1>1, <2>2 DEF Open, Creditable
    <3>3. last \notin Open(a)'
      BY <2>2, <3>1 DEF Open, Creditable
    <3>4. \A i \in DOMAIN applied' : i \in DOMAIN applied \/ i = last
      BY <2>2
    <3>5. Open(a)' \subseteq DOMAIN applied' /\ Open(a) \subseteq DOMAIN applied
      BY DEF Open
    <3> QED
      BY <3>2, <3>3, <3>4, <3>5
  <2>4. ASSUME NEW k \in DOMAIN matches
        PROVE  MatchIsJustified(k)'
    <3>1. MatchIsJustified(k) /\ matches[k].alarm \in alarmSteps
      BY DEF JustifiedInv, MatchIsJustified
    <3>2. Open(matches[k].alarm)' = Open(matches[k].alarm)
      BY <1>1, <2>3, <3>1
    <3>3. \A i \in Open(matches[k].alarm) : applied'[i] = applied[i]
      BY <2>2 DEF Open
    <3> QED
      BY <1>1, <3>1, <3>2, <3>3 DEF MatchIsJustified
  <2>5. MatchedAlarms' = MatchedAlarms
    BY <1>1 DEF MatchedAlarms
  <2>6. \A i \in DOMAIN applied' : applied'[i].at <= step
    <3>1. \A i \in DOMAIN applied : applied'[i].at <= step
      BY <1>1, <2>2 DEF JustifiedInv
    <3> QED
      BY <1>1, <2>2, <3>1
  <2> QED
    BY <1>1, <2>3, <2>4, <2>5, <2>6 DEF JustifiedInv
<1> QED
  BY <1>2, <1>3 DEF InjectFault

\* At the step of an alarm the open faults are the candidates of the loop.
LEMMA CandidatesAreOpen ==
  ASSUME RunnerInv, MatchInv, JustifiedInv, pc = "after"
  PROVE  Candidates = {i \in DOMAIN applied : /\ Creditable(step, i)
                                               /\ applied[i].fault \notin detected}
BY DEF Candidates, Creditable, JustifiedInv, InLoop

LEMMA ObserveKeepsJustified ==
  ASSUME RunnerInv, MatchInv, JustifiedInv, Observe
  PROVE  JustifiedInv'
<1>1. /\ step \in Nat /\ alarmSteps \subseteq 0..(step - 1) /\ pc = "after" /\ pc' = "decide"
      /\ UNCHANGED <<step, applied>>
      /\ applied \in Seq(AppliedFaults) /\ delays \in Seq(0..MatchWindow) /\ matches \in Seq(Matches)
      /\ \A i \in DOMAIN applied : applied[i].at <= step
  BY DEF Observe, MatchInv, RunnerInv, RunnerTypeOK, JustifiedInv, InLoop
<1>2. CASE UNCHANGED <<alarmSteps, detected, delays, matches>>
  BY <1>1, <1>2 DEF JustifiedInv, MatchIsJustified, MatchedAlarms, Open, Creditable
<1>3. CASE alarmSteps' = alarmSteps \cup {step} /\ MatchAlarm
  <2>1. \A a \in alarmSteps : a \in Int /\ a < step
    BY <1>1
  <2>2. \A k \in DOMAIN matches : matches[k].alarm \in alarmSteps
    BY DEF JustifiedInv, MatchIsJustified
  <2>o. Open(step) = Candidates
    BY <1>1, <2>1, <2>2, CandidatesAreOpen DEF Open, JustifiedInv
  <2>3. CASE Candidates = {} /\ UNCHANGED <<detected, delays, matches>>
    <3>1. \A a : Open(a)' = Open(a)
      BY <1>1, <2>3 DEF Open, Creditable
    <3>2. Open(step) = {}
      BY <2>3, <2>o
    <3>3. \A k \in DOMAIN matches : MatchIsJustified(k)'
      BY <1>1, <1>3, <2>3, <3>1 DEF JustifiedInv, MatchIsJustified
    <3>4. MatchedAlarms' = MatchedAlarms
      BY <2>3 DEF MatchedAlarms
    <3> QED
      BY <1>1, <1>3, <2>3, <3>1, <3>2, <3>3, <3>4 DEF JustifiedInv
  <2>4. ASSUME NEW i \in DOMAIN applied, BestCandidate(i),
               detected' = detected \cup {applied[i].fault},
               delays' = Append(delays, step - applied[i].first),
               matches' = Append(matches, [fault |-> applied[i].fault, alarm |-> step])
        PROVE  JustifiedInv'
    <3>l. PICK last \in Nat : last = Len(matches) + 1
      BY <1>1
    <3>1. /\ applied[i].first \in Nat /\ applied[i].fault \in Faults
          /\ step - applied[i].first \in 0..MatchWindow
      <4>1. applied[i] \in AppliedFaults
        BY <1>1
      <4> QED
        BY <1>1, <2>4, <4>1 DEF AppliedFaults, BestCandidate, Candidates
    <3>2. [fault |-> applied[i].fault, alarm |-> step] \in Matches
      BY <3>1 DEF Matches, RunnerInv, RunnerTypeOK
    <3>3. /\ Len(matches) \in Nat /\ DOMAIN matches = 1..Len(matches) /\ DOMAIN matches' = 1..last
          /\ matches'[last].fault = applied[i].fault /\ matches'[last].alarm = step
          /\ \A k \in DOMAIN matches : matches'[k] = matches[k]
      BY <1>1, <2>4, <3>l, <3>2
    <3>4. /\ Len(delays') = last /\ delays'[last] = step - applied[i].first
          /\ \A k \in DOMAIN matches : delays'[k] = delays[k]
      BY <1>1, <2>4, <3>l, <3>1, <3>3 DEF JustifiedInv
    <3>5. DOMAIN matches' = DOMAIN matches \cup {last}
      BY <3>l, <3>3
    <3>6. ASSUME NEW a \in alarmSteps \cup {step}
          PROVE  Open(a)' = Open(a)
      <4>1. ~(step < a)
        BY <1>1, <2>1
      <4>2. ASSUME NEW j \in DOMAIN applied
            PROVE  (\A k \in DOMAIN matches' : matches'[k].alarm < a =>
                      matches'[k].fault # applied[j].fault)
                   <=> (\A k \in DOMAIN matches : matches[k].alarm < a =>
                          matches[k].fault # applied[j].fault)
        BY <3>3, <3>5, <4>1
      <4> QED
        BY <1>1, <4>2 DEF Open, Creditable
    <3>7. ASSUME NEW k \in DOMAIN matches
          PROVE  MatchIsJustified(k)'
      <4>1. MatchIsJustified(k)
        BY DEF JustifiedInv
      <4>2. Open(matches[k].alarm)' = Open(matches[k].alarm) /\ matches'[k] = matches[k]
        BY <2>2, <3>3, <3>6
      <4> QED
        BY <1>1, <1>3, <3>4, <4>1, <4>2 DEF MatchIsJustified
    <3>9. MatchIsJustified(last)'
      <4>1. i \in Open(step) /\ \A j \in Open(step) : applied[i].first <= applied[j].first
        <5>1. \A j \in Candidates : applied[i].first <= applied[j].first
          <6> SUFFICES ASSUME NEW j \in Candidates PROVE applied[i].first <= applied[j].first
            OBVIOUS
          <6>1. applied[j].first \in Nat
            BY AppliedFacts DEF Candidates
          <6> QED
            BY <2>4, <3>1, <6>1 DEF BestCandidate
        <5> QED
          BY <2>4, <2>o, <5>1 DEF BestCandidate
      <4> QED
        BY <1>1, <1>3, <3>3, <3>4, <3>6, <4>1 DEF MatchIsJustified
    <3>10. detected' = {matches'[k].fault : k \in DOMAIN matches'}
      BY <2>4, <3>3, <3>5 DEF JustifiedInv
    <3>11. MatchedAlarms' = MatchedAlarms \cup {step}
      <4>1. \A k \in DOMAIN matches : matches'[k].alarm = matches[k].alarm
        BY <3>3
      <4>2. MatchedAlarms' = {matches'[k].alarm : k \in DOMAIN matches \cup {last}}
        BY <3>5 DEF MatchedAlarms
      <4>3. \A x : x \in MatchedAlarms' <=>
                   (\E k \in DOMAIN matches : x = matches[k].alarm) \/ x = step
        BY <3>3, <4>1, <4>2
      <4> QED
        BY <4>3 DEF MatchedAlarms
    <3>12. \A a \in alarmSteps' \ MatchedAlarms' : Open(a)' = {}
      BY <1>3, <3>6, <3>11 DEF JustifiedInv
    <3>13. Len(matches') = Len(delays')
      BY <1>1, <2>4, <3>l, <3>2, <3>4
    <3> QED
      BY <1>1, <3>5, <3>7, <3>9, <3>10, <3>12, <3>13 DEF JustifiedInv
  <2> QED
    BY <1>3, <2>3, <2>4 DEF MatchAlarm
<1> QED
  BY <1>2, <1>3 DEF Observe

LEMMA JustifiedStepInv ==
  RunnerInv /\ MatchInv /\ JustifiedInv /\ [Next]_vars => JustifiedInv'
<1> SUFFICES ASSUME RunnerInv, MatchInv, JustifiedInv, [Next]_vars PROVE JustifiedInv'
  OBVIOUS
<1>1. CASE BeginEpisode
  <2>1. /\ applied' = <<>> /\ detected' = {} /\ delays' = <<>> /\ matches' = <<>>
        /\ alarmSteps' = {}
    BY <1>1 DEF BeginEpisode
  <2> QED
    BY <2>1 DEF JustifiedInv
<1>2. CASE InjectFault
  BY <1>2, InjectKeepsJustified
<1>3. CASE Observe
  BY <1>3, ObserveKeepsJustified
<1>4. CASE Decide
  <2>1. PICK action \in Decided : Recover(action)
    BY <1>4 DEF Decide
  <2>2. /\ UNCHANGED <<applied, detected, delays, matches, alarmSteps>>
        /\ pc = "decide" /\ (step' = step \/ step' = step + 1)
    BY <2>1 DEF Recover, matchVars
  <2>3. \A i \in DOMAIN applied' : applied'[i].at <= step'
    <3>1. step \in Nat /\ \A i \in DOMAIN applied : applied[i].at \in Nat
      BY SMTT(30), AppliedFacts DEF RunnerInv, RunnerTypeOK
    <3>2. \A i \in DOMAIN applied : applied[i].at <= step
      BY <2>2 DEF JustifiedInv, InLoop
    <3> QED
      BY <2>2, <3>1, <3>2
  <2> QED
    BY <2>2, <2>3 DEF JustifiedInv, MatchIsJustified, MatchedAlarms, Open, Creditable
<1>5. CASE \/ Act \/ StepEnvironment \/ StartExperiment \/ StartExperimentRaises \/ EndEpisode
           \/ CompleteExperiment \/ RaiseInTry \/ RecordFailure \/ CloseEnvironment
           \/ Finished \/ UNCHANGED vars
  <2>1. UNCHANGED <<applied, detected, delays, matches, alarmSteps, step>>
    BY <1>5 DEF Act, StepEnvironment, StartExperiment, StartExperimentRaises, EndEpisode,
                CompleteExperiment, RaiseInTry, RecordFailure, CloseEnvironment,
                Finished, vars, matchVars
  <2>2. pc' \in InLoop => pc \in InLoop
    BY <1>5 DEF Act, StepEnvironment, StartExperiment, StartExperimentRaises, EndEpisode,
                CompleteExperiment, RaiseInTry, RecordFailure, CloseEnvironment,
                Finished, vars, InLoop
  <2> QED
    BY <2>1, <2>2 DEF JustifiedInv, MatchIsJustified, MatchedAlarms, Open, Creditable
<1> QED
  BY <1>1, <1>2, <1>3, <1>4, <1>5 DEF Next

\* Each detection of every run is one alarm inside the window of the fault it is
\* credited to, the open fault of the earliest onset, with the delay from that
\* onset; each other alarm found no open fault and is one false alarm; only
\* faults handed out by the schedule are applied, each of them once.
THEOREM MatchingSound == Spec => []MatchingIsSound
<1>1. Init => MatchInv /\ JustifiedInv
  <2> SUFFICES ASSUME Init PROVE MatchInv /\ JustifiedInv
    OBVIOUS
  <2>1. FaultsApplied = {}
    BY DEF Init, FaultsApplied
  <2>2. MatchInv
    BY <2>1, FS_EmptySet DEF Init, MatchInv, CountsAgree
  <2>3. JustifiedInv
    BY DEF Init, JustifiedInv
  <2> QED
    BY <2>2, <2>3
<1>2. MatchInv /\ JustifiedInv => MatchingIsSound
  BY DEF MatchInv, JustifiedInv, MatchingIsSound
<1> QED
  BY RunnerInitInv, RunnerStepInv, MatchStepInv, JustifiedStepInv, <1>1, <1>2, PTL DEF Spec

-----------------------------------------------------------------------------
(* The matching rule                                                       *)

\* The faults that have been detected, by their places in applied, and those of
\* a set of faults whose first affected input is before a step.
Credited == {i \in DOMAIN applied : applied[i].fault \in detected}
Early(faults, before) == {i \in faults : applied[i].first < before}

\* An assignment of distinct alarms to faults, in hindsight.
Credits(alarm, faults) ==
  /\ \A i \in faults : Creditable(alarm[i], i)
  /\ \A i, j \in faults : alarm[i] = alarm[j] => i = j

\* Not only does no assignment credit more faults than the alarms matched so far:
\* none credits more faults that begin before any given step.
GreedyInv ==
  \A faults \in SUBSET DOMAIN applied : \A alarm \in [faults -> alarmSteps] :
     Credits(alarm, faults) =>
       \A before \in Int : Cardinality(Early(faults, before)) <= Cardinality(Early(Credited, before))

\* What is no less in one part and included in the other is no less in all.
LEMMA CountsAdd ==
  ASSUME NEW A, NEW B, IsFiniteSet(A), IsFiniteSet(B), NEW A0 \in SUBSET A, NEW B0 \in SUBSET B,
         Cardinality(A0) <= Cardinality(B0), A \ A0 \subseteq B \ B0
  PROVE  Cardinality(A) <= Cardinality(B)
<1>1. /\ IsFiniteSet(A0) /\ IsFiniteSet(B0) /\ IsFiniteSet(A \ A0) /\ IsFiniteSet(B \ B0)
      /\ Cardinality(A \ A0) = Cardinality(A) - Cardinality(A \cap A0)
      /\ Cardinality(B \ B0) = Cardinality(B) - Cardinality(B \cap B0)
  BY FS_Difference, FS_Subset
<1>2. A \cap A0 = A0 /\ B \cap B0 = B0
  OBVIOUS
<1>3. Cardinality(A \ A0) <= Cardinality(B \ B0)
  BY <1>1, FS_Subset
<1>4. /\ Cardinality(A) \in Nat /\ Cardinality(B) \in Nat /\ Cardinality(A0) \in Nat
      /\ Cardinality(B0) \in Nat /\ Cardinality(A \ A0) \in Nat /\ Cardinality(B \ B0) \in Nat
  BY <1>1, FS_CardinalityType
<1>5. Cardinality(A \ A0) = Cardinality(A) - Cardinality(A0)
  BY <1>1, <1>2
<1>6. Cardinality(B \ B0) = Cardinality(B) - Cardinality(B0)
  BY <1>1, <1>2
<1> QED
  BY <1>3, <1>4, <1>5, <1>6

\* A set of places can be counted.
LEMMA EarlyFacts ==
  ASSUME RunnerInv
  PROVE  \A faults \in SUBSET DOMAIN applied, before \in Int : IsFiniteSet(Early(faults, before))
<1>1. IsFiniteSet(DOMAIN applied)
  BY AppliedFacts, FS_Interval
<1>2. \A faults \in SUBSET DOMAIN applied, before \in Int : Early(faults, before) \in SUBSET DOMAIN applied
  BY DEF Early
<1> QED
  BY <1>1, <1>2, FS_Subset

\* An alarm is matched, or there is nothing to match it to: credited is what has
\* been detected then, faults what an assignment credits that may use the alarm.
LEMMA AlarmKeepsGreedy ==
  ASSUME RunnerInv, GreedyInv, alarmSteps \subseteq 0..(step - 1),
         NEW credited \in SUBSET DOMAIN applied, Credited \subseteq credited,
         Candidates = {} \/ \E i \in credited : BestCandidate(i),
         NEW faults \in SUBSET DOMAIN applied, NEW alarm \in [faults -> alarmSteps \cup {step}],
         Credits(alarm, faults), NEW before \in Int
  PROVE  Cardinality(Early(faults, before)) <= Cardinality(Early(credited, before))
<1>1. /\ step \in Nat /\ MatchWindow \in Nat /\ Credited \in SUBSET DOMAIN applied
      /\ \A i \in DOMAIN applied : applied[i].first \in Nat
  <2>1. step \in 0..Horizon
    BY DEF RunnerInv, RunnerTypeOK
  <2>2. step \in Nat /\ MatchWindow \in Nat
    BY <2>1
  <2>3. Credited \in SUBSET DOMAIN applied
    BY DEF Credited
  <2>4. \A i \in DOMAIN applied : applied[i].first \in Nat
    BY AppliedFacts, EarlyFacts
  <2> QED
    BY <2>2, <2>3, <2>4
<1>2. \A t \in Int : Cardinality(Early(Credited, t)) <= Cardinality(Early(credited, t))
  <2> SUFFICES ASSUME NEW t \in Int
               PROVE  Cardinality(Early(Credited, t)) <= Cardinality(Early(credited, t))
    OBVIOUS
  <2>1. Early(Credited, t) \in SUBSET Early(credited, t) /\ IsFiniteSet(Early(credited, t))
    BY AppliedFacts, EarlyFacts DEF Early
  <2> QED
    BY <2>1, FS_Subset
<1>3. \A f \in SUBSET DOMAIN applied, t \in Int : Cardinality(Early(f, t)) \in Nat
  BY AppliedFacts, EarlyFacts, FS_CardinalityType
<1>4. CASE \A i \in faults : alarm[i] # step
  <2>1. alarm \in [faults -> alarmSteps]
    BY <1>4
  <2>2. Cardinality(Early(faults, before)) <= Cardinality(Early(Credited, before))
    BY <2>1 DEF GreedyInv
  <2> QED
    BY <1>1, <1>2, <1>3, <2>2
<1>5. ASSUME NEW j \in faults, alarm[j] = step
      PROVE  Cardinality(Early(faults, before)) <= Cardinality(Early(credited, before))
  <2> DEFINE others == faults \ {j}
             rest == [i \in others |-> alarm[i]]
  <2>1. /\ others \in SUBSET DOMAIN applied /\ rest \in [others -> alarmSteps]
        /\ \A i \in others : rest[i] = alarm[i]
    BY <1>5 DEF Credits
  <2>2. Credits(rest, others)
    BY <2>1 DEF Credits
  <2>3. \A t \in Int : Cardinality(Early(others, t)) <= Cardinality(Early(Credited, t))
    BY <2>1, <2>2 DEF GreedyInv
  <2>a. /\ Cardinality(Early(others, before)) <= Cardinality(Early(Credited, before))
        /\ Cardinality(Early(Credited, before)) <= Cardinality(Early(credited, before))
        /\ Cardinality(Early(others, before)) \in Nat /\ Cardinality(Early(Credited, before)) \in Nat
        /\ Cardinality(Early(credited, before)) \in Nat
    BY <1>1, <1>2, <1>3, <2>1, <2>3
  <2> HIDE DEF others, rest
  <2>4. /\ applied[j].first \in Nat /\ applied[j].first <= step
        /\ step - applied[j].first <= MatchWindow
    BY <1>1, <1>5 DEF Credits, Creditable
  <2>5. CASE applied[j].first >= before
    <3>1. Early(faults, before) = Early(others, before)
      BY <1>1, <2>4, <2>5 DEF Early, others
    <3> QED
      BY <2>a, <3>1
  <2>6. CASE applied[j].first < before /\ \E i \in Candidates \cap credited : applied[i].first < before
    <3>1. PICK i \in Candidates \cap credited : applied[i].first < before
      BY <2>6
    <3>2. i \in DOMAIN applied /\ i \notin Credited
      BY <3>1 DEF Candidates, Credited
    <3>3. /\ Early(faults, before) = Early(others, before) \cup {j} /\ j \notin Early(others, before)
          /\ Early(Credited, before) \cup {i} \in SUBSET Early(credited, before)
          /\ i \notin Early(Credited, before)
      BY <2>6, <3>1, <3>2 DEF Early, others
    <3>4. /\ Cardinality(Early(faults, before)) = Cardinality(Early(others, before)) + 1
          /\ Cardinality(Early(Credited, before) \cup {i}) = Cardinality(Early(Credited, before)) + 1
      BY <1>1, <2>1, <3>3, AppliedFacts, EarlyFacts, FS_AddElement
    <3>5. Cardinality(Early(Credited, before) \cup {i}) <= Cardinality(Early(credited, before))
      BY <3>3, AppliedFacts, EarlyFacts, FS_Subset
    <3> QED
      BY <2>a, <3>4, <3>5
  <2>7. CASE applied[j].first < before /\ \A i \in Candidates \cap credited : applied[i].first >= before
    <3>1. \A k \in Candidates : applied[k].first >= before
      <4> SUFFICES ASSUME NEW k \in Candidates PROVE applied[k].first >= before
        OBVIOUS
      <4>1. PICK i \in credited : BestCandidate(i)
        OBVIOUS
      <4>2. /\ i \in Candidates /\ applied[i].first <= applied[k].first
            /\ applied[i].first \in Nat /\ applied[k].first \in Nat
        BY <1>1, <4>1 DEF BestCandidate, Candidates
      <4> QED
        BY <2>7, <4>1, <4>2
    <3> DEFINE start == step - MatchWindow
    <3>2. start \in Int /\ applied[j].first >= start
      BY <1>1, <2>4
    <3>3. Early(faults, start) = Early(others, start)
      BY <1>1, <2>4, <3>2 DEF Early, others
    <3>4. Cardinality(Early(faults, start)) <= Cardinality(Early(Credited, start))
      BY <2>3, <3>2, <3>3
    <3>5. \A k \in faults : applied[k].first <= step
      <4> SUFFICES ASSUME NEW k \in faults PROVE applied[k].first <= step
        OBVIOUS
      <4>1. alarm[k] \in alarmSteps \cup {step}
        OBVIOUS
      <4>2. alarm[k] \in Nat /\ alarm[k] <= step
        <5>1. \A a \in alarmSteps \cup {step} : a \in Nat /\ a <= step
          BY <1>1
        <5> QED
          BY <4>1, <5>1
      <4>3. applied[k].first <= alarm[k] /\ applied[k].first \in Nat
        BY <1>1 DEF Credits, Creditable
      <4> QED
        BY <1>1, <4>2, <4>3
    <3>6. \A k \in faults : applied[k].first < before /\ ~(applied[k].first < start) => k \in Credited
      <4> SUFFICES ASSUME NEW k \in faults, applied[k].first < before, ~(applied[k].first < start),
                          k \notin Credited
                   PROVE  FALSE
        OBVIOUS
      <4>1. k \in DOMAIN applied /\ applied[k].first \in Nat /\ applied[k].first <= step
        BY <1>1, <3>5
      <4>2. step - applied[k].first <= MatchWindow
        BY <1>1, <4>1
      <4>3. k \in Candidates
        BY <4>1, <4>2 DEF Candidates, Credited
      <4> QED
        BY <3>1, <4>1, <4>3
    <3>7. /\ Early(faults, start) \in SUBSET Early(faults, before)
          /\ Early(Credited, start) \in SUBSET Early(Credited, before)
      BY <1>1, <2>4, <2>7, <3>2 DEF Early
    <3>8. Early(faults, before) \ Early(faults, start) \subseteq Early(Credited, before) \ Early(Credited, start)
      BY <3>6 DEF Early
    <3>9. IsFiniteSet(Early(faults, before)) /\ IsFiniteSet(Early(Credited, before))
      BY <1>1, AppliedFacts, EarlyFacts
    <3>10. Cardinality(Early(faults, before)) <= Cardinality(Early(Credited, before))
      BY <3>4, <3>7, <3>8, <3>9, CountsAdd
    <3> QED
      BY <1>1, <1>2, <1>3, <3>10
  <2>8. applied[j].first < before \/ applied[j].first >= before
    BY <2>4
  <2>9. (\E i \in Candidates \cap credited : applied[i].first < before)
        \/ \A i \in Candidates \cap credited : applied[i].first >= before
    BY <1>1
  <2> QED
    BY <2>5, <2>6, <2>7, <2>8, <2>9
<1> QED
  BY <1>4, <1>5

\* A fault is injected after the alarms so far: none of them can be credited to it.
LEMMA InjectKeepsGreedy ==
  ASSUME RunnerInv, MatchInv, GreedyInv, InjectFault
  PROVE  GreedyInv'
<1>1. /\ step \in Nat /\ alarmSteps \subseteq 0..(step - 1) /\ UNCHANGED <<detected, alarmSteps>>
      /\ applied \in Seq(AppliedFaults)
  BY DEF InjectFault, MatchInv, RunnerInv, RunnerTypeOK
<1>2. CASE UNCHANGED applied
  <2>1. UNCHANGED <<applied, detected, alarmSteps>>
    BY <1>1, <1>2
  <2> QED
    BY <2>1 DEF GreedyInv, Credits, Creditable, Early, Credited
<1>3. ASSUME NEW f \in Faults, NEW first \in {step, step + 1},
             applied' = Append(applied, [fault |-> f, first |-> first, at |-> step])
      PROVE  GreedyInv'
  <2> DEFINE last == Len(applied) + 1
  <2>1. [fault |-> f, first |-> first, at |-> step] \in AppliedFaults
    BY <1>1 DEF AppliedFaults
  <2>2. /\ Len(applied) \in Nat /\ DOMAIN applied = 1..Len(applied) /\ DOMAIN applied' = 1..last
        /\ applied'[last].at = step /\ \A i \in DOMAIN applied : applied'[i] = applied[i]
    BY <1>1, <1>3, <2>1
  <2> SUFFICES ASSUME NEW faults \in SUBSET DOMAIN applied', NEW alarm \in [faults -> alarmSteps],
                      Credits(alarm, faults)', NEW before \in Int
               PROVE  Cardinality(Early(faults, before)') <= Cardinality(Early(Credited, before)')
    BY <1>1 DEF GreedyInv
  <2>3. last \notin faults
    <3> SUFFICES ASSUME last \in faults PROVE FALSE
      OBVIOUS
    <3>1. alarm[last] \in alarmSteps /\ step <= alarm[last]
      BY <2>2 DEF Credits, Creditable
    <3>2. \A a \in alarmSteps : ~(step <= a)
      BY <1>1
    <3> QED
      BY <3>1, <3>2
  <2>4. faults \in SUBSET DOMAIN applied
    BY <2>2, <2>3
  <2>5. Credits(alarm, faults)
    <3>1. \A i \in faults : Creditable(alarm[i], i)' /\ applied'[i] = applied[i]
      BY <2>2, <2>4 DEF Credits
    <3>2. \A i \in faults : Creditable(alarm[i], i)
      BY <3>1 DEF Creditable
    <3> QED
      BY <3>2 DEF Credits
  <2>6. Cardinality(Early(faults, before)) <= Cardinality(Early(Credited, before))
    BY <2>4, <2>5 DEF GreedyInv
  <2>7. Early(faults, before)' = Early(faults, before)
    BY <2>2, <2>4 DEF Early
  <2>8. Early(Credited, before) \subseteq Early(Credited, before)'
    BY <1>1, <2>2 DEF Early, Credited
  <2>9. IsFiniteSet(Early(Credited, before)')
    <3>1. IsFiniteSet(1..last)
      BY <2>2, FS_Interval
    <3>2. Early(Credited, before)' \subseteq 1..last
      BY <2>2 DEF Early, Credited
    <3> QED
      BY <3>1, <3>2, FS_Subset
  <2>10. /\ Cardinality(Early(Credited, before)) <= Cardinality(Early(Credited, before)')
         /\ Cardinality(Early(Credited, before)) \in Nat
         /\ Cardinality(Early(Credited, before)') \in Nat
    BY <2>8, <2>9, FS_Subset, FS_CardinalityType
  <2>11. Cardinality(Early(faults, before)) \in Nat
    BY <2>4, AppliedFacts, EarlyFacts, FS_CardinalityType
  <2> QED
    BY <2>6, <2>7, <2>10, <2>11
<1> QED
  BY <1>2, <1>3 DEF InjectFault

LEMMA ObserveKeepsGreedy ==
  ASSUME RunnerInv, MatchInv, GreedyInv, Observe
  PROVE  GreedyInv'
<1>1. /\ alarmSteps \subseteq 0..(step - 1) /\ UNCHANGED applied
      /\ applied \in Seq(AppliedFaults)
  BY DEF Observe, MatchInv, RunnerInv, RunnerTypeOK
<1>2. CASE UNCHANGED <<alarmSteps, detected>>
  BY SMTT(30), <1>1, <1>2 DEF GreedyInv, Credits, Creditable, Early, Credited
<1>3. CASE alarmSteps' = alarmSteps \cup {step} /\ MatchAlarm
  <2>1. Candidates = {} \/ \E i \in Credited' : BestCandidate(i)
    BY <1>1, <1>3 DEF MatchAlarm, Credited
  <2>2. Credited \subseteq Credited' /\ Credited' \in SUBSET DOMAIN applied
    BY <1>1, <1>3 DEF MatchAlarm, Credited
  <2>3. PICK credited : credited = Credited'
    OBVIOUS
  <2> SUFFICES ASSUME NEW faults \in SUBSET DOMAIN applied, NEW alarm \in [faults -> alarmSteps \cup {step}],
                      Credits(alarm, faults)', NEW before \in Int
               PROVE  Cardinality(Early(faults, before)') <= Cardinality(Early(Credited, before)')
    BY <1>1, <1>3 DEF GreedyInv
  <2>4. Credits(alarm, faults)
    BY <1>1 DEF Credits, Creditable
  <2>5. Cardinality(Early(faults, before)) <= Cardinality(Early(credited, before))
    BY <1>1, <2>1, <2>2, <2>3, <2>4, AlarmKeepsGreedy
  <2>6. Early(faults, before)' = Early(faults, before)
    BY <1>1 DEF Early
  <2>7. Early(Credited, before)' = Early(credited, before)
    BY <1>1, <2>3 DEF Early
  <2> QED
    BY <2>5, <2>6, <2>7
<1> QED
  BY <1>2, <1>3 DEF Observe

LEMMA GreedyStepInv == RunnerInv /\ MatchInv /\ GreedyInv /\ [Next]_vars => GreedyInv'
<1> SUFFICES ASSUME RunnerInv, MatchInv, GreedyInv, [Next]_vars PROVE GreedyInv'
  OBVIOUS
<1>1. CASE BeginEpisode
  <2>1. applied' = <<>>
    BY <1>1 DEF BeginEpisode
  <2>2. \A faults \in SUBSET DOMAIN applied', before \in Int : Early(faults, before)' = {}
    BY <2>1 DEF Early
  <2>3. \A before \in Int : Early(Credited, before)' = {}
    BY <2>1 DEF Early, Credited
  <2>4. Cardinality({}) <= Cardinality({})
    BY FS_EmptySet
  <2> QED
    BY <2>2, <2>3, <2>4 DEF GreedyInv
<1>2. CASE InjectFault
  BY <1>2, InjectKeepsGreedy
<1>3. CASE Observe
  BY <1>3, ObserveKeepsGreedy
<1>4. CASE Decide
  <2>1. UNCHANGED <<applied, detected, alarmSteps>>
    BY <1>4 DEF Decide, Recover, matchVars
  <2> QED
    BY <2>1 DEF GreedyInv, Credits, Creditable, Early, Credited
<1>5. CASE \/ Act \/ StepEnvironment \/ StartExperiment \/ StartExperimentRaises \/ EndEpisode
           \/ CompleteExperiment \/ RaiseInTry \/ RecordFailure \/ CloseEnvironment
           \/ Finished \/ UNCHANGED vars
  <2>1. UNCHANGED <<applied, detected, alarmSteps>>
    BY <1>5 DEF Act, StepEnvironment, StartExperiment, StartExperimentRaises, EndEpisode,
                CompleteExperiment, RaiseInTry, RecordFailure, CloseEnvironment,
                Finished, vars, matchVars
  <2> QED
    BY <2>1 DEF GreedyInv, Credits, Creditable, Early, Credited
<1> QED
  BY <1>1, <1>2, <1>3, <1>4, <1>5 DEF Next

\* Each fault has one place in applied, so the places count the detected faults.
LEMMA CreditedCount ==
  ASSUME RunnerInv, MatchInv
  PROVE  IsFiniteSet(Credited) /\ Cardinality(Credited) <= Cardinality(detected)
<1>1. /\ DOMAIN applied = 1..Len(applied) /\ Len(applied) \in Nat /\ IsFiniteSet(detected)
      /\ Cardinality(FaultsApplied) = Len(applied)
  BY AppliedFacts, EarlyFacts DEF RunnerInv, LoopInv, MatchInv, CountsAgree
<1> DEFINE places == 1..Len(applied)
           name == [i \in places |-> applied[i].fault]
<1>2. IsFiniteSet(places) /\ Cardinality(places) = Len(applied)
  <2>1. \A n \in Nat : IsFiniteSet(1..n) /\ Cardinality(1..n) = IF 1 > n THEN 0 ELSE n - 1 + 1
    BY FS_Interval
  <2>2. \A n \in Nat : (IF 1 > n THEN 0 ELSE n - 1 + 1) = n
    OBVIOUS
  <2> QED
    BY <1>1, <2>1, <2>2
<1>3. name \in Surjection(places, FaultsApplied)
  BY <1>1 DEF Surjection, FaultsApplied
<1>4. name \in Injection(places, FaultsApplied)
  BY <1>1, <1>2, <1>3, FS_Surjection
<1>5. \A i, j \in places : applied[i].fault = applied[j].fault => i = j
  BY <1>4 DEF Injection, IsInjective
<1>6. [i \in Credited |-> applied[i].fault] \in Injection(Credited, detected)
  BY <1>1, <1>5 DEF Credited, Injection, IsInjective
<1> QED
  BY <1>1, <1>6, FS_Injection

\* The rule of min(unmatched, key=first affected input), applied online, credits as
\* many faults as the best assignment in hindsight of the episode's alarms to its
\* faults, for every schedule and every sequence of alarms: fault windows of one
\* length make it so.
THEOREM GreedyMatchingMaximal == Spec => []GreedyMatchingIsMaximum
<1>1. Init => MatchInv
  <2> SUFFICES ASSUME Init PROVE MatchInv
    OBVIOUS
  <2>1. FaultsApplied = {}
    BY DEF Init, FaultsApplied
  <2> QED
    BY <2>1, FS_EmptySet DEF Init, MatchInv, CountsAgree
<1>2. Init => GreedyInv
  <2> SUFFICES ASSUME Init PROVE GreedyInv
    OBVIOUS
  <2>1. applied = <<>>
    BY DEF Init
  <2>2. \A faults \in SUBSET DOMAIN applied, before \in Int : Early(faults, before) = {}
    BY <2>1 DEF Early
  <2>3. \A before \in Int : Early(Credited, before) = {}
    BY <2>1 DEF Early, Credited
  <2>4. Cardinality({}) <= Cardinality({})
    BY FS_EmptySet
  <2> QED
    BY <2>2, <2>3, <2>4 DEF GreedyInv
<1>3. RunnerInv /\ MatchInv /\ GreedyInv => GreedyMatchingIsMaximum
  <2> SUFFICES ASSUME RunnerInv, MatchInv, GreedyInv, MatchingOfSize(Cardinality(detected) + 1)
               PROVE  FALSE
    BY DEF GreedyMatchingIsMaximum
  <2>1. PICK matched \in SUBSET alarmSteps :
          /\ Cardinality(matched) = Cardinality(detected) + 1
          /\ \E credit \in [matched -> DOMAIN applied] :
               /\ \A a \in matched : Creditable(a, credit[a])
               /\ \A a, b \in matched : credit[a] = credit[b] => a = b
    BY DEF MatchingOfSize
  <2>2. PICK credit \in [matched -> DOMAIN applied] :
          /\ \A a \in matched : Creditable(a, credit[a])
          /\ \A a, b \in matched : credit[a] = credit[b] => a = b
    BY <2>1
  <2> DEFINE faults == {credit[a] : a \in matched}
             alarm == [i \in faults |-> CHOOSE a \in matched : credit[a] = i]
             after == Horizon + 1
  <2>3. \A i \in faults : alarm[i] \in matched /\ credit[alarm[i]] = i
    OBVIOUS
  <2>4. faults \in SUBSET DOMAIN applied /\ alarm \in [faults -> alarmSteps]
    BY <2>1, <2>3
  <2> HIDE DEF alarm
  <2>5. Credits(alarm, faults)
    BY <2>2, <2>3 DEF Credits
  <2>6. Cardinality(Early(faults, after)) <= Cardinality(Early(Credited, after))
    <3>1. after \in Int
      OBVIOUS
    <3> QED
      BY <2>4, <2>5, <3>1 DEF GreedyInv
  <2>7. Early(faults, after) = faults
    <3> SUFFICES ASSUME NEW a \in matched PROVE applied[credit[a]].first < after
      BY DEF Early
    <3>1. a \in 0..Horizon /\ applied[credit[a]].first <= a /\ applied[credit[a]].first \in Nat
      BY <2>1, <2>2, AppliedFacts, EarlyFacts DEF Creditable, RunnerInv, RunnerTypeOK
    <3> QED
      BY <3>1
  <2>8. IsFiniteSet(matched)
    BY <2>1, FS_Subset DEF MatchInv
  <2>9. credit \in Bijection(matched, faults)
    BY <2>2 DEF Bijection, Injection, IsInjective, Surjection
  <2>10. IsFiniteSet(faults) /\ Cardinality(faults) = Cardinality(matched)
    BY <2>8, <2>9, FS_Bijection DEF ExistsBijection
  <2>11. IsFiniteSet(Credited) /\ Cardinality(Credited) <= Cardinality(detected)
    BY CreditedCount
  <2>12. Early(Credited, after) \in SUBSET Credited
    BY DEF Early
  <2>13. /\ IsFiniteSet(Early(Credited, after))
         /\ Cardinality(Early(Credited, after)) <= Cardinality(Credited)
    BY <2>11, <2>12, FS_Subset
  <2>14. /\ Cardinality(Early(Credited, after)) \in Nat /\ Cardinality(Credited) \in Nat
         /\ Cardinality(detected) \in Nat
    BY <2>11, <2>13, FS_CardinalityType DEF RunnerInv, LoopInv
  <2>15. Cardinality(detected) + 1 <= Cardinality(Early(Credited, after))
    BY <2>1, <2>6, <2>7, <2>10
  <2> QED
    BY <2>11, <2>13, <2>14, <2>15
<1> QED
  BY RunnerInitInv, RunnerStepInv, MatchStepInv, GreedyStepInv, <1>1, <1>2, <1>3, PTL DEF Spec

-----------------------------------------------------------------------------
\* The runner keeps the promise of the chunk stream, whichever recovery actions
\* its controller decides and whatever raises: no action of a chunk that a
\* re-query, a retry or a replan discarded is executed, and none of the previous
\* episode after a reset (the branches of _run_episode that call policy.reset).
THEOREM RunnerImplementsStream == Spec => StreamRefinement
<1>1. Init => PolicyInit
  BY DEF Init
<1>2. Spec => PolicySpec
  BY <1>1, PolicyCalls, PTL DEF Spec, PolicySpec
<1> QED
  BY <1>2, PolicyImplementsStream
=============================================================================
