-------------------------- MODULE DiagnosticProbe --------------------------
(***************************************************************************)
(* One pair of episodes of scripts/run_diagnostic_probe.py: run_episode    *)
(* for the passive arm and for the probe arm, in either order, and the     *)
(* pair-prefix gate that decides whether they may be compared.             *)
(*                                                                         *)
(* An executed action is <<draw, position>>: the draw of the policy server *)
(* since set_seed that produced its chunk, and its place in the chunk.     *)
(* Environment and monitor are external and deterministic: how the episode *)
(* goes on is a function of the actions executed so far, the verdict of    *)
(* the monitor one of everything it was shown since its reset.  Both       *)
(* functions are chosen value by value, the first time a value is needed,  *)
(* and kept for the other arm.  What the monitor is shown includes the     *)
(* measured latency of a query, which is not reproducible.                 *)
(*                                                                         *)
(* Faults are a part of the environment here: both arms have the same      *)
(* schedule (see FaultedEpisode for what faults do).                       *)
(***************************************************************************)
EXTENDS GrootPolicy

CONSTANTS
  BaseHorizon,   \* base_horizon, 750
  ProbeSteps,    \* MAX_PROBE_STEPS, 4
  Latencies      \* measured latencies the monitor can tell apart

ASSUME HorizonAssumption == BaseHorizon \in Nat \ {0}
ASSUME ProbeStepsAssumption == ProbeSteps \in Nat /\ ProbeSteps >= 2
\* The audited chunk has 16 actions.
ASSUME ChunkCoversProbeAssumption == ChunkLength >= ProbeSteps - 1
ASSUME LatenciesAssumption == Latencies \subseteq Nat \ {0} /\ Latencies # {}

VARIABLES
  order,         \* the arms in the order of the plan
  pc,            \* where the run is
  finishedArms,  \* arms run so far
  serverDraws,   \* draws from the RNG of the server since set_seed
  step,          \* step
  offset,        \* probe_offset, -1 for None
  trigger,       \* trigger_observation_step, -1 for None
  started,       \* probe_started_step, -1 for None
  finished,      \* probe_finished_step, -1 for None
  postWindow,    \* the observation step post_window_posterior is of, -1 for None
  operations,    \* operations of probe_actions
  executed,      \* the actions executed in this arm
  shown,         \* contexts shown to the monitor, up to the trigger
  prefix,        \* prefix_parts, one entry per step
  reason,        \* termination_reason
  outcomes,      \* the environment: executed actions -> how the episode goes on
  verdicts,      \* the monitor: contexts shown -> verdict
  summaries      \* summaries of the finished arms

pairVars == <<order, outcomes, verdicts, summaries, finishedArms>>
armVars == <<step, offset, trigger, started, finished, postWindow, operations,
             executed, shown, prefix, reason>>
vars == <<policyVars, serverDraws, pc, pairVars, armVars>>

Arms == {"passive_only", "passive_plus_probe"}

Outcomes == {"running", "success", "environment_done"}
Verdicts == {"quiet", "joint_trigger"}

Script(k) ==
  IF k = 0 THEN "repeat_previous_requested_action"
  ELSE IF k = 1 THEN "force_requery_and_execute_first_action"
  ELSE "continue_requeried_chunk"

Arm == order[finishedArms + 1]
Probing == Arm = "passive_plus_probe" /\ offset # -1

Draws == 0..MaxQueries
ExecutedActions == Draws \X (0..(ChunkLength - 1))
Contexts == ExecutedActions \X (Latencies \cup {0})
MaxSteps == BaseHorizon + ProbeSteps

Summaries ==
  [steps : 0..MaxSteps, reason : {"horizon", "success", "environment_done"},
   trigger : Int, started : Int, finished : Int, postWindow : Int,
   probeSteps : 0..ProbeSteps, prefix : Seq(ExecutedActions), shown : Seq(Contexts)]

ProbeTypeOK ==
  /\ PolicyTypeOK
  /\ order \in [1..2 -> Arms]
  /\ pc \in {"arm", "choose", "requeried", "execute", "arm_ended",
             "accepted", "rejected", "raised"}
  /\ finishedArms \in 0..2
  /\ serverDraws \in Draws
  /\ step \in 0..MaxSteps
  /\ offset \in -1..(ProbeSteps - 1)
  /\ {trigger, started, finished, postWindow} \subseteq -1..MaxSteps
  /\ operations \in Seq({Script(k) : k \in 0..2})
  /\ executed \in Seq(ExecutedActions)
  /\ shown \in Seq(Contexts)
  /\ prefix \in Seq(ExecutedActions)
  /\ reason \in {"horizon", "success", "environment_done"}
  /\ \A transcript \in DOMAIN outcomes : outcomes[transcript] \in Outcomes
  /\ \A transcript \in DOMAIN verdicts : verdicts[transcript] \in Verdicts
  /\ \A arm \in DOMAIN summaries : arm \in Arms /\ summaries[arm] \in Summaries

Init ==
  /\ PolicyInit
  /\ serverDraws = 0
  /\ order \in {o \in [1..2 -> Arms] : o[1] # o[2]}
  /\ pc = "arm"
  /\ finishedArms = 0
  /\ step = 0 /\ offset = -1
  /\ trigger = -1 /\ started = -1 /\ finished = -1 /\ postWindow = -1
  /\ operations = <<>> /\ executed = <<>> /\ shown = <<>> /\ prefix = <<>>
  /\ reason = "horizon"
  /\ outcomes = <<>> /\ verdicts = <<>> /\ summaries = <<>>

-----------------------------------------------------------------------------
(* The beginning of an arm: a fresh environment and a fresh policy object, *)
(* every generator seeded, the monitor reset.                              *)

KeepServerSeed == UNCHANGED serverDraws  \* Mutant: set_seed is not called.

SetServerSeed == serverDraws' = 0

BeginArm ==
  /\ pc = "arm"
  /\ finishedArms < 2
  /\ NewPolicy
  /\ SetServerSeed
  /\ step' = 0 /\ offset' = -1
  /\ trigger' = -1 /\ started' = -1 /\ finished' = -1 /\ postWindow' = -1
  /\ operations' = <<>> /\ executed' = <<>> /\ shown' = <<>> /\ prefix' = <<>>
  /\ reason' = "horizon"
  /\ pc' = "choose"
  /\ UNCHANGED pairVars

-----------------------------------------------------------------------------
(* The loop.  It is left at the base horizon, or later when a probe is     *)
(* under way; inside, the arm and the probe offset choose the action.      *)

\* Mutant: the horizon is compared for equality, and a probe steps over it.
AtHorizonExactly ==
  \/ offset = -1 /\ step = BaseHorizon
  \/ offset # -1 /\ step >= BaseHorizon + ProbeSteps

AtHorizon ==
  \/ offset = -1 /\ step >= BaseHorizon
  \/ offset # -1 /\ step >= BaseHorizon + ProbeSteps

\* policy.act; a query draws from the RNG of the server.
Act ==
  /\ PolicyAct
  /\ serverDraws' = serverDraws + (inferenceCount' - inferenceCount)
  /\ pc' = "execute"

ActNormally ==
  /\ pc = "choose" /\ ~AtHorizon
  /\ ~Probing
  /\ Act
  /\ UNCHANGED <<pairVars, armVars>>

RepeatPrevious ==
  /\ pc = "choose" /\ ~AtHorizon
  /\ Probing /\ offset = 0
  /\ PolicyRepeatLast
  /\ operations' = Append(operations, Script(offset))
  /\ started' = IF started = -1 THEN step ELSE started
  /\ pc' = "execute"
  /\ UNCHANGED <<pairVars, serverDraws, step, offset, trigger, finished, postWindow,
                 executed, shown, prefix, reason>>

ForceRequery ==
  /\ pc = "choose" /\ ~AtHorizon
  /\ Probing /\ offset = 1
  /\ PolicyForceRequery
  /\ pc' = "requeried"
  /\ UNCHANGED <<pairVars, serverDraws, armVars>>

ActInProbe ==
  /\ \/ pc = "requeried"
     \/ pc = "choose" /\ ~AtHorizon /\ Probing /\ offset >= 2
  /\ Act
  /\ operations' = Append(operations, Script(offset))
  /\ UNCHANGED <<pairVars, step, offset, trigger, started, finished, postWindow,
                 executed, shown, prefix, reason>>

-----------------------------------------------------------------------------
(* The transition, the monitor, and the bookkeeping of the step.           *)

\* The graph of an external function after its value for a transcript was
\* asked for: it is chosen when it is first needed.
Asked(known, transcript, values) ==
  IF transcript \in DOMAIN known THEN {known}
  ELSE {[t \in DOMAIN known \cup {transcript} |->
           IF t = transcript THEN value ELSE known[t]] : value \in values}

\* The first joint trigger starts the probe of the probe arm.
Trigger ==
  /\ trigger' = step + 1
  /\ \/ /\ Arm = "passive_plus_probe"
        /\ offset' = 0 /\ started' = step + 1
     \/ /\ Arm = "passive_only"
        /\ UNCHANGED <<offset, started>>
  /\ UNCHANGED prefix

Untriggered ==
  /\ prefix' = Append(prefix, executed'[step + 1])
  /\ UNCHANGED <<trigger, offset, started>>

\* Until the trigger, the monitor's verdict matters.
Watch ==
  /\ trigger = -1
  /\ \E milliseconds \in IF latency = "measured" THEN Latencies ELSE {0} :
       shown' = Append(shown, <<executed'[step + 1], milliseconds>>)
  /\ verdicts' \in Asked(verdicts, shown', Verdicts)
  /\ \/ verdicts'[shown'] = "joint_trigger" /\ Trigger
     \/ verdicts'[shown'] = "quiet" /\ Untriggered
  /\ UNCHANGED <<finished, policyVars>>

FinishProbeKeepsQueue ==  \* Mutant: no fresh query before normal operation.
  /\ offset = ProbeSteps - 1
  /\ finished' = step + 1
  /\ offset' = -1
  /\ UNCHANGED policyVars

\* The last probe step discards the rest of its chunk.
FinishProbe ==
  /\ offset = ProbeSteps - 1
  /\ finished' = step + 1
  /\ offset' = -1
  /\ PolicyForceRequery

\* Mutant: the last step of the probe is not recognised.
AdvanceProbeAlways ==
  /\ trigger # -1
  /\ offset' = IF offset = -1 THEN -1 ELSE offset + 1
  /\ UNCHANGED <<finished, policyVars, trigger, started, shown, verdicts, prefix>>

\* After it, the probe offset advances.
AdvanceProbe ==
  /\ trigger # -1
  /\ \/ FinishProbe
     \/ /\ offset \in 0..(ProbeSteps - 2)
        /\ offset' = offset + 1
        /\ UNCHANGED <<finished, policyVars>>
     \/ /\ offset = -1
        /\ UNCHANGED <<offset, finished, policyVars>>
  /\ UNCHANGED <<trigger, started, shown, verdicts, prefix>>

\* Mutant: the window is counted from the control step of the trigger.
PostWindowOneEarly ==
  IF trigger' # -1 /\ step + 2 = trigger' + ProbeSteps THEN step + 1 ELSE postWindow

PostWindow ==
  IF trigger' # -1 /\ step + 1 = trigger' + ProbeSteps THEN step + 1 ELSE postWindow

Observe ==
  /\ pc = "execute"
  /\ executed' = Append(executed, <<serverDraws, emittedPosition>>)
  /\ outcomes' \in Asked(outcomes, executed', Outcomes)
  /\ Watch \/ AdvanceProbe
  /\ postWindow' = PostWindow
  /\ step' = step + 1
  /\ \/ /\ outcomes'[executed'] = "running"
        /\ pc' = "choose"
        /\ UNCHANGED reason
     \/ /\ outcomes'[executed'] # "running"
        /\ pc' = "arm_ended"
        /\ reason' = outcomes'[executed']
  /\ UNCHANGED <<order, summaries, finishedArms, serverDraws, operations>>

\* The summary of the arm; the one of a horizon is written when the loop is
\* left at its head.
EndArm ==
  /\ pc = "arm_ended" \/ (pc = "choose" /\ AtHorizon)
  /\ summaries' = [arm \in DOMAIN summaries \cup {Arm} |->
       IF arm = Arm
       THEN [steps |-> step, reason |-> reason, trigger |-> trigger,
             started |-> started, finished |-> finished, postWindow |-> postWindow,
             probeSteps |-> Len(operations), prefix |-> prefix, shown |-> shown]
       ELSE summaries[arm]]
  /\ finishedArms' = finishedArms + 1
  /\ pc' = "arm"
  /\ UNCHANGED <<policyVars, serverDraws, order, outcomes, verdicts, armVars>>

\* Any call of an arm may raise, and ends the run: set_seed is refused, a
\* fault is not applied, the query fails, the simulator or the monitor raises.
ArmRaises ==
  /\ pc \in {"arm", "choose", "requeried", "execute", "arm_ended"}
  /\ pc' = "raised"
  /\ \/ UNCHANGED policyVars
     \/ PolicyActRaises /\ pc \in {"choose", "requeried"}
  /\ serverDraws' = serverDraws + (inferenceCount' - inferenceCount)
  /\ UNCHANGED <<pairVars, armVars>>

-----------------------------------------------------------------------------
(* _validate_pair_prefixes: the hard gate on the pair.                     *)

PairErrors ==
  \/ summaries["passive_only"].prefix # summaries["passive_plus_probe"].prefix
  \/ summaries["passive_only"].trigger # summaries["passive_plus_probe"].trigger

ValidatePair ==
  /\ pc = "arm" /\ finishedArms = 2
  /\ pc' = IF PairErrors THEN "rejected" ELSE "accepted"
  /\ UNCHANGED <<policyVars, serverDraws, pairVars, armVars>>

Ended ==
  /\ pc \in {"raised", "rejected", "accepted"}
  /\ UNCHANGED vars

Next ==
  \/ BeginArm
  \/ ActNormally \/ RepeatPrevious \/ ForceRequery \/ ActInProbe
  \/ Observe \/ EndArm \/ ArmRaises
  \/ ValidatePair \/ Ended

Spec == Init /\ [][Next]_vars

-----------------------------------------------------------------------------
(* Properties                                                              *)

\* A pair is never rejected for a difference the arms bring about: only when
\* the latencies measured before the trigger differ between them.  The arms
\* share the server, its RNG and the monitor, and run in either order.
PairRejectedOnlyByLatency ==
  pc = "rejected" =>
    \E s \in DOMAIN summaries["passive_only"].shown :
      /\ s \in DOMAIN summaries["passive_plus_probe"].shown
      /\ summaries["passive_only"].shown[s][2] #
           summaries["passive_plus_probe"].shown[s][2]

\* A probe repeats the action of the trigger, executes the first actions of
\* one fresh query in order, and the action after a complete probe begins
\* another chunk: no action of a discarded chunk is executed.  An arm that
\* ends early has executed the beginning of that script.
ProbeKeepsItsScript ==
  \A k \in DOMAIN operations :
    /\ operations[k] = Script(k - 1)
    /\ trigger + k \in DOMAIN executed =>
         /\ k = 1 => executed[trigger + 1] = executed[trigger]
         /\ k > 1 => executed[trigger + k] = <<executed[trigger][1] + 1, k - 2>>
    /\ k = ProbeSteps /\ trigger + k + 1 \in DOMAIN executed =>
         executed[trigger + k + 1] = <<executed[trigger][1] + 2, 0>>

\* The cost of a probe: one invocation of at most ProbeSteps actions.  Only an
\* arm whose probe began shortly before the horizon goes beyond it, never by
\* more than a probe, and it executes nothing but probe actions there.
ProbeStaysInBudget ==
  pc \in {"choose", "requeried", "execute", "arm_ended"} =>
    /\ Len(operations) <= ProbeSteps
    /\ step > BaseHorizon =>
         /\ Arm = "passive_plus_probe"
         /\ trigger # -1
         /\ step <= trigger + ProbeSteps
         /\ trigger <= BaseHorizon
    /\ Arm = "passive_only" => operations = <<>>

Complete(summary) == summary.postWindow # -1

\* What is compared at the end of an accepted pair: posteriors of the same
\* observation, the one the last probe action leads to.  The probe arm has
\* one exactly when its probe is complete; the passive arm may lack one
\* although the environment was still running, when the window ends after
\* the horizon.
PostWindowsAreComparable ==
  pc = "accepted" =>
    LET passive == summaries["passive_only"]
        probe == summaries["passive_plus_probe"]
    IN /\ Complete(probe) <=> probe.probeSteps = ProbeSteps
       /\ Complete(probe) => probe.postWindow = probe.finished
       /\ Complete(passive) /\ Complete(probe) => passive.postWindow = probe.postWindow
       /\ probe.trigger # -1 /\ ~Complete(passive) =>
            passive.reason # "horizon" \/ passive.trigger + ProbeSteps > BaseHorizon
=============================================================================
