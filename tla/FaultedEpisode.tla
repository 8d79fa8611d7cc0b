--------------------------- MODULE FaultedEpisode ---------------------------
(***************************************************************************)
(* The episode loop as the environment adapter sees it.  The order is the  *)
(* same in ExperimentRunner._run_episode (runner.py), in _run_episode of   *)
(* scripts/collect_monitor_dataset.py and in _run_episode of               *)
(* scripts/run_identifiability_pilot.py: faults due before the action,     *)
(* step, faults due after the step, the pending-observation hook when one  *)
(* of these was applied, then the row the monitor sees and its label.      *)
(*                                                                         *)
(* The runner goes on when a fault is not applied, the scripts raise; both *)
(* are allowed.  The policy, the monitor and the reward are left out: the  *)
(* property of interest is what faults do to inputs and executed actions,  *)
(* and what the labels and audit records say about it.                     *)
(***************************************************************************)
EXTENDS RoboCasaEnvironment, FiniteSets

CONSTANTS
  FirstSchedules,   \* the fault schedules, sequences of faults, that the first
                    \* episode may have
  LaterSchedules,   \* those of the episodes after it
  Episodes          \* episodes run in the same environment

ASSUME SchedulesAssumption ==
  FirstSchedules \subseteq Seq(Faults) /\ LaterSchedules \subseteq Seq(Faults)
ASSUME EpisodesAssumption == Episodes \in Nat \ {0}

VARIABLES
  pc,            \* where the loop is
  episode,       \* episodes begun
  schedule,      \* the faults of this episode
  due,           \* places in the schedule of the faults due and not injected
  step,          \* control step
  afterApplied,  \* an after-step fault was applied in this step
  applied,       \* places in the schedule of the applied faults
  inputs,        \* observations shown so far, inputs[n + 1] is observation n
  executions     \* executed actions, executions[s + 1] is that of step s

loopVars == <<pc, episode, schedule, due, step, afterApplied, applied,
              inputs, executions>>
vars == <<environmentVars, loopVars>>

TypeOK ==
  /\ EnvironmentTypeOK
  /\ pc \in {"reset", "begin", "before", "after", "row", "raised", "closed"}
  /\ episode \in 0..Episodes
  /\ schedule \in Seq(Faults)
  /\ due \subseteq DOMAIN schedule
  /\ step \in 0..(Horizon - 1)
  /\ afterApplied \in BOOLEAN
  /\ applied \subseteq DOMAIN schedule
  /\ inputs \in Seq(Images)
  /\ executions \in Seq(Executions)

DueAt(faults, atStep, phase) ==
  {i \in DOMAIN faults : faults[i].step = atStep /\ faults[i].phase = phase}

FirstDue == CHOOSE i \in due : \A j \in due : i <= j

Init ==
  /\ EnvironmentInit
  /\ pc = "reset" /\ episode = 0
  /\ schedule = <<>> /\ due = {} /\ step = 0
  /\ afterApplied = FALSE /\ applied = {}
  /\ inputs = <<>> /\ executions = <<>>

\* Nothing of the loop outlives its episode; the environment does.
NextEpisode ==
  /\ pc = "reset" /\ episode < Episodes
  /\ episode' = episode + 1
  /\ schedule' = <<>> /\ due' = {} /\ step' = 0
  /\ applied' = {} /\ afterApplied' = FALSE
  /\ inputs' = <<>> /\ executions' = <<>>
  /\ pc' = "begin"
  /\ UNCHANGED environmentVars

BeginEpisode ==
  /\ pc = "begin"
  /\ EnvironmentReset
  /\ schedule' \in IF episode = 1 THEN FirstSchedules ELSE LaterSchedules
  /\ due' = DueAt(schedule', 0, "before_action")
  /\ inputs' = <<Raw(0)>>
  /\ pc' = "before"
  /\ UNCHANGED <<episode, step, afterApplied, applied, executions>>

InjectFault ==
  /\ pc \in {"before", "after"} /\ due # {}
  /\ LET fault == schedule[FirstDue]
     IN /\ Inject(fault)
        /\ IF Applies(fault)
           THEN /\ applied' = applied \cup {FirstDue}
                /\ afterApplied' = (afterApplied \/ pc = "after")
           ELSE UNCHANGED <<applied, afterApplied>>
  /\ due' = due \ {FirstDue}
  /\ UNCHANGED <<pc, episode, schedule, step, inputs, executions>>

\* inject_fault raises on bad parameters; the scripts raise on a fault that
\* was not applied.
InjectRaises ==
  /\ pc \in {"before", "after"} /\ due # {}
  /\ ~ValidFault(schedule[FirstDue]) \/ ~Applies(schedule[FirstDue])
  /\ pc' = "raised"
  /\ UNCHANGED <<environmentVars, episode, schedule, due, step, afterApplied,
                 applied, inputs, executions>>

Step ==
  /\ pc = "before" /\ due = {}
  /\ EnvironmentStep(step)
  /\ inputs' = Append(inputs, Transformed(Raw(step + 1), lastFrames))
  /\ executions' = Append(executions, lastExecuted')
  /\ afterApplied' = FALSE
  /\ due' = DueAt(schedule, step, "after_step")
  /\ pc' = "after"
  /\ UNCHANGED <<episode, schedule, step, applied>>

StepRaises ==
  /\ pc = "before" /\ due = {}
  /\ EnvironmentStepRaises(step)
  /\ pc' = "raised"
  /\ UNCHANGED <<episode, schedule, due, step, afterApplied, applied, inputs,
                 executions>>

\* The hook replaces the observation that step returned.
PendingHook ==
  /\ pc = "after" /\ due = {} /\ afterApplied
  /\ ApplyPendingObservationFault(inputs[step + 2])
  /\ inputs' = [inputs EXCEPT ![step + 2] = Transformed(@, PendingCache)]
  /\ pc' = "row"
  /\ UNCHANGED <<episode, schedule, due, step, afterApplied, applied, executions>>

PendingHookRaises ==
  /\ pc = "after" /\ due = {} /\ afterApplied
  /\ ~CanTransform
  /\ lastFrames' = PendingCache
  /\ pc' = "raised"
  /\ UNCHANGED <<actuatorVars, occlusionVars, preStepFrames, episode, schedule, due,
                 step, afterApplied, applied, inputs, executions>>

NoPendingHook ==
  /\ pc = "after" /\ due = {} /\ ~afterApplied
  /\ pc' = "row"
  /\ UNCHANGED <<environmentVars, episode, schedule, due, step, afterApplied,
                 applied, inputs, executions>>

\* The row of the step is complete: the loop goes on, or the episode is over
\* by success, by the simulator or at the horizon.
NextStep ==
  /\ pc = "row" /\ step + 1 < Horizon
  /\ step' = step + 1
  /\ due' = DueAt(schedule, step', "before_action")
  /\ pc' = "before"
  /\ UNCHANGED <<environmentVars, episode, schedule, afterApplied, applied,
                 inputs, executions>>

EndEpisode ==
  /\ pc = "row"
  /\ pc' = "reset"
  /\ UNCHANGED <<environmentVars, episode, schedule, due, step, afterApplied,
                 applied, inputs, executions>>

Close ==
  /\ pc = "raised" \/ (pc = "reset" /\ episode = Episodes)
  /\ pc' = "closed"
  /\ UNCHANGED <<environmentVars, episode, schedule, due, step, afterApplied,
                 applied, inputs, executions>>

Closed == pc = "closed" /\ UNCHANGED vars

Next ==
  \/ NextEpisode \/ BeginEpisode \/ InjectFault \/ InjectRaises \/ Step \/ StepRaises
  \/ PendingHook \/ PendingHookRaises \/ NoPendingHook
  \/ NextStep \/ EndEpisode \/ Close \/ Closed

Spec == Init /\ [][Next]_vars

-----------------------------------------------------------------------------
(* What faults do and what is declared about them                          *)

Rows == IF pc \in {"row", "reset"} THEN 0..(Len(executions) - 1) ELSE {}

\* The camera does not show the present as the simulator rendered it.
CorruptedInput(n, c) == inputs[n + 1][c] # [captured |-> n, look |-> "clean"]

AlteredAction(s) == executions[s + 1] # [of |-> s, as |-> "requested"]

ObservationFaults == {i \in applied : schedule[i].kind \in ObservationKinds}
ActuatorFaults == {i \in applied : schedule[i].kind \in ActuatorKinds}

\* The inputs, or the control steps, a fault is declared to affect.
Window(i) ==
  DeclaredFirst(schedule[i]) ..
    (DeclaredFirst(schedule[i]) + schedule[i].duration - 1)

Overlapping(faults) ==
  \E i, j \in faults : i # j /\ Window(i) \cap Window(j) # {}

\* The pending hook is run for observation faults only.
AfterStepFaultsAreObservations ==
  \A i \in applied : schedule[i].phase = "after_step" => i \in ObservationFaults

\* However faults overlap, take over each other's cameras or find the hook
\* run twice, a camera is corrupted only if an applied fault that has begun
\* names it, and only inside the declared window of some observation fault.
CorruptionStaysInWindows ==
  \A s \in Rows, c \in Cameras :
    CorruptedInput(s + 1, c) =>
      /\ \E i \in ObservationFaults : s + 1 \in Window(i)
      /\ \E i \in ObservationFaults :
           c \in schedule[i].keys /\ DeclaredFirst(schedule[i]) <= s + 1

\* Observation faults that do not overlap corrupt exactly what they declare:
\* the cameras they name, at every input of their window, in either phase and
\* back to back, in a second episode as in the first.
InputsCorruptedAsDeclared ==
  ~Overlapping(ObservationFaults) /\ AfterStepFaultsAreObservations =>
    \A s \in Rows, c \in Cameras :
      CorruptedInput(s + 1, c) <=>
        \E i \in ObservationFaults : s + 1 \in Window(i) /\ c \in schedule[i].keys

\* A stale camera shows one clean frame during the whole fault, the one of
\* the last input before it, unless another fault was corrupting that one;
\* then it shows an earlier clean frame.
StaleFramePrecedesFault ==
  ~Overlapping(ObservationFaults) /\ AfterStepFaultsAreObservations =>
    \A i \in ObservationFaults, s \in Rows :
      LET first == DeclaredFirst(schedule[i])
      IN /\ schedule[i].kind = "observation_variant"
         /\ schedule[i].variant = "stale_frame"
         /\ s + 1 \in Window(i)
         => \A c \in schedule[i].keys :
              LET shown == inputs[s + 2][c]
              IN /\ shown.look = "clean"
                 /\ shown.captured < first
                 /\ (\A other \in Cameras : ~CorruptedInput(first - 1, other)) =>
                      shown.captured = first - 1

\* Actuator faults that do not overlap alter every action of their window and
\* no other, a variant due before the action and a dropout in either phase; an
\* intermittent fault lets every second action through, and a held action is
\* the one executed last before the window.
ActionsAlteredAsDeclared ==
  /\ ~Overlapping(ActuatorFaults)
  /\ \A i \in ActuatorFaults :
       schedule[i].kind = "actuator_variant" => schedule[i].phase = "before_action"
  => \A s \in Rows :
       /\ AlteredAction(s) <=>
            \E i \in ActuatorFaults :
              /\ s \in Window(i)
              /\ ~(/\ schedule[i].kind = "actuator_variant"
                   /\ schedule[i].variant = "intermittent"
                   /\ (s - schedule[i].step) % 2 = 1)
       /\ \A i \in ActuatorFaults :
            /\ schedule[i].kind = "actuator_variant"
            /\ schedule[i].variant = "hold_last"
            /\ s \in Window(i) /\ schedule[i].step > 0
            => executions[s + 1] = executions[schedule[i].step]

\* A fault that names a camera the observation lacks never passes unnoticed:
\* no row is completed inside its window unless every camera it names was
\* corrupted, wherever the check is made (injection, step or hook).
UnknownCameraFailsClosed ==
  ~Overlapping(ObservationFaults) /\ AfterStepFaultsAreObservations =>
    \A i \in ObservationFaults, s \in Rows :
      s + 1 \in Window(i) => schedule[i].keys \subseteq Cameras

-----------------------------------------------------------------------------
(* The collector's label of a row and the pilot's verdict on a fault       *)

\* _is_exposed, for a schedule made from a factor row (schedule_for_row): the
\* onset is the step of an actuator fault, and the step after that of an
\* observation fault.
OnsetStep(fault) ==
  IF fault.kind \in ObservationKinds THEN fault.step + 1 ELSE fault.step

IsExposedOneLonger(s, fault) ==  \* Mutant: the end of the window is included.
  LET reference == IF fault.kind \in ObservationKinds THEN s + 1 ELSE s
  IN /\ OnsetStep(fault) <= reference
     /\ reference <= OnsetStep(fault) + fault.duration

IsExposed(s, fault) ==
  LET reference == IF fault.kind \in ObservationKinds THEN s + 1 ELSE s
  IN /\ OnsetStep(fault) <= reference
     /\ reference < OnsetStep(fault) + fault.duration

\* Schedules of the monitor protocol: at most one fault, an actuator variant
\* before the action or an observation variant after the step.
FromFactorRow ==
  \/ schedule = <<>>
  \/ /\ Len(schedule) = 1
     /\ \/ /\ schedule[1].kind = "actuator_variant"
           /\ schedule[1].phase = "before_action"
        \/ /\ schedule[1].kind = "observation_variant"
           /\ schedule[1].phase = "after_step"

\* The labels are made from the plan alone, the corruption by the adapter's
\* countdowns.  A row is labelled exposed exactly when its observation or its
\* action is corrupted; only the actions an intermittent fault lets through
\* are labelled exposed and are not altered.
ExposureMatchesCorruption ==
  FromFactorRow =>
    \A s \in Rows :
      LET corrupted == AlteredAction(s) \/ \E c \in Cameras : CorruptedInput(s + 1, c)
          exposed == \E i \in DOMAIN schedule : IsExposed(s, schedule[i])
      IN /\ corrupted => exposed
         /\ exposed => \/ corrupted
                       \/ schedule[1].variant = "intermittent"

PilotExposedEarly(fault) ==  \* Mutant: >= instead of >.
  Len(executions) >= DeclaredFirst(fault)

\* run_identifiability_pilot.py: event["exposed"], set after the loop.
PilotExposed(fault) == Len(executions) > DeclaredFirst(fault)

\* The pilot calls a fault exposed exactly when it reached the controlled
\* system: the policy acted on a corrupted input, or an action was altered.
PilotExposureReachesPolicy ==
  pc = "reset" /\ FromFactorRow =>
    \A i \in applied :
      PilotExposed(schedule[i]) <=>
        \E s \in Rows : AlteredAction(s) \/ \E c \in Cameras : CorruptedInput(s, c)

-----------------------------------------------------------------------------
(* What the source says and the code does not do                           *)

\* "applies the newly injected fault to that returned observation and
\* consumes one duration step" (apply_pending_observation_fault): a single
\* observation fault lasts its declared duration.
ObservationFaultLastsItsDuration ==
  Cardinality(ObservationFaults) = 1 =>
    \A i \in ObservationFaults, s \in Rows :
      s + 1 \in Window(i) => \A c \in schedule[i].keys : CorruptedInput(s + 1, c)
=============================================================================
