---------------------------- MODULE FaultProofs ----------------------------
(***************************************************************************)
(* What faults do to inputs and executed actions, for any schedules of any *)
(* faults, cameras, durations, horizon and number of episodes: the type,   *)
(* the windows that corruption stays in however faults overlap, and the    *)
(* actions that actuator faults alter.                                     *)
(***************************************************************************)
EXTENDS FaultedEpisode, NaturalsInduction, WellFoundedInduction, TLAPS

Looping == {"before", "after", "row"}

\* How far the episode has come.
LengthsHold ==
  /\ pc = "begin" => /\ inputs = <<>> /\ executions = <<>>
                     /\ step = 0 /\ applied = {} /\ ~afterApplied
  /\ pc = "before" => Len(inputs) = step + 1 /\ Len(executions) = step
  /\ pc \in {"after", "row"} => Len(inputs) = step + 2 /\ Len(executions) = step + 1
  /\ pc = "reset" => Len(inputs) = Len(executions) + 1 \/ executions = <<>>
  /\ pc = "after" => preStepFrames # NoImages

\* A fault is injected at its step, before the action or after the step.
AppliedAt(place, atStep, fault) ==
  /\ Applies(fault) /\ fault.duration > 0 /\ fault.step <= atStep
  /\ fault.phase = "after_step" /\ place = "before" => fault.step < atStep

InjectionsHold ==
  /\ pc = "before" => due \subseteq DueAt(schedule, step, "before_action")
  /\ pc = "after" => due \subseteq DueAt(schedule, step, "after_step")
  /\ pc \in {"before", "after"} => due \cap applied = {}
  /\ pc \in Looping => \A i \in applied : AppliedAt(pc, step, schedule[i])

FaultTypeInv ==
  /\ TypeOK /\ LengthsHold /\ InjectionsHold
  /\ occlusionSteps > 0 => occlusionVariant \in ObservationVariants

-----------------------------------------------------------------------------
LEMMA FirstDueIsDue ==
  ASSUME schedule \in Seq(Faults), due \subseteq DOMAIN schedule, due # {}
  PROVE  FirstDue \in due /\ schedule[FirstDue] \in Faults
  <1>1. due \subseteq Nat
    OBVIOUS
  <1>2. \E i \in due : \A j \in due : i <= j
    <2>1. IsWellFoundedOn(OpToRel(<, Nat), Nat)
      BY NatLessThanWellFounded
    <2>2. PICK i \in due : \A j \in due : <<j, i>> \notin OpToRel(<, Nat)
      BY <1>1, <2>1, WFMin
    <2>3. \A j \in due : ~(j < i)
      BY <1>1, <2>2 DEF OpToRel
    <2> QED
      BY <1>1, <2>3
  <1>3. FirstDue \in due
    BY <1>2 DEF FirstDue
  <1> QED
    BY <1>3

LEMMA FaultFields ==
  ASSUME NEW f \in Faults
  PROVE  /\ f.step \in 0..(Horizon - 1) /\ f.step \in Nat /\ f.duration \in Int
         /\ f.phase \in Phases /\ f.keys \subseteq CameraKeys
         /\ DeclaredFirst(f) \in {f.step, f.step + 1} /\ DeclaredFirst(f) \in Nat
  <1>1. /\ f.step \in 0..(Horizon - 1) /\ f.duration \in Int
        /\ f.phase \in Phases /\ f.keys \subseteq CameraKeys
    BY DurationsAssumption DEF Faults
  <1>2. f.step \in Nat
    BY <1>1, HorizonAssumption
  <1>3. DeclaredFirst(f) \in {f.step, f.step + 1}
    BY DEF DeclaredFirst
  <1> QED
    BY <1>1, <1>2, <1>3

LEMMA RawIsAnImage ==
  ASSUME NEW n \in 0..Horizon
  PROVE  Raw(n) \in Images
  BY DEF Raw, Images, Frames

LEMMA TransformedType ==
  ASSUME occlusionSteps > 0 => occlusionVariant \in ObservationVariants,
         NEW observation \in Images, NEW cache \in Images
  PROVE  Transformed(observation, cache) \in Images
  <1>1. ASSUME NEW c \in Cameras, occlusionSteps > 0
        PROVE  Corrupted(observation[c], cache[c]) \in Frames
    <2>1. observation[c] \in Frames /\ cache[c] \in Frames
      BY DEF Images
    <2>2. [observation[c] EXCEPT !.look = occlusionVariant] \in Frames
      BY <1>1, <2>1 DEF Frames
    <2> QED
      BY <2>1, <2>2 DEF Corrupted
  <1>2. ASSUME NEW c \in Cameras
        PROVE  observation[c] \in Frames
    BY DEF Images
  <1> QED
    BY <1>1, <1>2 DEF Transformed, Images

LEMMA PendingCacheType ==
  ASSUME EnvironmentTypeOK
  PROVE  PendingCache \in Images
  BY DEF EnvironmentTypeOK, PendingCache

LEMMA ExecuteType ==
  ASSUME EnvironmentTypeOK, NEW request \in 0..(Horizon - 1), Execute(request)
  PROVE  /\ dropoutSteps' \in Nat /\ actuatorSteps' \in Nat /\ actuatorElapsed' \in Nat
         /\ actuatorVariant' \in ActuatorVariants \cup {"none"}
         /\ lastExecuted' \in Executions
  <1>1. ASSUME NEW as \in {"requested", "zeroed", "partial", "noisy"}
        PROVE  [of |-> request, as |-> as] \in Executions
    BY DEF Executions
  <1>2. CASE dropoutSteps > 0 /\ lastExecuted' = [of |-> request, as |-> "zeroed"]
    BY <1>1, <1>2 DEF EnvironmentTypeOK, Execute
  <1>3. CASE dropoutSteps = 0 /\ actuatorSteps > 0 /\ lastExecuted' = AppliedVariant(request)
    <2>1. AppliedVariant(request) \in Executions
      BY <1>1 DEF AppliedVariant, EnvironmentTypeOK
    <2> QED
      BY <1>3, <2>1 DEF EnvironmentTypeOK, Execute
  <1>4. CASE dropoutSteps = 0 /\ actuatorSteps = 0 /\ lastExecuted' = [of |-> request, as |-> "requested"]
    BY <1>1, <1>4 DEF EnvironmentTypeOK, Execute
  <1> QED
    BY <1>2, <1>3, <1>4 DEF Execute

LEMMA ConsumeType ==
  ASSUME EnvironmentTypeOK, occlusionSteps > 0, occlusionVariant \in ObservationVariants,
         ConsumeOcclusion
  PROVE  /\ occlusionSteps' \in Nat /\ occlusionSteps' = occlusionSteps - 1
         /\ occlusionVariant' \in ObservationVariants \cup {"none"}
         /\ occlusionKeys' \subseteq CameraKeys
         /\ occlusionSteps' > 0 => occlusionVariant' = occlusionVariant /\ occlusionKeys' = occlusionKeys
  BY DEF EnvironmentTypeOK, ConsumeOcclusion

LEMMA InjectType ==
  ASSUME EnvironmentTypeOK, occlusionSteps > 0 => occlusionVariant \in ObservationVariants,
         NEW f \in Faults, Inject(f)
  PROVE  /\ EnvironmentTypeOK'
         /\ occlusionSteps' > 0 => occlusionVariant' \in ObservationVariants
         /\ Applies(f) => f.duration > 0
         /\ UNCHANGED <<frameVars, lastExecuted>>
  <1>1. f.duration \in Int /\ f.keys \subseteq CameraKeys
    BY FaultFields
  <1>2. Applies(f) => f.duration > 0
    BY DEF Inject, ValidFault, Applies
  <1>3. CASE InjectDropout(f)
    BY <1>1, <1>2, <1>3
    DEF InjectDropout, EnvironmentTypeOK, Larger, Applies, ActuatorKinds, occlusionVars, frameVars
  <1>4. CASE InjectActuatorVariant(f)
    <2>1. f.variant \in ActuatorVariants
      BY <1>4 DEF Inject, ValidFault, InjectActuatorVariant
    <2> QED
      BY <1>1, <1>2, <1>4, <2>1
      DEF InjectActuatorVariant, EnvironmentTypeOK, Larger, Applies, ActuatorKinds, occlusionVars, frameVars
  <1>5. CASE InjectObservationFault(f)
    <2>1. IF f.kind = "observation_occlusion" THEN TRUE ELSE f.variant \in ObservationVariants
      BY <1>5 DEF Inject, ValidFault, InjectObservationFault, ObservationKinds
    <2>2. "all_zero" \in ObservationVariants
      BY DEF ObservationVariants
    <2> QED
      BY <1>1, <1>2, <1>5, <2>1, <2>2
      DEF InjectObservationFault, EnvironmentTypeOK, Larger, Applies, actuatorVars, frameVars
  <1>6. CASE UNCHANGED environmentVars
    BY <1>2, <1>6 DEF EnvironmentTypeOK, environmentVars, actuatorVars, occlusionVars, frameVars
  <1> QED
    BY <1>3, <1>4, <1>5, <1>6 DEF Inject
-----------------------------------------------------------------------------
(* Every step keeps the type.                                              *)

LEMMA FaultInit ==
  ASSUME Init
  PROVE  FaultTypeInv
  <1>1. EnvironmentTypeOK /\ occlusionSteps = 0
    BY RawIsAnImage, HorizonAssumption DEF Init, EnvironmentInit, EnvironmentTypeOK
  <1>2. TypeOK
    <2>1. 0 \in 0..(Horizon - 1) /\ 0 \in 0..Episodes
      BY HorizonAssumption, EpisodesAssumption
    <2>2. <<>> \in Seq(Faults) /\ <<>> \in Seq(Images) /\ <<>> \in Seq(Executions)
      OBVIOUS
    <2> QED
      BY <1>1, <2>1, <2>2 DEF Init, TypeOK
  <1> QED
    BY <1>1, <1>2 DEF Init, FaultTypeInv, LengthsHold, InjectionsHold, Looping

LEMMA NextEpisodeType ==
  ASSUME FaultTypeInv, NextEpisode
  PROVE  FaultTypeInv'
  <1>1. TypeOK'
    <2>1. 0 \in 0..(Horizon - 1) /\ episode' \in 0..Episodes
      BY HorizonAssumption, EpisodesAssumption DEF FaultTypeInv, TypeOK, NextEpisode
    <2>2. <<>> \in Seq(Faults) /\ <<>> \in Seq(Images) /\ <<>> \in Seq(Executions)
      OBVIOUS
    <2>3. EnvironmentTypeOK'
      BY DEF FaultTypeInv, TypeOK, EnvironmentTypeOK, NextEpisode, environmentVars, actuatorVars,
             occlusionVars, frameVars
    <2> QED
      BY <2>1, <2>2, <2>3 DEF NextEpisode, TypeOK
  <1> QED
    BY <1>1 DEF FaultTypeInv, NextEpisode, LengthsHold, InjectionsHold, Looping,
                environmentVars, occlusionVars

LEMMA BeginEpisodeType ==
  ASSUME FaultTypeInv, BeginEpisode
  PROVE  FaultTypeInv'
  <1>1. EnvironmentTypeOK' /\ occlusionSteps' = 0
    BY RawIsAnImage, HorizonAssumption DEF BeginEpisode, EnvironmentReset, EnvironmentTypeOK
  <1>2. schedule' \in Seq(Faults)
    BY SchedulesAssumption DEF BeginEpisode
  <1>3. inputs' \in Seq(Images) /\ Len(inputs') = 1
    BY RawIsAnImage, HorizonAssumption DEF BeginEpisode
  <1>4. due' \subseteq DOMAIN schedule' /\ due' \subseteq DueAt(schedule', 0, "before_action")
    BY DEF BeginEpisode, DueAt
  <1>5. /\ executions = <<>> /\ step = 0 /\ applied = {} /\ ~afterApplied
        /\ UNCHANGED <<episode, step, afterApplied, applied, executions>> /\ pc' = "before"
    BY DEF FaultTypeInv, LengthsHold, BeginEpisode
  <1>6. TypeOK'
    BY <1>1, <1>2, <1>3, <1>4, <1>5 DEF FaultTypeInv, TypeOK
  <1> QED
    BY <1>1, <1>3, <1>4, <1>5, <1>6 DEF FaultTypeInv, LengthsHold, InjectionsHold, Looping

LEMMA InjectFaultType ==
  ASSUME FaultTypeInv, InjectFault
  PROVE  FaultTypeInv'
  <1> DEFINE fault == schedule[FirstDue]
  <1>1. FirstDue \in due /\ fault \in Faults /\ due \subseteq DOMAIN schedule
    BY FirstDueIsDue DEF FaultTypeInv, TypeOK, InjectFault
  <1>2. /\ pc \in {"before", "after"} /\ Inject(fault) /\ due' = due \ {FirstDue}
        /\ UNCHANGED <<pc, episode, schedule, step, inputs, executions>>
        /\ IF Applies(fault)
           THEN applied' = applied \cup {FirstDue} /\ afterApplied' = (afterApplied \/ pc = "after")
           ELSE UNCHANGED <<applied, afterApplied>>
    BY DEF InjectFault
  <1>3. /\ EnvironmentTypeOK' /\ preStepFrames' = preStepFrames
        /\ occlusionSteps' > 0 => occlusionVariant' \in ObservationVariants
        /\ Applies(fault) => fault.duration > 0
    BY <1>1, <1>2, InjectType DEF FaultTypeInv, TypeOK, frameVars
  <1>4. applied' \subseteq DOMAIN schedule /\ afterApplied' \in BOOLEAN
    BY <1>1, <1>2 DEF FaultTypeInv, TypeOK
  <1>5. TypeOK'
    BY <1>1, <1>2, <1>3, <1>4 DEF FaultTypeInv, TypeOK
  <1>6. LengthsHold'
    BY <1>2, <1>3 DEF FaultTypeInv, LengthsHold
  <1>7. ASSUME Applies(fault)
        PROVE  AppliedAt(pc, step, fault)
    <2>1. /\ fault.step = step
          /\ pc = "before" => fault.phase = "before_action"
      BY <1>1, <1>2 DEF FaultTypeInv, InjectionsHold, DueAt
    <2>2. step \in Nat
      BY HorizonAssumption DEF FaultTypeInv, TypeOK
    <2> QED
      BY <1>3, <1>7, <2>1, <2>2 DEF AppliedAt
  <1>8. InjectionsHold'
    <2> HIDE DEF fault
    <2>1. \A i \in applied' : i \in applied \/ (Applies(fault) /\ i = FirstDue)
      BY <1>2
    <2>2. pc \in Looping => \A i \in applied : AppliedAt(pc, step, schedule[i])
      BY DEF FaultTypeInv, InjectionsHold
    <2>3. pc \in Looping => \A i \in applied' : AppliedAt(pc, step, schedule[i])
      BY <1>7, <2>1, <2>2 DEF fault
    <2> QED
      BY <1>2, <2>3 DEF FaultTypeInv, InjectionsHold
  <1> QED
    BY <1>3, <1>5, <1>6, <1>8 DEF FaultTypeInv

LEMMA StepType ==
  ASSUME FaultTypeInv, Step
  PROVE  FaultTypeInv'
  <1>1. /\ EnvironmentTypeOK /\ step \in 0..(Horizon - 1) /\ step \in Nat /\ step + 1 \in 0..Horizon
        /\ pc = "before" /\ Len(inputs) = step + 1 /\ Len(executions) = step
    BY HorizonAssumption DEF FaultTypeInv, TypeOK, LengthsHold, Step
  <1>2. /\ Execute(step) /\ preStepFrames' = lastFrames
        /\ IF occlusionSteps > 0
           THEN ConsumeOcclusion /\ UNCHANGED lastFrames
           ELSE lastFrames' = Raw(step + 1) /\ UNCHANGED occlusionVars
    BY DEF Step, EnvironmentStep
  <1>3. Raw(step + 1) \in Images
    BY <1>1, RawIsAnImage
  <1>4. /\ dropoutSteps' \in Nat /\ actuatorSteps' \in Nat /\ actuatorElapsed' \in Nat
        /\ actuatorVariant' \in ActuatorVariants \cup {"none"}
        /\ lastExecuted' \in Executions
    BY <1>1, <1>2, ExecuteType
  <1>5. /\ occlusionSteps' \in Nat /\ occlusionKeys' \subseteq CameraKeys
        /\ occlusionVariant' \in ObservationVariants \cup {"none"}
        /\ occlusionSteps' > 0 => occlusionVariant' \in ObservationVariants
        /\ lastFrames' \in Images
    <2>1. CASE occlusionSteps > 0
      BY <1>1, <1>2, <2>1, ConsumeType DEF FaultTypeInv, EnvironmentTypeOK
    <2>2. CASE ~(occlusionSteps > 0)
      BY <1>1, <1>2, <1>3, <2>2 DEF FaultTypeInv, EnvironmentTypeOK, occlusionVars
    <2> QED
      BY <2>1, <2>2
  <1>6. EnvironmentTypeOK' /\ preStepFrames' # NoImages
    <2>1. lastFrames \in Images /\ lastFrames # NoImages
      <3>1. lastFrames \in Images /\ DOMAIN lastFrames # {}
        BY <1>1, CamerasAssumption DEF EnvironmentTypeOK, Images
      <3> QED
        BY <3>1 DEF NoImages
    <2> QED
      BY <1>2, <1>4, <1>5, <2>1 DEF EnvironmentTypeOK
  <1>7. Transformed(Raw(step + 1), lastFrames) \in Images
    BY <1>1, <1>3, TransformedType DEF FaultTypeInv, EnvironmentTypeOK
  <1>8. /\ inputs' \in Seq(Images) /\ Len(inputs') = step + 2
        /\ executions' \in Seq(Executions) /\ Len(executions') = step + 1
    <2>1. inputs \in Seq(Images) /\ executions \in Seq(Executions)
      BY DEF FaultTypeInv, TypeOK
    <2>2. /\ inputs' = Append(inputs, Transformed(Raw(step + 1), lastFrames))
          /\ executions' = Append(executions, lastExecuted')
      BY DEF Step
    <2> QED
      BY <1>1, <1>4, <1>7, <2>1, <2>2
  <1>9. /\ due' = DueAt(schedule, step, "after_step") /\ due' \subseteq DOMAIN schedule
        /\ pc' = "after" /\ afterApplied' = FALSE
        /\ UNCHANGED <<episode, schedule, step, applied>>
    BY DEF Step, DueAt
  <1>10. TypeOK'
    BY <1>1, <1>6, <1>8, <1>9 DEF FaultTypeInv, TypeOK
  <1>11. InjectionsHold'
    <2>1. \A i \in applied : AppliedAt("before", step, schedule[i])
      BY <1>1 DEF FaultTypeInv, InjectionsHold, Looping
    <2>2. due' \cap applied = {}
      <3>1. \A i \in due' : schedule[i].step = step /\ schedule[i].phase = "after_step"
        BY <1>9 DEF DueAt
      <3>2. ~(step < step)
        BY <1>1
      <3> QED
        BY <2>1, <3>1, <3>2 DEF AppliedAt
    <2>3. \A i \in applied : AppliedAt("after", step, schedule[i])
      BY <2>1 DEF AppliedAt
    <2> QED
      BY <1>9, <2>2, <2>3 DEF InjectionsHold
  <1> QED
    BY <1>5, <1>6, <1>8, <1>9, <1>10, <1>11 DEF FaultTypeInv, LengthsHold

LEMMA PendingHookType ==
  ASSUME FaultTypeInv, PendingHook
  PROVE  FaultTypeInv'
  <1>1. /\ EnvironmentTypeOK /\ step \in Nat /\ pc = "after"
        /\ inputs \in Seq(Images) /\ Len(inputs) = step + 2 /\ Len(executions) = step + 1
    BY HorizonAssumption DEF FaultTypeInv, TypeOK, LengthsHold, PendingHook
  <1>2. /\ inputs[step + 2] \in Images /\ PendingCache \in Images
    BY <1>1, PendingCacheType
  <1>3. /\ IF occlusionSteps > 0
           THEN /\ ConsumeOcclusion
                /\ lastFrames' = IF occlusionSteps' = 0 THEN inputs[step + 2] ELSE PendingCache
           ELSE UNCHANGED <<occlusionVars, lastFrames>>
        /\ UNCHANGED <<actuatorVars, preStepFrames>>
    BY DEF PendingHook, ApplyPendingObservationFault
  <1>4. /\ occlusionSteps' \in Nat /\ occlusionKeys' \subseteq CameraKeys
        /\ occlusionVariant' \in ObservationVariants \cup {"none"}
        /\ occlusionSteps' > 0 => occlusionVariant' \in ObservationVariants
        /\ lastFrames' \in Images
    <2>1. CASE occlusionSteps > 0
      BY <1>1, <1>2, <1>3, <2>1, ConsumeType DEF FaultTypeInv
    <2>2. CASE ~(occlusionSteps > 0)
      BY <1>1, <1>3, <2>2 DEF FaultTypeInv, EnvironmentTypeOK, occlusionVars
    <2> QED
      BY <2>1, <2>2
  <1>5. EnvironmentTypeOK'
    BY <1>1, <1>3, <1>4 DEF EnvironmentTypeOK, actuatorVars
  <1>6. Transformed(inputs[step + 2], PendingCache) \in Images
    BY <1>2, TransformedType DEF FaultTypeInv
  <1>7. inputs' \in Seq(Images) /\ Len(inputs') = step + 2
    <2>1. inputs' = [inputs EXCEPT ![step + 2] = Transformed(inputs[step + 2], PendingCache)]
      BY DEF PendingHook
    <2> HIDE DEF Transformed
    <2> QED
      BY <1>1, <1>6, <2>1
  <1>8. pc' = "row" /\ UNCHANGED <<episode, schedule, due, step, afterApplied, applied, executions>>
    BY DEF PendingHook
  <1>9. TypeOK'
    BY <1>5, <1>7, <1>8 DEF FaultTypeInv, TypeOK
  <1>10. InjectionsHold'
    BY <1>1, <1>8 DEF FaultTypeInv, InjectionsHold, Looping, AppliedAt
  <1> QED
    BY <1>1, <1>4, <1>7, <1>8, <1>9, <1>10 DEF FaultTypeInv, LengthsHold

LEMMA NextStepType ==
  ASSUME FaultTypeInv, NextStep
  PROVE  FaultTypeInv'
  <1>1. /\ pc = "row" /\ step + 1 < Horizon /\ step' = step + 1 /\ pc' = "before"
        /\ due' = DueAt(schedule, step + 1, "before_action")
        /\ UNCHANGED <<environmentVars, episode, schedule, afterApplied, applied, inputs, executions>>
    BY DEF NextStep
  <1>2. step \in Nat /\ step' \in 0..(Horizon - 1) /\ due' \subseteq DOMAIN schedule
    BY <1>1, HorizonAssumption DEF FaultTypeInv, TypeOK, DueAt
  <1>3. TypeOK'
    BY <1>1, <1>2 DEF FaultTypeInv, TypeOK, EnvironmentTypeOK, environmentVars, actuatorVars,
                      occlusionVars, frameVars
  <1>4. LengthsHold'
    BY <1>1, <1>2 DEF FaultTypeInv, LengthsHold
  <1>5. InjectionsHold'
    <2>1. \A i \in applied : AppliedAt("row", step, schedule[i]) /\ schedule[i].step \in Nat
      <3>1. \A i \in applied : schedule[i] \in Faults
        BY DEF FaultTypeInv, TypeOK
      <3> QED
        BY <1>1, <3>1, FaultFields DEF FaultTypeInv, InjectionsHold, Looping
    <2>2. \A i \in applied : AppliedAt("before", step + 1, schedule[i])
      BY <1>2, <2>1 DEF AppliedAt
    <2>3. due' \cap applied = {}
      <3>1. \A i \in due' : schedule[i].step = step + 1
        BY <1>1 DEF DueAt
      <3>2. ~(step + 1 <= step)
        BY <1>2
      <3> QED
        BY <2>1, <3>1, <3>2 DEF AppliedAt
    <2> QED
      BY <1>1, <2>2, <2>3 DEF InjectionsHold
  <1> QED
    BY <1>1, <1>3, <1>4, <1>5 DEF FaultTypeInv, environmentVars, occlusionVars

\* The loop goes on or ends, and nothing of it changes.
LEMMA MoveOnType ==
  ASSUME FaultTypeInv,
         NoPendingHook \/ EndEpisode \/ Close \/ Closed \/ InjectRaises
  PROVE  FaultTypeInv'
  <1>1. /\ UNCHANGED <<environmentVars, episode, schedule, due, step, afterApplied, applied,
                       inputs, executions>>
        /\ \/ pc = "after" /\ pc' = "row"
           \/ pc = "row" /\ pc' = "reset"
           \/ pc' \in {"raised", "closed"}
    BY DEF NoPendingHook, EndEpisode, Close, Closed, InjectRaises, vars, loopVars
  <1>2. TypeOK'
    BY <1>1 DEF FaultTypeInv, TypeOK, EnvironmentTypeOK, environmentVars, actuatorVars,
                occlusionVars, frameVars
  <1>3. LengthsHold'
    BY <1>1, HorizonAssumption DEF FaultTypeInv, TypeOK, LengthsHold
  <1>4. InjectionsHold'
    BY <1>1 DEF FaultTypeInv, InjectionsHold, Looping, AppliedAt
  <1> QED
    BY <1>1, <1>2, <1>3, <1>4 DEF FaultTypeInv, environmentVars, occlusionVars

LEMMA RaisesType ==
  ASSUME FaultTypeInv, StepRaises \/ PendingHookRaises
  PROVE  FaultTypeInv'
  <1>1. /\ pc' = "raised" /\ UNCHANGED occlusionVars
        /\ UNCHANGED <<episode, schedule, due, step, afterApplied, applied, inputs, executions>>
    BY DEF StepRaises, EnvironmentStepRaises, PendingHookRaises
  <1>2. EnvironmentTypeOK'
    <2>1. CASE StepRaises
      <3>1. Execute(step) /\ preStepFrames' = lastFrames /\ UNCHANGED <<occlusionVars, lastFrames>>
        BY <2>1 DEF StepRaises, EnvironmentStepRaises
      <3> QED
        BY <3>1, ExecuteType DEF FaultTypeInv, TypeOK, EnvironmentTypeOK, occlusionVars
    <2>2. CASE PendingHookRaises
      BY <2>2, PendingCacheType
      DEF PendingHookRaises, FaultTypeInv, TypeOK, EnvironmentTypeOK, actuatorVars, occlusionVars
    <2> QED
      BY <2>1, <2>2
  <1>3. TypeOK'
    BY <1>1, <1>2 DEF FaultTypeInv, TypeOK
  <1> QED
    BY <1>1, <1>3 DEF FaultTypeInv, LengthsHold, InjectionsHold, Looping, occlusionVars

LEMMA FaultTypeStep ==
  ASSUME FaultTypeInv, [Next]_vars
  PROVE  FaultTypeInv'
  <1>1. CASE UNCHANGED vars
    BY <1>1 DEF vars, loopVars, environmentVars, actuatorVars, occlusionVars, frameVars,
                FaultTypeInv, TypeOK, EnvironmentTypeOK, LengthsHold, InjectionsHold
  <1>2. CASE NoPendingHook \/ EndEpisode \/ Close \/ Closed \/ InjectRaises
    BY <1>2, MoveOnType
  <1>3. CASE StepRaises \/ PendingHookRaises
    BY <1>3, RaisesType
  <1> QED
    BY <1>1, <1>2, <1>3, NextEpisodeType, BeginEpisodeType, InjectFaultType, StepType,
       PendingHookType, NextStepType DEF Next

\* The loop and the environment are well typed, for every schedule.
THEOREM FaultTypeCorrect == Spec => []TypeOK
  <1>1. FaultTypeInv => TypeOK
    BY DEF FaultTypeInv
  <1> QED
    BY <1>1, FaultInit, FaultTypeStep, PTL DEF Spec

-----------------------------------------------------------------------------
(* Corruption stays inside the declared windows.                           *)

\* The number of the input that is transformed next; the hook transforms the
\* last one again.
NextInput == IF pc = "after" /\ afterApplied THEN Len(inputs) - 1 ELSE Len(inputs)

First(i) == DeclaredFirst(schedule[i])
End(i) == First(i) + schedule[i].duration

Covered(n, c) ==
  /\ \E i \in ObservationFaults : n \in Window(i)
  /\ \E i \in ObservationFaults : c \in schedule[i].keys /\ First(i) <= n

\* The countdown ends no later than the window of some fault, and the cameras
\* are those some fault names.
CountdownHolds ==
  occlusionSteps > 0 =>
    /\ \E i \in ObservationFaults : NextInput + occlusionSteps <= End(i)
    /\ \E i \in ObservationFaults : occlusionKeys = schedule[i].keys

InputsCovered ==
  \A n \in 1..(Len(inputs) - 1), c \in Cameras : CorruptedInput(n, c) => Covered(n, c)

StayInv ==
  /\ FaultTypeInv
  /\ pc \in Looping => CountdownHolds
  /\ InputsCovered

LEMMA WindowFacts ==
  ASSUME FaultTypeInv, NEW i \in applied
  PROVE  /\ schedule[i] \in Faults /\ First(i) \in Nat /\ End(i) \in Int
         /\ First(i) \in {schedule[i].step, schedule[i].step + 1}
         /\ Window(i) = First(i)..(End(i) - 1)
         /\ i \in ObservationFaults => First(i) = schedule[i].step + 1
         /\ pc \in Looping => First(i) <= step + 1
  <1>1. schedule[i] \in Faults
    BY DEF FaultTypeInv, TypeOK
  <1>2. /\ First(i) \in Nat /\ schedule[i].duration \in Int /\ schedule[i].step \in Nat
        /\ First(i) \in {schedule[i].step, schedule[i].step + 1}
    BY <1>1, FaultFields DEF First
  <1>3. Window(i) = First(i)..(End(i) - 1)
    <2>1. Window(i) = First(i)..(First(i) + schedule[i].duration - 1)
      BY DEF Window, First
    <2>2. First(i) + schedule[i].duration - 1 = End(i) - 1
      BY <1>2 DEF End
    <2> QED
      BY <2>1, <2>2
  <1>4. i \in ObservationFaults => First(i) = schedule[i].step + 1
    BY DEF ObservationFaults, First, DeclaredFirst, ObservationKinds
  <1>5. pc \in Looping => schedule[i].step <= step /\ step \in Nat
    BY HorizonAssumption DEF FaultTypeInv, TypeOK, InjectionsHold, AppliedAt
  <1>6. pc \in Looping => First(i) <= step + 1
    BY <1>2, <1>5
  <1> QED
    BY <1>1, <1>2, <1>3, <1>4, <1>6 DEF End

\* Where the loop is says how many inputs there are.
LEMMA InputCount ==
  ASSUME FaultTypeInv
  PROVE  /\ inputs \in Seq(Images) /\ Len(inputs) \in Nat /\ step \in Nat
         /\ NextInput \in Int /\ occlusionSteps \in Nat
         /\ pc = "before" => NextInput = step + 1 /\ Len(inputs) = step + 1
         /\ pc \in {"after", "row"} => Len(inputs) = step + 2
         /\ pc = "row" => NextInput = step + 2
         /\ pc = "after" /\ afterApplied => NextInput = step + 1
         /\ pc = "after" /\ ~afterApplied => NextInput = step + 2
  BY HorizonAssumption DEF FaultTypeInv, TypeOK, EnvironmentTypeOK, LengthsHold, NextInput

LEMMA InputCountNext ==
  ASSUME FaultTypeInv'
  PROVE  /\ inputs' \in Seq(Images) /\ Len(inputs') \in Nat /\ step' \in Nat
         /\ NextInput' \in Int /\ occlusionSteps' \in Nat
         /\ pc' = "before" => NextInput' = step' + 1 /\ Len(inputs') = step' + 1
         /\ pc' \in {"after", "row"} => Len(inputs') = step' + 2
         /\ pc' = "row" => NextInput' = step' + 2
         /\ pc' = "after" /\ afterApplied' => NextInput' = step' + 1
         /\ pc' = "after" /\ ~afterApplied' => NextInput' = step' + 2
  <1>1. inputs' \in Seq(Images) /\ step' \in Nat /\ occlusionSteps' \in Nat
    BY HorizonAssumption DEF FaultTypeInv, TypeOK, EnvironmentTypeOK
  <1>2. Len(inputs') \in Nat
    BY <1>1
  <1>3. /\ pc' = "before" => Len(inputs') = step' + 1
        /\ pc' \in {"after", "row"} => Len(inputs') = step' + 2
    BY DEF FaultTypeInv, LengthsHold
  <1>4. /\ pc' = "after" /\ afterApplied' => NextInput' = Len(inputs') - 1
        /\ ~(pc' = "after" /\ afterApplied') => NextInput' = Len(inputs')
    BY DEF NextInput
  <1>5. NextInput' \in Int
    BY <1>2, <1>4
  <1>6. pc' = "after" /\ afterApplied' => NextInput' = step' + 1
    BY <1>1, <1>3, <1>4
  <1> QED
    BY <1>1, <1>2, <1>3, <1>4, <1>5, <1>6


LEMMA ActiveFaultCovers ==
  ASSUME FaultTypeInv, CountdownHolds, pc \in Looping, occlusionSteps > 0,
         NextInput = step + 1, NEW c \in occlusionKeys
  PROVE  Covered(step + 1, c)
  <1>1. PICK i \in ObservationFaults : NextInput + occlusionSteps <= End(i)
    BY DEF CountdownHolds
  <1>2. PICK j \in ObservationFaults : occlusionKeys = schedule[j].keys
    BY DEF CountdownHolds
  <1>3. i \in applied /\ j \in applied
    BY DEF ObservationFaults
  <1>4. step + 1 \in Window(i)
    BY <1>1, <1>3, WindowFacts, InputCount
  <1>5. c \in schedule[j].keys /\ First(j) <= step + 1
    BY <1>2, <1>3, WindowFacts
  <1> QED
    BY <1>4, <1>5 DEF Covered

LEMMA CoveredIsKept ==
  ASSUME NEW n, NEW c, Covered(n, c), applied \subseteq applied', schedule' = schedule
  PROVE  Covered(n, c)'
  <1>1. ObservationFaults \subseteq ObservationFaults'
    BY DEF ObservationFaults
  <1>2. \A i : Window(i)' = Window(i) /\ First(i)' = First(i)
    BY DEF Window, First
  <1> QED
    BY <1>1, <1>2 DEF Covered

LEMMA StayInject ==
  ASSUME StayInv, InjectFault
  PROVE  StayInv'
  <1>0. PICK d : d = FirstDue
    OBVIOUS
  <1> DEFINE fault == schedule[d]
  <1>1. FaultTypeInv /\ FaultTypeInv'
    BY InjectFaultType DEF StayInv
  <1>2. d \in due /\ fault \in Faults /\ fault.step = step
    <2>1. d \in due /\ fault \in Faults
      BY <1>0, <1>1, FirstDueIsDue DEF FaultTypeInv, TypeOK, InjectFault
    <2> QED
      BY <1>1, <2>1 DEF FaultTypeInv, InjectionsHold, InjectFault, DueAt
  <1>3. /\ pc \in {"before", "after"} /\ pc \in Looping /\ Inject(fault)
        /\ UNCHANGED <<pc, episode, schedule, step, inputs, executions>>
        /\ IF Applies(fault)
           THEN applied' = applied \cup {d} /\ afterApplied' = (afterApplied \/ pc = "after")
           ELSE UNCHANGED <<applied, afterApplied>>
    BY <1>0 DEF InjectFault, Looping
  <1>4. applied \subseteq applied' /\ ObservationFaults \subseteq ObservationFaults'
    BY <1>3 DEF ObservationFaults
  <1>5. \A i : Window(i)' = Window(i) /\ First(i)' = First(i) /\ End(i)' = End(i)
    BY <1>3 DEF Window, First, End
  <1>6. NextInput' <= NextInput /\ NextInput' \in Int /\ NextInput \in Int
    <2>1. Len(inputs) \in Nat /\ NextInput' \in Int /\ NextInput \in Int
      BY <1>1, InputCount, InputCountNext
    <2>2. afterApplied => afterApplied'
      BY <1>3
    <2> QED
      BY <1>3, <2>1, <2>2 DEF NextInput
  <1>7. InputsCovered'
    <2>1. ASSUME NEW n \in 1..(Len(inputs) - 1), NEW c \in Cameras, CorruptedInput(n, c)'
          PROVE  Covered(n, c)'
      <3>1. CorruptedInput(n, c)
        BY <1>3, <2>1 DEF CorruptedInput
      <3> QED
        BY <1>3, <1>4, <3>1, CoveredIsKept DEF StayInv, InputsCovered
    <2> QED
      BY <1>3, <2>1 DEF InputsCovered
  <1>8. CASE fault.kind \in ObservationKinds
    <2>1. InjectObservationFault(fault) /\ fault.duration > 0 /\ Applies(fault)
      BY <1>3, <1>8 DEF Inject, ValidFault, InjectDropout, InjectActuatorVariant, Applies,
                        ObservationKinds
    <2>2. d \in ObservationFaults' /\ First(d) = step + 1
      <3>1. d \in applied'
        BY <1>3, <2>1
      <3> QED
        BY <1>1, <1>2, <1>3, <1>8, <3>1 DEF ObservationFaults, First, DeclaredFirst, ObservationKinds
    <2>3. NextInput' = step + 1
      BY <1>1, <1>3, <2>1, InputCountNext
    <2>4. /\ fault.duration \in Int /\ step \in Nat /\ occlusionSteps \in Nat
          /\ occlusionSteps' = Larger(occlusionSteps, fault.duration) /\ occlusionKeys' = fault.keys
      BY <1>1, <1>2, <2>1, FaultFields, InputCount DEF InjectObservationFault
    <2>5. \E i \in ObservationFaults' : NextInput' + occlusionSteps' <= End(i)'
      <3>1. CASE occlusionSteps >= fault.duration
        <4>1. PICK i \in ObservationFaults : NextInput + occlusionSteps <= End(i)
          BY <1>3, <2>1, <2>4, <3>1 DEF StayInv, CountdownHolds
        <4>2. End(i) \in Int /\ occlusionSteps' = occlusionSteps
          BY <1>1, <2>4, <3>1, WindowFacts DEF ObservationFaults, Larger
        <4> QED
          BY <1>4, <1>5, <1>6, <2>4, <4>1, <4>2
      <3>2. CASE ~(occlusionSteps >= fault.duration)
        <4>1. End(d) = step + 1 + fault.duration /\ occlusionSteps' = fault.duration
          BY <2>2, <2>4, <3>2 DEF End, Larger
        <4>2. End(d)' = step + 1 + fault.duration
          BY <1>5, <4>1
        <4>3. NextInput' + occlusionSteps' <= End(d)'
          BY <2>3, <2>4, <4>1, <4>2
        <4> QED
          BY <2>2, <4>3
      <3> QED
        BY <3>1, <3>2
    <2>6. \E i \in ObservationFaults' : occlusionKeys' = schedule'[i].keys
      BY <1>3, <2>2, <2>4
    <2> QED
      BY <1>1, <1>7, <2>5, <2>6 DEF StayInv, CountdownHolds
  <1>9. CASE fault.kind \notin ObservationKinds
    <2>1. UNCHANGED occlusionVars
      BY <1>3, <1>9 DEF Inject, InjectDropout, InjectActuatorVariant, InjectObservationFault,
                        environmentVars
    <2>2. CountdownHolds'
      <3>1. ASSUME occlusionSteps' > 0
            PROVE  /\ \E i \in ObservationFaults' : NextInput' + occlusionSteps' <= End(i)'
                   /\ \E i \in ObservationFaults' : occlusionKeys' = schedule'[i].keys
        <4>1. occlusionSteps' = occlusionSteps /\ occlusionKeys' = occlusionKeys
          BY <2>1 DEF occlusionVars
        <4>2. PICK i \in ObservationFaults : NextInput + occlusionSteps <= End(i)
          BY <1>3, <3>1, <4>1 DEF StayInv, CountdownHolds
        <4>3. PICK j \in ObservationFaults : occlusionKeys = schedule[j].keys
          BY <1>3, <3>1, <4>1 DEF StayInv, CountdownHolds
        <4>4. End(i) \in Int /\ occlusionSteps \in Nat
          BY <1>1, WindowFacts, InputCount DEF ObservationFaults
        <4>5. NextInput' + occlusionSteps' <= End(i)'
          BY <1>5, <1>6, <4>1, <4>2, <4>4
        <4> QED
          BY <1>3, <1>4, <4>1, <4>3, <4>5
      <3> QED
        BY <3>1 DEF CountdownHolds
    <2> QED
      BY <1>1, <1>7, <2>2 DEF StayInv
  <1> QED
    BY <1>8, <1>9

LEMMA StayStep ==
  ASSUME StayInv, Step
  PROVE  StayInv'
  <1>1. FaultTypeInv /\ FaultTypeInv'
    BY StepType DEF StayInv
  <1>2. /\ pc = "before" /\ pc' = "after" /\ afterApplied' = FALSE
        /\ inputs' = Append(inputs, Transformed(Raw(step + 1), lastFrames))
        /\ UNCHANGED <<schedule, step, applied>>
        /\ IF occlusionSteps > 0 THEN ConsumeOcclusion ELSE UNCHANGED occlusionVars
    BY DEF Step, EnvironmentStep
  <1>3. /\ Len(inputs) = step + 1 /\ NextInput = step + 1 /\ NextInput' = step + 2
        /\ step \in Nat /\ inputs \in Seq(Images) /\ Len(inputs') = step + 2
        /\ occlusionSteps \in Nat /\ occlusionSteps' \in Nat
    BY <1>1, <1>2, InputCount, InputCountNext
  <1>4. /\ ObservationFaults' = ObservationFaults
        /\ \A i : Window(i)' = Window(i) /\ First(i)' = First(i) /\ End(i)' = End(i)
    BY <1>2 DEF ObservationFaults, Window, First, End
  <1>5. CountdownHolds
    BY <1>2 DEF StayInv, Looping
  <1>6. CountdownHolds'
    <2>1. ASSUME occlusionSteps' > 0
          PROVE  occlusionSteps > 0 /\ occlusionSteps' = occlusionSteps - 1 /\ occlusionKeys' = occlusionKeys
      BY <1>2, <1>3, <2>1 DEF ConsumeOcclusion, occlusionVars
    <2>2. \A i \in ObservationFaults : End(i) \in Int
      BY <1>1, WindowFacts DEF ObservationFaults
    <2> QED
      BY <1>2, <1>3, <1>4, <1>5, <2>1, <2>2 DEF CountdownHolds
  <1>7. InputsCovered'
    <2>1. ASSUME NEW n \in 1..(Len(inputs') - 1), NEW c \in Cameras, CorruptedInput(n, c)'
          PROVE  Covered(n, c)
      <3>1. CASE n \in 1..(Len(inputs) - 1)
        <4>1. inputs'[n + 1] = inputs[n + 1]
          BY <1>2, <1>3, <3>1
        <4> QED
          BY <2>1, <3>1, <4>1 DEF CorruptedInput, StayInv, InputsCovered
      <3>2. CASE n = step + 1
        <4>1. inputs'[n + 1] = Transformed(Raw(step + 1), lastFrames)
          <5> HIDE DEF Transformed, Raw
          <5> QED
            BY <1>2, <1>3, <3>2
        <4>2. occlusionSteps > 0 /\ c \in occlusionKeys
          BY <2>1, <3>2, <4>1 DEF CorruptedInput, Transformed, Raw
        <4> QED
          BY <1>1, <1>2, <1>3, <1>5, <3>2, <4>2, ActiveFaultCovers DEF Looping
      <3> QED
        BY <1>3, <3>1, <3>2
    <2>2. \A n, c : Covered(n, c)' = Covered(n, c)
      BY <1>2, <1>4 DEF Covered
    <2> QED
      BY <2>1, <2>2 DEF InputsCovered
  <1> QED
    BY <1>1, <1>6, <1>7 DEF StayInv

LEMMA StayHook ==
  ASSUME StayInv, PendingHook
  PROVE  StayInv'
  <1>1. FaultTypeInv /\ FaultTypeInv'
    BY PendingHookType DEF StayInv
  <1>2. /\ pc = "after" /\ afterApplied /\ pc' = "row"
        /\ inputs' = [inputs EXCEPT ![step + 2] = Transformed(inputs[step + 2], PendingCache)]
        /\ UNCHANGED <<schedule, step, applied>>
        /\ IF occlusionSteps > 0 THEN ConsumeOcclusion ELSE UNCHANGED occlusionVars
    BY DEF PendingHook, ApplyPendingObservationFault
  <1>3. /\ Len(inputs) = step + 2 /\ NextInput = step + 1 /\ NextInput' = step + 2
        /\ step \in Nat /\ inputs \in Seq(Images) /\ Len(inputs') = step + 2
        /\ occlusionSteps \in Nat /\ occlusionSteps' \in Nat
    BY <1>1, <1>2, InputCount, InputCountNext
  <1>4. /\ ObservationFaults' = ObservationFaults
        /\ \A i : Window(i)' = Window(i) /\ First(i)' = First(i) /\ End(i)' = End(i)
    BY <1>2 DEF ObservationFaults, Window, First, End
  <1>5. CountdownHolds
    BY <1>2 DEF StayInv, Looping
  <1>6. CountdownHolds'
    <2>1. ASSUME occlusionSteps' > 0
          PROVE  occlusionSteps > 0 /\ occlusionSteps' = occlusionSteps - 1 /\ occlusionKeys' = occlusionKeys
      BY <1>2, <1>3, <2>1 DEF ConsumeOcclusion, occlusionVars
    <2>2. \A i \in ObservationFaults : End(i) \in Int
      BY <1>1, WindowFacts DEF ObservationFaults
    <2> QED
      BY <1>2, <1>3, <1>4, <1>5, <2>1, <2>2 DEF CountdownHolds
  <1>7. InputsCovered'
    <2>1. ASSUME NEW n \in 1..(Len(inputs') - 1), NEW c \in Cameras, CorruptedInput(n, c)'
          PROVE  Covered(n, c)
      <3>1. CASE CorruptedInput(n, c)
        BY <1>3, <3>1 DEF StayInv, InputsCovered
      <3>2. CASE ~CorruptedInput(n, c)
        <4>1. inputs'[n + 1][c] # inputs[n + 1][c]
          BY <2>1, <3>2 DEF CorruptedInput
        <4>2. n + 1 = step + 2
          BY <1>2, <1>3, <4>1
        <4>3. inputs'[n + 1] = Transformed(inputs[n + 1], PendingCache)
          <5> HIDE DEF Transformed, PendingCache
          <5> QED
            BY <1>2, <1>3, <4>2
        <4>4. occlusionSteps > 0 /\ c \in occlusionKeys
          BY <4>1, <4>3 DEF Transformed
        <4> QED
          BY <1>1, <1>2, <1>3, <1>5, <4>2, <4>4, ActiveFaultCovers DEF Looping
      <3> QED
        BY <3>1, <3>2
    <2>2. \A n, c : Covered(n, c)' = Covered(n, c)
      BY <1>2, <1>4 DEF Covered
    <2> QED
      BY <2>1, <2>2 DEF InputsCovered
  <1> QED
    BY <1>1, <1>6, <1>7 DEF StayInv

\* The other steps leave the inputs and the countdown alone, or end the loop.
LEMMA StayOther ==
  ASSUME StayInv, FaultTypeInv',
         UNCHANGED <<schedule, applied, inputs, afterApplied>>,
         \/ pc' \notin Looping
         \/ UNCHANGED occlusionVars /\ pc \in Looping /\ NextInput' = NextInput
  PROVE  StayInv'
  <1>1. /\ ObservationFaults' = ObservationFaults
        /\ \A i : Window(i)' = Window(i) /\ First(i)' = First(i) /\ End(i)' = End(i)
    BY DEF ObservationFaults, Window, First, End
  <1>2. InputsCovered'
    <2>1. \A n, c : Covered(n, c)' = Covered(n, c) /\ CorruptedInput(n, c)' = CorruptedInput(n, c)
      BY <1>1 DEF Covered, CorruptedInput
    <2> QED
      BY <2>1 DEF StayInv, InputsCovered
  <1>3. pc' \in Looping => CountdownHolds'
    BY <1>1 DEF StayInv, CountdownHolds, occlusionVars
  <1> QED
    BY <1>2, <1>3 DEF StayInv

LEMMA StayNext ==
  ASSUME StayInv, [Next]_vars
  PROVE  StayInv'
  <1>1. FaultTypeInv /\ FaultTypeInv'
    BY FaultTypeStep DEF StayInv
  <1>2. CASE NextEpisode \/ BeginEpisode
    <2>1. Len(inputs') \in {0, 1} /\ (pc' = "begin" \/ occlusionSteps' = 0)
      BY <1>2 DEF NextEpisode, BeginEpisode, EnvironmentReset
    <2>2. InputsCovered'
      <3>1. \A n \in 1..(Len(inputs') - 1) : FALSE
        <4>1. Len(inputs') - 1 <= 0 /\ Len(inputs') - 1 \in Int
          BY <2>1
        <4> QED
          BY <4>1
      <3> QED
        BY <3>1 DEF InputsCovered
    <2>3. pc' \in Looping => CountdownHolds'
      BY <2>1 DEF CountdownHolds, Looping
    <2> QED
      BY <1>1, <2>2, <2>3 DEF StayInv
  <1>3. CASE NoPendingHook
    BY <1>1, <1>3, StayOther DEF NoPendingHook, NextInput, Looping, environmentVars
  <1>4. CASE NextStep
    BY <1>1, <1>4, StayOther DEF NextStep, NextInput, Looping, environmentVars
  <1>5. CASE InjectRaises \/ StepRaises \/ PendingHookRaises \/ EndEpisode \/ Close
    BY <1>1, <1>5, StayOther
    DEF InjectRaises, StepRaises, PendingHookRaises, EndEpisode, Close, Looping
  <1>6. CASE Closed \/ UNCHANGED vars
    <2>1. UNCHANGED vars
      BY <1>6 DEF Closed
    <2>2. CASE pc \in Looping
      BY <1>1, <2>1, <2>2, StayOther DEF vars, loopVars, environmentVars, NextInput
    <2>3. CASE pc \notin Looping
      BY <1>1, <2>1, <2>3, StayOther DEF vars, loopVars
    <2> QED
      BY <2>2, <2>3
  <1> QED
    BY <1>2, <1>3, <1>4, <1>5, <1>6, StayInject, StayStep, StayHook DEF Next

\* However faults overlap, take over or run the hook twice, no camera is
\* corrupted outside the declared windows, for every schedule.
THEOREM CorruptionStays == Spec => []CorruptionStaysInWindows
  <1>1. Init => StayInv
    <2> SUFFICES ASSUME Init PROVE StayInv
      OBVIOUS
    <2>1. pc = "reset" /\ Len(inputs) = 0
      BY DEF Init
    <2> QED
      BY <2>1, FaultInit DEF StayInv, Looping, InputsCovered
  <1>2. StayInv => CorruptionStaysInWindows
    <2> SUFFICES ASSUME StayInv, NEW s \in Rows, NEW c \in Cameras, CorruptedInput(s + 1, c)
                 PROVE  Covered(s + 1, c)
      BY DEF CorruptionStaysInWindows, Covered, First
    <2>1. s + 1 \in 1..(Len(inputs) - 1)
      BY DEF StayInv, FaultTypeInv, TypeOK, LengthsHold, Rows
    <2> QED
      BY <2>1 DEF StayInv, InputsCovered
  <1> QED
    BY <1>1, <1>2, StayNext, PTL DEF Spec

-----------------------------------------------------------------------------
(* Actuator faults that do not overlap alter exactly the actions they      *)
(* declare.                                                                *)

\* The precondition of ActionsAlteredAsDeclared.
ActuatorsApart ==
  /\ ~Overlapping(ActuatorFaults)
  /\ \A i \in ActuatorFaults :
       schedule[i].kind = "actuator_variant" => schedule[i].phase = "before_action"

\* The number of the step whose action is executed next.
NextAction == Len(executions)

\* The cache holds the action executed last, and no action is older than its step.
LastHolds ==
  /\ lastExecuted = IF executions = <<>> THEN NoExecution ELSE executions[Len(executions)]
  /\ \A n \in 1..Len(executions) : executions[n].of < n

\* The fault the countdown belongs to.
AltersNext(i) ==
  /\ NextAction \in Window(i)
  /\ \/ /\ schedule[i].kind = "actuator_dropout"
        /\ dropoutSteps = End(i) - NextAction /\ actuatorSteps = 0
     \/ /\ schedule[i].kind = "actuator_variant"
        /\ dropoutSteps = 0 /\ actuatorSteps = End(i) - NextAction
        /\ actuatorVariant = schedule[i].variant
        /\ actuatorElapsed = NextAction - First(i)
        /\ actuatorVariant = "hold_last" /\ First(i) > 0 =>
             lastExecuted = executions[First(i)]

ActuatorCountdown ==
  /\ dropoutSteps > 0 \/ actuatorSteps > 0 => \E i \in ActuatorFaults : AltersNext(i)
  /\ dropoutSteps = 0 /\ actuatorSteps = 0 => \A i \in ActuatorFaults : End(i) <= NextAction

LetsThrough(fault, s) ==
  /\ fault.kind = "actuator_variant" /\ fault.variant = "intermittent"
  /\ (s - fault.step) % 2 = 1

\* Action s is what the faults declare of it.
ActionHolds(s) ==
  /\ AlteredAction(s) <=>
       \E i \in ActuatorFaults : s \in Window(i) /\ ~LetsThrough(schedule[i], s)
  /\ \A i \in ActuatorFaults :
       /\ schedule[i].kind = "actuator_variant" /\ schedule[i].variant = "hold_last"
       /\ s \in Window(i) /\ schedule[i].step > 0
       => executions[s + 1] = executions[schedule[i].step]

ActionsHold == \A s \in 0..(NextAction - 1) : ActionHolds(s)

ActuatorInv ==
  /\ FaultTypeInv
  /\ pc \in Looping => LastHolds
  /\ ActuatorsApart => /\ pc \in Looping => ActuatorCountdown
                       /\ pc \in Looping \cup {"reset"} => ActionsHold

LEMMA ActionCount ==
  ASSUME FaultTypeInv
  PROVE  /\ step \in Nat /\ NextAction \in Nat /\ executions \in Seq(Executions)
         /\ dropoutSteps \in Nat /\ actuatorSteps \in Nat /\ actuatorElapsed \in Nat
         /\ pc = "before" => NextAction = step
         /\ pc \in {"after", "row"} => NextAction = step + 1
  BY HorizonAssumption DEF FaultTypeInv, TypeOK, EnvironmentTypeOK, LengthsHold, NextAction

LEMMA ActuatorWindow ==
  ASSUME FaultTypeInv, NEW i \in ActuatorFaults
  PROVE  /\ First(i) \in Nat /\ End(i) \in Int /\ Window(i) = First(i)..(End(i) - 1)
         /\ schedule[i].kind \in ActuatorKinds /\ schedule[i].step \in Nat
         /\ schedule[i].kind = "actuator_variant" => First(i) = schedule[i].step
         /\ pc \in Looping => First(i) <= NextAction /\ First(i) < End(i)
  <1>1. i \in applied /\ schedule[i] \in Faults /\ schedule[i].kind \in ActuatorKinds
    BY WindowFacts DEF ActuatorFaults
  <1>2. schedule[i].step \in Nat /\ schedule[i].duration \in Int
    BY <1>1, FaultFields
  <1>3. /\ schedule[i].kind = "actuator_variant" => First(i) = schedule[i].step
        /\ schedule[i].phase = "before_action" => First(i) = schedule[i].step
        /\ schedule[i].phase = "after_step" \/ schedule[i].phase = "before_action"
        /\ First(i) \in {schedule[i].step, schedule[i].step + 1}
    BY <1>1, FaultFields DEF First, DeclaredFirst, ActuatorKinds, ObservationKinds, Phases
  <1>4. pc \in Looping => /\ schedule[i].duration > 0 /\ schedule[i].step <= step
                          /\ schedule[i].phase = "after_step" /\ pc = "before" =>
                               schedule[i].step < step
    BY <1>1 DEF FaultTypeInv, InjectionsHold, AppliedAt
  <1>5. pc \in Looping => First(i) < End(i)
    BY <1>2, <1>3, <1>4 DEF End
  <1>6. pc \in Looping => First(i) <= NextAction
    <2>1. CASE pc = "before"
      BY <1>2, <1>3, <1>4, <2>1, ActionCount DEF Looping
    <2>2. CASE pc \in {"after", "row"}
      BY <1>2, <1>3, <1>4, <2>2, ActionCount DEF Looping
    <2> QED
      BY <2>1, <2>2 DEF Looping
  <1> QED
    BY <1>1, <1>2, <1>3, <1>5, <1>6, WindowFacts

LEMMA OneActuator ==
  ASSUME ActuatorsApart, NEW i \in ActuatorFaults, NEW j \in ActuatorFaults, NEW s,
         s \in Window(i), s \in Window(j)
  PROVE  i = j
  BY DEF ActuatorsApart, Overlapping

LEMMA ActuatorsApartBefore ==
  ASSUME ActuatorsApart', applied \subseteq applied', schedule' = schedule
  PROVE  ActuatorsApart /\ ActuatorFaults \subseteq ActuatorFaults'
  <1>1. ActuatorFaults \subseteq ActuatorFaults'
    BY DEF ActuatorFaults
  <1>2. \A i : Window(i)' = Window(i)
    BY DEF Window
  <1> QED
    BY <1>1, <1>2 DEF ActuatorsApart, Overlapping

\* An action stays as it was when the faults added begin later.
LEMMA ActionKept ==
  ASSUME NEW s, ActionHolds(s), schedule' = schedule,
         ActuatorFaults \subseteq ActuatorFaults',
         \A i \in ActuatorFaults' \ ActuatorFaults : s \notin Window(i),
         executions'[s + 1] = executions[s + 1],
         \A i \in ActuatorFaults :
           s \in Window(i) /\ schedule[i].kind = "actuator_variant" /\ schedule[i].step > 0 =>
             executions'[schedule[i].step] = executions[schedule[i].step]
  PROVE  ActionHolds(s)'
  <1>1. \A i : Window(i)' = Window(i)
    BY DEF Window
  <1>2. AlteredAction(s)' <=> AlteredAction(s)
    BY DEF AlteredAction
  <1>3. (\E i \in ActuatorFaults' : s \in Window(i)' /\ ~LetsThrough(schedule'[i], s))
        <=> \E i \in ActuatorFaults : s \in Window(i) /\ ~LetsThrough(schedule[i], s)
    BY <1>1
  <1> QED
    BY <1>1, <1>2, <1>3 DEF ActionHolds, LetsThrough

LEMMA ActuatorOther ==
  ASSUME ActuatorInv, FaultTypeInv', UNCHANGED <<schedule, executions>>,
         ActuatorFaults' = ActuatorFaults, ActuatorsApart' => ActuatorsApart,
         pc' \in Looping => pc \in Looping /\ UNCHANGED actuatorVars,
         pc' = "reset" => pc \in Looping \cup {"reset"}
  PROVE  ActuatorInv'
  <1>1. \A i : First(i)' = First(i) /\ End(i)' = End(i) /\ Window(i)' = Window(i)
    BY DEF First, End, Window
  <1>2. pc' \in Looping => LastHolds'
    BY DEF ActuatorInv, LastHolds, actuatorVars
  <1>3. ASSUME pc' \in Looping, ActuatorsApart'
        PROVE  ActuatorCountdown'
    <2>1. \A i : AltersNext(i) => AltersNext(i)'
      BY <1>1, <1>3 DEF AltersNext, NextAction, actuatorVars
    <2> QED
      BY <1>1, <1>3, <2>1 DEF ActuatorInv, ActuatorCountdown, NextAction, actuatorVars
  <1>4. ASSUME pc' \in Looping \cup {"reset"}, ActuatorsApart'
        PROVE  ActionsHold'
    <2>1. ActionsHold
      BY <1>4 DEF ActuatorInv
    <2>2. \A s : ActionHolds(s) => ActionHolds(s)'
      BY ActionKept
    <2> QED
      BY <2>1, <2>2 DEF ActionsHold, NextAction
  <1> QED
    BY <1>2, <1>3, <1>4 DEF ActuatorInv

LEMMA ActuatorInject ==
  ASSUME ActuatorInv, InjectFault
  PROVE  ActuatorInv'
  <1>0. PICK d : d = FirstDue
    OBVIOUS
  <1> DEFINE fault == schedule[d]
  <1>1. FaultTypeInv /\ FaultTypeInv'
    BY InjectFaultType DEF ActuatorInv
  <1>2. /\ d \in due /\ fault \in Faults /\ fault.step = step /\ d \notin applied
        /\ pc = "after" => fault.phase = "after_step"
        /\ pc = "before" => fault.phase = "before_action"
    <2>1. d \in due /\ fault \in Faults
      BY <1>0, <1>1, FirstDueIsDue DEF FaultTypeInv, TypeOK, InjectFault
    <2> QED
      BY <1>1, <2>1 DEF FaultTypeInv, InjectionsHold, InjectFault, DueAt
  <1>3. /\ pc \in {"before", "after"} /\ pc \in Looping /\ Inject(fault)
        /\ UNCHANGED <<pc, episode, schedule, step, inputs, executions>>
        /\ IF Applies(fault)
           THEN applied' = applied \cup {d} /\ afterApplied' = (afterApplied \/ pc = "after")
           ELSE UNCHANGED <<applied, afterApplied>>
    BY <1>0 DEF InjectFault, Looping
  <1>4. applied \subseteq applied' /\ lastExecuted' = lastExecuted
    BY <1>1, <1>2, <1>3, InjectType DEF FaultTypeInv, TypeOK
  <1>5. ActuatorsApart' => ActuatorsApart /\ ActuatorFaults \subseteq ActuatorFaults'
    BY <1>3, <1>4, ActuatorsApartBefore
  <1>6. LastHolds'
    BY <1>3, <1>4 DEF ActuatorInv, LastHolds
  <1>7. CASE fault.kind \notin ActuatorKinds
    <2>1. UNCHANGED actuatorVars
      BY <1>3, <1>7 DEF Inject, InjectDropout, InjectActuatorVariant, InjectObservationFault,
                        environmentVars, ActuatorKinds
    <2>2. ActuatorFaults' = ActuatorFaults
      BY <1>3, <1>7 DEF ActuatorFaults
    <2> QED
      BY <1>1, <1>3, <1>5, <2>1, <2>2, ActuatorOther DEF Looping
  <1>8. CASE fault.kind \in ActuatorKinds /\ ActuatorsApart'
    <2>1. /\ fault.duration > 0 /\ fault.duration \in Int /\ Applies(fault)
          /\ InjectDropout(fault) \/ InjectActuatorVariant(fault)
      BY <1>2, <1>3, <1>8, FaultFields DEF Inject, ValidFault, InjectObservationFault, Applies,
                                           ObservationKinds, ActuatorKinds
    <2>2. ActuatorsApart /\ ActuatorCountdown /\ ActionsHold /\ LastHolds
      BY <1>3, <1>5, <1>8 DEF ActuatorInv
    <2>3. /\ ActuatorFaults' = ActuatorFaults \cup {d} /\ d \notin ActuatorFaults
          /\ \A i : Window(i)' = Window(i) /\ First(i)' = First(i) /\ End(i)' = End(i)
      BY <1>2, <1>3, <1>8, <2>1 DEF ActuatorFaults, Window, First, End
    <2>4. /\ NextAction \in Nat /\ NextAction' = NextAction /\ step \in Nat
          /\ pc = "before" => NextAction = step
          /\ pc = "after" => NextAction = step + 1
      BY <1>1, <1>3, ActionCount DEF NextAction
    <2>5. First(d) = NextAction
      <3>1. fault.kind = "actuator_variant" => fault.phase = "before_action"
        BY <1>3, <1>8, <2>3 DEF ActuatorsApart
      <3> QED
        BY <1>2, <1>3, <1>8, <2>4, <3>1
        DEF First, DeclaredFirst, ActuatorKinds, ObservationKinds
    <2>6. /\ End(d) = NextAction + fault.duration /\ NextAction \in Window(d)
      <3>1. End(d) = NextAction + fault.duration
        BY <2>5 DEF End
      <3>2. Window(d) = NextAction .. (NextAction + fault.duration - 1)
        BY <2>5 DEF Window, First
      <3> QED
        BY <2>1, <2>4, <3>1, <3>2
    <2>7. \A i \in ActuatorFaults : NextAction \notin Window(i)
      BY <1>8, <2>3, <2>6 DEF ActuatorsApart, Overlapping
    <2>8. dropoutSteps = 0 /\ actuatorSteps = 0
      <3>1. dropoutSteps \in Nat /\ actuatorSteps \in Nat
        BY <1>1, ActionCount
      <3> QED
        BY <2>2, <2>7, <3>1 DEF ActuatorCountdown, AltersNext
    <2>9. AltersNext(d)'
      <3>1. CASE InjectDropout(fault)
        <4>1. /\ dropoutSteps' = fault.duration /\ actuatorSteps' = 0
              /\ fault.kind = "actuator_dropout"
          BY <2>1, <2>8, <3>1 DEF InjectDropout, Larger
        <4> QED
          BY <1>3, <2>1, <2>3, <2>4, <2>6, <4>1 DEF AltersNext
      <3>2. CASE InjectActuatorVariant(fault)
        <4>1. /\ actuatorSteps' = fault.duration /\ dropoutSteps' = 0
              /\ fault.kind = "actuator_variant" /\ actuatorVariant' = fault.variant
              /\ actuatorElapsed' = 0
          BY <2>1, <2>8, <3>2 DEF InjectActuatorVariant, Larger
        <4>2. First(d) > 0 => lastExecuted' = executions'[First(d)]
          <5>1. First(d) > 0 => executions # <<>>
            BY <2>5 DEF NextAction
          <5> QED
            BY <1>3, <1>4, <2>2, <2>5, <5>1 DEF LastHolds, NextAction
        <4>3. actuatorSteps' = End(d)' - NextAction' /\ actuatorElapsed' = NextAction' - First(d)'
          BY <2>1, <2>3, <2>4, <2>5, <2>6, <4>1
        <4> QED
          BY <1>3, <2>3, <2>4, <2>6, <4>1, <4>2, <4>3 DEF AltersNext
      <3> QED
        BY <2>1, <3>1, <3>2
    <2>10. ActuatorCountdown'
      <3>1. dropoutSteps' > 0 \/ actuatorSteps' > 0
        BY <2>1, <2>8 DEF InjectDropout, InjectActuatorVariant, Larger
      <3> QED
        BY <2>3, <2>9, <3>1 DEF ActuatorCountdown
    <2>11. ActionsHold'
      <3>1. ASSUME NEW s \in 0..(NextAction - 1)
            PROVE  ActionHolds(s)'
        <4>1. ActionHolds(s)
          BY <2>2 DEF ActionsHold
        <4>2. s \notin Window(d)
          <5>1. Window(d) = NextAction .. (NextAction + fault.duration - 1)
            BY <2>5 DEF Window, First
          <5> QED
            BY <2>4, <3>1, <5>1
        <4> QED
          BY <1>3, <2>3, <4>1, <4>2, ActionKept
      <3> QED
        BY <2>4, <3>1 DEF ActionsHold
    <2> QED
      BY <1>1, <1>6, <2>10, <2>11 DEF ActuatorInv
  <1>9. CASE ~ActuatorsApart'
    BY <1>1, <1>6, <1>9 DEF ActuatorInv
  <1> QED
    BY <1>7, <1>8, <1>9

LEMMA ExecutedIsNotNewer ==
  ASSUME FaultTypeInv, LastHolds, pc = "before", Execute(step)
  PROVE  lastExecuted'.of < step + 1 /\ lastExecuted' \in Executions
  <1>1. /\ step \in 0..(Horizon - 1) /\ step \in Nat /\ EnvironmentTypeOK
        /\ executions \in Seq(Executions) /\ Len(executions) = step
    BY HorizonAssumption DEF FaultTypeInv, TypeOK, LengthsHold
  <1>2. \A as : [of |-> step, as |-> as].of < step + 1
    BY <1>1
  <1>3. lastExecuted = NoExecution \/ lastExecuted.of < step + 1
    <2>1. CASE executions = <<>>
      BY <2>1 DEF LastHolds
    <2>2. CASE executions # <<>>
      <3>1. Len(executions) \in 1..Len(executions)
        BY <1>1, <2>2
      <3>2. lastExecuted.of < step /\ lastExecuted \in Executions
        BY <1>1, <2>2, <3>1 DEF LastHolds
      <3> QED
        BY <1>1, <3>2 DEF Executions
    <2> QED
      BY <2>1, <2>2
  <1>4. AppliedVariant(step).of < step + 1
    BY <1>2, <1>3 DEF AppliedVariant
  <1> QED
    BY <1>1, <1>2, <1>4, ExecuteType DEF Execute

LEMMA ActuatorStep ==
  ASSUME ActuatorInv, Step
  PROVE  ActuatorInv'
  <1>1. FaultTypeInv /\ FaultTypeInv' /\ LastHolds
    BY StepType DEF ActuatorInv, Step, Looping
  <1>2. /\ pc = "before" /\ pc' = "after" /\ Execute(step)
        /\ executions' = Append(executions, lastExecuted')
        /\ UNCHANGED <<schedule, step, applied>>
    BY DEF Step, EnvironmentStep
  <1>3. /\ step \in Nat /\ NextAction = step /\ NextAction' = step + 1
        /\ executions \in Seq(Executions) /\ Len(executions) = step
        /\ dropoutSteps \in Nat /\ actuatorSteps \in Nat
    <2>1. Len(executions') = step + 1
      BY <1>1, <1>2 DEF FaultTypeInv, LengthsHold
    <2> QED
      BY <1>1, <1>2, <2>1, ActionCount DEF NextAction
  <1>4. lastExecuted'.of < step + 1 /\ lastExecuted' \in Executions
    BY <1>1, <1>2, ExecutedIsNotNewer
  <1>5. /\ executions'[step + 1] = lastExecuted' /\ Len(executions') = step + 1
        /\ \A n \in 1..step : executions'[n] = executions[n]
    BY <1>2, <1>3, <1>4
  <1>6. LastHolds'
    <2>1. executions' # <<>>
      BY <1>2, <1>3, <1>4
    <2>2. ASSUME NEW n \in 1..(step + 1)
          PROVE  executions'[n].of < n
      <3>1. CASE n = step + 1
        BY <1>4, <1>5, <3>1
      <3>2. CASE n # step + 1
        <4>1. n \in 1..step
          BY <1>3, <3>2
        <4> QED
          BY <1>1, <1>3, <1>5, <4>1 DEF LastHolds
      <3> QED
        BY <3>1, <3>2
    <2> QED
      BY <1>5, <2>1, <2>2 DEF LastHolds
  <1>7. CASE ActuatorsApart'
    <2>1. /\ ActuatorFaults' = ActuatorFaults
          /\ \A i : Window(i)' = Window(i) /\ First(i)' = First(i) /\ End(i)' = End(i)
      BY <1>2 DEF ActuatorFaults, Window, First, End
    <2>2. ActuatorsApart /\ ActuatorCountdown /\ ActionsHold
      BY <1>2, <1>7, ActuatorsApartBefore DEF ActuatorInv, Looping
    <2>3. \A i \in ActuatorFaults :
            /\ First(i) \in Nat /\ End(i) \in Int /\ Window(i) = First(i)..(End(i) - 1)
            /\ First(i) <= step /\ schedule[i].step \in Nat
            /\ schedule[i].kind = "actuator_variant" => First(i) = schedule[i].step
      BY <1>1, <1>2, <1>3, ActuatorWindow DEF Looping
    <2>4. AlteredAction(step)' <=> lastExecuted' # [of |-> step, as |-> "requested"]
      BY <1>2, <1>5 DEF AlteredAction
    <2>5. ASSUME ActionHolds(step)'
          PROVE  ActionsHold'
      <3>1. ASSUME NEW s \in 0..step
            PROVE  ActionHolds(s)'
        <4>1. CASE s = step
          BY <1>2, <2>5, <4>1 DEF ActionHolds, AlteredAction, LetsThrough, Window
        <4>2. CASE s # step
          <5>1. s \in 0..(NextAction - 1) /\ s + 1 \in 1..step
            BY <1>3, <4>2
          <5>2. ActionHolds(s) /\ executions'[s + 1] = executions[s + 1]
            BY <1>5, <2>2, <5>1 DEF ActionsHold
          <5>3. \A i \in ActuatorFaults :
                  s \in Window(i) /\ schedule[i].kind = "actuator_variant" /\ schedule[i].step > 0 =>
                    executions'[schedule[i].step] = executions[schedule[i].step]
            BY <1>3, <1>5, <2>3, <3>1
          <5> QED
            BY <1>2, <2>1, <5>2, <5>3, ActionKept
        <4> QED
          BY <4>1, <4>2
      <3> QED
        BY <1>3, <3>1 DEF ActionsHold
    <2>6. CASE dropoutSteps = 0 /\ actuatorSteps = 0
      <3>1. /\ lastExecuted' = [of |-> step, as |-> "requested"]
            /\ dropoutSteps' = 0 /\ actuatorSteps' = 0
        BY <1>2, <2>6 DEF Execute
      <3>2. \A i \in ActuatorFaults : End(i) <= step /\ step \notin Window(i)
        BY <1>3, <2>2, <2>3, <2>6 DEF ActuatorCountdown
      <3>3. ActionHolds(step)'
        BY <1>2, <2>1, <2>4, <3>1, <3>2 DEF ActionHolds
      <3>4. ActuatorCountdown'
        <4>1. \A i \in ActuatorFaults' : End(i)' <= NextAction'
          BY <1>3, <2>1, <2>3, <3>2
        <4> QED
          BY <3>1, <4>1 DEF ActuatorCountdown
      <3> QED
        BY <1>1, <1>6, <2>5, <3>3, <3>4 DEF ActuatorInv
    <2>7. CASE dropoutSteps > 0 \/ actuatorSteps > 0
      <3>1. PICK i \in ActuatorFaults : AltersNext(i)
        BY <2>2, <2>7 DEF ActuatorCountdown
      <3>2. step \in Window(i) /\ \A j \in ActuatorFaults : step \in Window(j) => j = i
        BY <1>3, <2>2, <3>1, OneActuator DEF AltersNext
      <3>3. \A n \in 1..step : executions'[n] = executions[n]
        BY <1>5
      \* It suffices that action step is right and that the countdown goes on.
      <3>4. ASSUME lastExecuted' # [of |-> step, as |-> "requested"]
                     <=> ~LetsThrough(schedule[i], step),
                   /\ schedule[i].kind = "actuator_variant" /\ schedule[i].variant = "hold_last"
                   /\ schedule[i].step > 0
                   => lastExecuted' = executions[schedule[i].step]
            PROVE  ActionHolds(step)'
        <4>1. LetsThrough(schedule[i], step)' <=> LetsThrough(schedule[i], step)
          BY <1>2 DEF LetsThrough
        <4>2. AlteredAction(step)' <=>
                \E j \in ActuatorFaults' : step \in Window(j)' /\ ~LetsThrough(schedule[j], step)'
          BY <1>2, <2>1, <2>4, <3>2, <3>4, <4>1 DEF LetsThrough
        <4>3. schedule[i].step > 0 /\ schedule[i].kind = "actuator_variant" =>
                executions'[schedule[i].step] = executions[schedule[i].step]
          BY <1>3, <2>3, <3>3
        <4>4. \A j \in ActuatorFaults' :
                /\ schedule'[j].kind = "actuator_variant" /\ schedule'[j].variant = "hold_last"
                /\ step \in Window(j)' /\ schedule'[j].step > 0
                => executions'[step + 1] = executions'[schedule'[j].step]
          BY <1>2, <1>5, <2>1, <3>2, <3>4, <4>3
        <4> QED
          BY <1>2, <4>2, <4>4 DEF ActionHolds
      <3>5. ASSUME dropoutSteps' + actuatorSteps' = End(i) - (step + 1),
                   dropoutSteps' \in Nat, actuatorSteps' \in Nat,
                   dropoutSteps' > 0 \/ actuatorSteps' > 0 => AltersNext(i)'
            PROVE  ActuatorCountdown'
        <4>1. CASE dropoutSteps' = 0 /\ actuatorSteps' = 0
          <5>1. End(i) = step + 1
            BY <1>3, <2>3, <3>5, <4>1
          <5>2. \A j \in ActuatorFaults : j # i => End(j) <= step
            BY <1>3, <2>3, <3>2
          <5>3. \A j \in ActuatorFaults : End(j) <= step + 1
            BY <1>3, <2>3, <5>1, <5>2
          <5> QED
            BY <1>3, <2>1, <4>1, <5>3 DEF ActuatorCountdown
        <4>2. CASE dropoutSteps' > 0 \/ actuatorSteps' > 0
          BY <2>1, <3>5, <4>2 DEF ActuatorCountdown
        <4> QED
          BY <3>5, <4>1, <4>2
      <3>6. NextAction' \in Window(i)' <=> step + 1 < End(i)
        BY <1>3, <2>1, <2>3
      <3>7. CASE schedule[i].kind = "actuator_dropout"
        <4>1. dropoutSteps = End(i) - step /\ actuatorSteps = 0
          BY <1>3, <3>1, <3>7 DEF AltersNext
        <4>2. /\ lastExecuted' = [of |-> step, as |-> "zeroed"]
              /\ dropoutSteps' = dropoutSteps - 1 /\ actuatorSteps' = 0
          BY <1>2, <2>7, <4>1 DEF Execute
        <4>3. ActionHolds(step)'
          BY <3>4, <3>7, <4>2 DEF LetsThrough
        <4>4. dropoutSteps' > 0 => AltersNext(i)'
          BY <1>2, <1>3, <2>1, <2>3, <3>6, <3>7, <4>1, <4>2 DEF AltersNext
        <4>5. ActuatorCountdown'
          BY <1>3, <2>3, <2>7, <3>5, <4>1, <4>2, <4>4
        <4> QED
          BY <1>1, <1>6, <2>5, <4>3, <4>5 DEF ActuatorInv
      <3>8. CASE schedule[i].kind = "actuator_variant"
        <4>1. /\ dropoutSteps = 0 /\ actuatorSteps = End(i) - step
              /\ actuatorVariant = schedule[i].variant
              /\ actuatorElapsed = step - schedule[i].step /\ First(i) = schedule[i].step
              /\ actuatorVariant = "hold_last" /\ schedule[i].step > 0 =>
                   lastExecuted = executions[schedule[i].step]
          BY <1>3, <2>3, <3>1, <3>8 DEF AltersNext
        <4>2. /\ lastExecuted' = AppliedVariant(step)
              /\ dropoutSteps' = 0 /\ actuatorSteps' = actuatorSteps - 1
              /\ actuatorSteps' # 0 => /\ actuatorVariant' = actuatorVariant
                                       /\ actuatorElapsed' = actuatorElapsed + 1
          BY <1>2, <2>7, <4>1 DEF Execute
        <4>3. lastExecuted' # [of |-> step, as |-> "requested"]
                <=> ~LetsThrough(schedule[i], step)
          <5>1. CASE actuatorVariant = "hold_last" /\ lastExecuted # NoExecution
            <6>1. executions # <<>>
              BY <1>1, <5>1 DEF LastHolds
            <6>2. lastExecuted.of < step
              BY <1>1, <1>3, <6>1 DEF LastHolds
            <6>3. lastExecuted' = lastExecuted /\ lastExecuted.of # step
              BY <1>3, <1>4, <4>2, <5>1, <6>2 DEF AppliedVariant, Executions
            <6> QED
              BY <3>8, <4>1, <5>1, <6>3 DEF LetsThrough
          <5>2. CASE ~(actuatorVariant = "hold_last" /\ lastExecuted # NoExecution)
            <6>1. lastExecuted' = [of |-> step, as |-> "requested"] <=>
                    actuatorVariant = "intermittent" /\ actuatorElapsed % 2 = 1
              BY <4>2, <5>2 DEF AppliedVariant
            <6> QED
              BY <3>8, <4>1, <6>1 DEF LetsThrough
          <5> QED
            BY <5>1, <5>2
        <4>4. ASSUME schedule[i].variant = "hold_last", schedule[i].step > 0
              PROVE  lastExecuted' = executions[schedule[i].step]
          <5>1. executions # <<>>
            BY <1>3, <2>3, <4>1, <4>4
          <5>2. lastExecuted = executions[Len(executions)] /\ Len(executions) \in 1..Len(executions)
            BY <1>1, <1>3, <5>1 DEF LastHolds
          <5>3. lastExecuted # NoExecution
            <6>1. lastExecuted \in Executions
              BY <1>3, <5>2
            <6> QED
              BY <6>1 DEF Executions, NoExecution
          <5> QED
            BY <4>1, <4>2, <4>4, <5>3 DEF AppliedVariant
        <4>5. ActionHolds(step)'
          BY <3>4, <4>3, <4>4
        <4>6. ASSUME actuatorSteps' > 0
              PROVE  AltersNext(i)'
          <5>1. /\ actuatorVariant' = actuatorVariant /\ actuatorElapsed' = step - schedule[i].step + 1
                /\ actuatorSteps' = End(i) - step - 1
            BY <1>3, <4>1, <4>2, <4>6
          <5>2. /\ actuatorElapsed' = NextAction' - First(i)' /\ actuatorSteps' = End(i)' - NextAction'
                /\ NextAction' \in Window(i)'
            BY <1>3, <2>1, <2>3, <3>6, <4>1, <4>6, <5>1
          <5>3. actuatorVariant' = "hold_last" /\ First(i)' > 0 =>
                  lastExecuted' = executions'[First(i)']
            BY <1>3, <2>1, <2>3, <3>3, <4>1, <4>4, <5>1
          <5> QED
            BY <1>2, <3>8, <4>1, <4>2, <5>1, <5>2, <5>3 DEF AltersNext
        <4>7. ActuatorCountdown'
          BY <1>3, <2>3, <2>7, <3>5, <4>1, <4>2, <4>6
        <4> QED
          BY <1>1, <1>6, <2>5, <4>5, <4>7 DEF ActuatorInv
      <3> QED
        BY <1>1, <3>7, <3>8, ActuatorWindow DEF ActuatorKinds
    <2> QED
      BY <1>3, <2>6, <2>7
  <1>8. CASE ~ActuatorsApart'
    BY <1>1, <1>6, <1>8 DEF ActuatorInv
  <1> QED
    BY <1>7, <1>8

LEMMA ActuatorNext ==
  ASSUME ActuatorInv, [Next]_vars
  PROVE  ActuatorInv'
  <1>1. FaultTypeInv /\ FaultTypeInv'
    BY FaultTypeStep DEF ActuatorInv
  <1>2. CASE NextEpisode \/ InjectRaises \/ StepRaises \/ PendingHookRaises \/ Close
    <2>1. pc' \in {"begin", "raised", "closed"}
      BY <1>2 DEF NextEpisode, InjectRaises, StepRaises, PendingHookRaises, Close
    <2> QED
      BY <1>1, <2>1 DEF ActuatorInv, Looping
  <1>3. CASE BeginEpisode
    <2>1. /\ executions' = <<>> /\ applied' = {} /\ pc' = "before"
          /\ lastExecuted' = NoExecution /\ dropoutSteps' = 0 /\ actuatorSteps' = 0
      BY <1>1, <1>3 DEF BeginEpisode, EnvironmentReset, FaultTypeInv, LengthsHold
    <2>2. NextAction' = 0 /\ \A s \in 0..(NextAction' - 1) : FALSE
      BY <2>1 DEF NextAction
    <2>3. LastHolds'
      <3>1. \A n \in 1..Len(executions') : FALSE
        BY <2>1
      <3> QED
        BY <2>1, <3>1 DEF LastHolds
    <2> QED
      BY <1>1, <2>1, <2>2, <2>3 DEF ActuatorInv, ActuatorCountdown, ActionsHold, ActuatorFaults
  <1>4. CASE PendingHook \/ NoPendingHook \/ NextStep \/ EndEpisode \/ Closed \/ UNCHANGED vars
    <2>1. /\ UNCHANGED <<schedule, executions, applied, actuatorVars>>
          /\ pc' \in Looping => pc \in Looping
          /\ pc' = "reset" => pc \in Looping \cup {"reset"}
      BY <1>4 DEF PendingHook, ApplyPendingObservationFault, NoPendingHook, NextStep, EndEpisode,
                  Closed, vars, loopVars, environmentVars, Looping
    <2>2. ActuatorFaults' = ActuatorFaults /\ (ActuatorsApart' => ActuatorsApart)
      BY <2>1, ActuatorsApartBefore DEF ActuatorFaults
    <2> QED
      BY <1>1, <2>1, <2>2, ActuatorOther
  <1> QED
    BY <1>2, <1>3, <1>4, ActuatorInject, ActuatorStep DEF Next

LEMMA ActuatorAlways == Spec => []ActuatorInv
  <1>1. ASSUME Init
        PROVE  ActuatorInv
    <2>1. pc = "reset" /\ NextAction = 0
      BY <1>1 DEF Init, NextAction
    <2>2. \A s \in 0..(NextAction - 1) : FALSE
      BY <2>1
    <2> QED
      BY <1>1, <2>1, <2>2, FaultInit DEF ActuatorInv, Looping, ActionsHold
  <1> QED
    BY <1>1, ActuatorNext, PTL DEF Spec

\* Actuator faults that do not overlap alter exactly the actions they declare,
\* and a held action is the one of before the window, for every schedule.
THEOREM AlteredAsDeclared == Spec => []ActionsAlteredAsDeclared
  <1>1. ASSUME ActuatorInv
        PROVE  ActionsAlteredAsDeclared
    <2>1. ASSUME ActuatorsApart, NEW s \in Rows
          PROVE  ActionHolds(s)
      <3>1. pc \in {"row", "reset"} /\ s \in 0..(NextAction - 1)
        BY <2>1 DEF Rows, NextAction
      <3> QED
        BY <1>1, <2>1, <3>1 DEF ActuatorInv, ActionsHold, Looping
    <2> QED
      BY <2>1 DEF ActionsAlteredAsDeclared, ActuatorsApart, ActionHolds, LetsThrough
  <1> QED
    BY <1>1, ActuatorAlways, PTL
=============================================================================
