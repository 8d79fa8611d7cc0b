------------------------ MODULE RoboCasaEnvironment ------------------------
(***************************************************************************)
(* The fault state of RoboCasaEnvironment (robocasa_adapter.py): actuator  *)
(* faults that alter the executed action, observation faults that corrupt  *)
(* the camera frames an observation shows, and the frame caches from which *)
(* stale frames are served.                                                *)
(*                                                                         *)
(* A camera frame is the index of the observation it was captured in and   *)
(* its look: clean, or the corruption variant applied last.  The           *)
(* observation returned by the step with number s has index s + 1; the one *)
(* returned by reset has index 0.  An executed action is the step whose    *)
(* request it comes from and what was done to that request.  The simulator *)
(* itself (gymnasium, RoboCasa) is external.                               *)
(*                                                                         *)
(* The operations below are taken by the episode loop of FaultedEpisode as *)
(* parts of its actions.                                                   *)
(***************************************************************************)
EXTENDS Integers, Sequences

CONSTANTS
  CameraKeys,    \* keys a fault may name
  Cameras,       \* the keys of the observation contract
  Durations,     \* values of the parameter "duration"
  Horizon        \* last step of an episode, plus one

ASSUME CamerasAssumption == Cameras \subseteq CameraKeys /\ Cameras # {}
ASSUME HorizonAssumption == Horizon \in Nat \ {0}
ASSUME DurationsAssumption == Durations \subseteq Int

VARIABLES
  dropoutSteps,      \* _dropout_steps
  actuatorSteps,     \* _actuator_steps
  actuatorVariant,   \* _actuator_variant, "none" for None
  actuatorElapsed,   \* _actuator_elapsed
  lastExecuted,      \* _last_executed_action
  occlusionSteps,    \* _occlusion_steps
  occlusionVariant,  \* _occlusion_variant, "none" for None
  occlusionKeys,     \* _occlusion_keys, {} for None
  lastFrames,        \* _last_image_frames
  preStepFrames      \* _pre_step_image_frames

actuatorVars == <<dropoutSteps, actuatorSteps, actuatorVariant, actuatorElapsed,
                  lastExecuted>>
occlusionVars == <<occlusionSteps, occlusionVariant, occlusionKeys>>
frameVars == <<lastFrames, preStepFrames>>
environmentVars == <<actuatorVars, occlusionVars, frameVars>>

\* partial_mask stands for blur and color_shift too: they alter a frame in
\* place; "partial" stands for arm_only, base_only and gripper_only.
ObservationVariants == {"partial_mask", "stale_frame", "all_zero"}
ActuatorVariants ==
  {"all_channel_zero", "partial", "hold_last", "intermittent", "bounded_noise"}

ObservationKinds == {"observation_occlusion", "observation_variant"}
ActuatorKinds == {"actuator_dropout", "actuator_variant"}
Phases == {"before_action", "after_step"}

\* A FaultSpec with the parameters inject_fault reads; "object_displacement"
\* stands for the kinds the adapter has no implementation of.
Faults ==
  [kind : ObservationKinds \cup ActuatorKinds \cup {"object_displacement"},
   step : 0..(Horizon - 1), phase : Phases, duration : Durations,
   variant : ObservationVariants \cup ActuatorVariants, keys : SUBSET CameraKeys]

Frames == [captured : 0..Horizon,
           look : ObservationVariants \cup {"clean"}]
Images == [Cameras -> Frames]
NoImages == <<>>

Executions == [of : 0..(Horizon - 1),
               as : {"requested", "zeroed", "partial", "noisy"}]
NoExecution == <<>>

\* The observation the simulator returns: every camera shows the present.
Raw(index) == [c \in Cameras |-> [captured |-> index, look |-> "clean"]]

EnvironmentTypeOK ==
  /\ dropoutSteps \in Nat
  /\ actuatorSteps \in Nat
  /\ actuatorVariant \in ActuatorVariants \cup {"none"}
  /\ actuatorElapsed \in Nat
  /\ lastExecuted \in Executions \cup {NoExecution}
  /\ occlusionSteps \in Nat
  /\ occlusionVariant \in ObservationVariants \cup {"none"}
  /\ occlusionKeys \subseteq CameraKeys
  /\ lastFrames \in Images
  /\ preStepFrames \in Images \cup {NoImages}

Larger(a, b) == IF a >= b THEN a ELSE b

-----------------------------------------------------------------------------
(* reset: no fault and no frame of the previous episode survives.          *)

EnvironmentInit ==
  /\ dropoutSteps = 0
  /\ actuatorSteps = 0 /\ actuatorVariant = "none" /\ actuatorElapsed = 0
  /\ lastExecuted = NoExecution
  /\ occlusionSteps = 0 /\ occlusionVariant = "none" /\ occlusionKeys = {}
  /\ preStepFrames = NoImages
  /\ lastFrames = Raw(0)

EnvironmentReset ==
  /\ dropoutSteps' = 0
  /\ actuatorSteps' = 0 /\ actuatorVariant' = "none" /\ actuatorElapsed' = 0
  /\ lastExecuted' = NoExecution
  /\ occlusionSteps' = 0 /\ occlusionVariant' = "none" /\ occlusionKeys' = {}
  /\ preStepFrames' = NoImages
  /\ lastFrames' = Raw(0)

-----------------------------------------------------------------------------
(* inject_fault                                                            *)

\* The checks that raise ValueError before anything is assigned.  The keys of
\* observation_variant must be cameras with a cached frame.
ValidFault(fault) ==
  /\ fault.kind \in ObservationKinds \cup ActuatorKinds => fault.duration > 0
  /\ fault.kind = "actuator_variant" => fault.variant \in ActuatorVariants
  /\ fault.kind = "observation_variant" => fault.variant \in ObservationVariants
  /\ fault.kind \in ObservationKinds => fault.keys # {}
  /\ fault.kind = "observation_variant" => fault.keys \subseteq DOMAIN lastFrames

InjectDropout(fault) ==
  /\ fault.kind = "actuator_dropout"
  /\ dropoutSteps' = Larger(dropoutSteps, fault.duration)
  /\ UNCHANGED <<actuatorSteps, actuatorVariant, actuatorElapsed, lastExecuted,
                 occlusionVars, frameVars>>

InjectActuatorVariant(fault) ==
  /\ fault.kind = "actuator_variant"
  /\ actuatorSteps' = Larger(actuatorSteps, fault.duration)
  /\ actuatorVariant' = fault.variant
  /\ actuatorElapsed' = 0
  /\ UNCHANGED <<dropoutSteps, lastExecuted, occlusionVars, frameVars>>

\* Mutant: durations of overlapping faults add up.
InjectObservationFaultAdds(fault) ==
  /\ fault.kind \in ObservationKinds
  /\ occlusionSteps' = occlusionSteps + fault.duration
  /\ occlusionVariant' =
       IF fault.kind = "observation_occlusion" THEN "all_zero" ELSE fault.variant
  /\ occlusionKeys' = fault.keys
  /\ UNCHANGED <<actuatorVars, frameVars>>

\* A fault that finds another one active takes over its cameras and variant,
\* and lasts at least as long as the other had left.
InjectObservationFault(fault) ==
  /\ fault.kind \in ObservationKinds
  /\ occlusionSteps' = Larger(occlusionSteps, fault.duration)
  /\ occlusionVariant' =
       IF fault.kind = "observation_occlusion" THEN "all_zero" ELSE fault.variant
  /\ occlusionKeys' = fault.keys
  /\ UNCHANGED <<actuatorVars, frameVars>>

\* What the other kinds return, applied = False, changes nothing.
Inject(fault) ==
  /\ ValidFault(fault)
  /\ \/ InjectDropout(fault)
     \/ InjectActuatorVariant(fault)
     \/ InjectObservationFault(fault)
     \/ fault.kind = "object_displacement" /\ UNCHANGED environmentVars

Applies(fault) == fault.kind \in ObservationKinds \cup ActuatorKinds

\* The first affected input: what details["first_affected_input_step"] says,
\* and the default of the episode loop where the adapter says nothing.
DeclaredFirst(fault) ==
  IF fault.kind = "actuator_variant" THEN fault.step
  ELSE IF fault.kind \in ObservationKinds THEN fault.step + 1
  ELSE IF fault.phase = "after_step" THEN fault.step + 1
  ELSE fault.step

-----------------------------------------------------------------------------
(* step: the executed action.  A dropout goes first and suspends the       *)
(* countdown of an actuator variant.                                       *)

\* Mutant: an intermittent fault begins with an action it lets through.
AppliedVariantOtherParity(request) ==
  IF actuatorVariant = "hold_last" /\ lastExecuted # NoExecution THEN lastExecuted
  ELSE [of |-> request,
        as |-> IF actuatorVariant = "partial" THEN "partial"
               ELSE IF actuatorVariant = "bounded_noise" THEN "noisy"
               ELSE IF actuatorVariant = "intermittent" /\ actuatorElapsed % 2 = 0
               THEN "requested"
               ELSE "zeroed"]

AppliedVariant(request) ==
  IF actuatorVariant = "hold_last"
  THEN IF lastExecuted = NoExecution THEN [of |-> request, as |-> "zeroed"]
       ELSE lastExecuted
  ELSE [of |-> request,
        as |-> IF actuatorVariant = "partial" THEN "partial"
               ELSE IF actuatorVariant = "bounded_noise" THEN "noisy"
               ELSE IF actuatorVariant = "intermittent" /\ actuatorElapsed % 2 = 1
               THEN "requested"
               ELSE "zeroed"]

Execute(request) ==
  \/ /\ dropoutSteps > 0
     /\ lastExecuted' = [of |-> request, as |-> "zeroed"]
     /\ dropoutSteps' = dropoutSteps - 1
     /\ UNCHANGED <<actuatorSteps, actuatorVariant, actuatorElapsed>>
  \/ /\ dropoutSteps = 0 /\ actuatorSteps > 0
     /\ lastExecuted' = AppliedVariant(request)
     /\ actuatorSteps' = actuatorSteps - 1
     /\ actuatorVariant' = IF actuatorSteps' = 0 THEN "none" ELSE actuatorVariant
     /\ actuatorElapsed' = IF actuatorSteps' = 0 THEN 0 ELSE actuatorElapsed + 1
     /\ UNCHANGED dropoutSteps
  \/ /\ dropoutSteps = 0 /\ actuatorSteps = 0
     /\ lastExecuted' = [of |-> request, as |-> "requested"]
     /\ UNCHANGED <<dropoutSteps, actuatorSteps, actuatorVariant, actuatorElapsed>>

-----------------------------------------------------------------------------
(* _transform_observation                                                  *)

\* Mutant: a camera the observation lacks is passed over in silence.
TransformNeverRaises == TRUE

\* An active fault corrupts exactly the cameras it names, or the call raises.
CanTransform == occlusionSteps > 0 => occlusionKeys \subseteq Cameras

Corrupted(frame, cached) ==
  IF occlusionVariant = "stale_frame" THEN cached
  ELSE [frame EXCEPT !.look = occlusionVariant]

Transformed(observation, cache) ==
  [c \in Cameras |-> IF occlusionSteps > 0 /\ c \in occlusionKeys
                     THEN Corrupted(observation[c], cache[c])
                     ELSE observation[c]]

ConsumeOcclusion ==
  /\ occlusionSteps' = occlusionSteps - 1
  /\ occlusionVariant' = IF occlusionSteps' = 0 THEN "none" ELSE occlusionVariant
  /\ occlusionKeys' = IF occlusionSteps' = 0 THEN {} ELSE occlusionKeys

\* step: the action is executed and the observation transformed; only an
\* observation no fault touches enters the cache.
EnvironmentStep(request) ==
  /\ CanTransform
  /\ Execute(request)
  /\ preStepFrames' = lastFrames
  /\ IF occlusionSteps > 0
     THEN ConsumeOcclusion /\ UNCHANGED lastFrames
     ELSE lastFrames' = Raw(request + 1) /\ UNCHANGED occlusionVars

\* The transformation raises after the simulator has moved.
EnvironmentStepRaises(request) ==
  /\ ~CanTransform
  /\ Execute(request)
  /\ preStepFrames' = lastFrames
  /\ UNCHANGED <<occlusionVars, lastFrames>>

\* apply_pending_observation_fault: the frames a stale fault serves are those
\* of before the step; the untouched observation enters the cache when the
\* fault lasts no longer.
PendingCacheAfterStep == lastFrames  \* Mutant: the frames of after the step.

PendingCache ==
  IF occlusionVariant = "stale_frame" /\ preStepFrames # NoImages
  THEN preStepFrames ELSE lastFrames

\* Mutant: the hook does not look whether a fault is active.
ApplyPendingUnconditionally(observation) ==
  /\ ConsumeOcclusion
  /\ lastFrames' = IF occlusionSteps' = 0 THEN observation ELSE PendingCache
  /\ UNCHANGED <<actuatorVars, preStepFrames>>

\* Mutant: the hook consumes no duration step.
ApplyPendingWithoutConsuming(observation) ==
  /\ lastFrames' = IF occlusionSteps > 0 THEN PendingCache ELSE lastFrames
  /\ UNCHANGED <<actuatorVars, occlusionVars, preStepFrames>>

ApplyPendingObservationFault(observation) ==
  /\ CanTransform
  /\ IF occlusionSteps > 0
     THEN /\ ConsumeOcclusion
          /\ lastFrames' = IF occlusionSteps' = 0 THEN observation ELSE PendingCache
     ELSE UNCHANGED <<occlusionVars, lastFrames>>
  /\ UNCHANGED <<actuatorVars, preStepFrames>>
=============================================================================
