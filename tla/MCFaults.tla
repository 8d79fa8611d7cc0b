------------------------------ MODULE MCFaults ------------------------------
(***************************************************************************)
(* Instances of FaultedEpisode.  Two cameras, a key no observation has,    *)
(* durations of one to three steps (and zero, which is refused) and a      *)
(* horizon of five steps: a fault can begin at the first input, end inside *)
(* the episode, or outlive it, and two faults can be apart, adjacent,      *)
(* overlapping or nested.                                                  *)
(***************************************************************************)
EXTENDS FaultedEpisode

CONSTANTS left, right, unknown   \* camera keys

TwoCameras == {left, right}
Keys == {left, right, unknown}
DurationsWithZero == 0..3

Steps == 0..(Horizon - 1)

ObservationFault(kinds, variants, cameras, phases) ==
  {f \in [kind : kinds, step : Steps, phase : phases, duration : Durations \ {0},
          variant : variants, keys : cameras] :
     f.kind = "observation_occlusion" => f.variant = "all_zero"}

ActuatorFault(kinds, variants, phases) ==
  {f \in [kind : kinds, step : Steps, phase : phases, duration : Durations \ {0},
          variant : variants, keys : {{}}] :
     f.kind = "actuator_dropout" => f.variant = "all_channel_zero"}

Singles(faults) == {<<f>> : f \in faults}
Pairs(first, second) == {<<f, g>> : f \in first, g \in second}

\* The schedules of the monitor and pilot protocols.
ProtocolSchedules ==
  {<<>>} \cup
  Singles(ObservationFault({"observation_variant"}, {"partial_mask", "stale_frame"},
                           {{left}, {left, right}}, {"after_step"})) \cup
  Singles(ActuatorFault({"actuator_variant"}, ActuatorVariants, {"before_action"}))

\* Pairs of faults of at most two steps.
Short(faults) == {f \in faults : f.duration < 3}

\* Two observation faults in any phases.
ObservationPairs ==
  Pairs(Short(ObservationFault({"observation_variant"}, {"partial_mask", "stale_frame"},
                               {{left}, {left, right}}, Phases)),
        Short(ObservationFault({"observation_variant", "observation_occlusion"},
                               {"stale_frame", "all_zero"}, {{left}, {right}}, Phases)))

\* Two actuator faults in any phases, and one of each family.
ActuatorPairs ==
  Pairs(Short(ActuatorFault(ActuatorKinds, {"all_channel_zero", "hold_last"}, Phases)),
        Short(ActuatorFault(ActuatorKinds, {"all_channel_zero", "intermittent"}, Phases)))

MixedPairs ==
  Pairs(ObservationFault({"observation_variant"}, {"partial_mask", "stale_frame"},
                         {{left}}, Phases),
        ActuatorFault(ActuatorKinds, {"all_channel_zero"}, Phases))

\* Faults that are refused, that name a camera no observation has, or that the
\* adapter cannot apply, next to one that is in order.
Refused ==
  Short(ObservationFault(ObservationKinds, {"all_zero"}, {{}, {left}, {left, unknown}},
                         Phases))
    \cup [kind : {"observation_occlusion"}, step : Steps, phase : Phases, duration : {0},
          variant : {"all_zero"}, keys : {{left}}]
    \cup [kind : {"object_displacement"}, step : Steps, phase : Phases, duration : {0},
          variant : {"all_zero"}, keys : {{}}]
    \cup [kind : {"observation_variant", "actuator_variant"}, step : Steps, phase : Phases,
           duration : {1}, variant : {"all_zero", "hold_last"}, keys : {{left}}]

OddPairs ==
  Pairs(Refused, Short(ObservationFault({"observation_variant"}, {"stale_frame"}, {{left}},
                                        {"after_step"})))

AnyPair == ObservationPairs \cup ActuatorPairs \cup MixedPairs \cup OddPairs
PairOrProtocol == AnyPair \cup ProtocolSchedules
=============================================================================
