------------------------ MODULE DeclaredFaultProofs ------------------------
(***************************************************************************)
(* Observation faults whose declared windows do not overlap corrupt        *)
(* exactly what they declare, and the labels and the pilot's verdict agree *)
(* with what the faults did, for any schedules, cameras, durations,        *)
(* horizon and number of episodes.                                         *)
(***************************************************************************)
EXTENDS FaultProofs

\* The precondition of the properties.
Apart == ~Overlapping(ObservationFaults) /\ AfterStepFaultsAreObservations

VariantOf(fault) == IF fault.kind = "observation_occlusion" THEN "all_zero" ELSE fault.variant

Uncorrupted(n) == \A c \in Cameras : ~CorruptedInput(n, c)

\* A clean frame from before input n, from the input before it if that was clean.
FrameBefore(frame, n) ==
  /\ frame.look = "clean" /\ frame.captured < n
  /\ Uncorrupted(n - 1) => frame.captured = n - 1

AllBefore(frames, n) == \A c \in Cameras : FrameBefore(frames[c], n)

\* The frames a stale fault serves next.
Source == IF pc = "after" /\ afterApplied THEN PendingCache ELSE lastFrames

\* The fault the countdown belongs to.
IsActive(i) ==
  /\ End(i) = NextInput + occlusionSteps
  /\ occlusionKeys = schedule[i].keys /\ occlusionKeys # {}
  /\ occlusionVariant = VariantOf(schedule[i])
  /\ occlusionVariant = "stale_frame" => AllBefore(Source, First(i))

ExactCountdown ==
  /\ occlusionSteps > 0 => \E i \in ObservationFaults : IsActive(i)
  /\ occlusionSteps = 0 => \A i \in ObservationFaults : End(i) <= NextInput

CachesHold ==
  /\ pc = "before" => AllBefore(lastFrames, step + 1)
  /\ pc \in {"after", "row"} => AllBefore(lastFrames, step + 2)
  /\ pc = "after" => AllBefore(preStepFrames, step + 1)

\* The observation the hook is given has not been touched yet.
HookHolds ==
  pc = "after" /\ afterApplied =>
    /\ inputs[step + 2] = Raw(step + 1)
    /\ \E i \in ObservationFaults : First(i) = step + 1

\* Input n shows what the faults declare of it.
InputHolds(n, image) ==
  /\ \A c \in Cameras :
       image[c] # [captured |-> n, look |-> "clean"] <=>
         \E i \in ObservationFaults : n \in Window(i) /\ c \in schedule[i].keys
  /\ \A i \in ObservationFaults :
       n \in Window(i) =>
         /\ schedule[i].keys \subseteq Cameras /\ schedule[i].keys # {}
         /\ VariantOf(schedule[i]) = "stale_frame" =>
              \A c \in schedule[i].keys : FrameBefore(image[c], First(i))

InputsHold == \A n \in 1..(NextInput - 1) : InputHolds(n, inputs[n + 1])

DeclaredInv ==
  /\ FaultTypeInv
  /\ Apart => /\ pc \in Looping => ExactCountdown /\ CachesHold /\ HookHolds
              /\ pc \in Looping \cup {"reset"} => InputsHold

-----------------------------------------------------------------------------
(* Windows that do not overlap.                                            *)

LEMMA OnlyOne ==
  ASSUME Apart, NEW i \in ObservationFaults, NEW j \in ObservationFaults, NEW n,
         n \in Window(i), n \in Window(j)
  PROVE  i = j
  BY DEF Apart, Overlapping

LEMMA ApartBefore ==
  ASSUME Apart', applied \subseteq applied', schedule' = schedule
  PROVE  Apart /\ ObservationFaults \subseteq ObservationFaults'
  <1>1. ObservationFaults \subseteq ObservationFaults'
    BY DEF ObservationFaults
  <1>2. \A i : Window(i)' = Window(i)
    BY DEF Window
  <1>3. ~Overlapping(ObservationFaults)
    BY <1>1, <1>2 DEF Apart, Overlapping
  <1>4. ASSUME NEW i \in applied, schedule[i].phase = "after_step"
        PROVE  i \in ObservationFaults
    <2>1. i \in ObservationFaults'
      BY <1>4 DEF Apart, AfterStepFaultsAreObservations
    <2> QED
      BY <1>4, <2>1 DEF ObservationFaults
  <1> QED
    BY <1>1, <1>3, <1>4 DEF Apart, AfterStepFaultsAreObservations

LEMMA ObservationWindow ==
  ASSUME FaultTypeInv, NEW i \in ObservationFaults
  PROVE  /\ First(i) \in Nat /\ First(i) >= 1 /\ End(i) \in Int
         /\ Window(i) = First(i)..(End(i) - 1)
         /\ pc \in Looping => First(i) <= step + 1 /\ First(i) < End(i)
  <1>1. i \in applied /\ schedule[i] \in Faults
    BY WindowFacts DEF ObservationFaults
  <1>2. First(i) = schedule[i].step + 1 /\ schedule[i].step \in Nat /\ schedule[i].duration \in Int
    BY <1>1, WindowFacts, FaultFields
  <1>3. pc \in Looping => schedule[i].duration > 0
    BY <1>1 DEF FaultTypeInv, InjectionsHold, AppliedAt
  <1>4. pc \in Looping => First(i) < End(i)
    BY <1>2, <1>3 DEF End
  <1> QED
    BY <1>1, <1>2, <1>4, WindowFacts

\* The countdown runs for the one fault whose window the next input is in.
LEMMA ActiveOnly ==
  ASSUME FaultTypeInv, Apart, pc \in Looping, ExactCountdown, occlusionSteps > 0
  PROVE  \E i \in ObservationFaults :
           /\ IsActive(i) /\ NextInput \in Window(i)
           /\ \A j \in ObservationFaults : NextInput \in Window(j) => j = i
           /\ \A n \in Int : First(i) <= n /\ n <= NextInput => n \in Window(i)
  <1>1. PICK i \in ObservationFaults : IsActive(i)
    BY DEF ExactCountdown
  <1>2. step + 1 <= NextInput /\ NextInput \in Int /\ occlusionSteps \in Nat /\ step \in Nat
    BY InputCount DEF Looping
  <1>3. /\ First(i) \in Nat /\ First(i) <= step + 1 /\ Window(i) = First(i)..(End(i) - 1)
        /\ End(i) \in Int /\ End(i) = NextInput + occlusionSteps
    BY <1>1, ObservationWindow DEF IsActive
  <1>4. \A n \in Int : First(i) <= n /\ n <= NextInput => n \in Window(i)
    BY <1>2, <1>3
  <1>5. NextInput \in Window(i)
    BY <1>2, <1>3, <1>4
  <1> QED
    BY <1>1, <1>4, <1>5, OnlyOne

LEMMA NoneActive ==
  ASSUME FaultTypeInv, pc \in Looping, ExactCountdown, occlusionSteps = 0,
         NEW i \in ObservationFaults
  PROVE  NextInput \notin Window(i)
  <1>1. End(i) <= NextInput /\ End(i) \in Int /\ NextInput \in Int
    BY ObservationWindow, InputCount DEF ExactCountdown
  <1> QED
    BY <1>1, ObservationWindow
-----------------------------------------------------------------------------
(* What a step of the episode leaves alone.                                *)

LEMMA FrameKept ==
  ASSUME NEW frame, NEW n \in Int, FrameBefore(frame, n), inputs'[n] = inputs[n]
  PROVE  FrameBefore(frame, n)'
  <1>1. n - 1 + 1 = n
    OBVIOUS
  <1>2. Uncorrupted(n - 1)' => Uncorrupted(n - 1)
    BY <1>1 DEF Uncorrupted, CorruptedInput
  <1> QED
    BY <1>2 DEF FrameBefore

LEMMA InputKept ==
  ASSUME FaultTypeInv, FaultTypeInv',
         NEW n \in Int, NEW image, InputHolds(n, image),
         schedule' = schedule, ObservationFaults \subseteq ObservationFaults',
         \A i \in ObservationFaults' \ ObservationFaults : n \notin Window(i),
         \A m \in 1..n : inputs'[m] = inputs[m]
  PROVE  InputHolds(n, image)'
  <1>1. \A i : Window(i)' = Window(i) /\ First(i)' = First(i)
    BY DEF Window, First
  <1>2. \A c : (\E i \in ObservationFaults : n \in Window(i) /\ c \in schedule[i].keys)
             <=> (\E i \in ObservationFaults' : n \in Window(i)' /\ c \in schedule'[i].keys)
    BY <1>1
  <1>3. ASSUME NEW i \in ObservationFaults', n \in Window(i)
        PROVE  /\ schedule[i].keys \subseteq Cameras /\ schedule[i].keys # {}
               /\ VariantOf(schedule[i]) = "stale_frame" =>
                    \A c \in schedule[i].keys : FrameBefore(image[c], First(i))'
    <2>1. i \in ObservationFaults
      BY <1>3
    <2>2. First(i) \in 1..n
      BY <1>3, <2>1, ObservationWindow
    <2>3. \A c : FrameBefore(image[c], First(i)) => FrameBefore(image[c], First(i))'
      <3>1. PICK first : first = First(i)
        OBVIOUS
      <3>2. first \in Int /\ inputs'[first] = inputs[first] /\ First(i)' = first
        BY <1>1, <2>2, <3>1
      <3>3. \A frame : FrameBefore(frame, first) => FrameBefore(frame, first)'
        BY <3>2, FrameKept
      <3> QED
        BY <3>1, <3>2, <3>3 DEF FrameBefore
    <2> QED
      BY <1>3, <2>1, <2>3 DEF InputHolds
  <1> QED
    BY <1>1, <1>2, <1>3 DEF InputHolds, VariantOf

LEMMA CountdownKept ==
  ASSUME ExactCountdown, UNCHANGED <<schedule, inputs, occlusionVars>>, FaultTypeInv,
         ObservationFaults' = ObservationFaults, NextInput' = NextInput, Source' = Source
  PROVE  ExactCountdown'
  <1>1. \A i : First(i)' = First(i) /\ End(i)' = End(i)
    BY DEF First, End
  <1>2. \A frames, n : AllBefore(frames, n)' = AllBefore(frames, n)
    BY DEF AllBefore, FrameBefore, Uncorrupted, CorruptedInput
  <1>3. ASSUME NEW i \in ObservationFaults, IsActive(i)
        PROVE  IsActive(i)'
    <2>1. PICK frames : frames = Source
      OBVIOUS
    <2>2. PICK first : first = First(i)
      OBVIOUS
    <2>3. AllBefore(Source, First(i)) => AllBefore(frames, first)'
      BY <1>2, <2>1, <2>2
    <2>4. AllBefore(frames, first)' => AllBefore(Source, First(i))'
      BY <1>1, <2>1, <2>2 DEF AllBefore
    <2> QED
      BY <1>1, <1>3, <2>3, <2>4 DEF IsActive, occlusionVars
  <1> QED
    BY <1>1, <1>3 DEF ExactCountdown, occlusionVars

LEMMA InputsKept ==
  ASSUME InputsHold, FaultTypeInv, FaultTypeInv', UNCHANGED <<schedule, inputs>>,
         ObservationFaults' = ObservationFaults, NextInput' = NextInput
  PROVE  InputsHold'
  <1>1. ASSUME NEW n \in 1..(NextInput - 1)
        PROVE  InputHolds(n, inputs[n + 1])'
    <2>1. InputHolds(n, inputs[n + 1]) /\ n \in Int
      BY <1>1 DEF InputsHold
    <2>2. PICK image : image = inputs[n + 1] /\ image = inputs'[n + 1]
      OBVIOUS
    <2>3. InputHolds(n, image)'
      BY <2>1, <2>2, InputKept
    <2> QED
      BY <2>2, <2>3 DEF InputHolds
  <1> QED
    BY <1>1 DEF InputsHold

\* Nothing of the observation faults, of the frames or of the inputs changes.
LEMMA DeclaredOther ==
  ASSUME DeclaredInv, FaultTypeInv', Apart' => Apart, pc \in Looping, pc' \in Looping \cup {"reset"},
         UNCHANGED <<schedule, inputs, occlusionVars>>, ObservationFaults' = ObservationFaults,
         NextInput' = NextInput, Source' = Source,
         CachesHold => CachesHold', HookHolds => HookHolds'
  PROVE  DeclaredInv'
  <1>1. CASE Apart'
    <2>1. FaultTypeInv /\ ExactCountdown /\ CachesHold /\ HookHolds /\ InputsHold
      BY <1>1 DEF DeclaredInv
    <2>2. ExactCountdown' /\ InputsHold'
      BY <2>1, CountdownKept, InputsKept
    <2> QED
      BY <2>1, <2>2 DEF DeclaredInv
  <1> QED
    BY <1>1 DEF DeclaredInv
-----------------------------------------------------------------------------
(* The observation that step or the hook returns.                          *)

LEMMA SourceType ==
  ASSUME FaultTypeInv
  PROVE  Source \in Images /\ \A c \in Cameras : Source[c] \in Frames /\ Source[c].captured \in Nat
  <1>1. Source \in Images
    BY PendingCacheType DEF FaultTypeInv, TypeOK, EnvironmentTypeOK, Source
  <1>2. \A c \in Cameras : Source[c] \in Frames
    BY <1>1 DEF Images
  <1>3. 0..Horizon \subseteq Nat
    BY HorizonAssumption
  <1> QED
    BY <1>1, <1>2, <1>3 DEF Frames

\* An active fault whose cameras the observation has corrupts them and no other.
LEMMA TransformExact ==
  ASSUME FaultTypeInv, Apart, pc \in Looping, ExactCountdown, CanTransform,
         NextInput = step + 1
  PROVE  InputHolds(step + 1, Transformed(Raw(step + 1), Source))
  <1> DEFINE image == Transformed(Raw(step + 1), Source)
             clean == [captured |-> step + 1, look |-> "clean"]
  <1>1. \A c \in Cameras : Raw(step + 1)[c] = clean
    BY DEF Raw
  <1>2. step + 1 \in Int /\ occlusionSteps \in Nat
    BY InputCount
  <1>3. CASE occlusionSteps = 0
    <2>1. \A c \in Cameras : image[c] = clean
      BY <1>1, <1>3 DEF Transformed
    <2>2. \A i \in ObservationFaults : step + 1 \notin Window(i)
      BY <1>3, NoneActive
    <2> HIDE DEF image
    <2>3. InputHolds(step + 1, image)
      BY <2>1, <2>2 DEF InputHolds
    <2> QED
      BY <2>3 DEF image
  <1>4. CASE occlusionSteps > 0
    <2>1. PICK i \in ObservationFaults :
            /\ IsActive(i) /\ step + 1 \in Window(i)
            /\ \A j \in ObservationFaults : step + 1 \in Window(j) => j = i
      BY <1>4, ActiveOnly
    <2>2. /\ occlusionKeys = schedule[i].keys /\ occlusionKeys # {}
          /\ occlusionVariant = VariantOf(schedule[i])
          /\ occlusionVariant = "stale_frame" => AllBefore(Source, First(i))
      BY <2>1 DEF IsActive
    <2>3. occlusionKeys \subseteq Cameras
      BY <1>4 DEF CanTransform
    <2>4. First(i) <= step + 1 /\ First(i) \in Nat
      BY <2>1, ObservationWindow
    <2>5. \A c \in Cameras \ occlusionKeys : image[c] = clean
      BY <1>1 DEF Transformed
    <2>6. ASSUME NEW c \in occlusionKeys
          PROVE  /\ image[c] # clean
                 /\ occlusionVariant = "stale_frame" => FrameBefore(image[c], First(i))
      <3>1. image[c] = Corrupted(clean, Source[c])
        BY <1>1, <1>4, <2>3 DEF Transformed
      <3>2. CASE occlusionVariant = "stale_frame"
        <4>1. image[c] = Source[c] /\ FrameBefore(Source[c], First(i))
          BY <2>2, <2>3, <3>1, <3>2 DEF Corrupted, AllBefore
        <4>2. Source[c].captured \in Nat /\ Source[c].captured < First(i)
          BY <2>3, <4>1, SourceType DEF FrameBefore
        <4>3. Source[c].captured # step + 1
          BY <1>2, <2>4, <4>2
        <4>4. Source[c] # clean
          BY <4>3
        <4> QED
          BY <4>1, <4>4
      <3>3. CASE occlusionVariant # "stale_frame"
        <4>1. image[c] = [clean EXCEPT !.look = occlusionVariant]
          BY <3>1, <3>3 DEF Corrupted
        <4>2. image[c].look = occlusionVariant
          BY <4>1
        <4>3. occlusionVariant # "clean"
          BY <1>4 DEF FaultTypeInv, ObservationVariants
        <4> QED
          BY <3>3, <4>2, <4>3
      <3> QED
        BY <3>2, <3>3
    <2> HIDE DEF image, clean
    <2>7. \A c \in Cameras : image[c] # clean <=> c \in occlusionKeys
      BY <2>5, <2>6
    <2>8. \A c \in Cameras :
            image[c] # clean <=>
              \E j \in ObservationFaults : step + 1 \in Window(j) /\ c \in schedule[j].keys
      BY <2>1, <2>2, <2>7
    <2>9. \A j \in ObservationFaults :
            step + 1 \in Window(j) =>
              /\ schedule[j].keys \subseteq Cameras /\ schedule[j].keys # {}
              /\ VariantOf(schedule[j]) = "stale_frame" =>
                   \A c \in schedule[j].keys : FrameBefore(image[c], First(j))
      BY <2>1, <2>2, <2>3, <2>6
    <2>10. InputHolds(step + 1, image)
      BY <2>8, <2>9 DEF InputHolds, clean
    <2> QED
      BY <2>10 DEF image
  <1> QED
    BY <1>2, <1>3, <1>4

\* What step and the hook have in common: an input is shown and the countdown
\* of the fault that corrupts it, if any, goes on.
LEMMA ShownNext ==
  ASSUME FaultTypeInv, FaultTypeInv', Apart, pc \in Looping, ExactCountdown, InputsHold,
         CanTransform, UNCHANGED <<schedule, step, applied>>,
         NextInput = step + 1, NextInput' = step + 2, Source' = lastFrames',
         \A m \in 1..(step + 1) : inputs'[m] = inputs[m],
         inputs'[step + 2] = Transformed(Raw(step + 1), Source),
         IF occlusionSteps > 0 THEN ConsumeOcclusion ELSE UNCHANGED occlusionVars,
         occlusionSteps' > 0 => lastFrames' = Source
  PROVE  /\ ExactCountdown' /\ InputsHold'
         /\ occlusionSteps > 0 => ~Uncorrupted(step + 1)'
  <1>1. /\ ObservationFaults' = ObservationFaults
        /\ \A i : Window(i)' = Window(i) /\ First(i)' = First(i) /\ End(i)' = End(i)
    BY DEF ObservationFaults, Window, First, End
  <1>2. step \in Nat /\ occlusionSteps \in Nat /\ occlusionSteps' \in Nat
    BY InputCount, InputCountNext
  <1>3. PICK image : image = inputs'[step + 2] /\ image = Transformed(Raw(step + 1), Source)
    <2> HIDE DEF Transformed
    <2> QED
      OBVIOUS
  <1>4. InputHolds(step + 1, image)
    <2>1. PICK shown : shown = Transformed(Raw(step + 1), Source)
      OBVIOUS
    <2>2. InputHolds(step + 1, shown)
      BY <2>1, TransformExact DEF InputHolds
    <2> QED
      BY <1>3, <2>1, <2>2
  <1>5. InputHolds(step + 1, image)'
    <2>1. PICK n \in Int : n = step + 1
      BY <1>2
    <2>2. InputHolds(n, image)
      BY <1>4, <2>1
    <2>3. InputHolds(n, image)'
      BY <1>1, <2>1, <2>2, InputKept
    <2> QED
      BY <2>1, <2>3 DEF InputHolds
  <1>6. InputsHold'
    <2>1. ASSUME NEW n \in 1..(step + 1)
          PROVE  InputHolds(n, inputs[n + 1])'
      <3>1. CASE n = step + 1
        <4>1. image = inputs'[n + 1]
          BY <1>2, <1>3, <3>1
        <4> QED
          BY <1>5, <3>1, <4>1 DEF InputHolds
      <3>2. CASE n # step + 1
        <4>1. n \in 1..step /\ n \in Int /\ n + 1 \in 1..(step + 1)
          BY <1>2, <3>2
        <4>2. \A m \in 1..n : inputs'[m] = inputs[m]
          BY <1>2, <4>1
        <4>3. InputHolds(n, inputs[n + 1])
          BY <1>2, <4>1 DEF InputsHold
        <4>4. PICK old : old = inputs[n + 1] /\ old = inputs'[n + 1]
          BY <4>1
        <4>5. InputHolds(n, old)'
          BY <1>1, <4>1, <4>2, <4>3, <4>4, InputKept
        <4> QED
          BY <4>4, <4>5 DEF InputHolds
      <3> QED
        BY <3>1, <3>2
    <2>2. \A n \in 1..(NextInput' - 1) : n \in 1..(step + 1)
      BY <1>2
    <2>3. \A n \in 1..(NextInput' - 1) : InputHolds(n, inputs[n + 1])'
      BY <2>1, <2>2
    <2> QED
      BY <2>3 DEF InputsHold
  <1>7. CASE occlusionSteps > 0
    <2>1. PICK i \in ObservationFaults :
            /\ IsActive(i) /\ step + 1 \in Window(i)
            /\ \A j \in ObservationFaults : step + 1 \in Window(j) => j = i
      BY <1>7, ActiveOnly
    <2>2. /\ End(i) = step + 1 + occlusionSteps
          /\ occlusionKeys = schedule[i].keys /\ occlusionKeys # {}
          /\ occlusionVariant = VariantOf(schedule[i])
          /\ occlusionVariant = "stale_frame" => AllBefore(Source, First(i))
      BY <2>1 DEF IsActive
    <2>3. occlusionSteps' = occlusionSteps - 1
      BY <1>7 DEF ConsumeOcclusion
    <2>4. ~Uncorrupted(step + 1)'
      <3>1. PICK c \in occlusionKeys : c \in Cameras
        BY <1>7, <2>2 DEF CanTransform
      <3>2. image[c] # [captured |-> step + 1, look |-> "clean"]
        BY <1>4, <2>1, <2>2, <3>1 DEF InputHolds
      <3>3. inputs'[step + 1 + 1] = image
        BY <1>2, <1>3
      <3> QED
        BY <3>1, <3>2, <3>3 DEF Uncorrupted, CorruptedInput
    <2>5. CASE occlusionSteps' > 0
      <3>1. /\ occlusionKeys' = occlusionKeys /\ occlusionVariant' = occlusionVariant
            /\ Source' = Source
        BY <1>7, <1>2, <2>5 DEF ConsumeOcclusion
      <3>2. End(i)' = NextInput' + occlusionSteps'
        BY <1>1, <1>2, <2>2, <2>3
      <3>3. occlusionVariant' = "stale_frame" => AllBefore(Source, First(i))'
        <4>1. PICK first \in Int : first = First(i) /\ first = First(i)' /\ inputs'[first] = inputs[first]
          BY <1>1, <1>2, <2>1, ObservationWindow
        <4>2. PICK frames : frames = Source /\ frames = Source'
          BY <3>1
        <4>3. ASSUME occlusionVariant' = "stale_frame", NEW c \in Cameras
              PROVE  FrameBefore(frames[c], first)'
          <5>1. FrameBefore(frames[c], first)
            BY <2>2, <3>1, <4>1, <4>2, <4>3 DEF AllBefore
          <5> QED
            BY <4>1, <5>1, FrameKept
        <4> QED
          BY <4>1, <4>2, <4>3 DEF AllBefore, FrameBefore
      <3>4. IsActive(i)'
        BY <2>2, <3>1, <3>2, <3>3 DEF IsActive
      <3> QED
        BY <1>1, <1>6, <2>4, <2>5, <3>4 DEF ExactCountdown
    <2>6. CASE ~(occlusionSteps' > 0)
      <3>1. ASSUME NEW j \in ObservationFaults
            PROVE  End(j) <= step + 2
        <4>1. CASE j = i
          BY <1>2, <2>2, <2>3, <2>6, <4>1
        <4>2. CASE j # i
          <5>1. step + 1 \notin Window(j)
            BY <2>1, <4>2
          <5> QED
            BY <1>2, <5>1, ObservationWindow
        <4> QED
          BY <4>1, <4>2
      <3> QED
        BY <1>1, <1>6, <2>4, <2>6, <3>1 DEF ExactCountdown
    <2> QED
      BY <2>5, <2>6
  <1>8. CASE ~(occlusionSteps > 0)
    <2>1. occlusionSteps = 0 /\ occlusionSteps' = 0
      BY <1>2, <1>8 DEF occlusionVars
    <2>2. \A i \in ObservationFaults : End(i) <= step + 1 /\ End(i) \in Int
      BY <2>1, ObservationWindow DEF ExactCountdown
    <2>3. \A i \in ObservationFaults' : End(i)' <= NextInput'
      BY <1>1, <1>2, <2>2
    <2> QED
      BY <1>6, <1>8, <2>1, <2>3 DEF ExactCountdown
  <1> QED
    BY <1>7, <1>8

\* The frames of an unaffected observation, or older ones when it is corrupted.
LEMMA LatestFrames ==
  ASSUME step' = step, step \in Nat,
         \A c \in Cameras :
           /\ lastFrames'[c].look = "clean" /\ lastFrames'[c].captured < step + 2
           /\ Uncorrupted(step + 1)' => lastFrames'[c].captured = step + 1
  PROVE  AllBefore(lastFrames, step + 2)'
  <1>1. step' + 2 - 1 = step' + 1 /\ step' + 2 = step + 2 /\ step' + 1 = step + 1
    OBVIOUS
  <1>2. Uncorrupted(step + 2 - 1)' => Uncorrupted(step + 1)'
    BY <1>1 DEF Uncorrupted
  <1>3. ASSUME NEW c \in Cameras
        PROVE  FrameBefore(lastFrames[c], step + 2)'
    <2>1. /\ lastFrames'[c].look = "clean" /\ lastFrames'[c].captured < step' + 2
          /\ Uncorrupted(step + 2 - 1)' => lastFrames'[c].captured = step' + 2 - 1
      BY <1>1, <1>2
    <2> QED
      BY <2>1 DEF FrameBefore
  <1> QED
    BY <1>3 DEF AllBefore

\* A frame the simulator has just returned precedes the next input.
LEMMA RawPrecedes ==
  ASSUME NEW n \in Nat
  PROVE  AllBefore(Raw(n), n + 1)
  <1>1. n + 1 - 1 = n /\ n < n + 1
    OBVIOUS
  <1>2. \A c \in Cameras : Raw(n)[c] = [captured |-> n, look |-> "clean"]
    BY DEF Raw
  <1> QED
    BY <1>1, <1>2 DEF AllBefore, FrameBefore

LEMMA DeclaredStep ==
  ASSUME DeclaredInv, Step, Apart'
  PROVE  DeclaredInv'
  <1>1. FaultTypeInv /\ FaultTypeInv'
    BY StepType DEF DeclaredInv
  <1>2. /\ pc = "before" /\ pc' = "after" /\ afterApplied' = FALSE /\ CanTransform
        /\ inputs' = Append(inputs, Transformed(Raw(step + 1), lastFrames))
        /\ UNCHANGED <<schedule, step, applied>> /\ preStepFrames' = lastFrames
        /\ IF occlusionSteps > 0
           THEN ConsumeOcclusion /\ UNCHANGED lastFrames
           ELSE lastFrames' = Raw(step + 1) /\ UNCHANGED occlusionVars
    BY DEF Step, EnvironmentStep
  <1>3. /\ Len(inputs) = step + 1 /\ NextInput = step + 1 /\ NextInput' = step + 2
        /\ step \in Nat /\ inputs \in Seq(Images)
        /\ occlusionSteps \in Nat /\ occlusionSteps' \in Nat
        /\ Source = lastFrames /\ Source' = lastFrames'
    BY <1>1, <1>2, InputCount, InputCountNext DEF Source
  <1>4. Apart /\ ExactCountdown /\ CachesHold /\ InputsHold
    BY <1>2, ApartBefore DEF DeclaredInv, Looping
  <1>5. /\ \A m \in 1..(step + 1) : inputs'[m] = inputs[m]
        /\ inputs'[step + 2] = Transformed(Raw(step + 1), Source)
    <2>1. PICK shown : shown = Transformed(Raw(step + 1), lastFrames)
      OBVIOUS
    <2>2. inputs' = Append(inputs, shown)
      BY <1>2, <2>1
    <2> HIDE DEF Transformed
    <2> QED
      BY <1>3, <2>1, <2>2
  <1>6. occlusionSteps' > 0 => lastFrames' = Source
    BY <1>2, <1>3 DEF occlusionVars
  <1>7. ExactCountdown' /\ InputsHold' /\ (occlusionSteps > 0 => ~Uncorrupted(step + 1)')
    BY <1>1, <1>2, <1>3, <1>4, <1>5, <1>6, ShownNext DEF Looping
  <1>8. AllBefore(lastFrames, step + 1)
    BY <1>2, <1>4 DEF CachesHold
  <1>9. AllBefore(preStepFrames, step + 1)'
    <2>1. PICK frames : frames = lastFrames /\ frames = preStepFrames'
      BY <1>2
    <2>2. PICK n \in Int : n = step + 1 /\ n = step' + 1 /\ inputs'[n] = inputs[n]
      BY <1>2, <1>3, <1>5
    <2>3. \A c \in Cameras : FrameBefore(frames[c], n)
      BY <1>8, <2>1, <2>2 DEF AllBefore
    <2>4. \A c \in Cameras : FrameBefore(frames[c], n)'
      BY <2>2, <2>3, FrameKept
    <2> QED
      BY <2>1, <2>2, <2>4 DEF AllBefore, FrameBefore
  <1>10. ASSUME NEW c \in Cameras
         PROVE  /\ lastFrames'[c].look = "clean" /\ lastFrames'[c].captured < step + 2
                /\ Uncorrupted(step + 1)' => lastFrames'[c].captured = step + 1
    <2>1. CASE occlusionSteps > 0
      <3>1. /\ lastFrames[c].look = "clean" /\ lastFrames[c].captured < step + 1
            /\ lastFrames[c].captured \in Nat
        BY <1>1, <1>3, <1>8, SourceType DEF AllBefore, FrameBefore
      <3> QED
        BY <1>2, <1>3, <1>7, <2>1, <3>1
    <2>2. CASE ~(occlusionSteps > 0)
      <3>1. lastFrames'[c] = [captured |-> step + 1, look |-> "clean"]
        BY <1>2, <2>2 DEF Raw
      <3> QED
        BY <1>3, <3>1
    <2> QED
      BY <2>1, <2>2
  <1>11. AllBefore(lastFrames, step + 2)'
    BY <1>2, <1>3, <1>10, LatestFrames
  <1> QED
    BY <1>1, <1>2, <1>7, <1>9, <1>11 DEF DeclaredInv, CachesHold, HookHolds

LEMMA DeclaredHook ==
  ASSUME DeclaredInv, PendingHook, Apart'
  PROVE  DeclaredInv'
  <1>1. FaultTypeInv /\ FaultTypeInv'
    BY PendingHookType DEF DeclaredInv
  <1>2. /\ pc = "after" /\ pc' = "row" /\ afterApplied /\ CanTransform
        /\ inputs' = [inputs EXCEPT ![step + 2] = Transformed(inputs[step + 2], PendingCache)]
        /\ UNCHANGED <<schedule, step, applied>>
        /\ IF occlusionSteps > 0
           THEN /\ ConsumeOcclusion
                /\ lastFrames' = IF occlusionSteps' = 0 THEN inputs[step + 2] ELSE PendingCache
           ELSE UNCHANGED <<occlusionVars, lastFrames>>
    BY DEF PendingHook, ApplyPendingObservationFault
  <1>3. /\ Len(inputs) = step + 2 /\ NextInput = step + 1 /\ NextInput' = step + 2
        /\ step \in Nat /\ inputs \in Seq(Images)
        /\ occlusionSteps \in Nat /\ occlusionSteps' \in Nat
        /\ Source = PendingCache /\ Source' = lastFrames'
    BY <1>1, <1>2, InputCount, InputCountNext DEF Source
  <1>4. Apart /\ ExactCountdown /\ CachesHold /\ InputsHold /\ HookHolds
    BY <1>2, ApartBefore DEF DeclaredInv, Looping
  <1>5. inputs[step + 2] = Raw(step + 1)
    BY <1>2, <1>4 DEF HookHolds
  <1>6. occlusionSteps > 0
    <2>1. PICK i \in ObservationFaults : First(i) = step + 1
      BY <1>2, <1>4 DEF HookHolds
    <2>2. step + 1 < End(i) /\ End(i) \in Int
      BY <1>1, <1>2, <2>1, ObservationWindow DEF Looping
    <2>3. ~(End(i) <= NextInput)
      BY <1>3, <2>2
    <2> QED
      BY <1>3, <1>4, <2>3 DEF ExactCountdown
  <1>7. /\ \A m \in 1..(step + 1) : inputs'[m] = inputs[m]
        /\ inputs'[step + 2] = Transformed(Raw(step + 1), Source)
    <2>1. PICK shown : shown = Transformed(Raw(step + 1), PendingCache)
      OBVIOUS
    <2>2. inputs' = [inputs EXCEPT ![step + 2] = shown]
      BY <1>2, <1>5, <2>1
    <2> HIDE DEF Transformed, PendingCache
    <2> QED
      BY <1>3, <2>1, <2>2
  <1>8. occlusionSteps' > 0 => lastFrames' = Source
    BY <1>2, <1>3, <1>6
  <1>9. ExactCountdown' /\ InputsHold' /\ ~Uncorrupted(step + 1)'
    BY <1>1, <1>2, <1>3, <1>4, <1>6, <1>7, <1>8, ShownNext DEF Looping
  <1>10. ASSUME NEW c \in Cameras
         PROVE  lastFrames'[c].look = "clean" /\ lastFrames'[c].captured < step + 2
    <2>1. CASE occlusionSteps' = 0
      <3>1. lastFrames'[c] = [captured |-> step + 1, look |-> "clean"]
        BY <1>2, <1>5, <1>6, <2>1 DEF Raw
      <3> QED
        BY <1>3, <3>1
    <2>2. CASE occlusionSteps' # 0
      <3>1. lastFrames' = PendingCache
        BY <1>2, <1>6, <2>2
      <3>2. PendingCache[c].captured \in Nat
        BY <1>1, <1>3, SourceType
      <3>3. \/ FrameBefore(PendingCache[c], step + 1)
            \/ FrameBefore(PendingCache[c], step + 2)
        BY <1>2, <1>4 DEF PendingCache, CachesHold, AllBefore
      <3>4. /\ PendingCache[c].look = "clean"
            /\ PendingCache[c].captured < step + 1 \/ PendingCache[c].captured < step + 2
        <4> HIDE DEF PendingCache
        <4> QED
          BY <3>3 DEF FrameBefore
      <3> QED
        BY <1>3, <3>1, <3>2, <3>4
    <2> QED
      BY <2>1, <2>2
  <1>11. AllBefore(lastFrames, step + 2)'
    BY <1>2, <1>3, <1>9, <1>10, LatestFrames
  <1> QED
    BY <1>1, <1>2, <1>9, <1>11 DEF DeclaredInv, CachesHold, HookHolds
-----------------------------------------------------------------------------
(* A fault is injected.  An observation fault that overlaps no other finds *)
(* no other active, and an observation no other has touched.               *)

LEMMA DeclaredInject ==
  ASSUME DeclaredInv, InjectFault, Apart'
  PROVE  DeclaredInv'
  <1>0. PICK d : d = FirstDue
    OBVIOUS
  <1> DEFINE fault == schedule[d]
  <1>1. FaultTypeInv /\ FaultTypeInv'
    BY InjectFaultType DEF DeclaredInv
  <1>2. /\ d \in due /\ fault \in Faults /\ fault.step = step /\ d \notin applied
        /\ pc = "after" => fault.phase = "after_step"
    <2>1. d \in due /\ fault \in Faults
      BY <1>0, <1>1, FirstDueIsDue DEF FaultTypeInv, TypeOK, InjectFault
    <2> QED
      BY <1>1, <2>1 DEF FaultTypeInv, InjectionsHold, InjectFault, DueAt
  <1>3. /\ pc \in {"before", "after"} /\ pc \in Looping /\ Inject(fault)
        /\ UNCHANGED <<pc, episode, schedule, step, inputs, executions>>
        /\ IF Applies(fault)
           THEN applied' = applied \cup {d} /\ afterApplied' = (afterApplied \/ pc = "after")
           ELSE UNCHANGED <<applied, afterApplied>>
    BY <1>0 DEF InjectFault, Looping
  <1>4. applied \subseteq applied' /\ UNCHANGED frameVars
    BY <1>1, <1>2, <1>3, InjectType DEF FaultTypeInv, TypeOK
  <1>5. /\ Apart /\ ObservationFaults \subseteq ObservationFaults'
        /\ ExactCountdown /\ CachesHold /\ HookHolds /\ InputsHold
    BY <1>3, <1>4, ApartBefore DEF DeclaredInv
  <1>6. CachesHold => CachesHold'
    <2>1. \A frames, n : AllBefore(frames, n)' = AllBefore(frames, n)
      BY <1>3 DEF AllBefore, FrameBefore, Uncorrupted, CorruptedInput
    <2>2. PICK last : last = lastFrames /\ last = lastFrames'
      BY <1>4 DEF frameVars
    <2>3. PICK pre : pre = preStepFrames /\ pre = preStepFrames'
      BY <1>4 DEF frameVars
    <2>4. /\ AllBefore(lastFrames, step + 1) => AllBefore(lastFrames, step + 1)'
          /\ AllBefore(lastFrames, step + 2) => AllBefore(lastFrames, step + 2)'
          /\ AllBefore(preStepFrames, step + 1) => AllBefore(preStepFrames, step + 1)'
      BY <1>3, <2>1, <2>2, <2>3 DEF AllBefore, FrameBefore, Uncorrupted, CorruptedInput
    <2> QED
      BY <1>3, <2>4 DEF CachesHold
  <1>7. CASE fault.kind \in ObservationKinds
    <2>1. InjectObservationFault(fault) /\ fault.duration > 0 /\ Applies(fault) /\ fault.keys # {}
      BY <1>3, <1>7 DEF Inject, ValidFault, InjectDropout, InjectActuatorVariant, Applies,
                        ObservationKinds
    <2>2. /\ ObservationFaults' = ObservationFaults \cup {d} /\ d \notin ObservationFaults
          /\ First(d) = step + 1 /\ First(d)' = step + 1
      BY <1>2, <1>3, <1>7, <2>1 DEF ObservationFaults, First, DeclaredFirst, ObservationKinds
    <2>3. /\ step \in Nat /\ NextInput' = step + 1 /\ occlusionSteps \in Nat /\ fault.duration \in Int
          /\ NextInput \in {step + 1, step + 2}
          /\ afterApplied \/ pc = "before" => NextInput = step + 1
          /\ pc = "after" /\ ~afterApplied => NextInput = step + 2
      BY <1>1, <1>2, <1>3, <2>1, InputCount, InputCountNext, FaultFields
    <2>4. End(d) = step + 1 + fault.duration /\ End(d)' = step + 1 + fault.duration
      BY <1>3, <2>2 DEF End
    <2>5. step + 1 \in Window(d)'
      <3>1. d \in ObservationFaults'
        BY <2>2
      <3>2. Window(d)' = step + 1 .. (step + 1 + fault.duration - 1)
        BY <1>3, <2>2 DEF Window, First
      <3> QED
        BY <2>1, <2>3, <3>2
    <2>6. \A i \in ObservationFaults : step + 1 \notin Window(i)
      <3>1. \A i \in ObservationFaults : Window(i)' = Window(i)
        BY <1>3 DEF Window
      <3> QED
        BY <2>2, <2>5, <3>1 DEF Apart, Overlapping
    <2>7. occlusionSteps = 0
      <3>1. SUFFICES ASSUME occlusionSteps > 0
                     PROVE  FALSE
        BY <2>3
      <3>2. PICK i \in ObservationFaults :
              \A n \in Int : First(i) <= n /\ n <= NextInput => n \in Window(i)
        BY <1>1, <1>3, <1>5, <3>1, ActiveOnly
      <3>3. First(i) <= step + 1 /\ step + 1 <= NextInput
        BY <1>1, <1>3, <2>3, ObservationWindow
      <3> QED
        BY <2>3, <2>6, <3>2, <3>3
    <2>8. /\ occlusionSteps' = fault.duration /\ occlusionKeys' = fault.keys
          /\ occlusionVariant' = VariantOf(fault)
      BY <2>1, <2>3, <2>7 DEF InjectObservationFault, Larger, VariantOf
    <2>9. occlusionVariant' = "stale_frame" => AllBefore(Source, First(d))'
      <3>1. CASE pc = "before"
        <4>1. Source' = lastFrames' /\ AllBefore(lastFrames, step + 1)'
          BY <1>3, <1>5, <1>6, <3>1 DEF Source, CachesHold
        <4> QED
          BY <1>3, <2>2, <4>1 DEF AllBefore
      <3>2. CASE pc = "after" /\ occlusionVariant' = "stale_frame"
        <4>1. preStepFrames' # NoImages /\ AllBefore(preStepFrames, step + 1)'
          BY <1>1, <1>3, <1>5, <1>6, <3>2 DEF CachesHold, FaultTypeInv, LengthsHold
        <4>2. Source' = preStepFrames'
          BY <1>3, <2>1, <3>2, <4>1 DEF Source, PendingCache
        <4> QED
          BY <1>3, <2>2, <4>1, <4>2 DEF AllBefore
      <3> QED
        BY <1>3, <3>1, <3>2
    <2>10. ExactCountdown'
      <3>1. End(d)' = NextInput' + occlusionSteps' /\ occlusionSteps' > 0
        BY <2>1, <2>3, <2>4, <2>8
      <3>2. IsActive(d)'
        BY <1>3, <2>1, <2>8, <2>9, <3>1 DEF IsActive
      <3> QED
        BY <2>2, <3>1, <3>2 DEF ExactCountdown
    <2>11. HookHolds'
      <3>1. ASSUME pc = "after"
            PROVE  inputs[step + 2] = Raw(step + 1)
        <4>1. CASE afterApplied
          BY <1>5, <3>1, <4>1 DEF HookHolds
        <4>2. CASE ~afterApplied
          <5>1. step + 1 \in 1..(NextInput - 1) /\ step + 1 + 1 = step + 2
            BY <2>3, <3>1, <4>2
          <5>2. InputHolds(step + 1, inputs[step + 2])
            BY <1>5, <5>1 DEF InputsHold
          <5>3. \A c \in Cameras : inputs[step + 2][c] = [captured |-> step + 1, look |-> "clean"]
            BY <2>6, <5>2 DEF InputHolds
          <5>4. inputs[step + 2] \in Images
            BY <1>1, <2>3, <3>1, InputCount
          <5> QED
            BY <5>3, <5>4 DEF Images, Raw
        <4> QED
          BY <4>1, <4>2
      <3> QED
        BY <1>3, <2>2, <3>1 DEF HookHolds
    <2>12. InputsHold'
      <3>1. ASSUME NEW n \in 1..step
            PROVE  InputHolds(n, inputs[n + 1])'
        <4>1. n \in Int /\ InputHolds(n, inputs[n + 1])
          BY <1>5, <2>3, <3>1 DEF InputsHold
        <4>2. PICK image : image = inputs[n + 1] /\ image = inputs'[n + 1]
          BY <1>3
        <4>3. n \notin Window(d)
          <5>1. Window(d) = step + 1 .. (step + 1 + fault.duration - 1)
            BY <2>2 DEF Window, First
          <5> QED
            BY <2>3, <3>1, <5>1
        <4>4. InputHolds(n, image)'
          BY <1>1, <1>3, <1>5, <2>2, <4>1, <4>2, <4>3, InputKept
        <4> QED
          BY <4>2, <4>4 DEF InputHolds
      <3>2. \A n \in 1..(NextInput' - 1) : n \in 1..step
        BY <2>3
      <3>3. \A n \in 1..(NextInput' - 1) : InputHolds(n, inputs[n + 1])'
        BY <3>1, <3>2
      <3> QED
        BY <3>3 DEF InputsHold
    <2> QED
      BY <1>1, <1>5, <1>6, <2>10, <2>11, <2>12 DEF DeclaredInv
  <1>8. CASE fault.kind \notin ObservationKinds
    <2>1. UNCHANGED occlusionVars
      BY <1>3, <1>8 DEF Inject, InjectDropout, InjectActuatorVariant, InjectObservationFault,
                        environmentVars
    <2>2. ObservationFaults' = ObservationFaults
      BY <1>3, <1>8 DEF ObservationFaults
    <2>3. pc = "after" => afterApplied' = afterApplied
      <3>1. CASE Applies(fault) /\ pc = "after"
        <4>1. d \in applied' /\ schedule'[d].phase = "after_step" /\ d \notin ObservationFaults'
          BY <1>2, <1>3, <1>8, <3>1 DEF ObservationFaults
        <4> QED
          BY <4>1 DEF Apart, AfterStepFaultsAreObservations
      <3> QED
        BY <1>3, <3>1
    <2>4. NextInput' = NextInput /\ Source' = Source
      <3>1. PendingCache' = PendingCache /\ lastFrames' = lastFrames
        BY <1>4, <2>1 DEF PendingCache, occlusionVars, frameVars
      <3> QED
        BY <1>3, <2>3, <3>1 DEF NextInput, Source
    <2>5. HookHolds => HookHolds'
      <3>1. \A i : First(i)' = First(i)
        BY <1>3 DEF First
      <3> QED
        BY <1>3, <2>2, <2>3, <3>1 DEF HookHolds
    <2> QED
      BY <1>1, <1>3, <1>5, <1>6, <2>1, <2>2, <2>4, <2>5, DeclaredOther
  <1> QED
    BY <1>7, <1>8
-----------------------------------------------------------------------------
LEMMA DeclaredBegin ==
  ASSUME DeclaredInv, BeginEpisode
  PROVE  DeclaredInv'
  <1>1. FaultTypeInv /\ FaultTypeInv'
    BY BeginEpisodeType DEF DeclaredInv
  <1>2. /\ pc' = "before" /\ occlusionSteps' = 0 /\ applied' = {} /\ lastFrames' = Raw(0)
        /\ step' = 0
    BY <1>1 DEF BeginEpisode, EnvironmentReset, FaultTypeInv, LengthsHold
  <1>3. ExactCountdown'
    BY <1>2 DEF ExactCountdown, ObservationFaults
  <1>4. AllBefore(lastFrames, step + 1)'
    <2>1. \A c \in Cameras : lastFrames'[c] = [captured |-> 0, look |-> "clean"]
      BY <1>2 DEF Raw
    <2> QED
      BY <1>2, <2>1 DEF AllBefore, FrameBefore
  <1>5. NextInput' = 1
    BY <1>1, <1>2, InputCountNext
  <1>6. InputsHold'
    <2>1. \A n \in 1..(NextInput' - 1) : FALSE
      BY <1>5
    <2> QED
      BY <2>1 DEF InputsHold
  <1> QED
    BY <1>1, <1>2, <1>3, <1>4, <1>6 DEF DeclaredInv, CachesHold, HookHolds

\* The steps between the observations.
LEMMA DeclaredMoveOn ==
  ASSUME DeclaredInv, NoPendingHook \/ NextStep \/ EndEpisode
  PROVE  DeclaredInv'
  <1>1. FaultTypeInv /\ FaultTypeInv'
    BY MoveOnType, NextStepType DEF DeclaredInv
  <1>2. /\ UNCHANGED <<environmentVars, schedule, afterApplied, applied, inputs>>
        /\ \/ pc = "after" /\ ~afterApplied /\ pc' = "row" /\ step' = step
           \/ pc = "row" /\ pc' = "before" /\ step' = step + 1
           \/ pc = "row" /\ pc' = "reset" /\ step' = step
    BY DEF NoPendingHook, NextStep, EndEpisode
  <1>3. UNCHANGED <<occlusionVars, frameVars>>
    BY <1>2 DEF environmentVars
  <1>4. ObservationFaults' = ObservationFaults /\ (Apart' => Apart)
    BY <1>2, ApartBefore DEF ObservationFaults
  <1>5. NextInput' = NextInput /\ Source' = Source
    BY <1>2, <1>3 DEF NextInput, Source, frameVars
  <1>6. CachesHold => CachesHold'
    <2>1. step \in Nat /\ step + 1 + 1 = step + 2
      BY <1>1, InputCount
    <2>2. PICK last : last = lastFrames /\ last = lastFrames'
      BY <1>3 DEF frameVars
    <2>3. PICK n : n = step + 2
      OBVIOUS
    <2>4. AllBefore(last, n) => AllBefore(last, n)'
      BY <1>2 DEF AllBefore, FrameBefore, Uncorrupted, CorruptedInput
    <2>5. CASE pc' = "row"
      <3>1. n = step' + 2
        BY <1>2, <2>3, <2>5
      <3>2. AllBefore(last, n)' => AllBefore(lastFrames, step + 2)'
        BY <2>2, <3>1 DEF AllBefore
      <3> QED
        BY <1>2, <2>2, <2>3, <2>4, <2>5, <3>2 DEF CachesHold
    <2>6. CASE pc' = "before"
      <3>1. n = step' + 1
        BY <1>2, <2>1, <2>3, <2>6
      <3>2. AllBefore(last, n)' => AllBefore(lastFrames, step + 1)'
        BY <2>2, <3>1 DEF AllBefore
      <3> QED
        BY <1>2, <2>2, <2>3, <2>4, <2>6, <3>2 DEF CachesHold
    <2>7. CASE pc' = "reset"
      BY <2>7 DEF CachesHold
    <2> QED
      BY <1>2, <2>5, <2>6, <2>7
  <1>7. HookHolds'
    BY <1>2 DEF HookHolds
  <1> QED
    BY <1>1, <1>2, <1>3, <1>4, <1>5, <1>6, <1>7, DeclaredOther DEF Looping

LEMMA DeclaredNext ==
  ASSUME DeclaredInv, [Next]_vars
  PROVE  DeclaredInv'
  <1>1. FaultTypeInv /\ FaultTypeInv'
    BY FaultTypeStep DEF DeclaredInv
  <1>2. CASE NextEpisode \/ InjectRaises \/ StepRaises \/ PendingHookRaises \/ Close
    <2>1. pc' \in {"begin", "raised", "closed"}
      BY <1>2 DEF NextEpisode, InjectRaises, StepRaises, PendingHookRaises, Close
    <2> QED
      BY <1>1, <2>1 DEF DeclaredInv, Looping
  <1>3. CASE Closed \/ UNCHANGED vars
    <2>1. UNCHANGED vars
      BY <1>3 DEF Closed
    <2>2. /\ ObservationFaults' = ObservationFaults /\ NextInput' = NextInput
          /\ Source' = Source /\ (Apart' => Apart)
      <3>1. UNCHANGED <<pc, step, schedule, applied, inputs, afterApplied, occlusionVars, frameVars>>
        BY <2>1 DEF vars, loopVars, environmentVars
      <3> QED
        BY <3>1, ApartBefore DEF NextInput, Source, PendingCache, occlusionVars, frameVars,
                                 ObservationFaults
    <2>3. CASE pc \in Looping
      <3>1. CachesHold => CachesHold'
        BY <2>1 DEF vars, loopVars, environmentVars, frameVars, CachesHold, AllBefore, FrameBefore,
                    Uncorrupted, CorruptedInput
      <3>2. HookHolds => HookHolds'
        BY <2>1, <2>2 DEF vars, loopVars, HookHolds, First
      <3>3. UNCHANGED <<schedule, inputs, occlusionVars>> /\ pc' \in Looping
        BY <2>1, <2>3 DEF vars, loopVars, environmentVars
      <3> QED
        BY <1>1, <2>2, <2>3, <3>1, <3>2, <3>3, DeclaredOther
    <2>4. CASE pc = "reset"
      <3>1. ASSUME Apart'
            PROVE  InputsHold'
        <4>1. InputsHold /\ UNCHANGED <<schedule, inputs>>
          BY <2>1, <2>2, <2>4, <3>1 DEF DeclaredInv, vars, loopVars
        <4> QED
          BY <1>1, <2>2, <4>1, InputsKept
      <3> QED
        BY <1>1, <2>1, <2>4, <3>1 DEF DeclaredInv, Looping, vars, loopVars
    <2>5. CASE pc \notin Looping \cup {"reset"}
      BY <1>1, <2>1, <2>5 DEF vars, loopVars, DeclaredInv
    <2> QED
      BY <2>3, <2>4, <2>5
  <1>4. CASE Apart'
    BY <1>2, <1>3, <1>4, DeclaredBegin, DeclaredMoveOn, DeclaredStep, DeclaredHook, DeclaredInject
    DEF Next
  <1>5. CASE ~Apart'
    BY <1>1, <1>5 DEF DeclaredInv
  <1> QED
    BY <1>4, <1>5

LEMMA DeclaredInit ==
  ASSUME Init
  PROVE  DeclaredInv
  <1>1. pc = "reset" /\ NextInput = 0
    BY DEF Init, NextInput
  <1>2. \A n \in 1..(NextInput - 1) : FALSE
    BY <1>1
  <1> QED
    BY <1>1, <1>2, FaultInit DEF DeclaredInv, Looping, InputsHold

LEMMA DeclaredAlways == Spec => []DeclaredInv
  BY DeclaredInit, DeclaredNext, PTL DEF Spec

\* What every completed row shows.
LEMMA DeclaredRows ==
  ASSUME DeclaredInv, Apart, NEW s \in Rows
  PROVE  s \in Nat /\ InputHolds(s + 1, inputs[s + 2])
  <1>1. pc \in {"row", "reset"} /\ s \in 0..(Len(executions) - 1)
    BY DEF Rows
  <1>2. FaultTypeInv /\ InputsHold /\ NextInput = Len(inputs)
    BY <1>1 DEF DeclaredInv, Looping, NextInput
  <1>3. s \in Nat /\ s + 1 + 1 = s + 2 /\ s + 1 \in 1..(NextInput - 1)
    BY <1>1, <1>2 DEF FaultTypeInv, TypeOK, LengthsHold
  <1> QED
    BY <1>2, <1>3 DEF InputsHold

\* Observation faults that do not overlap corrupt exactly the cameras and the
\* inputs they declare, for every schedule.
THEOREM CorruptedAsDeclared == Spec => []InputsCorruptedAsDeclared
  <1>1. ASSUME DeclaredInv
        PROVE  InputsCorruptedAsDeclared
    <2>1. ASSUME Apart, NEW s \in Rows, NEW c \in Cameras
          PROVE  CorruptedInput(s + 1, c) <=>
                   \E i \in ObservationFaults : s + 1 \in Window(i) /\ c \in schedule[i].keys
      <3>1. s + 1 + 1 = s + 2
        BY <1>1, <2>1, DeclaredRows
      <3> QED
        BY <1>1, <2>1, <3>1, DeclaredRows DEF InputHolds, CorruptedInput
    <2> QED
      BY <2>1 DEF InputsCorruptedAsDeclared, Apart
  <1> QED
    BY <1>1, DeclaredAlways, PTL

\* No row is completed inside the window of a fault that names a camera the
\* observation lacks, for every schedule.
THEOREM UnknownCameraStopsEpisode == Spec => []UnknownCameraFailsClosed
  <1>1. ASSUME DeclaredInv
        PROVE  UnknownCameraFailsClosed
    BY <1>1, DeclaredRows DEF InputHolds, UnknownCameraFailsClosed, Apart
  <1> QED
    BY <1>1, DeclaredAlways, PTL

\* A stale camera shows a clean frame of before the fault, the one of the last
\* input before it when nothing corrupted that, for every schedule.
THEOREM StaleFrameIsOld == Spec => []StaleFramePrecedesFault
  <1>1. ASSUME DeclaredInv
        PROVE  StaleFramePrecedesFault
    <2>1. ASSUME Apart, NEW i \in ObservationFaults, NEW s \in Rows,
                 schedule[i].kind = "observation_variant",
                 schedule[i].variant = "stale_frame", s + 1 \in Window(i),
                 NEW c \in schedule[i].keys
          PROVE  FrameBefore(inputs[s + 2][c], First(i))
      <3>1. VariantOf(schedule[i]) = "stale_frame"
        BY <2>1 DEF VariantOf
      <3> QED
        BY <1>1, <2>1, <3>1, DeclaredRows DEF InputHolds
    <2> QED
      BY <2>1 DEF StaleFramePrecedesFault, Apart, FrameBefore, Uncorrupted, First
  <1> QED
    BY <1>1, DeclaredAlways, PTL
-----------------------------------------------------------------------------
(* The labels and the pilot's verdict, made from the plan, agree with what *)
(* the faults did.                                                         *)

Begun(i) ==
  \/ schedule[i].step < step
  \/ schedule[i].step = step /\ (schedule[i].phase = "before_action" \/ pc # "before")

\* A fault that has begun is applied or waits to be injected, and the reset
\* observation is the simulator's.
LoopInv ==
  pc \in Looping \cup {"reset"} =>
    /\ \A i \in DOMAIN schedule : Applies(schedule[i]) /\ Begun(i) => i \in applied \cup due
    /\ pc \in {"row", "reset"} => due = {}
    /\ pc = "reset" => executions = <<>> \/ Len(executions) = step + 1
    /\ \A i \in applied : schedule[i].duration > 0
    /\ inputs # <<>> => inputs[1] = Raw(0)

LEMMA LoopNext ==
  ASSUME FaultTypeInv, FaultTypeInv', LoopInv, [Next]_vars
  PROVE  LoopInv'
  <1>1. \A i \in DOMAIN schedule : schedule[i].step \in Nat /\ schedule[i].phase \in Phases
    <2>1. \A i \in DOMAIN schedule : schedule[i] \in Faults
      BY DEF FaultTypeInv, TypeOK
    <2> QED
      BY <2>1, FaultFields
  <1>2. step \in Nat
    BY InputCount
  <1>3. pc' \in Looping => \A i \in applied' : schedule'[i].duration > 0
    BY DEF FaultTypeInv, InjectionsHold, AppliedAt
  <1>4. CASE NextEpisode \/ InjectRaises \/ StepRaises \/ PendingHookRaises \/ Close
    <2>1. pc' \in {"begin", "raised", "closed"}
      BY <1>4 DEF NextEpisode, InjectRaises, StepRaises, PendingHookRaises, Close
    <2> QED
      BY <2>1 DEF LoopInv, Looping
  <1>5. CASE BeginEpisode
    <2>1. /\ pc' = "before" /\ step' = 0 /\ inputs' = <<Raw(0)>>
          /\ due' = DueAt(schedule', 0, "before_action")
      BY <1>5 DEF BeginEpisode, FaultTypeInv, LengthsHold
    <2>2. \A i \in DOMAIN schedule' : schedule'[i].step \in Nat
      <3>1. \A i \in DOMAIN schedule' : schedule'[i] \in Faults
        BY DEF FaultTypeInv, TypeOK
      <3> QED
        BY <3>1, FaultFields
    <2>3. \A i \in DOMAIN schedule' : Begun(i)' => i \in due'
      BY <2>1, <2>2 DEF Begun, DueAt
    <2> QED
      BY <1>3, <2>1, <2>3 DEF LoopInv, Looping
  <1>6. CASE InjectFault
    <2>1. PICK d : d = FirstDue
      OBVIOUS
    <2>2. /\ pc \in {"before", "after"} /\ due' = due \ {d}
          /\ UNCHANGED <<pc, schedule, step, inputs, executions>>
          /\ Applies(schedule[d]) => applied' = applied \cup {d}
          /\ ~Applies(schedule[d]) => applied' = applied
      BY <1>6, <2>1 DEF InjectFault
    <2>3. \A i \in DOMAIN schedule' : Applies(schedule'[i]) /\ Begun(i)' => i \in applied' \cup due'
      BY <2>2 DEF LoopInv, Begun, Looping
    <2> QED
      BY <1>3, <2>2, <2>3 DEF LoopInv, Looping
  <1>7. CASE Step
    <2>1. /\ pc = "before" /\ pc' = "after" /\ due = {} /\ due' = DueAt(schedule, step, "after_step")
          /\ UNCHANGED <<schedule, step, applied>>
          /\ inputs' = Append(inputs, Transformed(Raw(step + 1), lastFrames))
      BY <1>7 DEF Step
    <2>2. \A i \in DOMAIN schedule' : Applies(schedule'[i]) /\ Begun(i)' => i \in applied' \cup due'
      BY <1>1, <2>1 DEF LoopInv, Begun, Looping, DueAt, Phases
    <2>3. inputs'[1] = Raw(0)
      <3>1. inputs \in Seq(Images) /\ Len(inputs) >= 1 /\ inputs # <<>>
        BY <1>2, <2>1, InputCount
      <3>2. inputs'[1] = inputs[1]
        <4> HIDE DEF Transformed
        <4> QED
          BY <2>1, <3>1
      <3> QED
        BY <2>1, <3>1, <3>2 DEF LoopInv, Looping
    <2> QED
      BY <1>3, <2>1, <2>2, <2>3 DEF LoopInv, Looping
  <1>8. CASE PendingHook \/ NoPendingHook
    <2>1. /\ pc = "after" /\ pc' = "row" /\ due = {}
          /\ UNCHANGED <<schedule, due, step, applied>>
      BY <1>8 DEF PendingHook, NoPendingHook
    <2>2. inputs' # <<>> /\ inputs'[1] = inputs[1] /\ inputs # <<>>
      <3>1. /\ inputs \in Seq(Images) /\ inputs' \in Seq(Images) /\ Len(inputs) > 0 /\ Len(inputs') > 0
            /\ 1 # step + 2 /\ 1 \in 1..Len(inputs)
        BY <1>2, <2>1, InputCount, InputCountNext
      <3>2. CASE PendingHook
        <4>1. PICK shown : inputs' = [inputs EXCEPT ![step + 2] = shown]
          BY <3>2 DEF PendingHook
        <4> QED
          BY <3>1, <4>1
      <3>3. CASE NoPendingHook
        BY <3>1, <3>3 DEF NoPendingHook
      <3> QED
        BY <1>8, <3>2, <3>3
    <2>3. \A i \in DOMAIN schedule' : Applies(schedule'[i]) /\ Begun(i)' => i \in applied' \cup due'
      BY <2>1 DEF LoopInv, Begun, Looping
    <2> QED
      BY <1>3, <2>1, <2>2, <2>3 DEF LoopInv, Looping
  <1>9. CASE NextStep
    <2>1. /\ pc = "row" /\ pc' = "before" /\ step' = step + 1 /\ due = {}
          /\ due' = DueAt(schedule, step + 1, "before_action")
          /\ UNCHANGED <<schedule, applied, inputs>>
      BY <1>9 DEF NextStep, LoopInv, Looping
    <2>2. \A i \in DOMAIN schedule : schedule[i].step < step + 1 => schedule[i].step <= step
      BY <1>1, <1>2
    <2>3. \A i \in DOMAIN schedule' : Applies(schedule'[i]) /\ Begun(i)' => i \in applied' \cup due'
      BY <1>1, <1>2, <2>1, <2>2 DEF LoopInv, Begun, Looping, DueAt
    <2> QED
      BY <1>3, <2>1, <2>3 DEF LoopInv, Looping
  <1>10. CASE EndEpisode
    <2>1. /\ pc = "row" /\ pc' = "reset" /\ Len(executions) = step + 1
          /\ UNCHANGED <<schedule, due, step, applied, inputs, executions>>
      BY <1>10 DEF EndEpisode, FaultTypeInv, LengthsHold
    <2> QED
      BY <2>1 DEF LoopInv, Begun, Looping
  <1>11. CASE Closed \/ UNCHANGED vars
    <2>1. UNCHANGED <<pc, schedule, due, step, applied, inputs, executions>>
      BY <1>11 DEF Closed, vars, loopVars
    <2> QED
      BY <2>1 DEF LoopInv, Begun, Looping
  <1> QED
    BY <1>4, <1>5, <1>6, <1>7, <1>8, <1>9, <1>10, <1>11 DEF Next

LabelInv == DeclaredInv /\ ActuatorInv /\ LoopInv

LEMMA LabelAlways == Spec => []LabelInv
  <1>1. ASSUME Init
        PROVE  LoopInv
    BY <1>1 DEF Init, LoopInv
  <1>2. ASSUME FaultTypeInv, LoopInv, [Next]_vars
        PROVE  LoopInv'
    BY <1>2, LoopNext, FaultTypeStep
  <1>3. DeclaredInv => FaultTypeInv
    BY DEF DeclaredInv
  <1> QED
    BY <1>1, <1>2, <1>3, DeclaredAlways, ActuatorAlways, PTL DEF Spec, LabelInv

\* A schedule made from a factor row has at most one fault, so none overlap.
LEMMA OneFault ==
  ASSUME FaultTypeInv, FromFactorRow
  PROVE  /\ Apart /\ ActuatorsApart
         /\ \A i \in DOMAIN schedule :
              /\ i = 1 /\ schedule[i] \in Faults /\ Applies(schedule[i])
              /\ \/ /\ schedule[i].kind = "actuator_variant" /\ schedule[i].kind \in ActuatorKinds
                    /\ OnsetStep(schedule[i]) = schedule[i].step
                    /\ First(i) = schedule[i].step
                    /\ schedule[i].kind \notin ObservationKinds
                 \/ /\ schedule[i].kind = "observation_variant" /\ schedule[i].kind \in ObservationKinds
                    /\ OnsetStep(schedule[i]) = schedule[i].step + 1
                    /\ First(i) = schedule[i].step + 1
                    /\ schedule[i].kind \notin ActuatorKinds
  <1>1. schedule \in Seq(Faults) /\ applied \subseteq DOMAIN schedule
    BY DEF FaultTypeInv, TypeOK
  <1>2. \A i \in DOMAIN schedule : i = 1 /\ schedule[i] \in Faults /\ Len(schedule) = 1
    BY <1>1 DEF FromFactorRow
  <1>3. \A i \in DOMAIN schedule :
          \/ schedule[i].kind = "actuator_variant" /\ schedule[i].phase = "before_action"
          \/ schedule[i].kind = "observation_variant" /\ schedule[i].phase = "after_step"
    BY <1>1, <1>2 DEF FromFactorRow
  <1>4. ~Overlapping(ObservationFaults) /\ ~Overlapping(ActuatorFaults)
    BY <1>1, <1>2 DEF Overlapping, ObservationFaults, ActuatorFaults
  <1>5. Apart /\ ActuatorsApart
    BY <1>1, <1>3, <1>4 DEF Apart, ActuatorsApart, AfterStepFaultsAreObservations,
                            ObservationFaults, ActuatorFaults, ObservationKinds
  <1> QED
    BY <1>2, <1>3, <1>5 DEF Applies, ObservationKinds, ActuatorKinds, OnsetStep, First, DeclaredFirst

\* What the completed rows show of the one fault.
LEMMA RowsOfOneFault ==
  ASSUME LabelInv, FromFactorRow, NEW s \in Rows
  PROVE  /\ s \in Nat /\ s < Len(executions) /\ Len(executions) \in Nat
         /\ ActionHolds(s) /\ InputHolds(s + 1, inputs[s + 2])
         /\ \A c \in Cameras : CorruptedInput(s + 1, c) <=>
                                 inputs[s + 2][c] # [captured |-> s + 1, look |-> "clean"]
  <1>1. FaultTypeInv /\ DeclaredInv /\ ActuatorInv /\ Apart /\ ActuatorsApart
    BY OneFault DEF LabelInv, DeclaredInv
  <1>2. pc \in {"row", "reset"} /\ s \in 0..(NextAction - 1) /\ NextAction = Len(executions)
    BY DEF Rows, NextAction
  <1>3. NextAction \in Nat
    BY <1>1, ActionCount
  <1>4. ActionHolds(s)
    BY <1>1, <1>2 DEF ActuatorInv, ActionsHold, Looping
  <1>5. s \in Nat /\ s < Len(executions) /\ s + 1 + 1 = s + 2
    BY <1>2, <1>3
  <1> QED
    BY <1>1, <1>2, <1>3, <1>4, <1>5, DeclaredRows DEF CorruptedInput

\* A row is labelled exposed exactly when its observation or its action is
\* corrupted, but for the actions an intermittent fault lets through, for
\* every schedule made from a factor row.
THEOREM LabelsAreRight == Spec => []ExposureMatchesCorruption
  <1>1. ASSUME LabelInv, FromFactorRow, NEW s \in Rows
        PROVE  LET corrupted == AlteredAction(s) \/ \E c \in Cameras : CorruptedInput(s + 1, c)
                   exposed == \E i \in DOMAIN schedule : IsExposed(s, schedule[i])
               IN /\ corrupted => exposed
                  /\ exposed => corrupted \/ schedule[1].variant = "intermittent"
    <2>1. FaultTypeInv /\ LoopInv
      BY <1>1 DEF LabelInv, DeclaredInv
    <2>2. /\ s \in Nat /\ ActionHolds(s) /\ InputHolds(s + 1, inputs[s + 2])
          /\ \A c \in Cameras : CorruptedInput(s + 1, c) <=>
                                  inputs[s + 2][c] # [captured |-> s + 1, look |-> "clean"]
      BY <1>1, RowsOfOneFault
    <2>3. \A i \in DOMAIN schedule :
            /\ schedule[i].step \in Nat /\ schedule[i].duration \in Int
            /\ Window(i) = First(i) .. (First(i) + schedule[i].duration - 1)
      BY <1>1, <2>1, OneFault, FaultFields DEF Window, First
    <2>4. applied \subseteq DOMAIN schedule
      BY <2>1 DEF FaultTypeInv, TypeOK
    <2>5. \A i \in ObservationFaults : i \in DOMAIN schedule /\ schedule[i].kind \in ObservationKinds
      BY <2>4 DEF ObservationFaults
    <2>6. \A i \in ActuatorFaults : i \in DOMAIN schedule /\ schedule[i].kind \in ActuatorKinds
      BY <2>4 DEF ActuatorFaults
    <2>7. ASSUME AlteredAction(s)
          PROVE  \E i \in DOMAIN schedule : IsExposed(s, schedule[i])
      <3>1. PICK i \in ActuatorFaults : s \in Window(i)
        BY <2>2, <2>7 DEF ActionHolds
      <3>2. /\ i \in DOMAIN schedule /\ OnsetStep(schedule[i]) = First(i)
            /\ schedule[i].kind \notin ObservationKinds /\ First(i) \in Nat
        BY <1>1, <2>1, <2>3, <2>6, OneFault
      <3>3. First(i) <= s /\ s < First(i) + schedule[i].duration
        BY <2>2, <2>3, <3>1, <3>2
      <3>4. IsExposed(s, schedule[i])
        BY <3>2, <3>3 DEF IsExposed
      <3> QED
        BY <3>2, <3>4
    <2>8. ASSUME NEW c \in Cameras, CorruptedInput(s + 1, c)
          PROVE  \E i \in DOMAIN schedule : IsExposed(s, schedule[i])
      <3>1. PICK i \in ObservationFaults : s + 1 \in Window(i)
        BY <2>2, <2>8 DEF InputHolds
      <3>2. /\ i \in DOMAIN schedule /\ OnsetStep(schedule[i]) = First(i)
            /\ schedule[i].kind \in ObservationKinds /\ First(i) \in Nat
        BY <1>1, <2>1, <2>3, <2>5, OneFault
      <3>3. First(i) <= s + 1 /\ s + 1 < First(i) + schedule[i].duration
        BY <2>2, <2>3, <3>1, <3>2
      <3>4. IsExposed(s, schedule[i])
        BY <3>2, <3>3 DEF IsExposed
      <3> QED
        BY <3>2, <3>4
    <2>9. ASSUME NEW i \in DOMAIN schedule, IsExposed(s, schedule[i])
          PROVE  \/ AlteredAction(s) \/ \E c \in Cameras : CorruptedInput(s + 1, c)
                 \/ schedule[1].variant = "intermittent"
      <3>1. i = 1 /\ Applies(schedule[i])
        BY <1>1, <2>1, OneFault
      <3>2. i \in applied
        <4>1. schedule[i].step <= s
          <5>1. CASE schedule[i].kind \in ObservationKinds
            BY <1>1, <2>1, <2>2, <2>3, <2>9, <5>1, OneFault DEF IsExposed
          <5>2. CASE schedule[i].kind \notin ObservationKinds
            BY <1>1, <2>1, <2>2, <2>3, <2>9, <5>2, OneFault DEF IsExposed
          <5> QED
            BY <5>1, <5>2
        <4>2. pc \in {"row", "reset"} /\ s \in 0..(Len(executions) - 1) /\ Len(executions) \in Nat
          BY <1>1, RowsOfOneFault DEF Rows
        <4>3. Len(executions) = step + 1 /\ step \in Nat
          <5>1. executions # <<>>
            BY <4>2
          <5>2. pc = "row" => Len(executions) = step + 1
            BY <2>1 DEF FaultTypeInv, LengthsHold
          <5> QED
            BY <2>1, <4>2, <5>1, <5>2, InputCount DEF LoopInv
        <4>4. schedule[i].step <= step
          BY <2>2, <2>3, <4>1, <4>2, <4>3
        <4>5. Begun(i)
          <5>1. schedule[i].step < step \/ schedule[i].step = step
            BY <2>3, <4>3, <4>4
          <5> QED
            BY <4>2, <5>1 DEF Begun
        <4> QED
          BY <2>1, <3>1, <4>2, <4>5 DEF LoopInv, Looping
      <3>3. CASE schedule[i].kind \in ObservationKinds
        <4>1. i \in ObservationFaults /\ s + 1 \in Window(i)
          <5>1. OnsetStep(schedule[i]) = First(i) /\ First(i) \in Nat
            BY <1>1, <2>1, <2>3, <3>3, OneFault
          <5>2. First(i) <= s + 1 /\ s + 1 < First(i) + schedule[i].duration
            BY <2>9, <3>3, <5>1 DEF IsExposed
          <5> QED
            BY <2>2, <2>3, <3>2, <3>3, <5>1, <5>2 DEF ObservationFaults
        <4>2. PICK c \in schedule[i].keys : c \in Cameras
          BY <2>2, <4>1 DEF InputHolds
        <4>3. CorruptedInput(s + 1, c)
          BY <2>2, <4>1, <4>2 DEF InputHolds
        <4> QED
          BY <4>2, <4>3
      <3>4. CASE schedule[i].kind \notin ObservationKinds
        <4>1. i \in ActuatorFaults /\ s \in Window(i)
          <5>1. /\ OnsetStep(schedule[i]) = First(i) /\ First(i) \in Nat
                /\ schedule[i].kind \in ActuatorKinds
            BY <1>1, <2>1, <2>3, <3>4, OneFault
          <5>2. First(i) <= s /\ s < First(i) + schedule[i].duration
            BY <2>9, <3>4, <5>1 DEF IsExposed
          <5> QED
            BY <2>2, <2>3, <3>2, <5>1, <5>2 DEF ActuatorFaults
        <4>2. AlteredAction(s) \/ LetsThrough(schedule[i], s)
          BY <2>2, <4>1 DEF ActionHolds
        <4> QED
          BY <3>1, <4>2 DEF LetsThrough
      <3> QED
        BY <3>3, <3>4
    <2> QED
      BY <2>7, <2>8, <2>9
  <1>2. LabelInv => ExposureMatchesCorruption
    BY <1>1 DEF ExposureMatchesCorruption
  <1> QED
    BY <1>2, LabelAlways, PTL

\* The pilot calls a fault exposed exactly when the policy acted on a corrupted
\* input or an action was altered, for every schedule made from a factor row.
THEOREM PilotExposureIsRight == Spec => []PilotExposureReachesPolicy
  <1>1. ASSUME LabelInv, pc = "reset", FromFactorRow, NEW i \in applied
        PROVE  PilotExposed(schedule[i]) <=>
                 \E s \in Rows : AlteredAction(s) \/ \E c \in Cameras : CorruptedInput(s, c)
    <2>1. FaultTypeInv /\ LoopInv
      BY <1>1 DEF LabelInv, DeclaredInv
    <2>2. /\ Len(executions) \in Nat /\ Rows = 0..(Len(executions) - 1)
          /\ i \in DOMAIN schedule
      BY <1>1, <2>1, ActionCount DEF Rows, FaultTypeInv, TypeOK, NextAction
    <2>3. /\ schedule[i].step \in Nat /\ schedule[i].duration \in Int /\ schedule[i].duration > 0
          /\ First(i) \in Nat /\ Window(i) = First(i) .. (First(i) + schedule[i].duration - 1)
          /\ First(i) \in Window(i)
      <3>1. schedule[i].step \in Nat /\ schedule[i].duration \in Int /\ First(i) \in Nat
        BY <1>1, <2>1, <2>2, OneFault, FaultFields DEF First
      <3>2. schedule[i].duration > 0
        BY <1>1, <2>1 DEF LoopInv
      <3>3. Window(i) = First(i) .. (First(i) + schedule[i].duration - 1)
        BY DEF Window, First
      <3> QED
        BY <3>1, <3>2, <3>3
    <2>4. \A j \in applied : j = i
      BY <1>1, <2>1, <2>2, OneFault DEF FaultTypeInv, TypeOK
    <2>5. PilotExposed(schedule[i]) <=> Len(executions) > First(i)
      BY DEF PilotExposed, First
    <2>6. ASSUME Len(executions) > First(i)
          PROVE  \E s \in Rows : AlteredAction(s) \/ \E c \in Cameras : CorruptedInput(s, c)
      <3>1. First(i) \in Rows
        BY <2>2, <2>3, <2>6
      <3>2. CASE schedule[i].kind \in ObservationKinds
        <4>1. PICK s : s = First(i) - 1
          OBVIOUS
        <4>2. First(i) = schedule[i].step + 1
          BY <1>1, <2>1, <2>2, <3>2, OneFault
        <4>3. s \in Rows /\ s + 1 = First(i) /\ i \in ObservationFaults
          BY <2>2, <2>3, <3>1, <3>2, <4>1, <4>2 DEF ObservationFaults
        <4>4. InputHolds(s + 1, inputs[s + 2])
          BY <1>1, <4>3, RowsOfOneFault
        <4>5. PICK c \in schedule[i].keys : c \in Cameras
          BY <2>3, <4>3, <4>4 DEF InputHolds
        <4>6. CorruptedInput(s + 1, c)
          BY <1>1, <2>3, <4>3, <4>4, <4>5, RowsOfOneFault DEF InputHolds
        <4> QED
          BY <3>1, <4>3, <4>5, <4>6
      <3>3. CASE schedule[i].kind \notin ObservationKinds
        <4>1. i \in ActuatorFaults /\ First(i) = schedule[i].step
          BY <1>1, <2>1, <2>2, <3>3, OneFault DEF ActuatorFaults
        <4>2. ActionHolds(First(i))
          BY <1>1, <3>1, RowsOfOneFault
        <4>3. ~LetsThrough(schedule[i], First(i))
          <5>1. (First(i) - schedule[i].step) % 2 = 0
            BY <2>3, <4>1
          <5> QED
            BY <5>1 DEF LetsThrough
        <4> QED
          BY <2>3, <3>1, <4>1, <4>2, <4>3 DEF ActionHolds
      <3> QED
        BY <3>2, <3>3
    <2>7. ASSUME NEW s \in Rows, AlteredAction(s)
          PROVE  Len(executions) > First(i)
      <3>1. ActionHolds(s)
        BY <1>1, RowsOfOneFault
      <3>2. s \in Window(i)
        BY <2>4, <2>7, <3>1 DEF ActionHolds, ActuatorFaults
      <3> QED
        BY <2>2, <2>3, <3>2
    <2>8. ASSUME NEW s \in Rows, NEW c \in Cameras, CorruptedInput(s, c)
          PROVE  Len(executions) > First(i)
      <3>1. s # 0
        <4>1. inputs # <<>>
          <5>1. Len(executions) > 0
            BY <2>2
          <5>2. Len(inputs) = Len(executions) + 1 /\ inputs \in Seq(Images)
            BY <1>1, <2>1, <5>1 DEF FaultTypeInv, LengthsHold, TypeOK
          <5> QED
            BY <2>2, <5>2
        <4>2. inputs[1] = Raw(0)
          BY <1>1, <2>1, <4>1 DEF LoopInv
        <4>3. ~CorruptedInput(0, c)
          BY <4>2 DEF CorruptedInput, Raw
        <4> QED
          BY <2>8, <4>3
      <3>2. PICK t : t = s - 1
        OBVIOUS
      <3>3. t \in Rows /\ t + 1 = s
        BY <2>2, <3>1, <3>2
      <3>4. InputHolds(t + 1, inputs[t + 2]) /\ inputs[t + 2][c] # [captured |-> t + 1, look |-> "clean"]
        BY <1>1, <2>8, <3>3, RowsOfOneFault
      <3>5. s \in Window(i)
        BY <2>4, <3>3, <3>4 DEF InputHolds, ObservationFaults
      <3> QED
        BY <2>2, <2>3, <3>5
    <2> QED
      BY <2>5, <2>6, <2>7, <2>8
  <1>2. LabelInv => PilotExposureReachesPolicy
    BY <1>1 DEF PilotExposureReachesPolicy
  <1> QED
    BY <1>2, LabelAlways, PTL
=============================================================================
