---------------------------- MODULE ProbeProofs ----------------------------
(***************************************************************************)
(* The pair of probe episodes for any horizon, any length of probes and    *)
(* chunks and any latencies.  ProbeInv is the inductive invariant: where   *)
(* an arm stands (LoopHolds), which action the policy gives next           *)
(* (CursorHolds), and what the records of an arm say of the environment    *)
(* and the monitor, which are the same for both arms (Witnessed).          *)
(***************************************************************************)
EXTENDS DiagnosticProbe, GrootPolicyProofs

InArm == {"choose", "requeried", "execute", "arm_ended"}

\* The arms run so far have summaries, and no other.
PlacesHold ==
  /\ order[1] # order[2]
  /\ DOMAIN summaries = {order[i] : i \in 1..finishedArms}
  /\ pc \in InArm => finishedArms < 2
  /\ pc \in {"accepted", "rejected"} => finishedArms = 2
  /\ pc = "accepted" => ~PairErrors
  /\ pc = "rejected" => PairErrors

PostWindowOf(fired, steps) ==
  IF fired # -1 /\ steps >= fired + ProbeSteps THEN fired + ProbeSteps ELSE -1

\* Where an arm stands.
LoopHolds ==
  pc \in InArm =>
    /\ Len(executed) = step
    /\ Arm = "passive_only" \/ trigger = -1 =>
         offset = -1 /\ operations = <<>> /\ started = -1 /\ finished = -1 /\ step <= BaseHorizon
    /\ trigger # -1 => trigger \in 1..step /\ trigger <= BaseHorizon
    /\ Arm = "passive_plus_probe" /\ trigger # -1 =>
         /\ started = trigger
         /\ offset # -1 => /\ finished = -1 /\ step = trigger + offset
                           /\ Len(operations) = IF pc = "execute" THEN offset + 1 ELSE offset
         /\ offset = -1 => /\ finished = trigger + ProbeSteps /\ finished <= step
                           /\ step <= BaseHorizon \/ step = finished
                           /\ Len(operations) = ProbeSteps
    /\ pc = "execute" /\ offset = -1 => step < BaseHorizon
    /\ pc = "requeried" => offset = 1
    /\ pc = "arm_ended" <=> reason # "horizon"
    /\ pc = "arm_ended" => step # 0
    /\ postWindow = PostWindowOf(trigger, step)

\* The action that comes after another in the stream of the policy.
Following(action) ==
  IF action[2] + 1 < ChunkLength THEN <<action[1], action[2] + 1>> ELSE <<action[1] + 1, 0>>

\* A probe has just been completed: its last step discarded the queue.
JustProbed == finished # -1 /\ finished = step

\* The action about to be executed, by the last one.
PendingHolds ==
  LET pending == <<serverDraws, emittedPosition>>
  IN IF step = 0 THEN pending = <<1, 0>>
     ELSE IF offset = 0 THEN pending = executed[step]
     ELSE IF offset = 1 \/ JustProbed THEN pending = <<executed[step][1] + 1, 0>>
     ELSE pending = Following(executed[step])

\* What the policy holds: the last action is that of its cursor, and its queue is
\* the rest of that chunk unless it was discarded.
CursorHolds ==
  pc \in InArm =>
    /\ pc = "execute" => emittedAction # NoAction /\ PendingHolds
    /\ pc # "execute" /\ step = 0 => queue = <<>> /\ serverDraws = 0
    /\ pc # "execute" /\ step # 0 =>
         emittedAction # NoAction /\ executed[step] = <<serverDraws, emittedPosition>>
    /\ IF pc = "requeried" \/ (pc # "execute" /\ JustProbed) THEN queue = <<>>
       ELSE emittedAction # NoAction => Len(queue) = ChunkLength - nextPosition

\* The transcripts under which environment and monitor were asked.
Firsts(s, n) == [i \in 1..n |-> s[i]]
ActionsOf(s, n) == [i \in 1..n |-> s[i][1]]

Running(s, n) ==
  ActionsOf(s, n) \in DOMAIN outcomes /\ outcomes[ActionsOf(s, n)] = "running"
Over(s, n) ==
  ActionsOf(s, n) \in DOMAIN outcomes /\ outcomes[ActionsOf(s, n)] # "running"
Said(s, n, verdict) ==
  Firsts(s, n) \in DOMAIN verdicts /\ verdicts[Firsts(s, n)] = verdict

\* What the records of an arm say of the environment and the monitor, up to the
\* trigger: contexts seen, the step that fired, the steps run, the prefix kept.
Witnessed(seen, fired, steps, kept) ==
  /\ IF fired = -1 THEN Len(seen) = steps /\ Len(kept) = steps
     ELSE Len(seen) = fired /\ Len(kept) = fired - 1 /\ fired \in 1..steps
  /\ Len(seen) <= BaseHorizon
  /\ \A i \in 1..Len(kept) : kept[i] = seen[i][1]
  /\ \A i \in 1..Len(seen) :
       /\ seen[i][1] = IF i = 1 THEN <<1, 0>> ELSE Following(seen[i - 1][1])
       /\ i < Len(seen) => Running(seen, i)
       /\ Said(seen, i, IF i = fired THEN "joint_trigger" ELSE "quiet")

\* The records of the arm that runs.
WitnessHolds ==
  pc \in InArm =>
    /\ Witnessed(shown, trigger, step, prefix)
    /\ \A i \in 1..Len(shown) : executed[i] = shown[i][1]
    /\ trigger = -1 /\ step # 0 =>
         IF pc = "arm_ended" THEN Over(shown, step) ELSE Running(shown, step)

\* The records of an arm that was run.
SummaryHolds(arm, summary) ==
  /\ Witnessed(summary.shown, summary.trigger, summary.steps, summary.prefix)
  /\ summary.trigger = -1 /\ summary.steps < BaseHorizon =>
       summary.steps # 0 /\ Over(summary.shown, summary.steps)
  /\ summary.reason = "horizon" => summary.steps >= BaseHorizon
  /\ summary.postWindow = PostWindowOf(summary.trigger, summary.steps)
  /\ arm = "passive_plus_probe" =>
       /\ summary.probeSteps = ProbeSteps <=> summary.postWindow # -1
       /\ summary.postWindow # -1 => summary.finished = summary.postWindow

SummariesHold == \A arm \in DOMAIN summaries : SummaryHolds(arm, summaries[arm])

\* Two arms act alike as long as both are watched.
Alike(s, t) == \A i \in (1..Len(s)) \cap (1..Len(t)) : s[i][1] = t[i][1]

ArmsAlike ==
  /\ pc \in InArm => \A arm \in DOMAIN summaries : Alike(summaries[arm].shown, shown)
  /\ \A arm, other \in DOMAIN summaries : Alike(summaries[arm].shown, summaries[other].shown)

ProbeInv ==
  /\ PolicyInv /\ ProbeTypeOK /\ serverDraws = inferenceCount
  /\ PlacesHold /\ LoopHolds /\ CursorHolds /\ ProbeKeepsItsScript
  /\ WitnessHolds /\ SummariesHold /\ ArmsAlike

-----------------------------------------------------------------------------
(* The policy under the calls of an arm.                                   *)

LEMMA ConstantFacts ==
  /\ ChunkLength \in Nat /\ ChunkLength >= 1 /\ MaxQueries \in Nat
  /\ BaseHorizon \in Nat /\ BaseHorizon >= 1
  /\ ProbeSteps \in Nat /\ ProbeSteps >= 2 /\ ChunkLength >= ProbeSteps - 1
  /\ MaxSteps \in Nat /\ MaxSteps = BaseHorizon + ProbeSteps
  BY ChunkLengthAssumption, MaxQueriesAssumption, HorizonAssumption, ProbeStepsAssumption,
     ChunkCoversProbeAssumption DEF MaxSteps

LEMMA NewPolicyInv == NewPolicy => PolicyInv' /\ queue' = <<>> /\ inferenceCount' = 0
<1> SUFFICES ASSUME NewPolicy PROVE PolicyInv' /\ queue' = <<>> /\ inferenceCount' = 0
  OBVIOUS
<1> USE ConstantFacts DEF NewPolicy
<1>1. <<>> \in Seq(Actions)
  OBVIOUS
<1>2. PolicyTypeOK'
  BY <1>1 DEF PolicyTypeOK
<1>3. QueueIsRestOfChunk' /\ EmittedIsDeclared' /\ QueueIsFresh'
  BY DEF QueueIsRestOfChunk, EmittedIsDeclared, QueueIsFresh
<1> QED
  BY <1>2, <1>3 DEF PolicyInv

\* An action that was emitted has its place in the chunk.
LEMMA EmittedFacts ==
  ASSUME PolicyInv, emittedAction # NoAction
  PROVE  /\ emittedPosition \in 0..(ChunkLength - 1)
         /\ nextPosition = emittedPosition + 1
         /\ queue \in Seq(Actions) /\ inferenceCount \in 0..MaxQueries
BY DEF PolicyInv, PolicyTypeOK, EmittedIsDeclared

\* What act() gives next: the first action of a new chunk when the queue is empty,
\* the one at the cursor otherwise.
LEMMA ActFacts ==
  ASSUME PolicyInv, PolicyAct
  PROVE  /\ PolicyInv'
         /\ emittedAction' # NoAction
         /\ Len(queue') = ChunkLength - nextPosition'
         /\ queue = <<>> => inferenceCount' = inferenceCount + 1 /\ emittedPosition' = 0
         /\ queue # <<>> => inferenceCount' = inferenceCount /\ emittedPosition' = nextPosition
<1> USE ConstantFacts
<1>1. PolicyInv'
  BY PolicyStepInv DEF PolicyNext
<1>2. CASE ActFromQueue
  <2>1. queue # <<>> /\ queue \in Seq(Actions) /\ queue' = Tail(queue)
        /\ Len(queue) = ChunkLength - nextPosition /\ nextPosition \in 0..ChunkLength
    BY <1>2 DEF ActFromQueue, PolicyInv, PolicyTypeOK, QueueIsRestOfChunk
  <2>2. Head(queue) \in Actions
    BY <2>1
  <2>3. emittedAction' # NoAction
    BY <1>2, <2>2, ActionsAreNotNone DEF ActFromQueue
  <2>4. Len(queue') = ChunkLength - nextPosition'
    BY <1>2, <2>1 DEF ActFromQueue
  <2> QED
    BY <1>1, <1>2, <2>1, <2>3, <2>4 DEF ActFromQueue
<1>3. CASE ActAfterQuery
  <2>1. inferenceCount' \in 1..MaxQueries
    BY <1>3 DEF ActAfterQuery, PolicyInv, PolicyTypeOK
  <2>2. /\ Len(queue') = ChunkLength - 1
        /\ emittedAction' = <<inferenceCount', 0>>
    BY <1>3, <2>1, ChunkFacts DEF ActAfterQuery
  <2>3. emittedAction' \in Actions
    BY <2>1, <2>2 DEF Actions
  <2> QED
    BY <1>1, <1>3, <2>2, <2>3, ActionsAreNotNone DEF ActAfterQuery
<1> QED
  BY <1>2, <1>3 DEF PolicyAct

LEMMA ForceFacts ==
  ASSUME PolicyInv, PolicyForceRequery
  PROVE  PolicyInv' /\ queue' = <<>> /\ UNCHANGED <<emittedAction, emittedPosition, inferenceCount>>
BY PolicyStepInv DEF PolicyNext, PolicyForceRequery

LEMMA RepeatFacts ==
  ASSUME PolicyInv, PolicyRepeatLast
  PROVE  PolicyInv' /\ emittedAction # NoAction
         /\ UNCHANGED <<queue, nextPosition, emittedAction, emittedPosition, inferenceCount>>
BY PolicyStepInv DEF PolicyNext, PolicyRepeatLast

LEMMA SamePolicy ==
  ASSUME PolicyInv, UNCHANGED policyVars
  PROVE  PolicyInv' /\ UNCHANGED <<queue, nextPosition, emittedAction, emittedPosition, inferenceCount>>
BY PolicyStepInv DEF policyVars

-----------------------------------------------------------------------------
(* The steps before the action is executed.                                *)

ArmTyped ==
  /\ order \in [1..2 -> Arms]
  /\ pc \in {"arm", "choose", "requeried", "execute", "arm_ended",
             "accepted", "rejected", "raised"}
  /\ finishedArms \in 0..2
  /\ serverDraws \in Draws
  /\ step \in 0..MaxSteps
  /\ offset \in -1..(ProbeSteps - 1)
  /\ {trigger, started, finished, postWindow} \subseteq -1..MaxSteps
  /\ operations \in Seq({Script(k) : k \in 0..2})
  /\ executed \in Seq(ExecutedActions)
  /\ shown \in Seq(Contexts)
  /\ prefix \in Seq(ExecutedActions)
  /\ reason \in {"horizon", "success", "environment_done"}
  /\ \A transcript \in DOMAIN outcomes : outcomes[transcript] \in Outcomes
  /\ \A transcript \in DOMAIN verdicts : verdicts[transcript] \in Verdicts
  /\ \A arm \in DOMAIN summaries : arm \in Arms /\ summaries[arm] \in Summaries

LEMMA TypeParts ==
  /\ ProbeTypeOK <=> PolicyTypeOK /\ ArmTyped
  /\ ProbeTypeOK' <=> PolicyTypeOK' /\ ArmTyped'
BY DEF ProbeTypeOK, ArmTyped

\* The parts of the type together again after a step.
LEMMA TypedAgain ==
  ASSUME PolicyInv', serverDraws' = inferenceCount', serverDraws' \in Draws => ArmTyped'
  PROVE  ProbeTypeOK'
<1>1. PolicyTypeOK' /\ serverDraws' \in Draws
  BY ConstantFacts DEF PolicyInv, PolicyTypeOK, Draws
<1> QED
  BY <1>1, TypeParts

\* Where an arm stands, with the types that matter.
LEMMA LoopFacts ==
  ASSUME ProbeInv, pc \in InArm
  PROVE  /\ Arm \in Arms /\ finishedArms \in 0..1
         /\ step \in Nat /\ offset \in -1..(ProbeSteps - 1)
         /\ executed \in Seq(ExecutedActions) /\ Len(executed) = step
         /\ DOMAIN executed = 1..step
         /\ operations \in Seq({Script(k) : k \in 0..2})
         /\ DOMAIN operations = 1..Len(operations) /\ Len(operations) \in 0..ProbeSteps
         /\ trigger = -1 \/ trigger \in 1..step
         /\ offset # -1 =>
              /\ Arm = "passive_plus_probe" /\ trigger \in 1..step
              /\ step = trigger + offset /\ finished = -1
              /\ Len(operations) = IF pc = "execute" THEN offset + 1 ELSE offset
<1> USE ConstantFacts
<1>1. finishedArms \in 0..1 /\ Arm \in Arms
  BY DEF ProbeInv, ProbeTypeOK, PlacesHold, Arm
<1>2. /\ step \in Nat /\ offset \in -1..(ProbeSteps - 1)
      /\ executed \in Seq(ExecutedActions) /\ Len(executed) = step
      /\ operations \in Seq({Script(k) : k \in 0..2})
      /\ trigger = -1 \/ trigger \in 1..step
  BY DEF ProbeInv, ProbeTypeOK, LoopHolds
<1>3. offset # -1 =>
        /\ Arm = "passive_plus_probe" /\ trigger \in 1..step
        /\ step = trigger + offset /\ finished = -1
        /\ Len(operations) = IF pc = "execute" THEN offset + 1 ELSE offset
  BY <1>1, <1>2 DEF ProbeInv, LoopHolds, Arms
<1>4. offset = -1 => Len(operations) \in {0, ProbeSteps}
  BY <1>1, <1>2 DEF ProbeInv, LoopHolds, Arms
<1>5. Len(operations) \in 0..ProbeSteps
  BY <1>2, <1>3, <1>4
<1> QED
  BY <1>1, <1>2, <1>3, <1>5

\* What environment and monitor answered once, they answer again.
Remembered ==
  /\ \A t \in DOMAIN outcomes : t \in DOMAIN outcomes' /\ outcomes'[t] = outcomes[t]
  /\ \A t \in DOMAIN verdicts : t \in DOMAIN verdicts' /\ verdicts'[t] = verdicts[t]

LEMMA WitnessedStays ==
  ASSUME Remembered, NEW seen, NEW fired, NEW steps, NEW kept, Witnessed(seen, fired, steps, kept)
  PROVE  Witnessed(seen, fired, steps, kept)'
<1>1. \A n : /\ Running(seen, n) => Running(seen, n)'
             /\ \A verdict : Said(seen, n, verdict) => Said(seen, n, verdict)'
  BY DEF Remembered, Running, Said, ActionsOf, Firsts
<1> QED
  BY <1>1 DEF Witnessed

LEMMA SummaryStays ==
  ASSUME Remembered, NEW arm, NEW summary, SummaryHolds(arm, summary)
  PROVE  SummaryHolds(arm, summary)'
<1>1. \A n : Over(summary.shown, n) => Over(summary.shown, n)'
  BY DEF Remembered, Over, ActionsOf
<1>2. Witnessed(summary.shown, summary.trigger, summary.steps, summary.prefix)'
  BY WitnessedStays DEF SummaryHolds
<1> QED
  BY <1>1, <1>2 DEF SummaryHolds, PostWindowOf

LEMMA SummariesStay ==
  ASSUME Remembered, SummariesHold, UNCHANGED summaries
  PROVE  SummariesHold'
<1> SUFFICES ASSUME NEW arm \in DOMAIN summaries
             PROVE  SummaryHolds(arm, summaries[arm])'
  BY DEF SummariesHold
<1>1. PICK summary : summary = summaries[arm]
  OBVIOUS
<1>2. SummaryHolds(arm, summary)
  BY <1>1 DEF SummariesHold
<1>3. SummaryHolds(arm, summary)'
  BY <1>2, SummaryStays
<1>4. summaries'[arm] = summary
  BY <1>1
<1> QED
  BY <1>3, <1>4, SMTT(30) DEF SummaryHolds, Witnessed, Running, Said, Over, PostWindowOf, ActionsOf, Firsts

\* A step that executes nothing and leaves the records alone.
LEMMA SameRecords ==
  ASSUME ProbeInv, pc \in {"choose", "requeried"}, pc' \in {"requeried", "execute"},
         UNCHANGED <<pairVars, step, trigger, executed, shown, prefix>>
  PROVE  PlacesHold' /\ WitnessHolds' /\ SummariesHold' /\ ArmsAlike'
<1> USE DEF pairVars
<1>1. PlacesHold'
  BY DEF ProbeInv, PlacesHold, InArm
<1>2. WitnessHolds'
  BY SMTT(30) DEF ProbeInv, WitnessHolds, InArm, Witnessed, Running, Over, Said, ActionsOf, Firsts
<1>3. SummariesHold'
  BY SummariesStay DEF ProbeInv, Remembered
<1>4. ArmsAlike'
  BY DEF ProbeInv, ArmsAlike, InArm, Alike
<1> QED
  BY <1>1, <1>2, <1>3, <1>4

\* An operation is added for the action about to be executed.
LEMMA OperationAdded ==
  ASSUME ProbeInv, pc \in {"choose", "requeried"}, offset # -1,
         operations' = Append(operations, Script(offset)), UNCHANGED <<trigger, executed>>
  PROVE  ProbeKeepsItsScript' /\ operations' \in Seq({Script(k) : k \in 0..2})
         /\ Len(operations') = offset + 1
<1> USE ConstantFacts
<1>1. /\ operations \in Seq({Script(k) : k \in 0..2}) /\ Len(operations) = offset
      /\ executed \in Seq(ExecutedActions) /\ Len(executed) = trigger + offset
      /\ offset \in 0..(ProbeSteps - 1) /\ trigger \in Nat /\ trigger >= 1
  BY LoopFacts DEF InArm
<1>2. Script(offset) \in {Script(k) : k \in 0..2}
  <2>1. Script(offset) = Script(IF offset > 2 THEN 2 ELSE offset)
    BY <1>1 DEF Script
  <2> QED
    BY SMTT(30), <2>1, <1>1
<1>3. /\ operations' \in Seq({Script(k) : k \in 0..2}) /\ Len(operations') = offset + 1
      /\ DOMAIN operations' = 1..(offset + 1) /\ DOMAIN operations = 1..offset
      /\ \A k \in 1..offset : operations'[k] = operations[k]
      /\ operations'[offset + 1] = Script(offset)
  BY SMTT(30), <1>1, <1>2
<1>4. DOMAIN executed = 1..(trigger + offset)
  BY <1>1
<1>5. ASSUME NEW k \in DOMAIN operations'
      PROVE  /\ operations'[k] = Script(k - 1)
             /\ trigger + k \in DOMAIN executed =>
                  /\ k = 1 => executed[trigger + 1] = executed[trigger]
                  /\ k > 1 => executed[trigger + k] = <<executed[trigger][1] + 1, k - 2>>
             /\ k = ProbeSteps /\ trigger + k + 1 \in DOMAIN executed =>
                  executed[trigger + k + 1] = <<executed[trigger][1] + 2, 0>>
  <2>1. CASE k \in 1..offset
    BY <2>1, <1>3 DEF ProbeInv, ProbeKeepsItsScript
  <2>2. CASE k = offset + 1
    <3>1. operations'[k] = Script(k - 1) /\ k >= 1
      BY <2>2, <1>1, <1>3
    <3>2. trigger + k \notin DOMAIN executed /\ trigger + k + 1 \notin DOMAIN executed
      BY <2>2, <1>1, <1>4
    <3> QED
      BY <3>1, <3>2
  <2> QED
    BY SMTT(30), <2>1, <2>2, <1>1, <1>3, <1>5
<1> QED
  BY <1>3, <1>5 DEF ProbeKeepsItsScript

\* The action act() gives is the one the script and the stream of the policy ask for.
LEMMA ActIsPending ==
  ASSUME ProbeInv, Act, UNCHANGED <<step, offset, finished, executed, trigger>>,
         \/ pc = "choose" /\ (offset = -1 \/ offset >= 2)
         \/ pc = "requeried"
  PROVE  PolicyInv' /\ serverDraws' = inferenceCount' /\ CursorHolds'
<1> USE ConstantFacts
<1>1. /\ PolicyInv /\ PolicyAct /\ pc' = "execute" /\ serverDraws = inferenceCount
      /\ serverDraws' = serverDraws + (inferenceCount' - inferenceCount)
      /\ step \in Nat /\ offset \in -1..(ProbeSteps - 1)
  BY DEF ProbeInv, ProbeTypeOK, Act
<1>2. /\ PolicyInv' /\ emittedAction' # NoAction
      /\ Len(queue') = ChunkLength - nextPosition'
      /\ queue = <<>> => inferenceCount' = inferenceCount + 1 /\ emittedPosition' = 0
      /\ queue # <<>> => inferenceCount' = inferenceCount /\ emittedPosition' = nextPosition
  BY <1>1, ActFacts
<1>3. inferenceCount \in Nat /\ inferenceCount' \in Nat
  BY <1>1, <1>2 DEF PolicyInv, PolicyTypeOK
<1>4. serverDraws' = inferenceCount'
  <2>1. CASE inferenceCount' = inferenceCount
    BY <2>1, <1>1, <1>3
  <2>2. CASE inferenceCount' = inferenceCount + 1
    BY <2>2, <1>1, <1>3
  <2> QED
    BY <2>1, <2>2, <1>2
<1>5. PendingHolds'
  <2>1. CASE step = 0
    <3>1. queue = <<>> /\ serverDraws = 0
      BY <2>1 DEF ProbeInv, CursorHolds, LoopHolds, InArm, Arm
    <3> QED
      BY <2>1, <3>1, <1>1, <1>2, <1>4 DEF PendingHolds
  <2>2. CASE step # 0
    <3>0. offset # 0
      BY DEF ProbeInv, LoopHolds, InArm
    <3>1. emittedAction # NoAction /\ executed[step] = <<serverDraws, emittedPosition>>
      BY <2>2 DEF ProbeInv, CursorHolds, InArm
    <3>2. /\ emittedPosition \in 0..(ChunkLength - 1)
          /\ nextPosition = emittedPosition + 1 /\ queue \in Seq(Actions)
      BY <3>1, <1>1, EmittedFacts
    <3>3. /\ executed[step][1] = inferenceCount /\ executed[step][2] = emittedPosition
      BY <3>1, <1>1
    <3>4. CASE queue = <<>> /\ (offset = 1 \/ JustProbed)
      BY <2>2, <3>0, <3>3, <3>4, <1>1, <1>2, <1>4 DEF PendingHolds, JustProbed
    <3>5. CASE pc # "requeried" /\ ~JustProbed /\ offset # 1 /\ offset # 0
      <4>1. Len(queue) = ChunkLength - nextPosition
        BY <3>1, <3>5, <1>1 DEF ProbeInv, CursorHolds, InArm
      <4>2. <<serverDraws', emittedPosition'>> = Following(executed[step])
        <5>1. CASE queue = <<>>
          BY <5>1, <4>1, <3>2, <3>3, <1>2, <1>4 DEF Following
        <5>2. CASE queue # <<>>
          BY <5>2, <4>1, <3>2, <3>3, <1>2, <1>4 DEF Following
        <5> QED
          BY <5>1, <5>2
      <4> QED
        BY <4>2, <2>2, <3>5 DEF PendingHolds, JustProbed
    <3>6. pc = "requeried" => offset = 1 /\ queue = <<>>
      BY DEF ProbeInv, CursorHolds, LoopHolds, InArm
    <3>7. pc = "choose" /\ JustProbed => queue = <<>>
      BY DEF ProbeInv, CursorHolds, InArm
    <3> QED
      BY <3>4, <3>5, <3>6, <3>7, <1>1
  <2> QED
    BY <2>1, <2>2
<1>6. CursorHolds'
  BY <1>1, <1>2, <1>5 DEF CursorHolds
<1> QED
  BY <1>2, <1>4, <1>6

LEMMA ActNormallyInv == ProbeInv /\ ActNormally => ProbeInv'
<1> SUFFICES ASSUME ProbeInv, ActNormally PROVE ProbeInv'
  OBVIOUS
<1> USE ConstantFacts DEF armVars
<1>1. /\ pc = "choose" /\ pc' = "execute" /\ Act /\ ~AtHorizon /\ ~Probing
      /\ UNCHANGED <<pairVars, armVars>>
  BY DEF ActNormally, Act
<1>2. offset = -1 /\ step < BaseHorizon
  BY <1>1, LoopFacts DEF Probing, AtHorizon, InArm
<1>3. PolicyInv' /\ serverDraws' = inferenceCount' /\ CursorHolds'
  BY <1>1, <1>2, ActIsPending
<1>4. PlacesHold' /\ WitnessHolds' /\ SummariesHold' /\ ArmsAlike'
  BY <1>1, SameRecords
<1>5. LoopHolds'
  BY <1>1, <1>2 DEF ProbeInv, LoopHolds, InArm, Arm, pairVars, PostWindowOf
<1>6. ProbeKeepsItsScript'
  BY <1>1 DEF ProbeInv, ProbeKeepsItsScript
<1>7. ProbeTypeOK'
  <2>1. serverDraws' \in Draws => ArmTyped'
    BY <1>1, TypeParts DEF ProbeInv, ArmTyped, pairVars
  <2> QED
    BY <1>3, <2>1, TypedAgain
<1> QED
  BY <1>3, <1>4, <1>5, <1>6, <1>7 DEF ProbeInv

LEMMA RepeatPreviousInv == ProbeInv /\ RepeatPrevious => ProbeInv'
<1> SUFFICES ASSUME ProbeInv, RepeatPrevious PROVE ProbeInv'
  OBVIOUS
<1> USE ConstantFacts
<1>1. /\ pc = "choose" /\ pc' = "execute" /\ offset = 0 /\ PolicyRepeatLast
      /\ operations' = Append(operations, Script(offset))
      /\ started' = IF started = -1 THEN step ELSE started
      /\ UNCHANGED <<pairVars, serverDraws, step, offset, trigger, finished, postWindow,
                     executed, shown, prefix, reason>>
  BY DEF RepeatPrevious
<1>2. /\ PolicyInv' /\ emittedAction # NoAction
      /\ UNCHANGED <<queue, nextPosition, emittedAction, emittedPosition, inferenceCount>>
  BY <1>1, RepeatFacts DEF ProbeInv
<1>3. /\ ProbeKeepsItsScript' /\ operations' \in Seq({Script(k) : k \in 0..2})
      /\ Len(operations') = offset + 1
  BY <1>1, OperationAdded
<1>4. /\ Arm = "passive_plus_probe" /\ trigger \in 1..step /\ step = trigger + offset
      /\ step \in Nat
  BY <1>1, LoopFacts DEF InArm
<1>5. started' = started /\ started = trigger
  BY <1>1, <1>4 DEF ProbeInv, LoopHolds, InArm
<1>6. LoopHolds'
  BY <1>1, <1>3, <1>4, <1>5 DEF ProbeInv, LoopHolds, InArm, Arm, pairVars, PostWindowOf
<1>7. CursorHolds'
  <2>1. finished = -1
    BY <1>1, LoopFacts DEF InArm
  <2>2. /\ executed[step] = <<serverDraws, emittedPosition>>
        /\ Len(queue) = ChunkLength - nextPosition
    BY <1>1, <1>2, <1>4, <2>1 DEF ProbeInv, CursorHolds, InArm, JustProbed
  <2> QED
    BY <1>1, <1>2, <1>4, <2>2 DEF CursorHolds, PendingHolds
<1>8. PlacesHold' /\ WitnessHolds' /\ SummariesHold' /\ ArmsAlike'
  BY <1>1, SameRecords
<1>9. ProbeTypeOK'
  <2>1. serverDraws' \in Draws => ArmTyped'
    BY <1>1, <1>3, <1>5, TypeParts DEF ProbeInv, ArmTyped, pairVars
  <2> QED
    BY <1>1, <1>2, <2>1, TypedAgain DEF ProbeInv
<1> QED
  BY <1>1, <1>2, <1>3, <1>6, <1>7, <1>8, <1>9 DEF ProbeInv

LEMMA ForceRequeryInv == ProbeInv /\ ForceRequery => ProbeInv'
<1> SUFFICES ASSUME ProbeInv, ForceRequery PROVE ProbeInv'
  OBVIOUS
<1> USE ConstantFacts
<1>1. /\ pc = "choose" /\ pc' = "requeried" /\ offset = 1 /\ PolicyForceRequery
      /\ UNCHANGED <<pairVars, serverDraws, armVars>>
  BY DEF ForceRequery
<1>2. PolicyInv' /\ queue' = <<>> /\ UNCHANGED <<emittedAction, emittedPosition, inferenceCount>>
  BY <1>1, ForceFacts DEF ProbeInv
<1>3. step # 0 /\ step \in Nat
  BY <1>1, LoopFacts DEF InArm
<1>4. LoopHolds'
  BY <1>1 DEF ProbeInv, LoopHolds, InArm, Arm, armVars, pairVars, PostWindowOf
<1>5. CursorHolds'
  BY <1>1, <1>2, <1>3 DEF ProbeInv, CursorHolds, InArm, armVars
<1>6. PlacesHold' /\ WitnessHolds' /\ SummariesHold' /\ ArmsAlike'
  BY <1>1, SameRecords DEF armVars
<1>7. ProbeKeepsItsScript'
  BY <1>1 DEF ProbeInv, ProbeKeepsItsScript, armVars
<1>8. ProbeTypeOK'
  <2>1. serverDraws' \in Draws => ArmTyped'
    BY <1>1, TypeParts DEF ProbeInv, ArmTyped, armVars, pairVars
  <2> QED
    BY <1>1, <1>2, <2>1, TypedAgain DEF ProbeInv
<1> QED
  BY <1>1, <1>2, <1>4, <1>5, <1>6, <1>7, <1>8 DEF ProbeInv

LEMMA ActInProbeInv == ProbeInv /\ ActInProbe => ProbeInv'
<1> SUFFICES ASSUME ProbeInv, ActInProbe PROVE ProbeInv'
  OBVIOUS
<1> USE ConstantFacts
<1>1. /\ pc \in {"choose", "requeried"} /\ pc' = "execute" /\ Act
      /\ pc = "choose" => offset >= 2
      /\ operations' = Append(operations, Script(offset))
      /\ UNCHANGED <<pairVars, step, offset, trigger, started, finished, postWindow,
                     executed, shown, prefix, reason>>
  BY DEF ActInProbe, Act
<1>2. offset # -1 /\ offset # 0
  BY <1>1 DEF ProbeInv, LoopHolds, InArm
<1>3. PolicyInv' /\ serverDraws' = inferenceCount' /\ CursorHolds'
  BY <1>1, <1>2, ActIsPending
<1>4. /\ ProbeKeepsItsScript' /\ operations' \in Seq({Script(k) : k \in 0..2})
      /\ Len(operations') = offset + 1
  BY <1>1, <1>2, OperationAdded
<1>5. Arm = "passive_plus_probe" /\ trigger \in 1..step /\ step \in Nat
  BY <1>1, <1>2, LoopFacts DEF InArm
<1>6. LoopHolds'
  BY <1>1, <1>2, <1>4, <1>5 DEF ProbeInv, LoopHolds, InArm, Arm, pairVars, PostWindowOf
<1>7. PlacesHold' /\ WitnessHolds' /\ SummariesHold' /\ ArmsAlike'
  BY <1>1, SameRecords
<1>8. ProbeTypeOK'
  <2>1. serverDraws' \in Draws => ArmTyped'
    BY <1>1, <1>4, TypeParts DEF ProbeInv, ArmTyped, pairVars
  <2> QED
    BY <1>3, <2>1, TypedAgain
<1> QED
  BY <1>3, <1>4, <1>6, <1>7, <1>8 DEF ProbeInv

-----------------------------------------------------------------------------
(* The beginning of an arm, calls that raise, and the gate.                *)

\* Outside an arm the invariant speaks of the summaries only.
LEMMA OutsideArm ==
  ASSUME ProbeInv, pc' \notin InArm, UNCHANGED <<outcomes, verdicts, summaries>>
  PROVE  LoopHolds' /\ CursorHolds' /\ WitnessHolds' /\ SummariesHold' /\ ArmsAlike'
<1>1. LoopHolds' /\ CursorHolds' /\ WitnessHolds'
  BY DEF LoopHolds, CursorHolds, WitnessHolds, InArm
<1>2. SummariesHold'
  BY SummariesStay DEF ProbeInv, Remembered
<1>3. ArmsAlike'
  BY DEF ProbeInv, ArmsAlike, InArm, Alike
<1> QED
  BY <1>1, <1>2, <1>3

LEMMA BeginArmInv == ProbeInv /\ BeginArm => ProbeInv'
<1> SUFFICES ASSUME ProbeInv, BeginArm PROVE ProbeInv'
  OBVIOUS
<1> USE ConstantFacts
<1>1. /\ pc = "arm" /\ pc' = "choose" /\ finishedArms < 2 /\ NewPolicy
      /\ serverDraws' = 0 /\ step' = 0 /\ offset' = -1
      /\ trigger' = -1 /\ started' = -1 /\ finished' = -1 /\ postWindow' = -1
      /\ operations' = <<>> /\ executed' = <<>> /\ shown' = <<>> /\ prefix' = <<>>
      /\ reason' = "horizon" /\ UNCHANGED pairVars
  BY DEF BeginArm, SetServerSeed
<1>2. PolicyInv' /\ queue' = <<>> /\ inferenceCount' = 0
  BY <1>1, NewPolicyInv
<1>3. Len(<<>>) = 0 /\ DOMAIN <<>> = {}
      /\ <<>> \in Seq({Script(k) : k \in 0..2}) /\ <<>> \in Seq(ExecutedActions)
      /\ <<>> \in Seq(Contexts)
  OBVIOUS
<1>4. PlacesHold'
  BY <1>1 DEF ProbeInv, PlacesHold, PairErrors, InArm, pairVars
<1>5. LoopHolds'
  BY <1>1, <1>3 DEF LoopHolds, InArm, PostWindowOf
<1>6. CursorHolds'
  <2>1. emittedAction' = NoAction
    BY <1>1 DEF NewPolicy
  <2> QED
    BY <1>1, <1>2, <2>1 DEF CursorHolds, InArm, JustProbed
<1>7. WitnessHolds'
  BY <1>1, <1>3 DEF WitnessHolds, Witnessed, InArm
<1>8. SummariesHold'
  BY <1>1, SummariesStay DEF ProbeInv, Remembered, pairVars
<1>9. ArmsAlike'
  <2>1. \A s : Alike(s, <<>>)
    BY <1>3 DEF Alike
  <2>2. UNCHANGED summaries /\ shown' = <<>>
    BY <1>1 DEF pairVars
  <2> QED
    BY <2>1, <2>2 DEF ProbeInv, ArmsAlike, Alike
<1>10. ProbeKeepsItsScript'
  BY <1>1, <1>3 DEF ProbeKeepsItsScript
<1>11. ProbeTypeOK'
  <2>1. ArmTyped
    BY TypeParts DEF ProbeInv
  <2>2. serverDraws' \in Draws => ArmTyped'
    BY <1>1, <1>3, <2>1 DEF ArmTyped, pairVars
  <2> QED
    BY <1>1, <1>2, <2>2, TypedAgain
<1> QED
  BY <1>1, <1>2, <1>4, <1>5, <1>6, <1>7, <1>8, <1>9, <1>10, <1>11 DEF ProbeInv

LEMMA ArmRaisesInv == ProbeInv /\ ArmRaises => ProbeInv'
<1> SUFFICES ASSUME ProbeInv, ArmRaises PROVE ProbeInv'
  OBVIOUS
<1> USE ConstantFacts
<1>1. /\ pc' = "raised" /\ UNCHANGED <<pairVars, armVars>>
      /\ serverDraws' = serverDraws + (inferenceCount' - inferenceCount)
      /\ UNCHANGED policyVars \/ PolicyActRaises
  BY DEF ArmRaises
<1>2. PolicyInv'
  BY <1>1, PolicyStepInv DEF ProbeInv, PolicyNext
<1>3. serverDraws' = inferenceCount'
  <2>1. inferenceCount' = inferenceCount \/ inferenceCount' = inferenceCount + 1
    BY <1>1 DEF PolicyActRaises, ActQueryFails, ActAnswerRejected, policyVars
  <2>2. inferenceCount \in Nat /\ serverDraws = inferenceCount
    BY DEF ProbeInv, PolicyInv, PolicyTypeOK
  <2>3. CASE inferenceCount' = inferenceCount
    BY <2>3, <2>2, <1>1
  <2>4. CASE inferenceCount' = inferenceCount + 1
    BY <2>4, <2>2, <1>1
  <2> QED
    BY <2>1, <2>3, <2>4
<1>4. PlacesHold'
  BY <1>1 DEF ProbeInv, PlacesHold, PairErrors, InArm, pairVars
<1>5. LoopHolds' /\ CursorHolds' /\ WitnessHolds' /\ SummariesHold' /\ ArmsAlike'
  BY <1>1, OutsideArm DEF InArm, pairVars
<1>6. ProbeKeepsItsScript'
  BY <1>1 DEF ProbeInv, ProbeKeepsItsScript, armVars
<1>7. ProbeTypeOK'
  <2>1. serverDraws' \in Draws => ArmTyped'
    BY <1>1, TypeParts DEF ProbeInv, ArmTyped, armVars, pairVars
  <2> QED
    BY <1>2, <1>3, <2>1, TypedAgain
<1> QED
  BY <1>2, <1>3, <1>4, <1>5, <1>6, <1>7 DEF ProbeInv

LEMMA ValidatePairInv == ProbeInv /\ ValidatePair => ProbeInv'
<1> SUFFICES ASSUME ProbeInv, ValidatePair PROVE ProbeInv'
  OBVIOUS
<1>1. /\ pc = "arm" /\ finishedArms = 2
      /\ pc' = IF PairErrors THEN "rejected" ELSE "accepted"
      /\ UNCHANGED <<policyVars, serverDraws, pairVars, armVars>>
  BY DEF ValidatePair
<1>2. PolicyInv' /\ UNCHANGED inferenceCount
  BY <1>1, SamePolicy DEF ProbeInv
<1>3. PlacesHold'
  BY <1>1 DEF ProbeInv, PlacesHold, PairErrors, InArm, pairVars
<1>4. LoopHolds' /\ CursorHolds' /\ WitnessHolds' /\ SummariesHold' /\ ArmsAlike'
  BY <1>1, OutsideArm DEF InArm, pairVars
<1>5. ProbeKeepsItsScript'
  BY <1>1 DEF ProbeInv, ProbeKeepsItsScript, armVars
<1>6. ProbeTypeOK'
  <2>1. serverDraws' \in Draws => ArmTyped'
    BY <1>1, TypeParts DEF ProbeInv, ArmTyped, armVars, pairVars
  <2> QED
    BY <1>1, <1>2, <2>1, TypedAgain DEF ProbeInv
<1> QED
  BY <1>1, <1>2, <1>3, <1>4, <1>5, <1>6 DEF ProbeInv

-----------------------------------------------------------------------------
(* The rest of the step: execution, monitor, bookkeeping.                  *)

\* What an external function was asked it knows from then on, and forgets nothing.
LEMMA AskedFacts ==
  ASSUME NEW known, NEW t, NEW values, NEW next \in Asked(known, t, values),
         \A u \in DOMAIN known : known[u] \in values
  PROVE  /\ \A u \in DOMAIN known : u \in DOMAIN next /\ next[u] = known[u]
         /\ t \in DOMAIN next
         /\ \A u \in DOMAIN next : next[u] \in values
<1>1. CASE t \in DOMAIN known
  BY <1>1 DEF Asked
<1>2. CASE t \notin DOMAIN known
  <2>1. PICK value \in values :
          next = [u \in DOMAIN known \cup {t} |-> IF u = t THEN value ELSE known[u]]
    BY <1>2 DEF Asked
  <2> QED
    BY <1>2, <2>1
<1> QED
  BY <1>1, <1>2

\* The action that is executed, and what the environment makes of it.
LEMMA ObserveFacts ==
  ASSUME ProbeInv, Observe
  PROVE  /\ pc = "execute" /\ pc' \in {"choose", "arm_ended"} /\ pc \in InArm /\ pc' \in InArm
         /\ <<serverDraws, emittedPosition>> \in ExecutedActions
         /\ executed' \in Seq(ExecutedActions)
         /\ step' = step + 1 /\ step' \in 0..MaxSteps
         /\ Len(executed') = step + 1 /\ DOMAIN executed' = 1..(step + 1)
         /\ \A i \in 1..step : executed'[i] = executed[i]
         /\ executed'[step + 1] = <<serverDraws, emittedPosition>>
         /\ executed' \in DOMAIN outcomes'
         /\ (pc' = "choose") <=> (outcomes'[executed'] = "running")
         /\ reason' \in {"horizon", "success", "environment_done"}
         /\ pc' = "arm_ended" <=> reason' # "horizon"
         /\ \A transcript \in DOMAIN outcomes' : outcomes'[transcript] \in Outcomes
         /\ \A t \in DOMAIN outcomes : t \in DOMAIN outcomes' /\ outcomes'[t] = outcomes[t]
         /\ UNCHANGED <<order, summaries, finishedArms, serverDraws, operations>>
<1> USE ConstantFacts
<1>1. /\ pc = "execute"
      /\ executed' = Append(executed, <<serverDraws, emittedPosition>>)
      /\ outcomes' \in Asked(outcomes, executed', Outcomes)
      /\ step' = step + 1
      /\ \/ outcomes'[executed'] = "running" /\ pc' = "choose" /\ UNCHANGED reason
         \/ outcomes'[executed'] # "running" /\ pc' = "arm_ended" /\ reason' = outcomes'[executed']
      /\ UNCHANGED <<order, summaries, finishedArms, serverDraws, operations>>
  BY DEF Observe
<1>2. pc \in InArm /\ pc' \in InArm
  BY <1>1 DEF InArm
<1>3. /\ executed \in Seq(ExecutedActions) /\ Len(executed) = step /\ step \in Nat
      /\ offset \in -1..(ProbeSteps - 1)
      /\ offset # -1 => step = trigger + offset /\ trigger \in Nat
  BY <1>2, LoopFacts
<1>4. <<serverDraws, emittedPosition>> \in ExecutedActions
  <2>1. emittedPosition \in 0..(ChunkLength - 1)
    BY <1>1, EmittedFacts DEF ProbeInv, CursorHolds, InArm
  <2>2. serverDraws \in Draws
    BY TypeParts DEF ProbeInv, ArmTyped
  <2> QED
    BY <2>1, <2>2 DEF ExecutedActions
<1>5. /\ executed' \in Seq(ExecutedActions) /\ Len(executed') = step + 1
      /\ DOMAIN executed' = 1..(step + 1)
      /\ \A i \in 1..step : executed'[i] = executed[i]
      /\ executed'[step + 1] = <<serverDraws, emittedPosition>>
  BY <1>1, <1>3, <1>4
<1>6. step' \in 0..MaxSteps
  <2>1. offset = -1 => step < BaseHorizon
    BY <1>1, <1>2 DEF ProbeInv, LoopHolds
  <2>2. offset # -1 => trigger <= BaseHorizon
    BY <1>2, LoopFacts DEF ProbeInv, LoopHolds
  <2> QED
    BY <1>1, <1>3, <2>1, <2>2
<1>7. \A u \in DOMAIN outcomes : outcomes[u] \in Outcomes
  BY TypeParts DEF ProbeInv, ArmTyped
<1>8. /\ executed' \in DOMAIN outcomes'
      /\ \A transcript \in DOMAIN outcomes' : outcomes'[transcript] \in Outcomes
      /\ \A t \in DOMAIN outcomes : t \in DOMAIN outcomes' /\ outcomes'[t] = outcomes[t]
  <2> DEFINE now == executed'
             later == outcomes'
  <2>1. later \in Asked(outcomes, now, Outcomes)
    BY <1>1
  <2> HIDE DEF now, later
  <2>2. /\ \A u \in DOMAIN outcomes : u \in DOMAIN later /\ later[u] = outcomes[u]
        /\ now \in DOMAIN later
        /\ \A u \in DOMAIN later : later[u] \in Outcomes
    BY <2>1, <1>7, AskedFacts
  <2> QED
    BY <2>2 DEF now, later
<1>9. /\ pc' = "arm_ended" <=> reason' # "horizon"
      /\ reason' \in {"horizon", "success", "environment_done"}
  <2>1. outcomes'[executed'] \in Outcomes
    BY <1>8
  <2>2. reason = "horizon"
    BY <1>1, <1>2 DEF ProbeInv, LoopHolds
  <2> QED
    BY <1>1, <2>1, <2>2 DEF Outcomes
<1> QED
  BY <1>1, <1>2, <1>4, <1>5, <1>6, <1>8, <1>9

\* The monitor is asked about a context with the action just executed.
LEMMA WatchFacts ==
  ASSUME ProbeInv, Observe, Watch
  PROVE  /\ trigger = -1 /\ offset = -1 /\ step < BaseHorizon /\ finished = -1
         /\ operations = <<>> /\ started = -1
         /\ shown' \in Seq(Contexts) /\ Len(shown') = step + 1 /\ Len(shown) = step
         /\ \A i \in 1..step : shown'[i] = shown[i]
         /\ \A i \in 1..(step + 1) : executed'[i] = shown'[i][1]
         /\ \A n \in 1..step : /\ Firsts(shown', n) = Firsts(shown, n)
                               /\ ActionsOf(shown', n) = ActionsOf(shown, n)
         /\ Firsts(shown', step + 1) = shown' /\ ActionsOf(shown', step + 1) = executed'
         /\ shown' \in DOMAIN verdicts'
         /\ \A transcript \in DOMAIN verdicts' : verdicts'[transcript] \in Verdicts
         /\ \A t \in DOMAIN verdicts : t \in DOMAIN verdicts' /\ verdicts'[t] = verdicts[t]
         /\ UNCHANGED <<finished, policyVars>>
<1> USE ConstantFacts
<1>1. /\ trigger = -1
      /\ \E milliseconds \in IF latency = "measured" THEN Latencies ELSE {0} :
           shown' = Append(shown, <<executed'[step + 1], milliseconds>>)
      /\ verdicts' \in Asked(verdicts, shown', Verdicts)
      /\ UNCHANGED <<finished, policyVars>>
  BY DEF Watch
<1>2. /\ pc = "execute" /\ pc \in InArm /\ step \in Nat
      /\ Len(executed') = step + 1 /\ executed' \in Seq(ExecutedActions)
      /\ \A i \in 1..step : executed'[i] = executed[i]
      /\ executed'[step + 1] \in ExecutedActions
  BY ObserveFacts, LoopFacts
<1>3. /\ offset = -1 /\ step < BaseHorizon /\ finished = -1 /\ operations = <<>> /\ started = -1
  BY <1>1, <1>2 DEF ProbeInv, LoopHolds
<1>4. /\ shown \in Seq(Contexts) /\ Len(shown) = step
      /\ \A i \in 1..step : executed[i] = shown[i][1]
  BY <1>1, <1>2, TypeParts DEF ProbeInv, ArmTyped, WitnessHolds, Witnessed
<1>5. PICK milliseconds \in Latencies \cup {0} :
        shown' = Append(shown, <<executed'[step + 1], milliseconds>>)
  BY <1>1
<1>6. <<executed'[step + 1], milliseconds>> \in Contexts
  BY <1>2, <1>5 DEF Contexts
<1>7. /\ shown' \in Seq(Contexts) /\ Len(shown') = step + 1
      /\ \A i \in 1..step : shown'[i] = shown[i]
      /\ shown'[step + 1] = <<executed'[step + 1], milliseconds>>
  BY <1>4, <1>5, <1>6
<1>8. \A i \in 1..(step + 1) : executed'[i] = shown'[i][1]
  <2>1. ASSUME NEW i \in 1..(step + 1)
        PROVE  executed'[i] = shown'[i][1]
    <3>1. CASE i \in 1..step
      BY <3>1, <1>2, <1>4, <1>7
    <3>2. CASE i = step + 1
      BY <3>2, <1>7
    <3> QED
      BY <3>1, <3>2, <1>2
  <2> QED
    BY <2>1
<1>9. \A n \in 1..step : Firsts(shown', n) = Firsts(shown, n)
                         /\ ActionsOf(shown', n) = ActionsOf(shown, n)
  <2>1. ASSUME NEW n \in 1..step
        PROVE  Firsts(shown', n) = Firsts(shown, n) /\ ActionsOf(shown', n) = ActionsOf(shown, n)
    <3>1. \A i \in 1..n : shown'[i] = shown[i]
      BY <1>7, <1>2
    <3> QED
      BY <3>1 DEF Firsts, ActionsOf
  <2> QED
    BY <2>1
<1>10. Firsts(shown', step + 1) = shown'
  BY <1>7, <1>2 DEF Firsts
<1>11. ActionsOf(shown', step + 1) = executed'
  <2>1. executed' = [i \in 1..(step + 1) |-> executed'[i]]
    BY <1>2
  <2> QED
    BY <2>1, <1>8 DEF ActionsOf
<1>12. \A u \in DOMAIN verdicts : verdicts[u] \in Verdicts
  BY TypeParts DEF ProbeInv, ArmTyped
<1>13. /\ shown' \in DOMAIN verdicts'
       /\ \A transcript \in DOMAIN verdicts' : verdicts'[transcript] \in Verdicts
       /\ \A t \in DOMAIN verdicts : t \in DOMAIN verdicts' /\ verdicts'[t] = verdicts[t]
  <2> DEFINE now == shown'
             later == verdicts'
  <2>1. later \in Asked(verdicts, now, Verdicts)
    BY <1>1
  <2> HIDE DEF now, later
  <2>2. /\ \A u \in DOMAIN verdicts : u \in DOMAIN later /\ later[u] = verdicts[u]
        /\ now \in DOMAIN later
        /\ \A u \in DOMAIN later : later[u] \in Verdicts
    BY <2>1, <1>12, AskedFacts
  <2> QED
    BY <2>2 DEF now, later
<1> QED
  BY <1>1, <1>3, <1>4, <1>7, <1>8, <1>9, <1>10, <1>11, <1>13

\* The step of an arm whose monitor has fired before.
LEMMA AdvanceFacts ==
  ASSUME ProbeInv, Observe, AdvanceProbe
  PROVE  /\ trigger \in 1..step /\ trigger' = trigger /\ started' = started
         /\ UNCHANGED <<shown, verdicts, prefix>>
         /\ \/ /\ offset = ProbeSteps - 1 /\ offset' = -1 /\ finished' = step + 1
               /\ PolicyForceRequery
            \/ /\ offset \in 0..(ProbeSteps - 2) /\ offset' = offset + 1
               /\ UNCHANGED <<finished, policyVars>>
            \/ offset = -1 /\ UNCHANGED <<offset, finished, policyVars>>
BY ObserveFacts, LoopFacts DEF AdvanceProbe, FinishProbe

\* How the arm goes on.
LEMMA ObserveMoves ==
  ASSUME ProbeInv, Observe
  PROVE  \/ Watch /\ Trigger /\ verdicts'[shown'] = "joint_trigger"
         \/ Watch /\ Untriggered /\ verdicts'[shown'] = "quiet"
         \/ AdvanceProbe
BY DEF Observe, Watch

LEMMA ObserveLoop ==
  ASSUME ProbeInv, Observe
  PROVE  LoopHolds'
<1> USE ConstantFacts
<1>1. /\ pc = "execute" /\ pc' \in {"choose", "arm_ended"} /\ pc \in InArm
      /\ step' = step + 1 /\ Len(executed') = step + 1 /\ step \in Nat
      /\ pc' = "arm_ended" <=> reason' # "horizon"
      /\ UNCHANGED <<order, finishedArms, operations>>
      /\ Arm \in Arms /\ Arm' = Arm /\ offset \in -1..(ProbeSteps - 1)
  BY ObserveFacts, LoopFacts DEF Arm
<1>2. postWindow' = IF trigger' # -1 /\ step + 1 = trigger' + ProbeSteps THEN step + 1 ELSE postWindow
  BY DEF Observe, PostWindow
<1>3. postWindow = PostWindowOf(trigger, step)
  BY <1>1 DEF ProbeInv, LoopHolds
<1>4. ASSUME Watch, Trigger
      PROVE  LoopHolds'
  <2>1. /\ trigger = -1 /\ offset = -1 /\ step < BaseHorizon /\ finished = -1
        /\ operations = <<>> /\ started = -1 /\ finished' = -1
    BY <1>4, WatchFacts
  <2>2. /\ trigger' = step + 1
        /\ \/ Arm = "passive_plus_probe" /\ offset' = 0 /\ started' = step + 1
           \/ Arm = "passive_only" /\ offset' = offset /\ started' = started
    BY <1>4 DEF Trigger
  <2>3. postWindow' = PostWindowOf(trigger', step')
    BY <1>1, <1>2, <1>3, <2>1, <2>2 DEF PostWindowOf
  <2>4. Len(operations') = 0
    BY <1>1, <2>1
  <2> QED
    BY <1>1, <2>1, <2>2, <2>3, <2>4 DEF LoopHolds, Arms
<1>5. ASSUME Watch, Untriggered
      PROVE  LoopHolds'
  <2>1. /\ trigger = -1 /\ offset = -1 /\ step < BaseHorizon /\ finished = -1
        /\ operations = <<>> /\ started = -1 /\ finished' = -1
    BY <1>5, WatchFacts
  <2>2. UNCHANGED <<trigger, offset, started>>
    BY <1>5 DEF Untriggered
  <2>3. postWindow' = PostWindowOf(trigger', step')
    BY <1>1, <1>2, <1>3, <2>1, <2>2 DEF PostWindowOf
  <2> QED
    BY <1>1, <2>1, <2>2, <2>3 DEF LoopHolds, Arms
<1>6. ASSUME AdvanceProbe
      PROVE  LoopHolds'
  <2>1. /\ trigger \in 1..step /\ trigger' = trigger /\ started' = started
        /\ \/ offset = ProbeSteps - 1 /\ offset' = -1 /\ finished' = step + 1
           \/ offset \in 0..(ProbeSteps - 2) /\ offset' = offset + 1 /\ finished' = finished
           \/ offset = -1 /\ offset' = offset /\ finished' = finished
    BY <1>6, AdvanceFacts
  <2>2. postWindow' = PostWindowOf(trigger', step')
    BY <1>1, <1>2, <1>3, <2>1 DEF PostWindowOf
  <2>3. trigger <= BaseHorizon
    BY <1>1, <2>1 DEF ProbeInv, LoopHolds
  <2>4. CASE Arm = "passive_only"
    BY <1>1, <2>1, <2>2, <2>3, <2>4 DEF ProbeInv, LoopHolds
  <2>5. CASE Arm = "passive_plus_probe"
    <3>1. /\ started = trigger
          /\ offset # -1 => finished = -1 /\ step = trigger + offset /\ Len(operations) = offset + 1
          /\ offset = -1 => /\ finished = trigger + ProbeSteps /\ finished <= step
                            /\ step < BaseHorizon /\ Len(operations) = ProbeSteps
      BY <1>1, <2>1, <2>5 DEF ProbeInv, LoopHolds
    <3> QED
      BY <1>1, <2>1, <2>2, <2>3, <2>5, <3>1 DEF LoopHolds
  <2> QED
    BY <1>1, <2>4, <2>5 DEF Arms
<1> QED
  BY <1>4, <1>5, <1>6, ObserveMoves

\* The action executed in a step of the probe is the one its script asks for, and
\* the one after the probe begins another chunk.
LEMMA ObserveScript ==
  ASSUME ProbeInv, Observe
  PROVE  ProbeKeepsItsScript'
<1> USE ConstantFacts
<1>1. /\ pc = "execute" /\ pc \in InArm /\ step \in Nat
      /\ DOMAIN executed' = 1..(step + 1) /\ DOMAIN executed = 1..step
      /\ \A i \in 1..step : executed'[i] = executed[i]
      /\ executed'[step + 1] = <<serverDraws, emittedPosition>>
      /\ operations' = operations /\ Arm \in Arms
      /\ Len(operations) \in 0..ProbeSteps /\ DOMAIN operations = 1..Len(operations)
      /\ offset \in -1..(ProbeSteps - 1)
  BY ObserveFacts, LoopFacts
<1>0. /\ step \in Nat /\ offset \in Int /\ offset >= -1 /\ offset <= ProbeSteps - 1
      /\ Len(operations) \in Nat /\ Len(operations) <= ProbeSteps
  BY <1>1
<1>2. CASE Watch
  <2>1. operations' = <<>>
    BY <1>1, <1>2, WatchFacts
  <2> QED
    BY <2>1 DEF ProbeKeepsItsScript
<1>3. CASE AdvanceProbe
  <2>1. trigger \in 1..step /\ trigger' = trigger
    BY <1>3, AdvanceFacts
  <2>2. \A k \in DOMAIN operations :
          /\ operations[k] = Script(k - 1)
          /\ trigger + k \in DOMAIN executed =>
               /\ k = 1 => executed[trigger + 1] = executed[trigger]
               /\ k > 1 => executed[trigger + k] = <<executed[trigger][1] + 1, k - 2>>
          /\ k = ProbeSteps /\ trigger + k + 1 \in DOMAIN executed =>
               executed[trigger + k + 1] = <<executed[trigger][1] + 2, 0>>
    BY DEF ProbeInv, ProbeKeepsItsScript
  <2>3. \/ offset # -1 /\ step = trigger + offset /\ Len(operations) = offset + 1 /\ finished = -1
        \/ offset = -1 /\ Len(operations) = 0
        \/ /\ offset = -1 /\ finished = trigger + ProbeSteps /\ finished <= step
           /\ Len(operations) = ProbeSteps
    <3>1. trigger # -1
      BY <1>0, <2>1
    <3>2. CASE Arm = "passive_only"
      <4>1. offset = -1 /\ operations = <<>>
        BY <1>1, <3>2 DEF ProbeInv, LoopHolds
      <4> QED
        BY <4>1
    <3>3. CASE Arm = "passive_plus_probe"
      <4>1. offset # -1 => finished = -1 /\ step = trigger + offset /\ Len(operations) = offset + 1
        <5>1. pc = "execute" /\ pc \in InArm
          BY <1>1
        <5> QED
          BY <5>1, LoopFacts
      <4>2. pc \in InArm /\ LoopHolds
        BY <1>1 DEF ProbeInv
      <4>3. offset = -1 => finished = trigger + ProbeSteps /\ finished <= step
                           /\ Len(operations) = ProbeSteps
        BY <3>1, <3>3, <4>2 DEF LoopHolds
      <4> QED
        BY <4>1, <4>3
    <3>4. Arm = "passive_only" \/ Arm = "passive_plus_probe"
      BY <1>1 DEF Arms
    <3> QED
      BY <3>2, <3>3, <3>4
  <2>4. PendingHolds
    BY <1>1 DEF ProbeInv, CursorHolds
  <2>5. executed[trigger][1] \in Int
    <3>1. executed \in Seq(ExecutedActions) /\ Len(executed) = step
      BY <1>1, LoopFacts
    <3>2. executed[trigger] \in ExecutedActions
      BY <2>1, <3>1
    <3> QED
      BY <3>2 DEF ExecutedActions, Draws
  <2>0. trigger \in Nat /\ trigger >= 1
    BY <1>0, <2>1
  <2>6. ASSUME NEW k \in DOMAIN operations, trigger + k = step + 1
        PROVE  /\ k = 1 => executed'[trigger + 1] = executed[trigger]
               /\ k > 1 => executed'[trigger + k] = <<executed[trigger][1] + 1, k - 2>>
    <3>0. k \in 1..Len(operations)
      BY <1>1, <2>6
    <3>1. offset # -1 /\ k = offset + 1 /\ step = trigger + offset /\ step # 0 /\ finished = -1
      <4>1. CASE offset # -1 /\ step = trigger + offset /\ Len(operations) = offset + 1 /\ finished = -1
        <5>1. k \in Nat /\ k >= 1 /\ k <= offset + 1 /\ k = step + 1 - trigger
          BY <1>0, <2>0, <2>6, <3>0, <4>1
        <5> QED
          BY <1>0, <2>0, <4>1, <5>1
      <4>2. ~(offset = -1 /\ Len(operations) = 0)
        BY <3>0
      <4>3. ASSUME finished = trigger + ProbeSteps, finished <= step, Len(operations) = ProbeSteps
            PROVE  FALSE
        BY <1>0, <2>0, <2>6, <3>0, <4>3
      <4> QED
        BY <2>3, <4>1, <4>2, <4>3
    <3>2. CASE offset = 0
      <4>1. k = 1 /\ step = trigger /\ executed'[trigger + 1] = <<serverDraws, emittedPosition>>
        BY <1>1, <2>0, <3>1, <3>2
      <4>2. <<serverDraws, emittedPosition>> = executed[step]
        BY <2>4, <3>1, <3>2 DEF PendingHolds
      <4> QED
        BY <4>1, <4>2
    <3>3. CASE offset = 1
      <4>1. 1 \in DOMAIN operations /\ trigger + 1 \in DOMAIN executed
        BY <1>1, <2>3, <3>1, <3>3
      <4>2. executed[step] = executed[trigger]
        BY <2>2, <4>1, <3>1, <3>3
      <4>3. <<serverDraws, emittedPosition>> = <<executed[step][1] + 1, 0>>
        BY <2>4, <3>1, <3>3 DEF PendingHolds
      <4>4. k = 2 /\ k - 2 = 0 /\ trigger + k = step + 1
        BY <2>0, <3>1, <3>3
      <4> QED
        BY <1>1, <4>2, <4>3, <4>4
    <3>4. CASE offset >= 2
      <4>0. offset \in 1..Len(operations) /\ trigger + offset \in 1..step /\ offset > 1
        BY <1>0, <2>0, <2>3, <3>1, <3>4
      <4>1. offset \in DOMAIN operations /\ trigger + offset \in DOMAIN executed /\ offset > 1
        BY <1>1, <4>0
      <4>2. executed[step] = <<executed[trigger][1] + 1, offset - 2>>
        BY <2>2, <4>1, <3>1
      <4>3. <<serverDraws, emittedPosition>> = Following(executed[step])
        BY <2>1, <2>4, <3>1, <3>4 DEF PendingHolds, JustProbed
      <4>4. Following(executed[step]) = <<executed[trigger][1] + 1, offset - 1>>
        BY <1>1, <4>2, <3>4 DEF Following
      <4>5. k > 1 /\ k # 1 /\ k - 2 = offset - 1 /\ trigger + k = step + 1
        BY <1>0, <2>0, <3>1, <3>4
      <4> QED
        BY <1>1, <4>3, <4>4, <4>5
    <3> QED
      BY <1>1, <3>1, <3>2, <3>3, <3>4
  <2>7. ASSUME ProbeSteps \in DOMAIN operations, trigger + ProbeSteps = step
        PROVE  executed'[step + 1] = <<executed[trigger][1] + 2, 0>>
    <3>0. ProbeSteps \in 1..Len(operations)
      BY <1>1, <2>7
    <3>1. offset = -1 /\ finished = step /\ step # 0
      BY <1>0, <2>0, <2>3, <2>7, <3>0
    <3>2. executed[step] = <<executed[trigger][1] + 1, ProbeSteps - 2>>
      BY <1>1, <2>1, <2>2, <2>7
    <3>3. <<serverDraws, emittedPosition>> = <<executed[step][1] + 1, 0>>
      BY <1>1, <2>1, <2>4, <3>1 DEF PendingHolds, JustProbed
    <3> QED
      BY SMTT(30), <1>1, <2>5, <3>2, <3>3
  <2>8. ASSUME NEW k \in DOMAIN operations
        PROVE  /\ operations[k] = Script(k - 1)
               /\ trigger + k \in DOMAIN executed' =>
                    /\ k = 1 => executed'[trigger + 1] = executed'[trigger]
                    /\ k > 1 => executed'[trigger + k] = <<executed'[trigger][1] + 1, k - 2>>
               /\ k = ProbeSteps /\ trigger + k + 1 \in DOMAIN executed' =>
                    executed'[trigger + k + 1] = <<executed'[trigger][1] + 2, 0>>
    <3>1. executed'[trigger] = executed[trigger] /\ k \in Nat /\ k >= 1
      BY <1>1, <2>1
    <3>6. /\ operations[k] = Script(k - 1)
          /\ k = 1 /\ trigger + k \in 1..step => executed[trigger + 1] = executed[trigger]
          /\ k > 1 /\ trigger + k \in 1..step =>
               executed[trigger + k] = <<executed[trigger][1] + 1, k - 2>>
          /\ k = ProbeSteps /\ trigger + k + 1 \in 1..step =>
               executed[trigger + k + 1] = <<executed[trigger][1] + 2, 0>>
      BY <1>1, <2>2
    <3>2. /\ trigger + k \in DOMAIN executed' =>
               trigger + k \in 1..step \/ trigger + k = step + 1
          /\ trigger + k + 1 \in DOMAIN executed' =>
               trigger + k + 1 \in 1..step \/ trigger + k = step
      <4>0. step \in Nat /\ trigger \in Nat /\ k \in Nat
        BY <1>0, <2>0, <3>1
      <4>1. DOMAIN executed' = 1..(step + 1)
        BY <1>1
      <4>2. \A i \in 1..(step + 1) : i \in 1..step \/ i = step + 1
        BY <4>0
      <4>3. trigger + k \in DOMAIN executed' => trigger + k \in 1..step \/ trigger + k = step + 1
        BY <4>1, <4>2
      <4>4. trigger + k + 1 = step + 1 => trigger + k = step
        BY <4>0
      <4> QED
        BY <4>1, <4>2, <4>3, <4>4
    <3>3. ASSUME trigger + k \in 1..step
          PROVE  /\ k = 1 => executed'[trigger + 1] = executed[trigger]
                 /\ k > 1 => executed'[trigger + k] = <<executed[trigger][1] + 1, k - 2>>
      BY <1>1, <3>3, <3>6
    <3>4. ASSUME trigger + k + 1 \in 1..step, k = ProbeSteps
          PROVE  executed'[trigger + k + 1] = <<executed[trigger][1] + 2, 0>>
      BY <1>1, <3>4, <3>6
    <3>5. ASSUME trigger + k = step, k = ProbeSteps
          PROVE  executed'[trigger + k + 1] = <<executed[trigger][1] + 2, 0>>
      BY <2>7, <2>8, <3>5
    <3> QED
      BY <2>6, <2>8, <3>1, <3>2, <3>3, <3>4, <3>5, <3>6
  <2> QED
    BY <1>1, <2>1, <2>8 DEF ProbeKeepsItsScript
<1> QED
  BY <1>2, <1>3, ObserveMoves

\* What the policy holds after the step.
LEMMA ObserveCursor ==
  ASSUME ProbeInv, Observe
  PROVE  PolicyInv' /\ serverDraws' = inferenceCount' /\ CursorHolds'
<1> USE ConstantFacts
<1>1. /\ pc = "execute" /\ pc' \in {"choose", "arm_ended"} /\ pc \in InArm
      /\ step' = step + 1 /\ step \in Nat /\ UNCHANGED serverDraws
      /\ executed'[step + 1] = <<serverDraws, emittedPosition>> /\ Arm \in Arms
  BY ObserveFacts, LoopFacts
<1>2. /\ emittedAction # NoAction /\ Len(queue) = ChunkLength - nextPosition
      /\ PolicyInv /\ serverDraws = inferenceCount
  BY <1>1 DEF ProbeInv, CursorHolds
<1>3. finished = -1 \/ (finished \in Int /\ finished <= step) \/ offset # -1
  BY <1>1, LoopFacts DEF ProbeInv, LoopHolds, Arms
<1>4. CASE UNCHANGED <<finished, policyVars>> /\ (finished = -1 \/ (finished \in Int /\ finished <= step))
  <2>1. PolicyInv' /\ UNCHANGED <<queue, nextPosition, emittedAction, emittedPosition, inferenceCount>>
    BY <1>2, <1>4, SamePolicy
  <2>2. ~JustProbed'
    BY <1>1, <1>4 DEF JustProbed
  <2> QED
    BY <1>1, <1>2, <2>1, <2>2 DEF CursorHolds
<1>5. CASE PolicyForceRequery /\ finished' = step + 1
  <2>1. PolicyInv' /\ queue' = <<>> /\ UNCHANGED <<emittedAction, emittedPosition, inferenceCount>>
    BY <1>2, <1>5, ForceFacts
  <2>2. JustProbed'
    BY <1>1, <1>5 DEF JustProbed
  <2> QED
    BY <1>1, <1>2, <2>1, <2>2 DEF CursorHolds
<1>6. CASE Watch
  BY <1>4, <1>6, WatchFacts
<1>7. CASE AdvanceProbe
  <2>1. offset # -1 => finished = -1
    BY <1>1, LoopFacts
  <2> QED
    <3>1. CASE offset # -1 /\ UNCHANGED <<finished, policyVars>>
      <4>1. finished = -1 \/ (finished \in Int /\ finished <= step)
        BY <2>1, <3>1
      <4>2. UNCHANGED <<finished, policyVars>>
        BY <3>1
      <4> QED
        BY <1>4, <4>1, <4>2, Zenon
    <3>2. CASE offset = -1 /\ UNCHANGED <<finished, policyVars>>
      BY <1>3, <1>4, <3>2
    <3>3. CASE finished' = step + 1 /\ PolicyForceRequery
      BY <1>5, <3>3
    <3>4. \/ finished' = step + 1 /\ PolicyForceRequery
          \/ UNCHANGED <<finished, policyVars>>
      BY <1>7, AdvanceFacts
    <3> QED
      BY <3>1, <3>2, <3>3, <3>4
<1> QED
  BY <1>6, <1>7, ObserveMoves

\* As long as no probe runs, an action follows the one before.
LEMMA NextContext ==
  ASSUME ProbeInv, Observe, Watch
  PROVE  \A i \in 1..(step + 1) :
           shown'[i][1] = IF i = 1 THEN <<1, 0>> ELSE Following(shown'[i - 1][1])
<1>1. /\ pc = "execute" /\ pc \in InArm /\ step \in Nat
      /\ executed'[step + 1] = <<serverDraws, emittedPosition>>
      /\ \A i \in 1..step : executed'[i] = executed[i]
  BY ObserveFacts, LoopFacts
<1>2. /\ trigger = -1 /\ offset = -1 /\ finished = -1 /\ Len(shown) = step
      /\ \A i \in 1..step : shown'[i] = shown[i]
      /\ \A i \in 1..(step + 1) : executed'[i] = shown'[i][1]
  BY WatchFacts
<1>3. PendingHolds
  BY <1>1 DEF ProbeInv, CursorHolds
<1>4. ASSUME NEW i \in 1..(step + 1)
      PROVE  shown'[i][1] = IF i = 1 THEN <<1, 0>> ELSE Following(shown'[i - 1][1])
  <2>1. CASE i \in 1..step
    <3>1. shown[i][1] = IF i = 1 THEN <<1, 0>> ELSE Following(shown[i - 1][1])
      BY <1>1, <1>2, <2>1 DEF ProbeInv, WitnessHolds, Witnessed
    <3>2. i # 1 => i - 1 \in 1..step
      BY <1>1, <2>1
    <3> QED
      BY <1>2, <2>1, <3>1, <3>2
  <2>2. CASE i = step + 1
    <3>1. shown'[i][1] = <<serverDraws, emittedPosition>>
      BY <1>1, <1>2, <2>2
    <3>2. step = 0 => <<serverDraws, emittedPosition>> = <<1, 0>>
      BY <1>3 DEF PendingHolds
    <3>3. step # 0 => <<serverDraws, emittedPosition>> = Following(executed[step])
      BY <1>2, <1>3 DEF PendingHolds, JustProbed
    <3>4. step # 0 => i - 1 = step /\ i # 1 /\ step \in 1..step /\ executed[step] = shown'[step][1]
      BY <1>1, <1>2, <2>2
    <3> QED
      BY <1>1, <2>2, <3>1, <3>2, <3>3, <3>4
  <2> QED
    BY <1>1, <2>1, <2>2
<1> QED
  BY <1>4

\* The records of the arm after the step.
LEMMA ObserveRemembers ==
  ASSUME ProbeInv, Observe
  PROVE  Remembered
<1>1. \A t \in DOMAIN outcomes : t \in DOMAIN outcomes' /\ outcomes'[t] = outcomes[t]
  BY ObserveFacts
<1>2. \A t \in DOMAIN verdicts : t \in DOMAIN verdicts' /\ verdicts'[t] = verdicts[t]
  <2>1. CASE Watch
    BY <2>1, WatchFacts
  <2>2. CASE AdvanceProbe
    BY <2>2, AdvanceFacts
  <2> QED
    BY <2>1, <2>2, ObserveMoves
<1> QED
  BY <1>1, <1>2 DEF Remembered

LEMMA WatchedWitness ==
  ASSUME ProbeInv, Observe, Watch
  PROVE  WitnessHolds'
<1> USE ConstantFacts
<1>1. /\ pc = "execute" /\ pc' \in {"choose", "arm_ended"} /\ pc \in InArm /\ step \in Nat
      /\ step' = step + 1
      /\ executed' \in DOMAIN outcomes'
      /\ (pc' = "choose") <=> (outcomes'[executed'] = "running")
      /\ executed'[step + 1] \in ExecutedActions
  BY ObserveFacts, LoopFacts
<1>2. /\ trigger = -1 /\ step < BaseHorizon
      /\ shown' \in Seq(Contexts) /\ Len(shown') = step + 1 /\ Len(shown) = step
      /\ \A i \in 1..step : shown'[i] = shown[i]
      /\ \A i \in 1..(step + 1) : executed'[i] = shown'[i][1]
      /\ \A n \in 1..step : /\ Firsts(shown', n) = Firsts(shown, n)
                            /\ ActionsOf(shown', n) = ActionsOf(shown, n)
      /\ Firsts(shown', step + 1) = shown' /\ ActionsOf(shown', step + 1) = executed'
      /\ shown' \in DOMAIN verdicts'
  BY WatchFacts
<1>3. Remembered
  BY ObserveRemembers
<1>4. /\ Len(prefix) = step /\ prefix \in Seq(ExecutedActions)
      /\ \A i \in 1..step : prefix[i] = shown[i][1]
  BY <1>1, <1>2, TypeParts DEF ProbeInv, ArmTyped, WitnessHolds, Witnessed
<1>5. ASSUME NEW i \in 1..step
      PROVE  Running(shown, i)' /\ Said(shown, i, "quiet")'
  <2>1. Running(shown, i)
    <3>1. CASE i < step
      BY <3>1, <1>1, <1>2, <1>5 DEF ProbeInv, WitnessHolds, Witnessed
    <3>2. CASE i = step
      BY <3>2, <1>1, <1>2, <1>5 DEF ProbeInv, WitnessHolds
    <3> QED
      BY <3>1, <3>2, <1>1, <1>5
  <2>2. Said(shown, i, "quiet")
    BY <1>1, <1>2, <1>5 DEF ProbeInv, WitnessHolds, Witnessed
  <2> QED
    BY <2>1, <2>2, <1>2, <1>3 DEF Running, Said, Remembered
<1>6. \A i \in 1..(step + 1) :
        shown'[i][1] = IF i = 1 THEN <<1, 0>> ELSE Following(shown'[i - 1][1])
  BY NextContext
<1>7. ASSUME NEW i, i = step + 1
      PROVE  Said(shown, i, verdicts[shown])'
  BY <1>2, <1>7 DEF Said
<1>8. CASE Trigger /\ verdicts'[shown'] = "joint_trigger"
  <2>1. trigger' = step + 1 /\ prefix' = prefix
    BY <1>8 DEF Trigger
  <2>2. ASSUME NEW i \in 1..Len(shown')
        PROVE  /\ shown'[i][1] = IF i = 1 THEN <<1, 0>> ELSE Following(shown'[i - 1][1])
               /\ i < Len(shown') => Running(shown, i)'
               /\ Said(shown, i, IF i = trigger THEN "joint_trigger" ELSE "quiet")'
    <3>1. CASE i \in 1..step
      BY <3>1, <1>1, <1>2, <1>5, <1>6, <2>1
    <3>2. CASE i = step + 1
      <4>1. Said(shown, i, verdicts[shown])' /\ i = trigger'
        BY <3>2, <1>7, <2>1
      <4>2. ~(i < Len(shown'))
        BY <3>2, <1>1, <1>2
      <4>3. shown'[i][1] = IF i = 1 THEN <<1, 0>> ELSE Following(shown'[i - 1][1])
        BY <1>2, <1>6, <2>2
      <4>4. Said(shown, i, "joint_trigger")'
        BY <4>1, <1>8 DEF Said
      <4> QED
        BY <4>1, <4>2, <4>3, <4>4
    <3> QED
      BY <3>1, <3>2, <1>1, <1>2, <2>2
  <2>3. Witnessed(shown, trigger, step, prefix)'
    <3>1. /\ trigger' # -1 /\ trigger' \in 1..step' /\ Len(shown') = trigger'
          /\ Len(prefix') = trigger' - 1 /\ Len(shown') <= BaseHorizon
      BY <1>1, <1>2, <1>4, <2>1
    <3>2. \A i \in 1..Len(prefix') : prefix'[i] = shown'[i][1]
      BY <1>2, <1>4, <2>1
    <3> QED
      BY <2>2, <3>1, <3>2 DEF Witnessed
  <2> QED
    BY <1>1, <1>2, <2>1, <2>3 DEF WitnessHolds
<1>9. CASE Untriggered /\ verdicts'[shown'] = "quiet"
  <2>1. trigger' = trigger /\ prefix' = Append(prefix, executed'[step + 1])
    BY <1>9 DEF Untriggered
  <2>2. ASSUME NEW i \in 1..Len(shown')
        PROVE  /\ shown'[i][1] = IF i = 1 THEN <<1, 0>> ELSE Following(shown'[i - 1][1])
               /\ i < Len(shown') => Running(shown, i)'
               /\ Said(shown, i, IF i = trigger THEN "joint_trigger" ELSE "quiet")'
    <3>1. CASE i \in 1..step
      BY <3>1, <1>1, <1>2, <1>5, <1>6, <2>1
    <3>2. CASE i = step + 1
      <4>1. Said(shown, i, verdicts[shown])' /\ i # trigger'
        BY <3>2, <1>1, <1>2, <1>7, <2>1
      <4>2. ~(i < Len(shown'))
        BY <3>2, <1>1, <1>2
      <4>3. shown'[i][1] = IF i = 1 THEN <<1, 0>> ELSE Following(shown'[i - 1][1])
        BY <1>2, <1>6, <2>2
      <4>4. Said(shown, i, "quiet")'
        BY <4>1, <1>9 DEF Said
      <4> QED
        BY <4>1, <4>2, <4>3, <4>4
    <3> QED
      BY <3>1, <3>2, <1>1, <1>2, <2>2
  <2>3. /\ Len(prefix') = step + 1 /\ prefix'[step + 1] = executed'[step + 1]
        /\ \A i \in 1..step : prefix'[i] = prefix[i]
    BY <1>1, <1>4, <2>1
  <2>4. \A i \in 1..(step + 1) : prefix'[i] = shown'[i][1]
    BY <1>1, <1>2, <1>4, <2>3
  <2>5. Witnessed(shown, trigger, step, prefix)'
    BY <1>1, <1>2, <2>1, <2>2, <2>3, <2>4 DEF Witnessed
  <2>6. IF pc' = "arm_ended" THEN Over(shown, step)' ELSE Running(shown, step)'
    <3>1. ActionsOf(shown, step)' = executed'
      BY <1>1, <1>2
    <3>2. pc' = "arm_ended" => outcomes'[executed'] # "running"
      BY <1>1
    <3>3. pc' # "arm_ended" => outcomes'[executed'] = "running"
      BY <1>1
    <3> QED
      BY <3>1, <3>2, <3>3, <1>1 DEF Over, Running
  <2> QED
    BY <1>1, <1>2, <2>5, <2>6 DEF WitnessHolds
<1> QED
  BY <1>8, <1>9 DEF Watch

LEMMA AdvancedWitness ==
  ASSUME ProbeInv, Observe, AdvanceProbe
  PROVE  WitnessHolds'
<1>1. /\ pc \in InArm /\ step \in Nat /\ step' = step + 1
      /\ \A i \in 1..step : executed'[i] = executed[i]
  BY ObserveFacts, LoopFacts
<1>2. trigger \in 1..step /\ trigger' = trigger /\ UNCHANGED <<shown, verdicts, prefix>>
  BY AdvanceFacts
<1>3. /\ Witnessed(shown, trigger, step, prefix)
      /\ \A i \in 1..Len(shown) : executed[i] = shown[i][1]
  BY <1>1 DEF ProbeInv, WitnessHolds
<1>4. PICK seen, fired, steps, kept :
        seen = shown /\ fired = trigger /\ steps = step /\ kept = prefix
  OBVIOUS
<1>5. Witnessed(seen, fired, steps, kept)'
  BY <1>3, <1>4, ObserveRemembers, WitnessedStays
<1>6. Witnessed(seen, fired, steps + 1, kept)'
  BY <1>1, <1>2, <1>4, <1>5 DEF Witnessed
<1>7. Witnessed(shown, trigger, step, prefix)'
  BY <1>1, <1>2, <1>4, <1>6 DEF Witnessed, Running, Said, Firsts, ActionsOf
<1>8. Len(shown) = trigger
  BY <1>1, <1>2, <1>3 DEF Witnessed
<1> QED
  BY <1>1, <1>2, <1>3, <1>7, <1>8 DEF WitnessHolds

\* Two arms are shown contexts of the same actions.
LEMMA ObserveAlike ==
  ASSUME ProbeInv, Observe
  PROVE  ArmsAlike'
<1>1. /\ pc \in InArm /\ step \in Nat /\ UNCHANGED summaries
  BY ObserveFacts, LoopFacts
<1>2. \A arm \in DOMAIN summaries : Alike(summaries[arm].shown, shown)
  BY <1>1 DEF ProbeInv, ArmsAlike
<1>3. CASE Watch
  <2>1. /\ Len(shown') = step + 1 /\ Len(shown) = step
        /\ \A i \in 1..step : shown'[i] = shown[i]
    BY <1>3, WatchFacts
  <2>2. ASSUME NEW arm \in DOMAIN summaries, NEW i \in 1..Len(summaries[arm].shown),
               i \in 1..(step + 1)
        PROVE  summaries[arm].shown[i][1] = shown'[i][1]
    <3>1. summaries[arm].shown[i][1] =
            IF i = 1 THEN <<1, 0>> ELSE Following(summaries[arm].shown[i - 1][1])
      BY DEF ProbeInv, SummariesHold, SummaryHolds, Witnessed
    <3>2. shown'[i][1] = IF i = 1 THEN <<1, 0>> ELSE Following(shown'[i - 1][1])
      BY <1>3, <2>2, NextContext
    <3>3. ASSUME i # 1
          PROVE  summaries[arm].shown[i - 1][1] = shown'[i - 1][1]
      <4>1. summaries[arm].shown \in Seq(Contexts)
        BY TypeParts DEF ProbeInv, ArmTyped, Summaries
      <4>2. i - 1 \in 1..Len(summaries[arm].shown) /\ i - 1 \in 1..step
        BY <1>1, <2>2, <3>3, <4>1
      <4> QED
        BY <1>2, <2>1, <4>2 DEF Alike
    <3> QED
      BY <3>1, <3>2, <3>3
  <2> QED
    BY <1>1, <2>1, <2>2 DEF ProbeInv, ArmsAlike, Alike
<1>4. CASE AdvanceProbe
  <2>1. UNCHANGED shown
    BY <1>4, AdvanceFacts
  <2> QED
    BY <1>1, <1>2, <2>1 DEF ProbeInv, ArmsAlike, Alike
<1> QED
  BY <1>3, <1>4, ObserveMoves

LEMMA ObserveTyped ==
  ASSUME ProbeInv, Observe
  PROVE  ArmTyped'
<1> USE ConstantFacts
<1>1. ArmTyped
  BY TypeParts DEF ProbeInv
<1>2. /\ pc' \in {"choose", "arm_ended"} /\ executed' \in Seq(ExecutedActions)
      /\ step' = step + 1 /\ step' \in 0..MaxSteps /\ step \in Nat
      /\ reason' \in {"horizon", "success", "environment_done"}
      /\ \A transcript \in DOMAIN outcomes' : outcomes'[transcript] \in Outcomes
      /\ UNCHANGED <<order, summaries, finishedArms, serverDraws, operations>>
      /\ executed'[step + 1] \in ExecutedActions
  BY ObserveFacts, LoopFacts
<1>3. postWindow' \in -1..MaxSteps
  <2>1. postWindow' = postWindow \/ postWindow' = step'
    BY <1>2 DEF Observe, PostWindow
  <2> QED
    BY SMTT(30), <2>1, <1>1, <1>2 DEF ArmTyped
<1>4. CASE Watch
  <2>1. /\ shown' \in Seq(Contexts) /\ UNCHANGED finished
        /\ \A transcript \in DOMAIN verdicts' : verdicts'[transcript] \in Verdicts
    BY <1>4, WatchFacts
  <2>2. Trigger \/ Untriggered
    BY <1>4 DEF Watch
  <2>3. /\ offset' = offset \/ offset' = 0
        /\ trigger' = trigger \/ trigger' = step'
        /\ started' = started \/ started' = step'
    BY <1>2, <2>2 DEF Trigger, Untriggered
  <2>4. prefix' \in Seq(ExecutedActions)
    <3>1. prefix \in Seq(ExecutedActions)
      BY <1>1 DEF ArmTyped
    <3>2. prefix' = prefix \/ prefix' = Append(prefix, executed'[step + 1])
      BY <2>2 DEF Trigger, Untriggered
    <3> QED
      BY SMTT(30), <1>2, <3>1, <3>2
  <2>5. offset' \in -1..(ProbeSteps - 1) /\ {trigger', started', finished', postWindow'} \subseteq -1..MaxSteps
    <3>1. /\ offset \in -1..(ProbeSteps - 1) /\ trigger \in -1..MaxSteps
          /\ started \in -1..MaxSteps /\ finished \in -1..MaxSteps /\ step' \in -1..MaxSteps
      BY <1>1, <1>2 DEF ArmTyped
    <3>2. 0 \in -1..(ProbeSteps - 1)
      OBVIOUS
    <3>3. /\ offset' \in -1..(ProbeSteps - 1) /\ trigger' \in -1..MaxSteps
          /\ started' \in -1..MaxSteps /\ finished' \in -1..MaxSteps
      BY <2>1, <2>3, <3>1, <3>2, Zenon
    <3> QED
      BY <1>3, <3>3, Zenon
  <2> QED
    BY <1>1, <1>2, <2>1, <2>4, <2>5 DEF ArmTyped
<1>5. CASE AdvanceProbe
  <2>1. /\ trigger' = trigger /\ started' = started /\ UNCHANGED <<shown, verdicts, prefix>>
        /\ offset' = -1 \/ offset' = offset \/ (offset \in 0..(ProbeSteps - 2) /\ offset' = offset + 1)
        /\ finished' = finished \/ finished' = step'
    BY <1>2, <1>5, AdvanceFacts
  <2>2. offset' \in -1..(ProbeSteps - 1) /\ {trigger', started', finished', postWindow'} \subseteq -1..MaxSteps
    <3>1. /\ offset \in -1..(ProbeSteps - 1) /\ trigger \in -1..MaxSteps
          /\ started \in -1..MaxSteps /\ finished \in -1..MaxSteps /\ step' \in -1..MaxSteps
      BY <1>1, <1>2 DEF ArmTyped
    <3>2. /\ -1 \in -1..(ProbeSteps - 1)
          /\ offset \in 0..(ProbeSteps - 2) => offset + 1 \in -1..(ProbeSteps - 1)
      OBVIOUS
    <3>3. /\ offset' \in -1..(ProbeSteps - 1) /\ trigger' \in -1..MaxSteps
          /\ started' \in -1..MaxSteps /\ finished' \in -1..MaxSteps
      BY <2>1, <3>1, <3>2, Zenon
    <3> QED
      BY <1>3, <3>3, Zenon
  <2> QED
    BY <1>1, <1>2, <2>1, <2>2 DEF ArmTyped
<1> QED
  BY <1>4, <1>5, ObserveMoves

LEMMA ObserveInv == ProbeInv /\ Observe => ProbeInv'
<1> SUFFICES ASSUME ProbeInv, Observe PROVE ProbeInv'
  OBVIOUS
<1>1. PolicyInv' /\ serverDraws' = inferenceCount' /\ CursorHolds'
  BY ObserveCursor
<1>2. /\ pc \in InArm /\ pc' \in {"choose", "arm_ended"}
      /\ UNCHANGED <<order, summaries, finishedArms>>
  BY ObserveFacts
<1>3. PlacesHold'
  BY <1>2 DEF ProbeInv, PlacesHold, InArm
<1>4. LoopHolds' /\ ProbeKeepsItsScript'
  BY ObserveLoop, ObserveScript
<1>5. WitnessHolds'
  BY WatchedWitness, AdvancedWitness, ObserveMoves
<1>6. SummariesHold' /\ ArmsAlike'
  BY <1>2, ObserveRemembers, SummariesStay, ObserveAlike DEF ProbeInv
<1>7. ProbeTypeOK'
  BY <1>1, ObserveTyped, TypedAgain
<1> QED
  BY <1>1, <1>3, <1>4, <1>5, <1>6, <1>7 DEF ProbeInv

-----------------------------------------------------------------------------
(* The end of an arm.                                                      *)

\* The arm that ends has no summary yet; its summary says what its records say.
LEMMA EndedArm ==
  ASSUME ProbeInv, pc \in {"choose", "arm_ended"}, pc = "choose" => AtHorizon
  PROVE  LET summary == [steps |-> step, reason |-> reason, trigger |-> trigger,
                         started |-> started, finished |-> finished, postWindow |-> postWindow,
                         probeSteps |-> Len(operations), prefix |-> prefix, shown |-> shown]
         IN SummaryHolds(Arm, summary) /\ summary \in Summaries
<1> USE ConstantFacts
<1> DEFINE summary == [steps |-> step, reason |-> reason, trigger |-> trigger,
                       started |-> started, finished |-> finished, postWindow |-> postWindow,
                       probeSteps |-> Len(operations), prefix |-> prefix, shown |-> shown]
<1>1. /\ pc \in InArm /\ pc # "execute" /\ step \in Nat /\ Arm \in Arms
      /\ offset \in -1..(ProbeSteps - 1) /\ Len(operations) \in 0..ProbeSteps
      /\ trigger = -1 \/ trigger \in 1..step
  BY LoopFacts DEF InArm
<1>2. ArmTyped
  BY TypeParts DEF ProbeInv
<1>3. summary \in Summaries
  BY <1>1, <1>2 DEF ArmTyped, Summaries
<1>4. /\ Witnessed(shown, trigger, step, prefix)
      /\ trigger = -1 /\ step # 0 /\ pc = "arm_ended" => Over(shown, step)
  BY <1>1 DEF ProbeInv, WitnessHolds
<1>5. /\ pc = "choose" => step >= BaseHorizon
      /\ pc = "arm_ended" => step # 0
      /\ pc = "arm_ended" <=> reason # "horizon"
      /\ postWindow = PostWindowOf(trigger, step)
  BY <1>1 DEF ProbeInv, LoopHolds, AtHorizon
<1>6. ASSUME Arm = "passive_plus_probe"
      PROVE  /\ Len(operations) = ProbeSteps <=> postWindow # -1
             /\ postWindow # -1 => finished = postWindow
  <2>1. CASE trigger = -1
    BY <1>1, <1>5, <2>1 DEF ProbeInv, LoopHolds, PostWindowOf
  <2>2. CASE trigger # -1 /\ offset = -1
    <3>1. finished = trigger + ProbeSteps /\ finished <= step /\ Len(operations) = ProbeSteps
      BY <1>1, <1>6, <2>2 DEF ProbeInv, LoopHolds
    <3> QED
      BY <1>1, <1>5, <2>2, <3>1 DEF PostWindowOf
  <2>3. CASE offset # -1
    <3>1. trigger \in 1..step /\ step = trigger + offset /\ Len(operations) = offset
      BY <1>1, <2>3, LoopFacts
    <3>2. trigger \in Nat /\ offset < ProbeSteps /\ ~(step >= trigger + ProbeSteps)
      BY <1>1, <3>1
    <3>3. postWindow = -1
      BY <1>5, <3>2 DEF PostWindowOf
    <3> QED
      BY <3>1, <3>2, <3>3
  <2> QED
    BY <2>1, <2>2, <2>3
<1>7. SummaryHolds(Arm, summary)
  <2>1. trigger = -1 /\ step < BaseHorizon => step # 0 /\ Over(shown, step)
    BY <1>1, <1>4, <1>5
  <2>2. reason = "horizon" => step >= BaseHorizon
    BY <1>1, <1>5
  <2> QED
    BY <1>4, <1>5, <1>6, <2>1, <2>2 DEF SummaryHolds
<1> QED
  BY <1>3, <1>7

LEMMA EndArmInv == ProbeInv /\ EndArm => ProbeInv'
<1> SUFFICES ASSUME ProbeInv, EndArm PROVE ProbeInv'
  OBVIOUS
<1> USE ConstantFacts
<1> DEFINE summary == [steps |-> step, reason |-> reason, trigger |-> trigger,
                       started |-> started, finished |-> finished, postWindow |-> postWindow,
                       probeSteps |-> Len(operations), prefix |-> prefix, shown |-> shown]
<1>1. /\ pc \in {"choose", "arm_ended"} /\ (pc = "choose" => AtHorizon) /\ pc' = "arm"
      /\ summaries' = [arm \in DOMAIN summaries \cup {Arm} |->
                         IF arm = Arm THEN summary ELSE summaries[arm]]
      /\ finishedArms' = finishedArms + 1
      /\ UNCHANGED <<policyVars, serverDraws, order, outcomes, verdicts, armVars>>
  BY DEF EndArm
<1>2. SummaryHolds(Arm, summary) /\ summary \in Summaries
  BY <1>1, EndedArm
<1>3. PICK new : new = summary
  OBVIOUS
<1>4. PICK arm0 : arm0 = Arm
  OBVIOUS
<1> HIDE DEF summary
<1>5. /\ finishedArms \in 0..1 /\ order \in [1..2 -> Arms] /\ order[1] # order[2]
      /\ DOMAIN summaries = {order[i] : i \in 1..finishedArms}
      /\ arm0 = order[finishedArms + 1] /\ arm0 \in Arms
  BY <1>1, <1>4, LoopFacts, TypeParts DEF ProbeInv, PlacesHold, InArm, ArmTyped, Arm
<1>6. arm0 \notin DOMAIN summaries
  BY <1>5
<1>7. /\ DOMAIN summaries' = DOMAIN summaries \cup {arm0}
      /\ summaries'[arm0] = new
      /\ \A arm \in DOMAIN summaries : arm # arm0 /\ summaries'[arm] = summaries[arm]
  BY <1>1, <1>3, <1>4, <1>6
<1>8. PolicyInv' /\ UNCHANGED inferenceCount
  BY <1>1, SamePolicy DEF ProbeInv
<1>9. PlacesHold'
  <2>1. DOMAIN summaries' = {order[i] : i \in 1..(finishedArms + 1)}
    <3>1. CASE finishedArms = 0
      BY <3>1, <1>5, <1>7
    <3>2. CASE finishedArms = 1
      BY <3>2, <1>5, <1>7
    <3> QED
      BY <3>1, <3>2, <1>5
  <2> QED
    BY <1>1, <1>5, <2>1 DEF PlacesHold, InArm
<1>10. LoopHolds' /\ CursorHolds' /\ WitnessHolds'
  BY <1>1 DEF LoopHolds, CursorHolds, WitnessHolds, InArm
<1>11. ProbeKeepsItsScript'
  BY <1>1 DEF ProbeInv, ProbeKeepsItsScript, armVars
<1>12. SummariesHold'
  <2>1. Remembered
    BY <1>1 DEF Remembered
  <2>2. ASSUME NEW arm \in DOMAIN summaries'
        PROVE  SummaryHolds(arm, summaries[arm])'
    <3>1. PICK one : one = summaries'[arm]
      OBVIOUS
    <3>2. SummaryHolds(arm, one)
      BY <1>2, <1>3, <1>4, <1>7, <3>1 DEF ProbeInv, SummariesHold
    <3>3. SummaryHolds(arm, one)'
      BY <2>1, <3>2, SummaryStays
    <3> QED
      BY <3>1, <3>3, SMTT(30) DEF SummaryHolds, Witnessed, Running, Said, Over, PostWindowOf, ActionsOf, Firsts
  <2> QED
    BY <2>2 DEF SummariesHold
<1>13. ArmsAlike'
  <2>1. \A arm \in DOMAIN summaries : Alike(summaries[arm].shown, new.shown)
    BY <1>1, <1>3 DEF ProbeInv, ArmsAlike, InArm, summary
  <2>2. \A s, t : Alike(s, t) => Alike(t, s)
    BY DEF Alike
  <2>3. \A s : Alike(s, s)
    BY DEF Alike
  <2>4. \A arm, other \in DOMAIN summaries' : Alike(summaries'[arm].shown, summaries'[other].shown)
    BY <1>7, <2>1, <2>2, <2>3 DEF ProbeInv, ArmsAlike
  <2> QED
    BY <1>1, <2>4 DEF ArmsAlike, InArm, Alike
<1>14. ProbeTypeOK'
  <2>1. ArmTyped
    BY TypeParts DEF ProbeInv
  <2>2. \A arm \in DOMAIN summaries' : arm \in Arms /\ summaries'[arm] \in Summaries
    BY <1>2, <1>3, <1>5, <1>7, <2>1 DEF ArmTyped
  <2>3. serverDraws' \in Draws => ArmTyped'
    <3>1. finishedArms' \in 0..2
      BY <1>1, <1>5
    <3> QED
      BY <1>1, <2>1, <2>2, <3>1 DEF ArmTyped, armVars
  <2> QED
    BY <1>1, <1>8, <2>3, TypedAgain DEF ProbeInv
<1> QED
  BY <1>1, <1>8, <1>9, <1>10, <1>11, <1>12, <1>13, <1>14 DEF ProbeInv

-----------------------------------------------------------------------------
(* The specification keeps the invariant.                                  *)

LEMMA ProbeInitInv == Init => ProbeInv
<1> SUFFICES ASSUME Init PROVE ProbeInv
  OBVIOUS
<1> USE ConstantFacts DEF Init
<1>1. PolicyInv /\ serverDraws = inferenceCount
  BY PolicyInitInv DEF PolicyInit
<1>2. /\ <<>> \in Seq({Script(k) : k \in 0..2}) /\ <<>> \in Seq(ExecutedActions)
      /\ <<>> \in Seq(Contexts) /\ DOMAIN <<>> = {}
  OBVIOUS
<1>3. ArmTyped
  BY <1>2 DEF ArmTyped, Draws
<1>4. ProbeTypeOK
  BY <1>1, <1>3, TypeParts DEF PolicyInv
<1>5. PlacesHold
  BY <1>2 DEF PlacesHold, InArm
<1>6. LoopHolds /\ CursorHolds /\ WitnessHolds
  BY DEF LoopHolds, CursorHolds, WitnessHolds, InArm
<1>7. ProbeKeepsItsScript /\ SummariesHold /\ ArmsAlike
  BY <1>2 DEF ProbeKeepsItsScript, SummariesHold, ArmsAlike, InArm
<1> QED
  BY <1>1, <1>4, <1>5, <1>6, <1>7 DEF ProbeInv

LEMMA ProbeStepInv == ProbeInv /\ [Next]_vars => ProbeInv'
<1> SUFFICES ASSUME ProbeInv, [Next]_vars PROVE ProbeInv'
  OBVIOUS
<1>1. CASE UNCHANGED vars
  <2>1. /\ PolicyInv' /\ UNCHANGED inferenceCount
        /\ UNCHANGED <<serverDraws, pc, pairVars, armVars>>
    BY <1>1, SamePolicy DEF ProbeInv, vars
  <2>2. PlacesHold' /\ LoopHolds'
    BY <2>1 DEF ProbeInv, PlacesHold, LoopHolds, PairErrors, InArm, Arm, PostWindowOf,
                pairVars, armVars
  <2>3. CursorHolds'
    BY <1>1 DEF ProbeInv, CursorHolds, PendingHolds, JustProbed, InArm, vars, policyVars, armVars
  <2>4. WitnessHolds' /\ ArmsAlike'
    BY <2>1 DEF ProbeInv, WitnessHolds, ArmsAlike, Alike, Witnessed, Running, Over, Said,
                ActionsOf, Firsts, InArm, pairVars, armVars
  <2>5. SummariesHold'
    BY <2>1, SummariesStay DEF ProbeInv, Remembered, pairVars
  <2>6. ProbeKeepsItsScript'
    BY <2>1 DEF ProbeInv, ProbeKeepsItsScript, armVars
  <2>7. ProbeTypeOK'
    <3>1. serverDraws' \in Draws => ArmTyped'
      BY <2>1, TypeParts DEF ProbeInv, ArmTyped, pairVars, armVars
    <3> QED
      BY <2>1, <3>1, TypedAgain DEF ProbeInv
  <2> QED
    BY <2>1, <2>2, <2>3, <2>4, <2>5, <2>6, <2>7 DEF ProbeInv
<1>2. CASE Next
  <2>1. Ended => UNCHANGED vars
    BY DEF Ended
  <2> QED
    BY <1>1, <1>2, <2>1, BeginArmInv, ActNormallyInv, RepeatPreviousInv, ForceRequeryInv,
       ActInProbeInv, ObserveInv, EndArmInv, ArmRaisesInv, ValidatePairInv DEF Next
<1> QED
  BY <1>1, <1>2

LEMMA ProbeKeepsInv == Spec => []ProbeInv
BY ProbeInitInv, ProbeStepInv, PTL DEF Spec

-----------------------------------------------------------------------------
(* What two arms have in common.                                           *)

\* An arm that was shown contexts of the same latencies as another, and not more of
\* them, fired in the same step as the other or not at all like the other.
LEMMA SameLatencies ==
  ASSUME NEW a \in Summaries, NEW b \in Summaries,
         Witnessed(a.shown, a.trigger, a.steps, a.prefix),
         Witnessed(b.shown, b.trigger, b.steps, b.prefix),
         a.trigger = -1 /\ a.steps < BaseHorizon => a.steps # 0 /\ Over(a.shown, a.steps),
         Alike(a.shown, b.shown), Len(a.shown) <= Len(b.shown),
         \A s \in DOMAIN a.shown : s \in DOMAIN b.shown => a.shown[s][2] = b.shown[s][2]
  PROVE  a.trigger = b.trigger /\ a.prefix = b.prefix
<1> USE ConstantFacts
<1>1. /\ a.shown \in Seq(Contexts) /\ b.shown \in Seq(Contexts)
      /\ a.prefix \in Seq(ExecutedActions) /\ b.prefix \in Seq(ExecutedActions)
      /\ a.trigger \in Int /\ b.trigger \in Int /\ a.steps \in Nat /\ b.steps \in Nat
  BY DEF Summaries
<1>2. PICK m \in Nat : m = Len(a.shown)
  BY <1>1
<1>3. PICK n \in Nat : n = Len(b.shown)
  BY <1>1
<1>4. m <= n /\ DOMAIN a.shown = 1..m /\ DOMAIN b.shown = 1..n
  BY <1>1, <1>2, <1>3
<1>5. \A i \in 1..m : a.shown[i] = b.shown[i]
  <2>1. ASSUME NEW i \in 1..m
        PROVE  a.shown[i] = b.shown[i]
    <3>1. i \in 1..n
      BY <1>4
    <3>2. a.shown[i] \in Contexts /\ b.shown[i] \in Contexts
      BY <1>1, <1>4, <3>1
    <3>3. a.shown[i][1] = b.shown[i][1]
      BY <1>2, <1>3, <3>1 DEF Alike
    <3>4. a.shown[i][2] = b.shown[i][2]
      BY <1>4, <3>1
    <3> QED
      BY <3>2, <3>3, <3>4 DEF Contexts
  <2> QED
    BY <2>1
<1>6. ASSUME NEW i \in 1..m
      PROVE  Firsts(a.shown, i) = Firsts(b.shown, i) /\ ActionsOf(a.shown, i) = ActionsOf(b.shown, i)
  <2>1. \A j \in 1..i : a.shown[j] = b.shown[j]
    BY <1>5
  <2> QED
    BY <2>1 DEF Firsts, ActionsOf
<1>7. /\ \A i \in 1..m : Said(a.shown, i, IF i = a.trigger THEN "joint_trigger" ELSE "quiet")
      /\ \A i \in 1..n : /\ Said(b.shown, i, IF i = b.trigger THEN "joint_trigger" ELSE "quiet")
                         /\ i < n => Running(b.shown, i)
  BY <1>2, <1>3 DEF Witnessed
<1>8. ASSUME NEW i \in 1..m
      PROVE  i = a.trigger <=> i = b.trigger
  BY <1>4, <1>6, <1>7 DEF Said
<1>9. /\ a.trigger = -1 => m = a.steps /\ Len(a.prefix) = m
      /\ a.trigger # -1 => m = a.trigger /\ Len(a.prefix) = m - 1 /\ m >= 1
      /\ b.trigger = -1 => Len(b.prefix) = n
      /\ b.trigger # -1 => n = b.trigger /\ Len(b.prefix) = n - 1 /\ n >= 1
      /\ n <= BaseHorizon
  <2>1. /\ a.trigger = -1 => m = a.steps /\ Len(a.prefix) = a.steps
        /\ a.trigger # -1 => m = a.trigger /\ Len(a.prefix) = a.trigger - 1 /\ a.trigger \in 1..a.steps
    BY <1>2 DEF Witnessed
  <2>2. /\ b.trigger = -1 => n = b.steps /\ Len(b.prefix) = b.steps
        /\ b.trigger # -1 => n = b.trigger /\ Len(b.prefix) = b.trigger - 1 /\ b.trigger \in 1..b.steps
        /\ n <= BaseHorizon
    BY <1>3 DEF Witnessed
  <2>3. /\ a.trigger \in 1..a.steps => a.trigger >= 1
        /\ b.trigger \in 1..b.steps => b.trigger >= 1
    BY <1>1
  <2> QED
    BY <2>1, <2>2, <2>3
<1>10. m = n
  <2>1. CASE a.trigger # -1
    BY <2>1, <1>4, <1>8, <1>9
  <2>2. CASE a.trigger = -1
    <3>1. ASSUME m < n PROVE FALSE
      <4>1. m # 0 /\ Over(a.shown, m)
        BY <2>2, <3>1, <1>9
      <4>2. m \in 1..m /\ m \in 1..n
        BY <4>1, <1>4
      <4>3. Running(b.shown, m)
        BY <3>1, <4>2, <1>7
      <4> QED
        BY <4>1, <4>2, <4>3, <1>6 DEF Over, Running
    <3> QED
      BY <3>1, <1>4
  <2> QED
    BY <2>1, <2>2
<1>11. a.trigger = b.trigger
  <2>1. CASE a.trigger # -1
    BY <2>1, <1>8, <1>9
  <2>2. CASE b.trigger # -1
    BY <2>2, <1>8, <1>9, <1>10
  <2> QED
    BY <2>1, <2>2
<1>12. a.prefix = b.prefix
  <2>1. PICK k \in Nat : k = Len(a.prefix)
    BY <1>1
  <2>2. k = Len(b.prefix) /\ k <= m
    BY <2>1, <1>9, <1>10, <1>11
  <2>3. \A i \in 1..k : a.prefix[i] = a.shown[i][1] /\ b.prefix[i] = b.shown[i][1]
    BY <2>1, <2>2 DEF Witnessed
  <2>4. \A i \in 1..k : a.prefix[i] = b.prefix[i]
    <3> SUFFICES ASSUME NEW i \in 1..k PROVE a.prefix[i] = b.prefix[i]
      OBVIOUS
    <3>1. i \in 1..m
      BY <2>2
    <3>2. a.shown[i] = b.shown[i]
      BY <3>1, <1>5
    <3>3. a.prefix[i] = a.shown[i][1] /\ b.prefix[i] = b.shown[i][1]
      BY <2>3
    <3> QED
      BY <3>2, <3>3
  <2> QED
    <3>1. a.prefix = [i \in 1..k |-> a.prefix[i]]
      BY <2>1, <1>1
    <3>2. b.prefix = [i \in 1..k |-> b.prefix[i]]
      BY <2>2, <1>1
    <3> QED
      BY <2>4, <3>1, <3>2
<1> QED
  BY <1>11, <1>12

\* In a pair whose arms have run, equal latencies mean equal prefixes.
LEMMA PairWithoutErrors ==
  ASSUME ProbeInv, pc \in {"accepted", "rejected"},
         \A s \in DOMAIN summaries["passive_only"].shown :
           s \in DOMAIN summaries["passive_plus_probe"].shown =>
             summaries["passive_only"].shown[s][2] = summaries["passive_plus_probe"].shown[s][2]
  PROVE  ~PairErrors
<1> DEFINE a == summaries["passive_only"]
           b == summaries["passive_plus_probe"]
<1>1. {"passive_only", "passive_plus_probe"} \subseteq DOMAIN summaries
  <2>1. /\ finishedArms = 2 /\ order \in [1..2 -> Arms] /\ order[1] # order[2]
        /\ DOMAIN summaries = {order[i] : i \in 1..finishedArms}
    BY TypeParts DEF ProbeInv, PlacesHold, ArmTyped
  <2> QED
    BY <2>1 DEF Arms
<1>2. a \in Summaries /\ b \in Summaries
  BY <1>1, TypeParts DEF ProbeInv, ArmTyped
<1>3. /\ SummaryHolds("passive_only", a) /\ SummaryHolds("passive_plus_probe", b)
      /\ Alike(a.shown, b.shown) /\ Alike(b.shown, a.shown)
  BY <1>1 DEF ProbeInv, SummariesHold, ArmsAlike
<1> HIDE DEF a, b
<1>4. \A s \in DOMAIN a.shown : s \in DOMAIN b.shown => a.shown[s][2] = b.shown[s][2]
  BY DEF a, b
<1>5. a.trigger = b.trigger /\ a.prefix = b.prefix
  <2>1. Len(a.shown) \in Nat /\ Len(b.shown) \in Nat
    BY SMTT(30), <1>2 DEF Summaries
  <2>2. CASE Len(a.shown) <= Len(b.shown)
    BY <1>2, <1>3, <1>4, <2>2, SameLatencies DEF SummaryHolds
  <2>3. CASE Len(b.shown) <= Len(a.shown)
    BY <1>2, <1>3, <1>4, <2>3, SameLatencies DEF SummaryHolds
  <2> QED
    BY <2>1, <2>2, <2>3
<1> QED
  BY <1>5 DEF PairErrors, a, b

\* In an accepted pair the windows after the probe are those of one observation.
LEMMA WindowsOfAcceptedPair == ProbeInv => PostWindowsAreComparable
<1> SUFFICES ASSUME ProbeInv, pc = "accepted" PROVE PostWindowsAreComparable
  BY DEF PostWindowsAreComparable
<1> USE ConstantFacts
<1> DEFINE a == summaries["passive_only"]
           b == summaries["passive_plus_probe"]
<1>1. {"passive_only", "passive_plus_probe"} \subseteq DOMAIN summaries
  <2>1. /\ finishedArms = 2 /\ order \in [1..2 -> Arms] /\ order[1] # order[2]
        /\ DOMAIN summaries = {order[i] : i \in 1..finishedArms}
    BY TypeParts DEF ProbeInv, PlacesHold, ArmTyped
  <2> QED
    BY <2>1 DEF Arms
<1>2. /\ a \in Summaries /\ b \in Summaries
      /\ SummaryHolds("passive_only", a) /\ SummaryHolds("passive_plus_probe", b)
  BY <1>1, TypeParts DEF ProbeInv, ArmTyped, SummariesHold
<1>3. a.trigger = b.trigger
  BY DEF ProbeInv, PlacesHold, PairErrors
<1> HIDE DEF a, b
<1>4. /\ a.trigger = -1 \/ (a.trigger \in Nat /\ a.trigger >= 1)
      /\ b.trigger = -1 \/ (b.trigger \in Nat /\ b.trigger >= 1)
      /\ a.steps \in Nat /\ b.steps \in Nat
  <2>1. a.steps \in Nat /\ b.steps \in Nat
    BY <1>2 DEF Summaries
  <2>2. /\ a.trigger # -1 => a.trigger \in 1..a.steps
        /\ b.trigger # -1 => b.trigger \in 1..b.steps
    BY <1>2 DEF SummaryHolds, Witnessed
  <2>3. /\ a.trigger \in 1..a.steps => a.trigger \in Nat /\ a.trigger >= 1
        /\ b.trigger \in 1..b.steps => b.trigger \in Nat /\ b.trigger >= 1
    BY <2>1
  <2> QED
    BY <2>1, <2>2, <2>3, Zenon
<1>5. /\ a.postWindow = PostWindowOf(a.trigger, a.steps)
      /\ b.postWindow = PostWindowOf(b.trigger, b.steps)
      /\ a.reason = "horizon" => a.steps >= BaseHorizon
      /\ b.probeSteps = ProbeSteps <=> b.postWindow # -1
      /\ b.postWindow # -1 => b.finished = b.postWindow
  BY <1>2 DEF SummaryHolds
<1>6. a.postWindow # -1 /\ b.postWindow # -1 => a.postWindow = b.postWindow
  BY <1>3, <1>5 DEF PostWindowOf
<1>7. b.trigger # -1 /\ a.postWindow = -1 =>
        a.reason # "horizon" \/ a.trigger + ProbeSteps > BaseHorizon
  BY <1>3, <1>4, <1>5 DEF PostWindowOf
<1> QED
  BY <1>5, <1>6, <1>7 DEF PostWindowsAreComparable, Complete, a, b

LEMMA BudgetOfArm == ProbeInv => ProbeStaysInBudget
<1> SUFFICES ASSUME ProbeInv, pc \in InArm PROVE ProbeStaysInBudget
  BY DEF ProbeStaysInBudget, InArm
<1> USE ConstantFacts
<1>1. /\ Arm \in Arms /\ step \in Nat /\ Len(operations) \in 0..ProbeSteps
      /\ offset \in -1..(ProbeSteps - 1)
      /\ trigger = -1 \/ trigger \in 1..step
      /\ offset # -1 => step = trigger + offset
  BY LoopFacts
<1>2. /\ Arm = "passive_only" => operations = <<>> /\ step <= BaseHorizon
      /\ trigger = -1 => step <= BaseHorizon
      /\ trigger # -1 => trigger <= BaseHorizon
      /\ Arm = "passive_plus_probe" /\ trigger # -1 /\ offset = -1 =>
           finished = trigger + ProbeSteps /\ (step <= BaseHorizon \/ step = finished)
  BY DEF ProbeInv, LoopHolds
<1> QED
  BY <1>1, <1>2 DEF ProbeStaysInBudget, Arms

-----------------------------------------------------------------------------
(* The properties of the runs.                                             *)

\* The program counter, the counters of an arm, the transcripts of both arms and
\* their summaries keep their types.
THEOREM ProbeTypeCorrect == Spec => []ProbeTypeOK
<1>1. ProbeInv => ProbeTypeOK
  BY DEF ProbeInv
<1> QED
  BY <1>1, ProbeKeepsInv, PTL

\* A probe executes the action of the trigger again and then the beginning of one
\* fresh chunk, and normal operation goes on with another chunk (run_episode).
THEOREM ScriptKept == Spec => []ProbeKeepsItsScript
<1>1. ProbeInv => ProbeKeepsItsScript
  BY DEF ProbeInv
<1> QED
  BY <1>1, ProbeKeepsInv, PTL

\* A probe costs MAX_PROBE_STEPS actions at most, and beyond the base horizon an
\* episode executes actions of its probe only.
THEOREM ProbeCostKept == Spec => []ProbeStaysInBudget
  BY BudgetOfArm, ProbeKeepsInv, PTL

\* The pair-prefix gate rejects a pair only when the latencies measured before the
\* trigger differ: nothing else that the arms share leaks from one into the other.
THEOREM RejectedOnlyByLatency == Spec => []PairRejectedOnlyByLatency
<1>1. ProbeInv => PairRejectedOnlyByLatency
  BY PairWithoutErrors DEF ProbeInv, PlacesHold, PairRejectedOnlyByLatency
<1> QED
  BY <1>1, ProbeKeepsInv, PTL

\* The posteriors that an accepted pair compares are of the same observation, and
\* are there whenever the probe is complete and the passive arm ran that far.
THEOREM PostWindowsCompare == Spec => []PostWindowsAreComparable
  BY WindowsOfAcceptedPair, ProbeKeepsInv, PTL

\* An arm drives the policy through its interface; only its beginning, which
\* constructs the policy anew, is no call of it.
LEMMA ArmCallsThePolicy ==
  ASSUME [Next]_vars, pc # "arm"
  PROVE  [PolicyNext]_policyVars
<1> USE DEF PolicyNext
<1>1. CASE ActNormally \/ ActInProbe
  BY <1>1 DEF ActNormally, ActInProbe, Act
<1>2. CASE RepeatPrevious \/ ForceRequery
  BY <1>2 DEF RepeatPrevious, ForceRequery
<1>3. CASE Observe
  <2>1. Watch \/ AdvanceProbe
    BY <1>3 DEF Observe
  <2> QED
    BY <2>1 DEF Watch, AdvanceProbe, FinishProbe
<1>4. CASE ArmRaises
  BY <1>4 DEF ArmRaises
<1>5. CASE BeginArm \/ EndArm \/ ValidatePair \/ Ended \/ UNCHANGED vars
  BY <1>5 DEF BeginArm, EndArm, ValidatePair, Ended, vars
<1> QED
  BY <1>1, <1>2, <1>3, <1>4, <1>5 DEF Next

\* Inside an arm the actions keep the promise of the chunk stream, through the
\* repeat, the forced query and the end of a probe (run_episode): what is repeated
\* takes nothing from the queue, and nothing of a discarded chunk is executed.
THEOREM ArmsServeTheStream ==
  Spec => [][pc # "arm" => [Stream!StreamNext]_(Stream!streamVars)]_vars
<1>1. ProbeInv /\ [Next]_vars => [pc # "arm" => [Stream!StreamNext]_(Stream!streamVars)]_vars
  <2> SUFFICES ASSUME ProbeInv, [Next]_vars, pc # "arm"
               PROVE  [Stream!StreamNext]_(Stream!streamVars)
    OBVIOUS
  <2>1. PolicyInv
    BY DEF ProbeInv
  <2>2. [PolicyNext]_policyVars
    BY ArmCallsThePolicy
  <2> QED
    BY <2>1, <2>2, PolicyStepStreams
<1> QED
  BY <1>1, ProbeKeepsInv, PTL DEF Spec
=============================================================================
