------------------------- MODULE GrootPolicyProofs -------------------------
(***************************************************************************)
(* Proofs about GrootPolicy, for every chunk length and every bound on the *)
(* number of queries.  PolicyInv is the inductive invariant: the type, the *)
(* relation between the queue and the requested chunk, and the relation    *)
(* between the emitted action and the chunk metadata.                      *)
(***************************************************************************)
EXTENDS GrootPolicy, TLAPS

\* Which queries the actions in sight belong to: all come from the query
\* counted last but the emitted one, which may be older after a rejection.
QueueIsFresh ==
  /\ requestedChunk # <<>> =>
       \E query \in 1..inferenceCount : requestedChunk = Chunk(query)
  /\ queue # <<>> => requestedChunk = Chunk(inferenceCount)
  /\ queue # <<>> => emittedAction # NoAction

PolicyInv ==
  /\ PolicyTypeOK
  /\ QueueIsRestOfChunk
  /\ EmittedIsDeclared
  /\ QueueIsFresh

-----------------------------------------------------------------------------
\* What _validate_action_chunk returns: ChunkLength actions of one query, in
\* order, of which act() pops the first.
LEMMA ChunkFacts ==
  ASSUME NEW query \in 1..MaxQueries
  PROVE  /\ Chunk(query) \in Seq(Actions)
         /\ Len(Chunk(query)) = ChunkLength
         /\ Chunk(query) # <<>>
         /\ \A i \in 1..ChunkLength : Chunk(query)[i] = <<query, i - 1>>
         /\ Head(Chunk(query)) = <<query, 0>>
         /\ Tail(Chunk(query)) \in Seq(Actions)
         /\ Len(Tail(Chunk(query))) = ChunkLength - 1
         /\ \A i \in 1..(ChunkLength - 1) : Tail(Chunk(query))[i] = <<query, i>>
<1> USE ChunkLengthAssumption, MaxQueriesAssumption
<1>1. \A i \in 1..ChunkLength : <<query, i - 1>> \in Actions
  BY DEF Actions
<1>2. /\ Chunk(query) \in Seq(Actions)
      /\ Len(Chunk(query)) = ChunkLength
      /\ \A i \in 1..ChunkLength : Chunk(query)[i] = <<query, i - 1>>
  BY <1>1 DEF Chunk
<1>3. Chunk(query) # <<>>
  BY <1>2
<1> QED
  BY <1>2, <1>3

\* A served action is never confused with "none".
LEMMA ActionsAreNotNone == NoAction \notin Actions
<1>1. Actions \subseteq Nat \X Nat
  BY ChunkLengthAssumption, MaxQueriesAssumption DEF Actions
<1> QED
  BY <1>1, NoActionAssumption

-----------------------------------------------------------------------------
LEMMA PolicyInitInv == PolicyInit => PolicyInv
<1> SUFFICES ASSUME PolicyInit PROVE PolicyInv
  OBVIOUS
<1> USE ChunkLengthAssumption, MaxQueriesAssumption DEF PolicyInit
<1>1. <<>> \in Seq(Actions)
  OBVIOUS
<1>2. PolicyTypeOK
  BY <1>1 DEF PolicyTypeOK
<1>3. QueueIsRestOfChunk /\ EmittedIsDeclared /\ QueueIsFresh
  BY DEF QueueIsRestOfChunk, EmittedIsDeclared, QueueIsFresh
<1> QED
  BY <1>2, <1>3 DEF PolicyInv

LEMMA ActFromQueueInv ==
  ASSUME PolicyInv, ActFromQueue
  PROVE  PolicyInv'
<1> USE ChunkLengthAssumption, MaxQueriesAssumption
<1>1. /\ Len(queue) = ChunkLength - nextPosition
      /\ Len(queue) \in Nat \ {0}
      /\ requestedChunk = Chunk(inferenceCount)
      /\ inferenceCount \in 1..MaxQueries
  <2>1. queue \in Seq(Actions) /\ queue # <<>>
    BY DEF PolicyInv, PolicyTypeOK, ActFromQueue
  <2>2. requestedChunk = Chunk(inferenceCount) /\ Len(requestedChunk) = ChunkLength
    BY <2>1 DEF PolicyInv, QueueIsFresh, QueueIsRestOfChunk
  <2>3. requestedChunk # <<>>
    BY <2>2
  <2>4. inferenceCount \in 1..MaxQueries
    BY <2>3 DEF PolicyInv, PolicyTypeOK, QueueIsFresh
  <2> QED
    BY <2>1, <2>2, <2>4 DEF PolicyInv, QueueIsRestOfChunk
<1>2. /\ nextPosition \in 0..(ChunkLength - 1)
      /\ emittedAction' = requestedChunk[nextPosition + 1]
      /\ emittedAction' = <<inferenceCount, nextPosition>>
      /\ emittedAction' \in Actions
  <2>1. nextPosition \in 0..(ChunkLength - 1)
    BY <1>1 DEF PolicyInv, PolicyTypeOK
  <2>2. emittedAction' = requestedChunk[nextPosition + 1]
    BY <1>1, <2>1 DEF PolicyInv, PolicyTypeOK, QueueIsRestOfChunk, ActFromQueue
  <2>3. Chunk(inferenceCount)[nextPosition + 1] = <<inferenceCount, nextPosition + 1 - 1>>
    BY <1>1, <2>1, ChunkFacts
  <2>4. nextPosition + 1 - 1 = nextPosition
    BY <2>1
  <2> QED
    BY <1>1, <2>1, <2>2, <2>3, <2>4 DEF Actions
<1>3. PolicyTypeOK'
  <2>1. queue' \in Seq(Actions)
    BY <1>1 DEF PolicyInv, PolicyTypeOK, ActFromQueue
  <2> QED
    BY <2>1, <1>2 DEF PolicyInv, PolicyTypeOK, ActFromQueue
<1>4. QueueIsRestOfChunk'
  <2> SUFFICES ASSUME queue' # <<>>
               PROVE  /\ Len(queue') = ChunkLength - nextPosition'
                      /\ \A i \in 1..Len(queue') :
                            queue'[i] = requestedChunk'[nextPosition' + i]
    BY <1>1, ChunkFacts DEF QueueIsRestOfChunk, ActFromQueue
  <2>1. queue \in Seq(Actions) /\ queue' = Tail(queue) /\ queue # <<>>
    BY DEF PolicyInv, PolicyTypeOK, ActFromQueue
  <2>2. Len(queue') = Len(queue) - 1
    BY <2>1
  <2>3. ASSUME NEW i \in 1..Len(queue')
        PROVE  queue'[i] = requestedChunk'[nextPosition' + i]
    <3>1. queue'[i] = queue[i + 1] /\ i + 1 \in 1..Len(queue)
      BY <2>1, <2>2, <2>3
    <3>2. queue[i + 1] = requestedChunk[nextPosition + (i + 1)]
      BY <3>1, <2>1 DEF PolicyInv, QueueIsRestOfChunk
    <3>3. nextPosition' + i = nextPosition + (i + 1)
      BY <1>2 DEF ActFromQueue
    <3> QED
      BY <3>1, <3>2, <3>3 DEF ActFromQueue
  <2> QED
    BY <1>1, <1>2, <2>2, <2>3 DEF ActFromQueue
<1>5. EmittedIsDeclared'
  BY <1>1, <1>2, ChunkFacts DEF EmittedIsDeclared, ActFromQueue
<1>6. QueueIsFresh'
  BY <1>1, <1>2, ActionsAreNotNone DEF PolicyInv, QueueIsFresh, ActFromQueue
<1> QED
  BY <1>3, <1>4, <1>5, <1>6 DEF PolicyInv

LEMMA ActAfterQueryInv ==
  ASSUME PolicyInv, ActAfterQuery
  PROVE  PolicyInv'
<1> USE ChunkLengthAssumption, MaxQueriesAssumption
<1>1. inferenceCount' \in 1..MaxQueries
  BY DEF PolicyInv, PolicyTypeOK, ActAfterQuery
<1>2. /\ requestedChunk' = Chunk(inferenceCount')
      /\ queue' = Tail(Chunk(inferenceCount'))
      /\ emittedAction' = <<inferenceCount', 0>>
      /\ nextPosition' = 1
      /\ emittedPosition' = 0
      /\ emittedChunkId' = policyChunkId'
  BY <1>1, ChunkFacts DEF ActAfterQuery
<1>3. emittedAction' \in Actions
  BY <1>1, <1>2 DEF Actions
<1>4. PolicyTypeOK'
  BY <1>1, <1>2, <1>3, ChunkFacts DEF PolicyInv, PolicyTypeOK, ActAfterQuery
<1>5. QueueIsRestOfChunk'
  BY <1>1, <1>2, ChunkFacts DEF QueueIsRestOfChunk
<1>6. EmittedIsDeclared'
  BY <1>1, <1>2, ChunkFacts DEF EmittedIsDeclared
<1>7. QueueIsFresh'
  <2>1. \E query \in 1..inferenceCount' : requestedChunk' = Chunk(query)
    <3>1. inferenceCount' \in 1..inferenceCount'
      BY <1>1
    <3> QED
      BY <3>1, <1>2
  <2>2. emittedAction' # NoAction
    BY <1>3, ActionsAreNotNone
  <2> QED
    BY <1>2, <2>1, <2>2 DEF QueueIsFresh
<1> QED
  BY <1>4, <1>5, <1>6, <1>7 DEF PolicyInv

LEMMA OtherPolicyCallsInv ==
  ASSUME PolicyInv,
         PolicyReset \/ PolicyActRaises \/ PolicyRepeatLast \/ PolicyForceRequery
  PROVE  PolicyInv'
<1> USE ChunkLengthAssumption, MaxQueriesAssumption
<1>e. <<>> \in Seq(Actions)
  OBVIOUS
<1>1. CASE PolicyReset
  <2>1. PolicyTypeOK'
    BY <1>1, <1>e DEF PolicyReset, PolicyInv, PolicyTypeOK
  <2> QED
    BY <1>1, <2>1 DEF PolicyReset, PolicyInv, QueueIsRestOfChunk,
                      EmittedIsDeclared, QueueIsFresh
<1>2. CASE ActQueryFails
  BY <1>2 DEF ActQueryFails, PolicyInv, PolicyTypeOK, QueueIsRestOfChunk,
              EmittedIsDeclared, QueueIsFresh
<1>3. CASE ActAnswerRejected
  <2>1. inferenceCount' \in 1..MaxQueries /\ inferenceCount' = inferenceCount + 1
    BY <1>3 DEF ActAnswerRejected, PolicyInv, PolicyTypeOK
  <2>2. PolicyTypeOK'
    BY <1>3, <2>1 DEF ActAnswerRejected, PolicyInv, PolicyTypeOK
  <2>3. QueueIsRestOfChunk' /\ EmittedIsDeclared'
    BY <1>3 DEF ActAnswerRejected, PolicyInv, QueueIsRestOfChunk, EmittedIsDeclared
  <2>4. QueueIsFresh'
    <3>1. \A query \in 1..inferenceCount : query \in 1..inferenceCount'
      BY <2>1 DEF PolicyInv, PolicyTypeOK
    <3> QED
      BY <1>3, <3>1 DEF ActAnswerRejected, PolicyInv, QueueIsFresh
  <2> QED
    BY <2>2, <2>3, <2>4 DEF PolicyInv
<1>4. CASE PolicyRepeatLast
  BY <1>4 DEF PolicyRepeatLast, PolicyInv, PolicyTypeOK, QueueIsRestOfChunk,
              EmittedIsDeclared, QueueIsFresh
<1>5. CASE PolicyForceRequery
  <2>1. PolicyTypeOK'
    BY <1>5, <1>e DEF PolicyForceRequery, PolicyInv, PolicyTypeOK
  <2> QED
    BY <1>5, <2>1 DEF PolicyForceRequery, PolicyInv, QueueIsRestOfChunk,
                      EmittedIsDeclared, QueueIsFresh
<1> QED
  BY <1>1, <1>2, <1>3, <1>4, <1>5 DEF PolicyActRaises

\* Every call of the policy's interface, successful or not, preserves the
\* invariant; the episode loops that extend GrootPolicy cite this lemma.
LEMMA PolicyStepInv == PolicyInv /\ [PolicyNext]_policyVars => PolicyInv'
<1> SUFFICES ASSUME PolicyInv, [PolicyNext]_policyVars
             PROVE  PolicyInv'
  OBVIOUS
<1>1. CASE PolicyAct
  BY <1>1, ActFromQueueInv, ActAfterQueryInv DEF PolicyAct
<1>2. CASE PolicyReset \/ PolicyActRaises \/ PolicyRepeatLast \/ PolicyForceRequery
  BY <1>2, OtherPolicyCallsInv
<1>3. CASE UNCHANGED policyVars
  BY <1>3 DEF policyVars, PolicyInv, PolicyTypeOK, QueueIsRestOfChunk,
              EmittedIsDeclared, QueueIsFresh
<1> QED
  BY <1>1, <1>2, <1>3 DEF PolicyNext

\* The state of the policy adapter is well typed under every sequence of
\* calls of its interface.
THEOREM PolicyTypeCorrect == PolicySpec => []PolicyTypeOK
<1>1. PolicyInv => PolicyTypeOK
  BY DEF PolicyInv
<1> QED
  BY PolicyInitInv, PolicyStepInv, <1>1, PTL DEF PolicySpec

\* Whatever resets, re-queries, repeats and failed queries are interleaved,
\* the queue of the policy is the rest of the chunk it shows to the monitor.
THEOREM PolicyCopiesAgree == PolicySpec => []QueueIsRestOfChunk
<1>1. PolicyInv => QueueIsRestOfChunk
  BY DEF PolicyInv
<1> QED
  BY PolicyInitInv, PolicyStepInv, <1>1, PTL DEF PolicySpec

\* Under the same calls, chunk_state() and requested_action_chunk describe the
\* action emitted last.
THEOREM PolicyMetadataAgrees == PolicySpec => []EmittedIsDeclared
<1>1. PolicyInv => EmittedIsDeclared
  BY DEF PolicyInv
<1> QED
  BY PolicyInitInv, PolicyStepInv, <1>1, PTL DEF PolicySpec

-----------------------------------------------------------------------------
\* Every step of the adapter is a step of the abstract stream, or leaves the
\* stream as it is.
LEMMA PolicyStepStreams ==
  PolicyInv /\ [PolicyNext]_policyVars => [Stream!StreamNext]_(Stream!streamVars)
<1> USE ChunkLengthAssumption, MaxQueriesAssumption
<1> SUFFICES ASSUME PolicyInv, [PolicyNext]_policyVars
             PROVE  [Stream!StreamNext]_(Stream!streamVars)
  OBVIOUS
<1> USE DEF Stream!StreamNext, Stream!streamVars
<1>1. CASE ActFromQueue
  <2>1. /\ queue \in Seq(Actions)
        /\ Len(queue) = ChunkLength - nextPosition
        /\ Len(queue) \in Nat \ {0}
        /\ requestedChunk = Chunk(inferenceCount)
        /\ inferenceCount \in 1..MaxQueries
    <3>1. queue # <<>> /\ queue \in Seq(Actions)
      BY <1>1 DEF ActFromQueue, PolicyInv, PolicyTypeOK
    <3>2. requestedChunk = Chunk(inferenceCount) /\ Len(requestedChunk) = ChunkLength
      BY <3>1 DEF PolicyInv, QueueIsFresh, QueueIsRestOfChunk
    <3>3. inferenceCount \in 1..MaxQueries
      <4>1. requestedChunk # <<>>
        BY <3>2
      <4> QED
        BY <4>1 DEF PolicyInv, PolicyTypeOK, QueueIsFresh
    <3> QED
      BY <3>1, <3>2, <3>3 DEF PolicyInv, QueueIsRestOfChunk
  <2>2. /\ nextPosition \in 1..(ChunkLength - 1)
        /\ emittedPosition = nextPosition - 1
        /\ emittedAction = Chunk(inferenceCount)[nextPosition]
        /\ emittedAction' = Chunk(inferenceCount)[nextPosition + 1]
    <3>1. emittedAction # NoAction
      BY <1>1 DEF ActFromQueue, PolicyInv, QueueIsFresh
    <3>2. /\ nextPosition \in 1..(ChunkLength - 1)
          /\ emittedPosition = nextPosition - 1
          /\ emittedAction = requestedChunk[emittedPosition + 1]
      BY <3>1, <2>1 DEF PolicyInv, PolicyTypeOK, EmittedIsDeclared
    <3>3. emittedAction' = requestedChunk[nextPosition + 1]
      BY <1>1, <2>1, <3>2 DEF ActFromQueue, PolicyInv, QueueIsRestOfChunk
    <3>4. emittedPosition + 1 = nextPosition
      BY <3>2
    <3> QED
      BY <2>1, <3>2, <3>3, <3>4
  <2> HIDE DEF Stream!StreamNext, Stream!streamVars
  <2>0. \A i \in 1..ChunkLength : Chunk(inferenceCount)[i] = <<inferenceCount, i - 1>>
    BY <2>1, ChunkFacts
  <2>2a. Chunk(inferenceCount)[nextPosition] = <<inferenceCount, nextPosition - 1>>
    BY <2>0, <2>2
  <2>2b. Chunk(inferenceCount)[nextPosition + 1] = <<inferenceCount, nextPosition + 1 - 1>>
    BY <2>0, <2>2
  <2>2c. /\ emittedAction = <<inferenceCount, nextPosition - 1>>
         /\ emittedAction' = <<inferenceCount, nextPosition>>
    <3>1. nextPosition + 1 - 1 = nextPosition
      BY <2>2
    <3> QED
      BY <2>2, <2>2a, <2>2b, <3>1
  <2>3. (queue' = <<>>) <=> (nextPosition + 1 = ChunkLength)
    <3>1. queue' = Tail(queue) /\ Len(Tail(queue)) = Len(queue) - 1
      BY <1>1, <2>1 DEF ActFromQueue
    <3>2. queue' \in Seq(Actions)
      BY <2>1, <3>1
    <3>3. queue' = <<>> <=> Len(queue') = 0
      BY <3>2
    <3> QED
      BY <2>1, <2>2, <3>1, <3>3
  <2>4. Stream!ServeNext
    <3>1. emittedAction[1] = inferenceCount /\ emittedAction[2] = nextPosition - 1
      BY <2>2c
    <3>2. emittedAction' = <<emittedAction[1], emittedAction[2] + 1>>
      BY <2>2, <2>2c, <3>1
    <3>3. emittedAction'[2] + 1 = nextPosition + 1
      BY <2>2c
    <3>4. (queue' = <<>>) = (emittedAction'[2] + 1 = ChunkLength)
      BY <2>3, <3>3
    <3> QED
      BY <1>1, <3>2, <3>4 DEF Stream!ServeNext, ActFromQueue
  <2> QED
    BY <2>4 DEF Stream!StreamNext
<1>2. ASSUME ActAfterQuery
      PROVE  Stream!ServeFirst
  <2>1. inferenceCount' \in 1..MaxQueries
    BY <1>2 DEF PolicyInv, PolicyTypeOK, ActAfterQuery
  <2>2. emittedAction' = <<inferenceCount', 0>>
        /\ Len(queue') = ChunkLength - 1 /\ queue' \in Seq(Actions)
    BY <1>2, <2>1, ChunkFacts DEF ActAfterQuery
  <2>3. (queue' = <<>>) = (ChunkLength = 1)
    BY <2>2
  <2> QED
    BY <1>2, <2>2, <2>3 DEF Stream!ServeFirst, ActAfterQuery
<1>3. CASE PolicyReset
  BY <1>3 DEF PolicyReset, Stream!Discard
<1>4. CASE PolicyActRaises
  BY <1>4 DEF PolicyActRaises, ActQueryFails, ActAnswerRejected, Stream!QueryInVain
<1>5. CASE PolicyRepeatLast
  BY <1>5 DEF PolicyRepeatLast
<1>6. CASE PolicyForceRequery
  BY <1>6 DEF PolicyForceRequery, Stream!Discard
<1>7. CASE UNCHANGED policyVars
  BY <1>7 DEF policyVars
<1> QED
  BY <1>1, <1>2, <1>3, <1>4, <1>5, <1>6, <1>7 DEF PolicyNext, PolicyAct

\* The adapter implements the chunk stream: actions in order and once each,
\* new chunks from new queries only, nothing of a discarded chunk.
THEOREM PolicyImplementsStream == PolicySpec => StreamRefinement
<1>1. PolicyInit => Stream!StreamInit
  BY DEF PolicyInit, Stream!StreamInit
<1> QED
  BY <1>1, PolicyInitInv, PolicyStepInv, PolicyStepStreams, PTL
     DEF PolicySpec, StreamRefinement, Stream!StreamSpec
=============================================================================
