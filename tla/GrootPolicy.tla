---------------------------- MODULE GrootPolicy ----------------------------
(***************************************************************************)
(* GrootRoboCasaPolicy (groot_adapter.py): executes the chunks of a frozen *)
(* policy server one action at a time.                                     *)
(*                                                                         *)
(* An action is the pair <<query, position>>.  Arrays, clipping, counts of *)
(* saturated values and the action schema are abstracted to whether the    *)
(* answer of a query passes _validate_action_chunk.                        *)
(*                                                                         *)
(* The episode loops of the repository extend this module and take its     *)
(* calls as parts of their own actions.  PolicySpec is the policy under an *)
(* arbitrary caller, who makes any sequence of legal calls.                *)
(***************************************************************************)
EXTENDS Integers, Sequences

CONSTANTS
  ChunkLength,     \* ACTION_HORIZON, the length of an audited chunk
  MaxQueries,      \* bound of the model on inference_count
  NoAction         \* None: no action emitted since the last reset

ASSUME ChunkLengthAssumption == ChunkLength \in Nat \ {0}
ASSUME MaxQueriesAssumption == MaxQueries \in Nat
ASSUME NoActionAssumption == NoAction \notin (Nat \X Nat)

VARIABLES
  queue,            \* _actions, the actions not yet executed
  requestedChunk,   \* _requested_action_chunk, the chunk of the latest query
  policyChunkId,    \* _chunk_id
  nextPosition,     \* _next_chunk_position
  emittedChunkId,   \* _last_emitted_chunk_id, -1 for None
  emittedPosition,  \* _last_emitted_position, -1 for None
  emittedAction,    \* _last_emitted_action, NoAction for None
  latency,          \* last_inference_latency_ms: "none", or "measured"
  inferenceCount    \* inference_count

policyVars == <<queue, requestedChunk, policyChunkId, nextPosition,
                emittedChunkId, emittedPosition, emittedAction,
                latency, inferenceCount>>

Actions == (1..MaxQueries) \X (0..(ChunkLength - 1))

\* Mutant: positions counted from one.
ChunkFromOne(query) == [i \in 1..ChunkLength |-> <<query, i>>]

Chunk(query) == [i \in 1..ChunkLength |-> <<query, i - 1>>]

PolicyTypeOK ==
  /\ queue \in Seq(Actions)
  /\ requestedChunk \in Seq(Actions)
  /\ policyChunkId \in Int
  /\ nextPosition \in 0..ChunkLength
  /\ emittedChunkId \in Int
  /\ emittedPosition \in Int
  /\ emittedAction \in Actions \cup {NoAction}
  /\ latency \in {"none", "measured"}
  /\ inferenceCount \in 0..MaxQueries

PolicyInit ==
  /\ queue = <<>>
  /\ requestedChunk = <<>>
  /\ policyChunkId = -1
  /\ nextPosition = 0
  /\ emittedChunkId = -1
  /\ emittedPosition = -1
  /\ emittedAction = NoAction
  /\ latency = "none"
  /\ inferenceCount = 0

\* Mutant: the queue survives a reset.
PolicyResetKeepsQueue ==
  /\ requestedChunk' = <<>>
  /\ policyChunkId' = -1 /\ nextPosition' = 0
  /\ emittedChunkId' = -1 /\ emittedPosition' = -1 /\ emittedAction' = NoAction
  /\ latency' = "none"
  /\ UNCHANGED <<queue, inferenceCount>>

\* reset: every field but the inference counter goes back to its first value.
PolicyReset ==
  /\ queue' = <<>>
  /\ requestedChunk' = <<>>
  /\ policyChunkId' = -1 /\ nextPosition' = 0
  /\ emittedChunkId' = -1 /\ emittedPosition' = -1 /\ emittedAction' = NoAction
  /\ latency' = "none"
  /\ UNCHANGED inferenceCount

\* A policy object constructed anew, and reset: the counter begins again too.
NewPolicy ==
  /\ queue' = <<>>
  /\ requestedChunk' = <<>>
  /\ policyChunkId' = -1 /\ nextPosition' = 0
  /\ emittedChunkId' = -1 /\ emittedPosition' = -1 /\ emittedAction' = NoAction
  /\ latency' = "none"
  /\ inferenceCount' = 0

-----------------------------------------------------------------------------
(* act.  An empty queue is refilled by one query; the answer enters the    *)
(* queue only when it passes the contract.                                 *)

ActFromQueue ==
  /\ queue # <<>>
  /\ queue' = Tail(queue)
  /\ emittedAction' = Head(queue)
  /\ emittedChunkId' = policyChunkId
  /\ emittedPosition' = nextPosition
  /\ nextPosition' = nextPosition + 1
  /\ latency' = "none"
  /\ UNCHANGED <<requestedChunk, policyChunkId, inferenceCount>>

ActAfterQuery ==
  /\ queue = <<>>
  /\ inferenceCount < MaxQueries
  /\ inferenceCount' = inferenceCount + 1
  /\ requestedChunk' = Chunk(inferenceCount')
  /\ queue' = Tail(requestedChunk')
  /\ emittedAction' = Head(requestedChunk')
  /\ policyChunkId' = policyChunkId + 1
  /\ emittedChunkId' = policyChunkId'
  /\ emittedPosition' = 0
  /\ nextPosition' = 1
  /\ latency' = "measured"

\* client.call raises (timeout or server error) before anything is recorded.
ActQueryFails ==
  /\ queue = <<>>
  /\ latency' = "none"
  /\ UNCHANGED <<queue, requestedChunk, policyChunkId, nextPosition,
                 emittedChunkId, emittedPosition, emittedAction,
                 inferenceCount>>

\* _validate_action_chunk raises: the query has been counted and timed.
ActAnswerRejected ==
  /\ queue = <<>>
  /\ inferenceCount < MaxQueries
  /\ inferenceCount' = inferenceCount + 1
  /\ latency' = "measured"
  /\ UNCHANGED <<queue, requestedChunk, policyChunkId, nextPosition,
                 emittedChunkId, emittedPosition, emittedAction>>

PolicyAct == ActFromQueue \/ ActAfterQuery

PolicyActRaises == ActQueryFails \/ ActAnswerRejected

\* Mutant: a repeat moves the cursor.
PolicyRepeatAdvances ==
  /\ emittedAction # NoAction
  /\ latency' = "none"
  /\ nextPosition' = nextPosition + 1
  /\ UNCHANGED <<queue, requestedChunk, policyChunkId, emittedChunkId,
                 emittedPosition, emittedAction, inferenceCount>>

\* repeat_last_action returns emittedAction and leaves the cursor alone.
PolicyRepeatLast ==
  /\ emittedAction # NoAction
  /\ latency' = "none"
  /\ UNCHANGED <<queue, requestedChunk, policyChunkId, nextPosition,
                 emittedChunkId, emittedPosition, emittedAction,
                 inferenceCount>>

PolicyForceRequery ==
  /\ queue' = <<>>
  /\ latency' = "none"
  /\ UNCHANGED <<requestedChunk, policyChunkId, nextPosition, emittedChunkId,
                 emittedPosition, emittedAction, inferenceCount>>

PolicyNext ==
  \/ PolicyReset
  \/ PolicyAct
  \/ PolicyActRaises
  \/ PolicyRepeatLast
  \/ PolicyForceRequery

PolicySpec == PolicyInit /\ [][PolicyNext]_policyVars

-----------------------------------------------------------------------------
(* Properties                                                              *)

\* The queue is what is left of the requested chunk from the cursor on: the
\* two copies act() keeps of one answer (the deque it pops and the tuple it
\* shows to the monitor) never drift apart, whatever calls are interleaved.
QueueIsRestOfChunk ==
  queue # <<>> =>
    /\ Len(requestedChunk) = ChunkLength
    /\ Len(queue) = ChunkLength - nextPosition
    /\ \A i \in 1..Len(queue) : queue[i] = requestedChunk[nextPosition + i]

\* chunk_state() and requested_action_chunk describe the same action: the
\* emitted action is the element of the requested chunk at the position the
\* policy declares, as context_to_feature requires of every monitor context.
\* It must survive a rejected answer, a discarded queue and a repeat.
EmittedIsDeclared ==
  emittedAction # NoAction =>
    /\ emittedPosition \in 0..(ChunkLength - 1)
    /\ Len(requestedChunk) = ChunkLength
    /\ requestedChunk[emittedPosition + 1] = emittedAction
    /\ emittedChunkId = policyChunkId
    /\ nextPosition = emittedPosition + 1

\* The stream of emitted actions keeps the promise of ChunkStream: in order,
\* once each, and never an action of a chunk that was discarded.
Stream == INSTANCE ChunkStream WITH
            last <- emittedAction,
            queries <- inferenceCount,
            exhausted <- (queue = <<>>)

StreamRefinement == Stream!StreamSpec
=============================================================================
