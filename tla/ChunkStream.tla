---------------------------- MODULE ChunkStream ----------------------------
(***************************************************************************)
(* What an action-chunked policy promises to the loop that executes it.    *)
(*                                                                         *)
(* An action is a pair <<query, position>>: the policy query that produced *)
(* it and its place in the chunk of that query.  The promise is that the   *)
(* actions of a chunk are served in order and once each, that a new chunk  *)
(* always comes from a query never made before, and that no action of a    *)
(* chunk that was discarded (by a reset or by a forced re-query) is ever   *)
(* served: "Stateful action-chunk policies must not continue a stale queue *)
(* after recovery" (runner.py, the recovery branch of the episode loop).   *)
(***************************************************************************)
EXTENDS Integers

CONSTANTS
  ChunkLength,   \* ACTION_HORIZON: actions per policy query
  NoAction       \* no action has been served since the last reset

VARIABLES
  last,          \* the action served last, or NoAction
  queries,       \* queries made so far
  exhausted      \* nothing of the current chunk may be served any more

streamVars == <<last, queries, exhausted>>

StreamInit ==
  /\ last = NoAction
  /\ queries = 0
  /\ exhausted = TRUE

\* A query that yields no chunk: the service fails or its answer is rejected.
QueryInVain ==
  /\ exhausted
  /\ queries' \in {queries, queries + 1}
  /\ UNCHANGED <<last, exhausted>>

ServeFirst ==
  /\ exhausted
  /\ queries' = queries + 1
  /\ last' = <<queries', 0>>
  /\ exhausted' = (ChunkLength = 1)

ServeNext ==
  /\ ~exhausted
  /\ last' = <<last[1], last[2] + 1>>
  /\ exhausted' = (last'[2] + 1 = ChunkLength)
  /\ UNCHANGED queries

\* reset() forgets the last action, force_requery() keeps it.
Discard ==
  /\ exhausted' = TRUE
  /\ last' \in {last, NoAction}
  /\ UNCHANGED queries

StreamNext == QueryInVain \/ ServeFirst \/ ServeNext \/ Discard

StreamSpec == StreamInit /\ [][StreamNext]_streamVars
=============================================================================
