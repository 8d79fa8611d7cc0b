---------------------------- MODULE PolicyServer ----------------------------
(***************************************************************************)
(* The frozen policy server (scripts/serve_groot_policy.py) and the runs   *)
(* that start it, wait for it, call it and stop it: the pilot, the shard   *)
(* collector, the clean baseline and the diagnostic probe all have the     *)
(* shape modelled here.  Every run starts one server of its own.  The runs *)
(* modelled use one port of one host, one after the other: every script    *)
(* has a default port of its own, and a port is not given to two runs at   *)
(* the same time.                                                          *)
(*                                                                         *)
(* A call is a request of a ZeroMQ REQ socket: it stays with the client    *)
(* until a server is bound to the port, then it waits in the inbox of that *)
(* server, then its answer waits at the client.  A call that is not        *)
(* answered in time leaves the socket unable to send again, and its        *)
(* request, if it was delivered, in the inbox.  The loop of the server     *)
(* (BaseInferenceServer), the sockets and the operating system are         *)
(* external.  Wall time is abstracted: a time limit may pass whenever      *)
(* something is waited for.                                                *)
(***************************************************************************)
EXTENDS Integers, Sequences, FiniteSets

CONSTANTS
  Runs,            \* how many runs there are
  None,
  CatchesExpired,  \* the shutdown catches subprocess.TimeoutExpired
  MaxEpisodes,     \* episodes of a run
  MaxActs,         \* action queries of an episode
  MaxEvents        \* crashes, kills, errors and exceptions that happen

ASSUME CatchesAssumption == CatchesExpired \in BOOLEAN
ASSUME BoundsAssumption ==
  /\ Runs \in Nat /\ MaxEvents \in Nat
  /\ MaxEpisodes \in Nat \ {0} /\ MaxActs \in Nat \ {0}

\* Runs are numbered in the order in which they are launched; the server a run
\* starts has its number.
Run == 1..Runs

ASSUME NoneAssumption == None \notin Run

VARIABLES
  pc,        \* where each run is
  call,      \* the call of each run: none, queued, sent or answered
  answer,    \* the answer a call was given, None before that
  broken,    \* runs whose socket cannot send any more
  episode,   \* episodes each run has begun
  acts,      \* actions each run was given in its episode
  spoke,     \* the servers whose answers each run accepted
  server,    \* the server process of each run
  inbox,     \* requests delivered to each server and not yet handled
  rng,       \* the torch generator of each server: seed and draws since
  cut,       \* runs that were killed, or whose shutdown was cut short
  events

runVars == <<pc, call, answer, broken, episode, acts, spoke>>
serverVars == <<server, inbox, rng>>
vars == <<runVars, serverVars, cut, events>>

\* A run in one of these places has a call under way, for the endpoint given.
Endpoint == [pinging |-> "ping", before |-> "get_policy_state", seeding |-> "set_seed",
             acting |-> "get_action", after |-> "get_policy_state", killing |-> "kill"]

Places == {"idle", "starting", "abandoning", "closing", "polling", "waiting", "ended"}
            \cup DOMAIN Endpoint

\* Places inside the try block of main, with the client of main open.
InTry == {"before", "seeding", "acting", "after"}

Seeds == Run \X (1..MaxEpisodes)
Draws == [seed : Seeds \cup {None}, draw : Nat]
Answers == [by : Run, ok : BOOLEAN, draw : Draws \cup {None}]
Requests == [from : Run, seed : Seeds \cup {None}, endpoint : {Endpoint[p] : p \in DOMAIN Endpoint}, heard : BOOLEAN]
\* A server told to stop: "aborting" if it had not bound the port yet.
Alive == {"loading", "aborting", "bound", "leaving"}
Holding == {"bound", "leaving"}

ServerTypeOK ==
  /\ pc \in [Run -> Places]
  /\ call \in [Run -> {"none", "queued", "sent", "answered"}]
  /\ answer \in [Run -> Answers \cup {None}]
  /\ broken \subseteq Run
  /\ episode \in [Run -> 0..MaxEpisodes]
  /\ acts \in [Run -> 0..(MaxActs - 1)]
  /\ spoke \in [Run -> SUBSET Run]
  /\ server \in [Run -> {"none", "exited"} \cup Alive]
  /\ inbox \in [Run -> SUBSET Requests]
  /\ rng \in [Run -> Draws]
  /\ cut \subseteq Run
  /\ events \in 0..MaxEvents

Unseeded == [seed |-> None, draw |-> 0]

Init ==
  /\ pc = [r \in Run |-> "idle"]
  /\ call = [r \in Run |-> "none"]
  /\ answer = [r \in Run |-> None]
  /\ broken = {}
  /\ episode = [r \in Run |-> 0]
  /\ acts = [r \in Run |-> 0]
  /\ spoke = [r \in Run |-> {}]
  /\ server = [r \in Run |-> "none"]
  /\ inbox = [r \in Run |-> {}]
  /\ rng = [r \in Run |-> Unseeded]
  /\ cut = {}
  /\ events = 0

Unfinished == {r \in Run : pc[r] \notin {"idle", "ended"}}
Event == events < MaxEvents /\ events' = events + 1

\* The requests of a client that is gone or has given up are answered to no one.
Unheard(r) ==
  [s \in Run |-> {IF q.from = r THEN [q EXCEPT !.heard = FALSE] ELSE q : q \in inbox[s]}]

\* The run goes on to a place where it makes a call.
Ask(r, place) ==
  /\ pc' = [pc EXCEPT ![r] = place]
  /\ call' = [call EXCEPT ![r] = "queued"]
  /\ answer' = [answer EXCEPT ![r] = None]

\* The run goes on to a place where it makes none.
Leave(r, place) ==
  /\ pc' = [pc EXCEPT ![r] = place]
  /\ call' = [call EXCEPT ![r] = "none"]
  /\ answer' = [answer EXCEPT ![r] = None]

\* The run is over, and what its process remembered is gone.
End(r) ==
  /\ Leave(r, "ended")
  /\ broken' = broken \ {r}
  /\ episode' = [episode EXCEPT ![r] = 0]
  /\ acts' = [acts EXCEPT ![r] = 0]
  /\ spoke' = [spoke EXCEPT ![r] = {}]

\* SIGTERM, and SIGKILL.
Stopping == [loading |-> "aborting", aborting |-> "aborting",
             bound |-> "leaving", leaving |-> "leaving"]

Kill(s) ==
  /\ server' = [server EXCEPT ![s] = "exited"]
  /\ inbox' = [inbox EXCEPT ![s] = {}]
  /\ rng' = [rng EXCEPT ![s] = Unseeded]

Answered(r) == call[r] = "answered" /\ answer[r].ok

-----------------------------------------------------------------------------
(* _start_server                                                           *)

Launch(r) ==
  /\ pc[r] = "idle" /\ \A x \in Run : x < r => pc[x] = "ended"
  /\ pc' = [pc EXCEPT ![r] = "starting"]
  /\ server' = [server EXCEPT ![r] = "loading"]
  /\ UNCHANGED <<call, answer, broken, episode, acts, spoke, inbox, rng, cut, events>>

\* The server is found exited; nothing is left to stop.
FindExited(r) ==
  /\ pc[r] = "starting" /\ server[r] = "exited"
  /\ End(r)
  /\ UNCHANGED <<serverVars, cut, events>>

\* Every ping has a client of its own.
Ping(r) ==
  /\ pc[r] = "starting" /\ server[r] # "exited"
  /\ Ask(r, "pinging")
  /\ UNCHANGED <<broken, episode, acts, spoke, serverVars, cut, events>>

\* Any server bound to the port may have answered.
Ponged(r) ==
  /\ pc[r] = "pinging" /\ Answered(r)
  /\ Ask(r, "before")
  /\ spoke' = [spoke EXCEPT ![r] = {answer[r].by}]
  /\ UNCHANGED <<broken, episode, acts, serverVars, cut, events>>

NoPong(r) ==
  /\ pc[r] = "pinging" /\ ~Answered(r)
  /\ Leave(r, "starting")
  /\ inbox' = Unheard(r)
  /\ UNCHANGED <<broken, episode, acts, spoke, server, rng, cut, events>>

\* Mutant: the server that was not ready in time is left as it is.
StartExpiresLeavesServer(r) ==
  /\ pc[r] = "starting"
  /\ End(r)
  /\ UNCHANGED <<serverVars, cut, events>>

\* The start takes too long: the server is asked to terminate.
StartExpires(r) ==
  /\ pc[r] = "starting"
  /\ IF server[r] = "exited"
     THEN End(r) /\ UNCHANGED server
     ELSE /\ Leave(r, "abandoning")
          /\ server' = [server EXCEPT ![r] = Stopping[@]]
          /\ UNCHANGED <<broken, episode, acts, spoke>>
  /\ UNCHANGED <<inbox, rng, cut, events>>

AbandonReturns(r) ==
  /\ pc[r] = "abandoning" /\ server[r] = "exited"
  /\ End(r)
  /\ UNCHANGED <<serverVars, cut, events>>

\* Every script catches subprocess.TimeoutExpired here.
AbandonExpires(r) ==
  /\ pc[r] = "abandoning" /\ server[r] # "exited"
  /\ End(r)
  /\ Kill(r)
  /\ UNCHANGED <<cut, events>>

-----------------------------------------------------------------------------
(* main: the calls in the order in which a run makes them                  *)

Accept(r) ==
  /\ call[r] = "answered" /\ answer[r].ok
  /\ spoke' = [spoke EXCEPT ![r] = @ \cup {answer[r].by}]
  /\ UNCHANGED <<broken, serverVars, cut, events>>

\* _run_episode begins with the seed.
BeginEpisode(r) ==
  /\ Ask(r, "seeding")
  /\ episode' = [episode EXCEPT ![r] = @ + 1]
  /\ acts' = [acts EXCEPT ![r] = 0]

StateBefore(r) ==
  /\ pc[r] = "before" /\ Accept(r)
  /\ BeginEpisode(r)

Seeded(r) ==
  /\ pc[r] = "seeding" /\ Accept(r)
  /\ Ask(r, "acting")
  /\ UNCHANGED <<episode, acts>>

\* Mutant: one action more.
ActsAgainOneMore(r) == acts[r] < MaxActs

ActsAgain(r) == acts[r] + 1 < MaxActs

\* The chunk is executed; then the next is asked for, or the episode is over.
Acted(r) ==
  /\ pc[r] = "acting" /\ Accept(r)
  /\ \/ /\ ActsAgain(r)
        /\ Ask(r, "acting")
        /\ acts' = [acts EXCEPT ![r] = @ + 1]
        /\ UNCHANGED episode
     \/ /\ episode[r] < MaxEpisodes
        /\ BeginEpisode(r)
     \/ /\ episode[r] = MaxEpisodes
        /\ Ask(r, "after")
        /\ UNCHANGED <<episode, acts>>

StateAfter(r) ==
  /\ pc[r] = "after" /\ Accept(r)
  /\ Leave(r, "closing")
  /\ UNCHANGED <<episode, acts>>

\* Mutant: without RCVTIMEO a request no server takes is waited for.
CallTimesOutOnceSent(r) ==
  /\ pc[r] \in InTry /\ call[r] = "sent"
  /\ Leave(r, "closing")
  /\ broken' = broken \cup {r}
  /\ inbox' = Unheard(r)
  /\ UNCHANGED <<episode, acts, spoke, server, rng, cut, events>>

CallTimesOut(r) ==
  /\ pc[r] \in InTry /\ call[r] \in {"queued", "sent"}
  /\ Leave(r, "closing")
  /\ broken' = broken \cup {r}
  /\ inbox' = Unheard(r)
  /\ UNCHANGED <<episode, acts, spoke, server, rng, cut, events>>

\* The answer is an error, or what the run does with it raises.
Raises(r) ==
  /\ pc[r] \in InTry /\ call[r] = "answered"
  /\ Event \/ (~answer[r].ok /\ UNCHANGED events)
  /\ Leave(r, "closing")
  /\ UNCHANGED <<broken, episode, acts, spoke, serverVars, cut>>

-----------------------------------------------------------------------------
(* main: the finally clause                                                *)

\* With a socket that cannot send, the call of kill raises and is forgotten.
CloseEnvironment(r) ==
  /\ pc[r] = "closing"
  /\ IF r \in broken THEN Leave(r, "polling") ELSE Ask(r, "killing")
  /\ UNCHANGED <<broken, episode, acts, spoke, serverVars, cut, events>>

\* Nothing after environment.close() in the finally clause is done.
CloseRaises(r) ==
  /\ pc[r] = "closing" /\ Event
  /\ End(r)
  /\ cut' = cut \cup {r}
  /\ UNCHANGED serverVars

\* Answered or not, in time or not, the client is closed.
KillCalled(r) ==
  /\ pc[r] = "killing"
  /\ Leave(r, "polling")
  /\ inbox' = Unheard(r)
  /\ UNCHANGED <<broken, episode, acts, spoke, server, rng, cut, events>>

Terminate(r) ==
  /\ pc[r] = "polling"
  /\ IF server[r] = "exited"
     THEN End(r) /\ UNCHANGED server
     ELSE /\ Leave(r, "waiting")
          /\ server' = [server EXCEPT ![r] = Stopping[@]]
          /\ UNCHANGED <<broken, episode, acts, spoke>>
  /\ UNCHANGED <<inbox, rng, cut, events>>

WaitReturns(r) ==
  /\ pc[r] = "waiting" /\ server[r] = "exited"
  /\ End(r)
  /\ UNCHANGED <<serverVars, cut, events>>

\* Mutant: a server that does not stop in time is not killed.
WaitExpiresWithoutKill(r) ==
  /\ pc[r] = "waiting" /\ server[r] # "exited"
  /\ End(r)
  /\ UNCHANGED <<serverVars, cut, events>>

\* The collector catches TimeoutError, which subprocess.TimeoutExpired is not.
WaitExpires(r) ==
  /\ pc[r] = "waiting" /\ server[r] # "exited"
  /\ End(r)
  /\ IF CatchesExpired THEN Kill(r) ELSE UNCHANGED serverVars
  /\ UNCHANGED <<cut, events>>

\* The process of the run is killed, or interrupted while it starts the server
\* (KeyboardInterrupt is no Exception): its finally clause is not run, or does
\* not know the server yet.
RunKilled(r) ==
  /\ r \in Unfinished /\ Event
  /\ End(r)
  /\ inbox' = Unheard(r)
  /\ cut' = cut \cup {r}
  /\ UNCHANGED <<server, rng>>

-----------------------------------------------------------------------------
(* The server process                                                      *)

\* Only one process holds the port; for any other, bind raises.
Bind(s) ==
  /\ server[s] = "loading"
  /\ server' = [server EXCEPT ![s] =
                  IF \E x \in Run : server[x] \in Holding THEN "exited" ELSE "bound"]
  /\ UNCHANGED <<runVars, inbox, rng, cut, events>>

\* The request reaches the server that holds the port.
Deliver(r, s) ==
  /\ call[r] = "queued" /\ server[s] = "bound"
  /\ call' = [call EXCEPT ![r] = "sent"]
  /\ inbox' = [inbox EXCEPT ![s] =
       @ \cup {[from |-> r, endpoint |-> Endpoint[pc[r]], heard |-> TRUE,
                seed |-> IF pc[r] = "seeding" THEN <<r, episode[r]>> ELSE None]}]
  /\ UNCHANGED <<pc, answer, broken, episode, acts, spoke, server, rng, cut,
                 events>>

\* The answer to a request, if its client still waits for one.
Reply(s, q, ok, draw) ==
  /\ inbox' = [inbox EXCEPT ![s] = @ \ {q}]
  /\ IF q.heard
     THEN /\ call' = [call EXCEPT ![q.from] = "answered"]
          /\ answer' = [answer EXCEPT ![q.from] = [by |-> s, ok |-> ok, draw |-> draw]]
     ELSE UNCHANGED <<call, answer>>
  /\ UNCHANGED <<pc, broken, episode, acts, spoke, cut>>

Handling(s, q, endpoints) ==
  server[s] = "bound" /\ q \in inbox[s] /\ q.endpoint \in endpoints

GetState(s, q) ==
  /\ Handling(s, q, {"ping", "get_policy_state"})
  /\ Reply(s, q, TRUE, None)
  /\ UNCHANGED <<server, rng, events>>

\* Mutant: a generator that was seeded before keeps its state.
SetSeedOnce(s, q) ==
  /\ Handling(s, q, {"set_seed"})
  /\ rng' = [rng EXCEPT ![s].seed = q.seed]
  /\ Reply(s, q, TRUE, None)
  /\ UNCHANGED <<server, events>>

\* Seeds of different runs and episodes are different.
SetSeed(s, q) ==
  /\ Handling(s, q, {"set_seed"})
  /\ rng' = [rng EXCEPT ![s] = [seed |-> q.seed, draw |-> 0]]
  /\ Reply(s, q, TRUE, None)
  /\ UNCHANGED <<server, events>>

GetAction(s, q) ==
  /\ Handling(s, q, {"get_action"})
  /\ rng' = [rng EXCEPT ![s].draw = @ + 1]
  /\ Reply(s, q, TRUE, rng'[s])
  /\ UNCHANGED <<server, events>>

KillEndpoint(s, q) ==
  /\ Handling(s, q, {"kill"})
  /\ server' = [server EXCEPT ![s] = "leaving"]
  /\ Reply(s, q, TRUE, None)
  /\ UNCHANGED <<rng, events>>

\* An endpoint raises: the loop of the server answers with the error.
EndpointRaises(s, q) ==
  /\ Handling(s, q, {"get_policy_state", "set_seed", "get_action"})
  /\ Event
  /\ Reply(s, q, FALSE, None)
  /\ UNCHANGED <<server, rng>>

ServerExits(s) ==
  /\ server[s] \in {"aborting", "leaving"}
  /\ Kill(s)
  /\ UNCHANGED <<runVars, cut, events>>

ServerCrashes(s) ==
  /\ server[s] \in {"loading", "bound"} /\ Event
  /\ Kill(s)
  /\ UNCHANGED <<runVars, cut>>

-----------------------------------------------------------------------------

Start(r) ==
  \/ FindExited(r) \/ Ping(r) \/ Ponged(r) \/ NoPong(r)
  \/ StartExpires(r) \/ AbandonReturns(r) \/ AbandonExpires(r)

Work(r) ==
  \/ StateBefore(r) \/ Seeded(r) \/ Acted(r) \/ StateAfter(r)
  \/ CallTimesOut(r) \/ Raises(r)

Shutdown(r) ==
  \/ CloseEnvironment(r) \/ KillCalled(r) \/ Terminate(r)
  \/ WaitReturns(r) \/ WaitExpires(r)

Serve(s) ==
  \/ Bind(s) \/ ServerExits(s) \/ ServerCrashes(s)
  \/ \E q \in inbox[s] :
       \/ GetState(s, q) \/ SetSeed(s, q) \/ GetAction(s, q)
       \/ KillEndpoint(s, q) \/ EndpointRaises(s, q)

Next ==
  \/ \E r \in Run : Launch(r) \/ Start(r) \/ Work(r) \/ Shutdown(r)
                    \/ CloseRaises(r) \/ RunKilled(r)
  \/ \E s \in Run : Serve(s)
  \/ \E r, s \in Run : Deliver(r, s)

Spec == Init /\ [][Next]_vars

\* A run that is alive goes on: it computes, or one of its time limits passes.
\* A run that looks at the clock again and again finds its deadline passed.
\* Nothing is assumed of the servers.
FairSpec ==
  /\ Spec
  /\ \A r \in Run : /\ WF_vars(Start(r) \/ Work(r) \/ Shutdown(r))
                    /\ SF_vars(StartExpires(r))

-----------------------------------------------------------------------------
(* Properties                                                              *)

\* However a start, a call or a shutdown fails or takes too long, a run that
\* is over has stopped the server it started, unless it was killed itself or
\* the environment could not be closed.
NoServerOutlivesItsRun ==
  \A r \in Run : pc[r] = "ended" /\ r \notin cut => server[r] \notin Alive

\* The readiness ping and all later answers come from the server the run has
\* started, although nothing in an answer says whose it is: only an earlier run
\* that was killed or cut short leaves a server a run can take for its own.
OwnServerAnswers ==
  \A r \in Run : spoke[r] \subseteq {r} \cup cut

\* "the per-episode set_seed RPC make[s] paired prefixes reproducible"
\* (serve_groot_policy.py): as long as its own server answers, the n-th action
\* of an episode is draw n of the seed of that episode, whatever the server did
\* before and whatever requests nobody waits for it finds in its inbox.
SeededActionsAreReproducible ==
  \A r \in Run :
    pc[r] = "acting" /\ Answered(r) /\ spoke[r] \cup {answer[r].by} = {r} =>
      answer[r].draw = [seed |-> <<r, episode[r]>>, draw |-> acts[r] + 1]

\* Every run that was launched ends, whatever its server does or fails to do.
RunsEnd == <>[](Unfinished = {})
=============================================================================
