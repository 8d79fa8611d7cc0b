---------------------------- MODULE ServerProofs ----------------------------
(***************************************************************************)
(* The policy server and its clients for any number of runs, episodes,     *)
(* actions, crashes and kills.                                             *)
(***************************************************************************)
EXTENDS PolicyServer, TLAPS

\* What the place of a run says of its call, its answer, its episode and its server.
PlaceHolds(place, calling, answered, begun, process) ==
  /\ calling = "queued" => place \in DOMAIN Endpoint
  /\ calling = "answered" => answered \in Answers
  /\ place \in {"idle", "starting", "pinging", "before", "ended"} => begun = 0
  /\ place = "seeding" => begun # 0
  /\ process = "none" <=> place = "idle"

PlacesHold == \A r \in Run : PlaceHolds(pc[r], call[r], answer[r], episode[r], server[r])

OneAfterTheOther == \A r, x \in Run : x < r /\ pc[r] # "idle" => pc[x] = "ended"

\* Requests and answers, heard or not, belong to the own server of a run, or to
\* one that an earlier run could not stop.
OwnHolds ==
  /\ \A s \in Run : \A q \in inbox[s] : s \in {q.from} \cup cut
  /\ \A r \in Run : call[r] = "answered" => answer[r].by \in {r} \cup cut
  /\ OwnServerAnswers

ServerInv ==
  /\ ServerTypeOK /\ PlacesHold /\ OneAfterTheOther
  /\ CatchesExpired => NoServerOutlivesItsRun /\ OwnHolds

\* The variables of the runs and those of the servers, without the records.
RunsTyped ==
  /\ pc \in [Run -> Places]
  /\ call \in [Run -> {"none", "queued", "sent", "answered"}]
  /\ answer \in [Run -> Answers \cup {None}]
  /\ broken \subseteq Run
  /\ episode \in [Run -> 0..MaxEpisodes]
  /\ acts \in [Run -> 0..(MaxActs - 1)]
  /\ spoke \in [Run -> SUBSET Run]

ServersTyped ==
  /\ server \in [Run -> {"none", "exited"} \cup Alive]
  /\ inbox \in [Run -> SUBSET Requests]
  /\ rng \in [Run -> Draws]

LEMMA TypeParts ==
  ServerTypeOK <=> RunsTyped /\ ServersTyped /\ cut \subseteq Run /\ events \in 0..MaxEvents
  BY DEF ServerTypeOK, RunsTyped, ServersTyped

LEMMA UnheardType ==
  ASSUME ServersTyped, NEW r \in Run
  PROVE  Unheard(r) \in [Run -> SUBSET Requests]
  <1>1. ASSUME NEW s \in Run, NEW q \in inbox[s]
        PROVE  (IF q.from = r THEN [q EXCEPT !.heard = FALSE] ELSE q) \in Requests
    <2>1. q \in Requests
      BY DEF ServersTyped
    <2> QED
      BY <2>1 DEF Requests
  <1> QED
    BY <1>1 DEF Unheard

LEMMA KillType ==
  ASSUME ServersTyped, NEW s \in Run, Kill(s)
  PROVE  ServersTyped'
  <1>1. Unseeded \in Draws
    BY DEF Unseeded, Draws
  <1> QED
    BY <1>1 DEF ServersTyped, Kill

\* Where a step of one run leads, and what it leaves alone.
LEMMA AskMoves ==
  ASSUME RunsTyped, NEW r \in Run, NEW place \in DOMAIN Endpoint, Ask(r, place)
  PROVE  /\ pc' \in [Run -> Places] /\ pc'[r] = place
         /\ call' \in [Run -> {"none", "queued", "sent", "answered"}] /\ call'[r] = "queued"
         /\ answer' \in [Run -> Answers \cup {None}]
         /\ \A x \in Run : x # r => pc'[x] = pc[x] /\ call'[x] = call[x] /\ answer'[x] = answer[x]
  BY DEF RunsTyped, Ask, Places

LEMMA LeaveMoves ==
  ASSUME RunsTyped, NEW r \in Run, NEW place \in Places, Leave(r, place)
  PROVE  /\ pc' \in [Run -> Places] /\ pc'[r] = place
         /\ call' \in [Run -> {"none", "queued", "sent", "answered"}] /\ call'[r] = "none"
         /\ answer' \in [Run -> Answers \cup {None}]
         /\ \A x \in Run : x # r => pc'[x] = pc[x] /\ call'[x] = call[x] /\ answer'[x] = answer[x]
  BY DEF RunsTyped, Leave

LEMMA EndMoves ==
  ASSUME RunsTyped, NEW r \in Run, End(r)
  PROVE  /\ RunsTyped'
         /\ pc'[r] = "ended" /\ call'[r] = "none" /\ episode'[r] = 0 /\ spoke'[r] = {}
         /\ \A x \in Run : x # r => /\ pc'[x] = pc[x] /\ call'[x] = call[x] /\ answer'[x] = answer[x]
                                  /\ episode'[x] = episode[x] /\ spoke'[x] = spoke[x]
  <1>1. Leave(r, "ended") /\ "ended" \in Places
    BY DEF End, Places
  <1>2. /\ broken' \subseteq Run /\ episode' \in [Run -> 0..MaxEpisodes]
        /\ acts' \in [Run -> 0..(MaxActs - 1)] /\ spoke' \in [Run -> SUBSET Run]
    BY BoundsAssumption DEF RunsTyped, End
  <1>3. /\ episode'[r] = 0 /\ spoke'[r] = {}
        /\ \A x \in Run : x # r => episode'[x] = episode[x] /\ spoke'[x] = spoke[x]
    BY DEF RunsTyped, End
  <1> QED
    BY <1>1, <1>2, <1>3, LeaveMoves DEF RunsTyped

\* A step of one run keeps the invariant when it keeps its own part.
LEMMA StepOfRun ==
  ASSUME ServerInv, NEW r \in Run, pc[r] # "idle", pc[r] # "ended", pc'[r] # "idle",
         RunsTyped', ServersTyped', cut' \subseteq Run, cut \subseteq cut', events' \in 0..MaxEvents,
         \A x \in Run : x # r => /\ pc'[x] = pc[x] /\ call'[x] = call[x] /\ answer'[x] = answer[x]
                              /\ episode'[x] = episode[x] /\ spoke'[x] = spoke[x]
                              /\ server'[x] = server[x],
         PlaceHolds(pc'[r], call'[r], answer'[r], episode'[r], server'[r]),
         call'[r] # "answered",
         \A s \in Run : \A q \in inbox'[s] : \E p \in inbox[s] : q.from = p.from,
         CatchesExpired => /\ spoke'[r] \subseteq {r} \cup cut'
                           /\ pc'[r] = "ended" /\ r \notin cut' => server'[r] \notin Alive
  PROVE  ServerInv'
  <1>1. ServerTypeOK'
    BY TypeParts DEF ServerTypeOK, RunsTyped, ServersTyped
  <1>2. PlacesHold'
    BY DEF ServerInv, PlacesHold
  <1>3. OneAfterTheOther'
    BY DEF ServerInv, OneAfterTheOther, Run
  <1>4. ASSUME CatchesExpired
        PROVE  NoServerOutlivesItsRun'
    BY <1>4 DEF ServerInv, NoServerOutlivesItsRun
  <1>5. ASSUME CatchesExpired
        PROVE  OwnHolds'
    <2>1. \A s \in Run : \A q \in inbox'[s] : s \in {q.from} \cup cut'
      BY <1>5 DEF ServerInv, OwnHolds
    <2>2. \A x \in Run : call'[x] = "answered" => answer'[x].by \in {x} \cup cut'
      BY <1>5 DEF ServerInv, OwnHolds
    <2>3. OwnServerAnswers'
      BY <1>5 DEF ServerInv, OwnHolds, OwnServerAnswers
    <2> QED
      BY <2>1, <2>2, <2>3 DEF OwnHolds
  <1> QED
    BY <1>1, <1>2, <1>3, <1>4, <1>5 DEF ServerInv

LEMMA Facts ==
  ASSUME ServerInv, NEW r \in Run
  PROVE  /\ RunsTyped /\ ServersTyped /\ cut \subseteq Run /\ events \in 0..MaxEvents
         /\ PlaceHolds(pc[r], call[r], answer[r], episode[r], server[r])
         /\ CatchesExpired => /\ spoke[r] \subseteq {r} \cup cut
                              /\ call[r] = "answered" => answer[r].by \in {r} \cup cut
  BY TypeParts DEF ServerInv, PlacesHold, OwnHolds, OwnServerAnswers

\* A run ends.
LEMMA EndsInv ==
  ASSUME ServerInv, NEW r \in Run, pc[r] # "idle", pc[r] # "ended", End(r),
         ServersTyped', cut' \subseteq Run, cut \subseteq cut', events' \in 0..MaxEvents,
         \A x \in Run : x # r => server'[x] = server[x],
         server'[r] # "none",
         \A s \in Run : \A q \in inbox'[s] : \E p \in inbox[s] : q.from = p.from,
         CatchesExpired => r \in cut' \/ server'[r] \notin Alive
  PROVE  ServerInv'
  <1>1. RunsTyped
    BY Facts
  <1>2. /\ RunsTyped'
        /\ pc'[r] = "ended" /\ call'[r] = "none" /\ episode'[r] = 0 /\ spoke'[r] = {}
        /\ \A x \in Run : x # r => /\ pc'[x] = pc[x] /\ call'[x] = call[x] /\ answer'[x] = answer[x]
                                 /\ episode'[x] = episode[x] /\ spoke'[x] = spoke[x]
    BY <1>1, EndMoves
  <1>3. PlaceHolds(pc'[r], call'[r], answer'[r], episode'[r], server'[r])
    BY <1>2 DEF PlaceHolds
  <1> QED
    BY <1>2, <1>3, StepOfRun

\* A run goes on to a call, or from one; its server is left alone.
LEMMA AsksInv ==
  ASSUME ServerInv, NEW r \in Run, pc[r] # "idle", pc[r] # "ended",
         NEW place \in DOMAIN Endpoint, Ask(r, place),
         broken' \subseteq Run, episode' \in [Run -> 0..MaxEpisodes],
         acts' \in [Run -> 0..(MaxActs - 1)], spoke' \in [Run -> SUBSET Run],
         \A x \in Run : x # r => episode'[x] = episode[x] /\ spoke'[x] = spoke[x],
         place \in {"pinging", "before"} => episode'[r] = 0, place = "seeding" => episode'[r] # 0,
         CatchesExpired => spoke'[r] \subseteq {r} \cup cut,
         UNCHANGED <<serverVars, cut, events>>
  PROVE  ServerInv'
  <1>1. RunsTyped /\ ServersTyped /\ cut \subseteq Run /\ events \in 0..MaxEvents
    BY Facts
  <1>2. server[r] # "none"
    BY Facts DEF PlaceHolds
  <1>3. /\ pc' \in [Run -> Places] /\ pc'[r] = place
        /\ call' \in [Run -> {"none", "queued", "sent", "answered"}] /\ call'[r] = "queued"
        /\ answer' \in [Run -> Answers \cup {None}]
        /\ \A x \in Run : x # r => pc'[x] = pc[x] /\ call'[x] = call[x] /\ answer'[x] = answer[x]
    BY <1>1, AskMoves
  <1>4. RunsTyped' /\ ServersTyped' /\ cut' \subseteq Run /\ events' \in 0..MaxEvents
    BY <1>1, <1>3 DEF RunsTyped, ServersTyped, serverVars
  <1>5. PlaceHolds(pc'[r], call'[r], answer'[r], episode'[r], server'[r])
    BY <1>2, <1>3 DEF PlaceHolds, Endpoint, serverVars
  <1>6. pc'[r] # "idle" /\ pc'[r] # "ended"
    BY <1>3 DEF Endpoint
  <1>7. \A s \in Run : server'[s] = server[s] /\ \A q \in inbox'[s] : \E p \in inbox[s] : q.from = p.from
    BY DEF serverVars
  <1>8. CatchesExpired => spoke'[r] \subseteq {r} \cup cut'
    OBVIOUS
  <1>9. cut \subseteq cut' /\ call'[r] # "answered"
    BY <1>3
  <1> QED
    BY <1>3, <1>4, <1>5, <1>6, <1>7, <1>8, <1>9, StepOfRun

LEMMA LeavesInv ==
  ASSUME ServerInv, NEW r \in Run, pc[r] # "idle", pc[r] # "ended",
         NEW place \in {"starting", "abandoning", "closing", "polling", "waiting"}, Leave(r, place),
         place = "starting" => pc[r] = "pinging",
         broken' \subseteq Run, UNCHANGED <<episode, acts, spoke, cut>>,
         ServersTyped', events' \in 0..MaxEvents,
         \A x \in Run : x # r => server'[x] = server[x],
         server'[r] # "none",
         \A s \in Run : \A q \in inbox'[s] : \E p \in inbox[s] : q.from = p.from
  PROVE  ServerInv'
  <1>1. RunsTyped /\ cut \subseteq Run
    BY Facts
  <1>2. pc[r] = "pinging" => episode[r] = 0
    BY Facts DEF PlaceHolds
  <1>3. place \in Places
    BY DEF Places
  <1>4. /\ pc' \in [Run -> Places] /\ pc'[r] = place
        /\ call' \in [Run -> {"none", "queued", "sent", "answered"}] /\ call'[r] = "none"
        /\ answer' \in [Run -> Answers \cup {None}]
        /\ \A x \in Run : x # r => pc'[x] = pc[x] /\ call'[x] = call[x] /\ answer'[x] = answer[x]
    BY <1>1, <1>3, LeaveMoves
  <1>5. RunsTyped'
    BY <1>1, <1>4 DEF RunsTyped
  <1>6. PlaceHolds(pc'[r], call'[r], answer'[r], episode'[r], server'[r])
    BY <1>2, <1>4 DEF PlaceHolds
  <1>7. \A x \in Run : episode'[x] = episode[x] /\ spoke'[x] = spoke[x]
    OBVIOUS
  <1>8. CatchesExpired => spoke'[r] \subseteq {r} \cup cut'
    BY Facts
  <1>9. cut \subseteq cut' /\ cut' \subseteq Run /\ call'[r] # "answered" /\ pc'[r] # "idle" /\ pc'[r] # "ended"
    BY <1>1, <1>4
  <1> QED
    BY <1>4, <1>5, <1>6, <1>7, <1>8, <1>9, StepOfRun

\* What a step that leaves the servers alone, or only stops one, leaves of them.
LEMMA ServersLeft ==
  ASSUME ServerInv, UNCHANGED serverVars
  PROVE  /\ ServersTyped'
         /\ \A s \in Run : /\ server'[s] = server[s]
                           /\ \A q \in inbox'[s] : \E p \in inbox[s] : q.from = p.from
  BY TypeParts DEF ServerInv, ServersTyped, serverVars

LEMMA ServerStopped ==
  ASSUME ServerInv, NEW r \in Run, server[r] \in Alive,
         server' = [server EXCEPT ![r] = Stopping[@]], UNCHANGED <<inbox, rng>>
  PROVE  /\ ServersTyped' /\ server'[r] # "none"
         /\ \A x \in Run : x # r => server'[x] = server[x]
         /\ \A s \in Run : \A q \in inbox'[s] : \E p \in inbox[s] : q.from = p.from
  BY TypeParts DEF ServerInv, ServersTyped, Stopping, Alive

LEMMA ServerKilled ==
  ASSUME ServerInv, NEW r \in Run, Kill(r)
  PROVE  /\ ServersTyped' /\ server'[r] = "exited"
         /\ \A x \in Run : x # r => server'[x] = server[x]
         /\ \A s \in Run : \A q \in inbox'[s] : \E p \in inbox[s] : q.from = p.from
  <1>1. ServersTyped
    BY TypeParts DEF ServerInv
  <1> QED
    BY <1>1, KillType DEF ServersTyped, Kill

LEMMA CallGivenUp ==
  ASSUME ServerInv, NEW r \in Run, inbox' = Unheard(r), UNCHANGED <<server, rng>>
  PROVE  /\ ServersTyped'
         /\ \A s \in Run : /\ server'[s] = server[s]
                           /\ \A q \in inbox'[s] : \E p \in inbox[s] : q.from = p.from
  <1>1. ServersTyped
    BY TypeParts DEF ServerInv
  <1>2. ServersTyped'
    BY <1>1, UnheardType DEF ServersTyped
  <1>3. ASSUME NEW s \in Run, NEW q \in inbox'[s]
        PROVE  \E p \in inbox[s] : q.from = p.from
    <2>1. PICK p \in inbox[s] : q = IF p.from = r THEN [p EXCEPT !.heard = FALSE] ELSE p
      BY <1>3 DEF Unheard
    <2>2. p \in Requests
      BY <1>1 DEF ServersTyped
    <2>3. [p EXCEPT !.heard = FALSE].from = p.from
      BY <2>2 DEF Requests
    <2> QED
      BY <2>1, <2>3
  <1> QED
    BY <1>2, <1>3

LEMMA ServerIsThere ==
  ASSUME ServerInv, NEW r \in Run, pc[r] # "idle"
  PROVE  server[r] \in Alive \cup {"exited"}
  <1>1. server[r] # "none" /\ server[r] \in {"none", "exited"} \cup Alive
    BY Facts DEF PlaceHolds, ServersTyped
  <1> QED
    BY <1>1

-----------------------------------------------------------------------------
(* The steps of a run.                                                     *)

LEMMA StartInv ==
  ASSUME ServerInv, NEW r \in Run, Start(r)
  PROVE  ServerInv'
  <1>1. CASE FindExited(r)
    <2>1. /\ pc[r] = "starting" /\ server[r] = "exited" /\ End(r) /\ UNCHANGED <<serverVars, cut, events>>
      BY <1>1 DEF FindExited
    <2>2. server'[r] \notin Alive /\ server'[r] # "none"
      BY <2>1 DEF Alive, serverVars
    <2> QED
      BY <2>1, <2>2, ServersLeft, Facts, EndsInv
  <1>2. CASE Ping(r)
    <2>1. /\ pc[r] = "starting" /\ Ask(r, "pinging") /\ "pinging" \in DOMAIN Endpoint
          /\ UNCHANGED <<broken, episode, acts, spoke, serverVars, cut, events>>
      BY <1>2 DEF Ping, Endpoint
    <2>2. episode[r] = 0
      BY <2>1, Facts DEF PlaceHolds
    <2>3. RunsTyped /\ (CatchesExpired => spoke[r] \subseteq {r} \cup cut)
      BY Facts
    <2> QED
      BY <2>1, <2>2, <2>3, AsksInv DEF RunsTyped
  <1>3. CASE Ponged(r)
    <2>1. /\ pc[r] = "pinging" /\ Ask(r, "before") /\ "before" \in DOMAIN Endpoint
          /\ call[r] = "answered" /\ spoke' = [spoke EXCEPT ![r] = {answer[r].by}]
          /\ UNCHANGED <<broken, episode, acts, serverVars, cut, events>>
      BY <1>3 DEF Ponged, Answered, Endpoint
    <2>2. episode[r] = 0 /\ answer[r].by \in Run
      BY <2>1, Facts DEF PlaceHolds, Answers
    <2>3. RunsTyped /\ (CatchesExpired => answer[r].by \in {r} \cup cut)
      BY <2>1, Facts
    <2>4. /\ spoke' \in [Run -> SUBSET Run] /\ spoke'[r] = {answer[r].by}
          /\ \A x \in Run : x # r => spoke'[x] = spoke[x]
      BY <2>1, <2>2, <2>3 DEF RunsTyped
    <2> QED
      BY <2>1, <2>2, <2>3, <2>4, AsksInv DEF RunsTyped
  <1>4. CASE NoPong(r)
    <2>1. /\ pc[r] = "pinging" /\ Leave(r, "starting") /\ inbox' = Unheard(r)
          /\ UNCHANGED <<broken, episode, acts, spoke, server, rng, cut, events>>
      BY <1>4 DEF NoPong
    <2>2. server'[r] # "none" /\ broken' \subseteq Run /\ events' \in 0..MaxEvents
      BY <2>1, Facts DEF PlaceHolds, RunsTyped
    <2> QED
      BY <2>1, <2>2, CallGivenUp, LeavesInv
  <1>5. CASE StartExpires(r) /\ server[r] = "exited"
    <2>1. /\ pc[r] = "starting" /\ End(r) /\ UNCHANGED <<serverVars, cut, events>>
      BY <1>5 DEF StartExpires, serverVars
    <2>2. server'[r] \notin Alive /\ server'[r] # "none"
      BY <1>5, <2>1 DEF Alive, serverVars
    <2> QED
      BY <2>1, <2>2, ServersLeft, Facts, EndsInv
  <1>6. CASE StartExpires(r) /\ server[r] # "exited"
    <2>1. /\ pc[r] = "starting" /\ Leave(r, "abandoning")
          /\ server' = [server EXCEPT ![r] = Stopping[@]]
          /\ UNCHANGED <<broken, episode, acts, spoke, inbox, rng, cut, events>>
      BY <1>6 DEF StartExpires
    <2>2. server[r] \in Alive
      BY <1>6, <2>1, ServerIsThere
    <2>3. broken' \subseteq Run /\ events' \in 0..MaxEvents
      BY <2>1, Facts DEF RunsTyped
    <2> QED
      BY <2>1, <2>2, <2>3, ServerStopped, LeavesInv
  <1>7. CASE AbandonReturns(r)
    <2>1. /\ pc[r] = "abandoning" /\ server[r] = "exited" /\ End(r) /\ UNCHANGED <<serverVars, cut, events>>
      BY <1>7 DEF AbandonReturns
    <2>2. server'[r] \notin Alive /\ server'[r] # "none"
      BY <2>1 DEF Alive, serverVars
    <2> QED
      BY <2>1, <2>2, ServersLeft, Facts, EndsInv
  <1>8. CASE AbandonExpires(r)
    <2>1. /\ pc[r] = "abandoning" /\ End(r) /\ Kill(r) /\ UNCHANGED <<cut, events>>
      BY <1>8 DEF AbandonExpires
    <2>2. "exited" \notin Alive
      BY DEF Alive
    <2> QED
      BY <2>1, <2>2, ServerKilled, Facts, EndsInv
  <1> QED
    BY <1>1, <1>2, <1>3, <1>4, <1>5, <1>6, <1>7, <1>8 DEF Start

LEMMA AcceptFacts ==
  ASSUME ServerInv, NEW r \in Run, Accept(r)
  PROVE  /\ spoke' \in [Run -> SUBSET Run]
         /\ \A x \in Run : x # r => spoke'[x] = spoke[x]
         /\ CatchesExpired => spoke'[r] \subseteq {r} \cup cut
         /\ UNCHANGED <<broken, serverVars, cut, events>>
  <1>1. call[r] = "answered" /\ spoke' = [spoke EXCEPT ![r] = @ \cup {answer[r].by}]
    BY DEF Accept
  <1>2. answer[r].by \in Run
    BY <1>1, Facts DEF PlaceHolds, Answers
  <1>3. RunsTyped /\ (CatchesExpired => spoke[r] \cup {answer[r].by} \subseteq {r} \cup cut)
    BY <1>1, Facts
  <1>4. spoke \in [Run -> SUBSET Run]
    BY <1>3 DEF RunsTyped
  <1>5. spoke'[r] = spoke[r] \cup {answer[r].by}
    BY <1>1, <1>4
  <1>6. spoke' \in [Run -> SUBSET Run] /\ \A x \in Run : x # r => spoke'[x] = spoke[x]
    BY <1>1, <1>2, <1>4
  <1> QED
    BY <1>3, <1>5, <1>6 DEF Accept

LEMMA BeginEpisodeInv ==
  ASSUME ServerInv, NEW r \in Run, Accept(r), pc[r] # "idle", pc[r] # "ended",
         episode[r] < MaxEpisodes, BeginEpisode(r)
  PROVE  ServerInv'
  <1>1. RunsTyped
    BY Facts
  <1>2. /\ Ask(r, "seeding") /\ "seeding" \in DOMAIN Endpoint
        /\ episode' = [episode EXCEPT ![r] = @ + 1] /\ acts' = [acts EXCEPT ![r] = 0]
    BY DEF BeginEpisode, Endpoint
  <1>3. episode' \in [Run -> 0..MaxEpisodes] /\ episode'[r] # 0
        /\ \A x \in Run : x # r => episode'[x] = episode[x]
    BY <1>1, <1>2, BoundsAssumption DEF RunsTyped
  <1>4. acts' \in [Run -> 0..(MaxActs - 1)]
    BY <1>1, <1>2, BoundsAssumption DEF RunsTyped
  <1>5. broken' \subseteq Run
    BY <1>1, AcceptFacts DEF RunsTyped
  <1> QED
    BY <1>2, <1>3, <1>4, <1>5, AcceptFacts, AsksInv

\* The last answer; the run goes on to its finally clause.
LEMMA AcceptClosesInv ==
  ASSUME ServerInv, NEW r \in Run, Accept(r), pc[r] # "idle", pc[r] # "ended",
         Leave(r, "closing"), UNCHANGED <<episode, acts>>
  PROVE  ServerInv'
  <1>1. RunsTyped /\ cut \subseteq Run /\ events \in 0..MaxEvents
    BY Facts
  <1>2. server[r] # "none"
    BY Facts DEF PlaceHolds
  <1>3. /\ pc' \in [Run -> Places] /\ pc'[r] = "closing"
        /\ call' \in [Run -> {"none", "queued", "sent", "answered"}] /\ call'[r] = "none"
        /\ answer' \in [Run -> Answers \cup {None}]
        /\ \A x \in Run : x # r => pc'[x] = pc[x] /\ call'[x] = call[x] /\ answer'[x] = answer[x]
    BY <1>1, LeaveMoves DEF Places
  <1>4. /\ spoke' \in [Run -> SUBSET Run] /\ \A x \in Run : x # r => spoke'[x] = spoke[x]
        /\ CatchesExpired => spoke'[r] \subseteq {r} \cup cut
        /\ UNCHANGED <<broken, serverVars, cut, events>>
    BY AcceptFacts
  <1>5. RunsTyped' /\ cut' \subseteq Run /\ events' \in 0..MaxEvents
    BY <1>1, <1>3, <1>4 DEF RunsTyped
  <1>6. PlaceHolds(pc'[r], call'[r], answer'[r], episode'[r], server'[r])
    BY <1>2, <1>3, <1>4 DEF PlaceHolds, serverVars
  <1>7. /\ ServersTyped'
        /\ \A x \in Run : server'[x] = server[x] /\ episode'[x] = episode[x]
        /\ \A s \in Run : \A q \in inbox'[s] : \E p \in inbox[s] : q.from = p.from
    BY <1>4, ServersLeft
  <1>8. /\ pc'[r] # "idle" /\ pc'[r] # "ended" /\ call'[r] # "answered" /\ cut \subseteq cut'
        /\ CatchesExpired => spoke'[r] \subseteq {r} \cup cut'
    BY <1>3, <1>4
  <1> QED
    BY <1>3, <1>4, <1>5, <1>6, <1>7, <1>8, StepOfRun

LEMMA WorkInv ==
  ASSUME ServerInv, NEW r \in Run, Work(r)
  PROVE  ServerInv'
  <1> USE BoundsAssumption
  <1>0. RunsTyped /\ cut \subseteq Run /\ events \in 0..MaxEvents
    BY Facts
  <1>1. CASE StateBefore(r)
    <2>1. pc[r] = "before" /\ Accept(r) /\ BeginEpisode(r)
      BY <1>1 DEF StateBefore
    <2>2. episode[r] = 0
      BY <2>1, Facts DEF PlaceHolds
    <2> QED
      BY <2>1, <2>2, BeginEpisodeInv
  <1>2. CASE Seeded(r)
    <2>1. /\ pc[r] = "seeding" /\ Accept(r) /\ Ask(r, "acting") /\ "acting" \in DOMAIN Endpoint
          /\ UNCHANGED <<episode, acts>>
      BY <1>2 DEF Seeded, Endpoint
    <2>2. broken' \subseteq Run /\ episode' \in [Run -> 0..MaxEpisodes] /\ acts' \in [Run -> 0..(MaxActs - 1)]
      BY <1>0, <2>1, AcceptFacts DEF RunsTyped
    <2>3. \A x \in Run : x # r => episode'[x] = episode[x]
      BY <2>1
    <2> QED
      BY <2>1, <2>2, <2>3, AcceptFacts, AsksInv
  <1>3. CASE Acted(r) /\ ActsAgain(r) /\ Ask(r, "acting") /\ acts' = [acts EXCEPT ![r] = @ + 1]
             /\ UNCHANGED episode
    <2>1. pc[r] = "acting" /\ Accept(r) /\ "acting" \in DOMAIN Endpoint
      BY <1>3 DEF Acted, Endpoint
    <2>2. acts' \in [Run -> 0..(MaxActs - 1)]
      BY <1>0, <1>3 DEF RunsTyped, ActsAgain
    <2>3. broken' \subseteq Run /\ episode' \in [Run -> 0..MaxEpisodes]
      BY <1>0, <1>3, <2>1, AcceptFacts DEF RunsTyped
    <2>4. \A x \in Run : x # r => episode'[x] = episode[x]
      BY <1>3
    <2> QED
      BY <1>3, <2>1, <2>2, <2>3, <2>4, AcceptFacts, AsksInv
  <1>4. CASE Acted(r) /\ episode[r] < MaxEpisodes /\ BeginEpisode(r)
    <2>1. pc[r] = "acting" /\ Accept(r)
      BY <1>4 DEF Acted
    <2> QED
      BY <1>4, <2>1, BeginEpisodeInv
  <1>5. CASE Acted(r) /\ Ask(r, "after") /\ UNCHANGED <<episode, acts>>
    <2>1. pc[r] = "acting" /\ Accept(r) /\ "after" \in DOMAIN Endpoint
      BY <1>5 DEF Acted, Endpoint
    <2>2. broken' \subseteq Run /\ episode' \in [Run -> 0..MaxEpisodes] /\ acts' \in [Run -> 0..(MaxActs - 1)]
      BY <1>0, <1>5, <2>1, AcceptFacts DEF RunsTyped
    <2>3. \A x \in Run : x # r => episode'[x] = episode[x]
      BY <1>5
    <2> QED
      BY <1>5, <2>1, <2>2, <2>3, AcceptFacts, AsksInv
  <1>6. CASE StateAfter(r)
    <2>1. /\ pc[r] = "after" /\ Accept(r) /\ Leave(r, "closing") /\ UNCHANGED <<episode, acts>>
      BY <1>6 DEF StateAfter
    <2> QED
      BY <2>1, AcceptClosesInv
  <1>7. CASE CallTimesOut(r)
    <2>1. /\ pc[r] # "idle" /\ pc[r] # "ended" /\ Leave(r, "closing") /\ broken' = broken \cup {r}
          /\ inbox' = Unheard(r) /\ UNCHANGED <<episode, acts, spoke, server, rng, cut, events>>
      BY <1>7 DEF CallTimesOut, InTry
    <2>2. server'[r] # "none" /\ broken' \subseteq Run /\ events' \in 0..MaxEvents
      BY <1>0, <2>1, Facts DEF PlaceHolds, RunsTyped
    <2> QED
      BY <2>1, <2>2, CallGivenUp, LeavesInv
  <1>8. CASE Raises(r)
    <2>1. /\ pc[r] # "idle" /\ pc[r] # "ended" /\ Leave(r, "closing")
          /\ UNCHANGED <<broken, episode, acts, spoke, serverVars, cut>>
      BY <1>8 DEF Raises, InTry
    <2>2. events' \in 0..MaxEvents
      BY <1>0, <1>8 DEF Raises, Event
    <2>3. server'[r] # "none" /\ broken' \subseteq Run
      BY <1>0, <2>1, Facts DEF PlaceHolds, RunsTyped, serverVars
    <2> QED
      BY <2>1, <2>2, <2>3, ServersLeft, LeavesInv
  <1> QED
    BY <1>1, <1>2, <1>3, <1>4, <1>5, <1>6, <1>7, <1>8 DEF Work, Acted

LEMMA ShutdownInv ==
  ASSUME ServerInv, NEW r \in Run, Shutdown(r) \/ CloseRaises(r) \/ RunKilled(r)
  PROVE  ServerInv'
  <1>0. RunsTyped /\ cut \subseteq Run /\ events \in 0..MaxEvents
    BY Facts
  <1>1. CASE CloseEnvironment(r) /\ r \in broken
    <2>1. /\ pc[r] = "closing" /\ Leave(r, "polling")
          /\ UNCHANGED <<broken, episode, acts, spoke, serverVars, cut, events>>
      BY <1>1 DEF CloseEnvironment
    <2>2. server'[r] # "none" /\ broken' \subseteq Run
      BY <1>0, <2>1, Facts DEF PlaceHolds, RunsTyped, serverVars
    <2> QED
      BY <1>0, <2>1, <2>2, ServersLeft, LeavesInv
  <1>2. CASE CloseEnvironment(r) /\ r \notin broken
    <2>1. /\ pc[r] = "closing" /\ Ask(r, "killing") /\ "killing" \in DOMAIN Endpoint
          /\ UNCHANGED <<broken, episode, acts, spoke, serverVars, cut, events>>
      BY <1>2 DEF CloseEnvironment, Endpoint
    <2>2. CatchesExpired => spoke[r] \subseteq {r} \cup cut
      BY Facts
    <2> QED
      BY <1>0, <2>1, <2>2, AsksInv DEF RunsTyped
  <1>3. CASE KillCalled(r)
    <2>1. /\ pc[r] = "killing" /\ Leave(r, "polling") /\ inbox' = Unheard(r)
          /\ UNCHANGED <<broken, episode, acts, spoke, server, rng, cut, events>>
      BY <1>3 DEF KillCalled
    <2>2. server'[r] # "none" /\ broken' \subseteq Run
      BY <1>0, <2>1, Facts DEF PlaceHolds, RunsTyped
    <2> QED
      BY <1>0, <2>1, <2>2, CallGivenUp, LeavesInv
  <1>4. CASE Terminate(r) /\ server[r] = "exited"
    <2>1. /\ pc[r] = "polling" /\ End(r) /\ UNCHANGED <<serverVars, cut, events>>
      BY <1>4 DEF Terminate, serverVars
    <2>2. server'[r] \notin Alive /\ server'[r] # "none"
      BY <1>4, <2>1 DEF Alive, serverVars
    <2> QED
      BY <1>0, <2>1, <2>2, ServersLeft, EndsInv
  <1>5. CASE Terminate(r) /\ server[r] # "exited"
    <2>1. /\ pc[r] = "polling" /\ Leave(r, "waiting") /\ server' = [server EXCEPT ![r] = Stopping[@]]
          /\ UNCHANGED <<broken, episode, acts, spoke, inbox, rng, cut, events>>
      BY <1>5 DEF Terminate
    <2>2. server[r] \in Alive
      BY <1>5, <2>1, ServerIsThere
    <2>3. broken' \subseteq Run
      BY <1>0, <2>1 DEF RunsTyped
    <2> QED
      BY <1>0, <2>1, <2>2, <2>3, ServerStopped, LeavesInv
  <1>6. CASE WaitReturns(r)
    <2>1. /\ pc[r] = "waiting" /\ server[r] = "exited" /\ End(r) /\ UNCHANGED <<serverVars, cut, events>>
      BY <1>6 DEF WaitReturns
    <2>2. server'[r] \notin Alive /\ server'[r] # "none"
      BY <2>1 DEF Alive, serverVars
    <2> QED
      BY <1>0, <2>1, <2>2, ServersLeft, EndsInv
  <1>7. CASE WaitExpires(r) /\ CatchesExpired
    <2>1. /\ pc[r] = "waiting" /\ End(r) /\ Kill(r) /\ UNCHANGED <<cut, events>>
      BY <1>7 DEF WaitExpires
    <2>2. "exited" \notin Alive
      BY DEF Alive
    <2> QED
      BY <1>0, <2>1, <2>2, ServerKilled, EndsInv
  <1>8. CASE WaitExpires(r) /\ ~CatchesExpired
    <2>1. /\ pc[r] = "waiting" /\ End(r) /\ UNCHANGED <<serverVars, cut, events>>
      BY <1>8 DEF WaitExpires
    <2>2. server'[r] # "none"
      BY <2>1, Facts DEF PlaceHolds, serverVars
    <2> QED
      BY <1>0, <1>8, <2>1, <2>2, ServersLeft, EndsInv
  <1>9. CASE CloseRaises(r)
    <2>1. /\ pc[r] = "closing" /\ End(r) /\ cut' = cut \cup {r} /\ UNCHANGED serverVars
          /\ events' \in 0..MaxEvents
      BY <1>0, <1>9, BoundsAssumption DEF CloseRaises, Event
    <2>2. server'[r] # "none"
      BY <2>1, Facts DEF PlaceHolds, serverVars
    <2> QED
      BY <1>0, <2>1, <2>2, ServersLeft, EndsInv
  <1>10. CASE RunKilled(r)
    <2>1. /\ pc[r] # "idle" /\ pc[r] # "ended" /\ End(r) /\ cut' = cut \cup {r}
          /\ inbox' = Unheard(r) /\ UNCHANGED <<server, rng>> /\ events' \in 0..MaxEvents
      BY <1>0, <1>10, BoundsAssumption DEF RunKilled, Event, Unfinished
    <2>2. server'[r] # "none"
      BY <2>1, Facts DEF PlaceHolds
    <2> QED
      BY <1>0, <2>1, <2>2, CallGivenUp, EndsInv
  <1> QED
    BY <1>1, <1>2, <1>3, <1>4, <1>5, <1>6, <1>7, <1>8, <1>9, <1>10 DEF Shutdown

LEMMA LaunchInv ==
  ASSUME ServerInv, NEW r \in Run, Launch(r)
  PROVE  ServerInv'
  <1>1. RunsTyped /\ ServersTyped /\ cut \subseteq Run /\ events \in 0..MaxEvents
    BY Facts
  <1>2. /\ pc[r] = "idle" /\ \A x \in Run : x < r => pc[x] = "ended"
        /\ pc' = [pc EXCEPT ![r] = "starting"] /\ server' = [server EXCEPT ![r] = "loading"]
        /\ UNCHANGED <<call, answer, broken, episode, acts, spoke, inbox, rng, cut, events>>
    BY DEF Launch
  <1>3. /\ pc' \in [Run -> Places] /\ pc'[r] = "starting" /\ \A x \in Run : x # r => pc'[x] = pc[x]
    BY <1>1, <1>2 DEF RunsTyped, Places
  <1>4. /\ ServersTyped' /\ server'[r] = "loading" /\ \A x \in Run : x # r => server'[x] = server[x]
    BY <1>1, <1>2 DEF ServersTyped, Alive
  <1>5. ServerTypeOK'
    <2>1. RunsTyped'
      BY <1>1, <1>2, <1>3 DEF RunsTyped
    <2> QED
      BY <1>1, <1>2, <1>4, <2>1 DEF ServerTypeOK, RunsTyped, ServersTyped
  <1>6. PlacesHold'
    <2>1. PlaceHolds(pc'[r], call'[r], answer'[r], episode'[r], server'[r])
      BY <1>2, <1>3, <1>4, Facts DEF PlaceHolds, Endpoint
    <2> QED
      BY <1>2, <1>3, <1>4, <2>1 DEF ServerInv, PlacesHold
  <1>7. OneAfterTheOther'
    BY <1>2, <1>3 DEF ServerInv, OneAfterTheOther, Run
  <1>8. ASSUME CatchesExpired
        PROVE  NoServerOutlivesItsRun'
    BY <1>2, <1>3, <1>4, <1>8 DEF ServerInv, NoServerOutlivesItsRun
  <1>9. ASSUME CatchesExpired
        PROVE  OwnHolds'
    BY <1>2, <1>9 DEF ServerInv, OwnHolds, OwnServerAnswers
  <1> QED
    BY <1>5, <1>6, <1>7, <1>8, <1>9 DEF ServerInv

-----------------------------------------------------------------------------
(* The steps of a server.                                                  *)

\* A step of a server keeps the invariant when its requests and answers are its own.
LEMMA StepOfServer ==
  ASSUME ServerInv, UNCHANGED <<pc, broken, episode, acts, spoke, cut>>,
         call' \in [Run -> {"none", "queued", "sent", "answered"}],
         answer' \in [Run -> Answers \cup {None}],
         ServersTyped', events' \in 0..MaxEvents,
         \A x \in Run : /\ call'[x] = "queued" => call[x] = "queued"
                        /\ call'[x] = "answered" => answer'[x] \in Answers
                        /\ server'[x] = "none" <=> server[x] = "none"
                        /\ server'[x] \in Alive => server[x] \in Alive,
         CatchesExpired => /\ \A x \in Run : call'[x] = "answered" => answer'[x].by \in {x} \cup cut
                           /\ \A s \in Run : \A q \in inbox'[s] : s \in {q.from} \cup cut
  PROVE  ServerInv'
  <1>1. RunsTyped /\ cut \subseteq Run
    BY TypeParts DEF ServerInv
  <1>2. ServerTypeOK'
    BY <1>1 DEF ServerTypeOK, RunsTyped, ServersTyped
  <1>3. ASSUME NEW x \in Run
        PROVE  PlaceHolds(pc'[x], call'[x], answer'[x], episode'[x], server'[x])
    <2>1. PlaceHolds(pc[x], call[x], answer[x], episode[x], server[x])
      BY Facts
    <2>2. /\ call'[x] = "queued" => call[x] = "queued"
          /\ call'[x] = "answered" => answer'[x] \in Answers
      OBVIOUS
    <2>3. server'[x] = "none" <=> server[x] = "none"
      OBVIOUS
    <2>4. pc'[x] = pc[x] /\ episode'[x] = episode[x]
      OBVIOUS
    <2> QED
      BY <2>1, <2>2, <2>3, <2>4 DEF PlaceHolds
  <1>4. OneAfterTheOther'
    BY DEF ServerInv, OneAfterTheOther
  <1>5. ASSUME CatchesExpired
        PROVE  NoServerOutlivesItsRun'
    <2>1. NoServerOutlivesItsRun
      BY <1>5 DEF ServerInv
    <2>2. \A x \in Run : server'[x] \in Alive => server[x] \in Alive
      OBVIOUS
    <2> QED
      BY <2>1, <2>2 DEF NoServerOutlivesItsRun
  <1>6. ASSUME CatchesExpired
        PROVE  OwnHolds'
    <2>1. OwnServerAnswers'
      BY <1>6 DEF ServerInv, OwnHolds, OwnServerAnswers
    <2>2. /\ \A x \in Run : call'[x] = "answered" => answer'[x].by \in {x} \cup cut'
          /\ \A s \in Run : \A q \in inbox'[s] : s \in {q.from} \cup cut'
      BY <1>6
    <2> QED
      BY <2>1, <2>2 DEF OwnHolds
  <1>7. PlacesHold'
    BY <1>3 DEF PlacesHold
  <1> QED
    BY <1>2, <1>4, <1>5, <1>6, <1>7 DEF ServerInv

\* What an answer does to the client and to the inbox.
LEMMA ReplyFacts ==
  ASSUME ServerInv, NEW s \in Run, NEW q \in inbox[s], NEW ok \in BOOLEAN,
         NEW draw \in Draws \cup {None}, Reply(s, q, ok, draw)
  PROVE  /\ UNCHANGED <<pc, broken, episode, acts, spoke, cut>>
         /\ call' \in [Run -> {"none", "queued", "sent", "answered"}]
         /\ answer' \in [Run -> Answers \cup {None}]
         /\ inbox' \in [Run -> SUBSET Requests]
         /\ \A x \in Run : /\ call'[x] = "queued" => call[x] = "queued"
                           /\ call'[x] = "answered" => answer'[x] \in Answers
         /\ CatchesExpired => /\ \A x \in Run : call'[x] = "answered" => answer'[x].by \in {x} \cup cut
                              /\ \A t \in Run : \A p \in inbox'[t] : t \in {p.from} \cup cut
  <1>1. RunsTyped /\ ServersTyped
    BY TypeParts DEF ServerInv
  <1>2. q.from \in Run
    BY <1>1 DEF ServersTyped, Requests
  <1> DEFINE reply == [by |-> s, ok |-> ok, draw |-> draw]
  <1>3. reply \in Answers /\ reply.by = s
    BY DEF Answers
  <1> HIDE DEF reply
  <1>4. /\ inbox' = [inbox EXCEPT ![s] = @ \ {q}]
        /\ \/ call' = [call EXCEPT ![q.from] = "answered"] /\ answer' = [answer EXCEPT ![q.from] = reply]
           \/ UNCHANGED <<call, answer>>
    BY DEF Reply, reply
  <1>5. /\ inbox' \in [Run -> SUBSET Requests]
        /\ \A t \in Run : inbox'[t] \subseteq inbox[t]
    BY <1>1, <1>4 DEF ServersTyped
  <1>6. /\ call' \in [Run -> {"none", "queued", "sent", "answered"}]
        /\ answer' \in [Run -> Answers \cup {None}]
        /\ \A x \in Run : \/ call'[x] = call[x] /\ answer'[x] = answer[x]
                          \/ x = q.from /\ call'[x] = "answered" /\ answer'[x] = reply
    <2>1. /\ call \in [Run -> {"none", "queued", "sent", "answered"}]
          /\ answer \in [Run -> Answers \cup {None}]
      BY <1>1 DEF RunsTyped
    <2>2. CASE call' = [call EXCEPT ![q.from] = "answered"] /\ answer' = [answer EXCEPT ![q.from] = reply]
      BY <1>2, <1>3, <2>1, <2>2
    <2>3. CASE UNCHANGED <<call, answer>>
      BY <2>1, <2>3
    <2> QED
      BY <1>4, <2>2, <2>3
  <1>7. \A x \in Run : call[x] = "answered" => answer[x] \in Answers
    BY Facts DEF PlaceHolds
  <1>8. ASSUME CatchesExpired
        PROVE  /\ \A x \in Run : call'[x] = "answered" => answer'[x].by \in {x} \cup cut
               /\ \A t \in Run : \A p \in inbox'[t] : t \in {p.from} \cup cut
    <2>1. /\ s \in {q.from} \cup cut
          /\ \A x \in Run : call[x] = "answered" => answer[x].by \in {x} \cup cut
          /\ \A t \in Run : \A p \in inbox[t] : t \in {p.from} \cup cut
      BY <1>8 DEF ServerInv, OwnHolds
    <2> QED
      BY <1>3, <1>5, <1>6, <2>1
  <1>9. UNCHANGED <<pc, broken, episode, acts, spoke, cut>>
    BY DEF Reply
  <1>10. \A x \in Run : call'[x] = "queued" => call[x] = "queued"
    BY <1>6
  <1>11. \A x \in Run : call'[x] = "answered" => answer'[x] \in Answers
    BY <1>3, <1>6, <1>7
  <1> QED
    BY <1>5, <1>6, <1>8, <1>9, <1>10, <1>11

\* A server that only changes its own state, and forgets requests at most.
LEMMA ServerChanges ==
  ASSUME ServerInv, NEW s \in Run, server[s] \in Alive, UNCHANGED <<runVars, cut>>,
         NEW state \in Alive \cup {"exited"}, server' = [server EXCEPT ![s] = state],
         ServersTyped', events' \in 0..MaxEvents,
         \A t \in Run : inbox'[t] \subseteq inbox[t]
  PROVE  ServerInv'
  <1>1. RunsTyped /\ ServersTyped
    BY TypeParts DEF ServerInv
  <1>2. UNCHANGED <<pc, call, answer, broken, episode, acts, spoke, cut>>
    BY DEF runVars
  <1>3. /\ call' \in [Run -> {"none", "queued", "sent", "answered"}]
        /\ answer' \in [Run -> Answers \cup {None}]
    BY <1>1, <1>2 DEF RunsTyped
  <1>4. ASSUME NEW x \in Run
        PROVE  /\ call'[x] = "queued" => call[x] = "queued"
               /\ call'[x] = "answered" => answer'[x] \in Answers
               /\ server'[x] = "none" <=> server[x] = "none"
               /\ server'[x] \in Alive => server[x] \in Alive
    <2>1. call'[x] = "answered" => answer'[x] \in Answers
      BY <1>2, Facts DEF PlaceHolds
    <2>2. server'[x] = IF x = s THEN state ELSE server[x]
      BY <1>1 DEF ServersTyped
    <2>3. state # "none" /\ server[s] # "none"
      BY DEF Alive
    <2> QED
      BY <1>2, <2>1, <2>2, <2>3
  <1>5. CatchesExpired => /\ \A x \in Run : call'[x] = "answered" => answer'[x].by \in {x} \cup cut
                          /\ \A t \in Run : \A q \in inbox'[t] : t \in {q.from} \cup cut
    BY <1>2 DEF ServerInv, OwnHolds
  <1> QED
    BY <1>2, <1>3, <1>4, <1>5, StepOfServer

LEMMA AnswersInv ==
  ASSUME ServerInv, NEW s \in Run, NEW q \in inbox[s], NEW endpoints, Handling(s, q, endpoints),
         NEW ok \in BOOLEAN, NEW draw \in Draws \cup {None}, Reply(s, q, ok, draw),
         server' = server \/ server' = [server EXCEPT ![s] = "leaving"],
         rng' \in [Run -> Draws], events' \in 0..MaxEvents
  PROVE  ServerInv'
  <1>1. ServersTyped /\ server[s] = "bound"
    BY TypeParts DEF ServerInv, Handling
  <1>2. inbox' \in [Run -> SUBSET Requests]
    BY ReplyFacts
  <1>3. server' \in [Run -> {"none", "exited"} \cup Alive]
    BY <1>1 DEF ServersTyped, Alive
  <1>4. ServersTyped'
    BY <1>2, <1>3 DEF ServersTyped
  <1>5. ASSUME NEW x \in Run
        PROVE  /\ server'[x] = "none" <=> server[x] = "none"
               /\ server'[x] \in Alive => server[x] \in Alive
    <2>1. server'[x] = server[x] \/ (x = s /\ server'[x] = "leaving")
      BY <1>1 DEF ServersTyped
    <2> QED
      BY <1>1, <2>1 DEF Alive
  <1>6. /\ UNCHANGED <<pc, broken, episode, acts, spoke, cut>>
        /\ call' \in [Run -> {"none", "queued", "sent", "answered"}]
        /\ answer' \in [Run -> Answers \cup {None}]
        /\ \A x \in Run : call'[x] = "queued" => call[x] = "queued"
        /\ \A x \in Run : call'[x] = "answered" => answer'[x] \in Answers
    BY ReplyFacts
  <1>7. CatchesExpired => /\ \A x \in Run : call'[x] = "answered" => answer'[x].by \in {x} \cup cut
                          /\ \A t \in Run : \A p \in inbox'[t] : t \in {p.from} \cup cut
    BY ReplyFacts
  <1> QED
    BY <1>4, <1>5, <1>6, <1>7, StepOfServer

LEMMA ServeInv ==
  ASSUME ServerInv, NEW s \in Run, Serve(s)
  PROVE  ServerInv'
  <1>0. RunsTyped /\ ServersTyped /\ events \in 0..MaxEvents
    BY Facts
  <1>1. CASE Bind(s)
    <2> DEFINE state == IF \E x \in Run : server[x] \in Holding THEN "exited" ELSE "bound"
    <2>1. /\ server[s] = "loading" /\ server' = [server EXCEPT ![s] = state]
          /\ UNCHANGED <<runVars, inbox, rng, cut, events>>
      BY <1>1 DEF Bind
    <2>2. state \in Alive \cup {"exited"} /\ server[s] \in Alive
      BY <2>1 DEF Alive
    <2> HIDE DEF state
    <2>3. ServersTyped' /\ \A t \in Run : inbox'[t] \subseteq inbox[t]
      BY <1>0, <2>1, <2>2 DEF ServersTyped
    <2> QED
      BY <1>0, <2>1, <2>2, <2>3, ServerChanges
  <1>2. CASE ServerExits(s) \/ ServerCrashes(s)
    <2>1. /\ server[s] \in Alive /\ Kill(s) /\ UNCHANGED <<runVars, cut>> /\ events' \in 0..MaxEvents
      BY <1>0, <1>2, BoundsAssumption DEF ServerExits, ServerCrashes, Event, Alive
    <2>2. server' = [server EXCEPT ![s] = "exited"] /\ \A t \in Run : inbox'[t] \subseteq inbox[t]
      BY <1>0, <2>1 DEF Kill, ServersTyped
    <2> QED
      BY <2>1, <2>2, ServerKilled, ServerChanges
  <1>3. ASSUME NEW q \in inbox[s], GetState(s, q)
        PROVE  ServerInv'
    <2>1. /\ Handling(s, q, {"ping", "get_policy_state"}) /\ Reply(s, q, TRUE, None)
          /\ UNCHANGED <<server, rng, events>>
      BY <1>3 DEF GetState
    <2> QED
      BY <1>0, <2>1, AnswersInv DEF ServersTyped
  <1>4. ASSUME NEW q \in inbox[s], SetSeed(s, q)
        PROVE  ServerInv'
    <2>1. /\ Handling(s, q, {"set_seed"}) /\ Reply(s, q, TRUE, None)
          /\ rng' = [rng EXCEPT ![s] = [seed |-> q.seed, draw |-> 0]] /\ UNCHANGED <<server, events>>
      BY <1>4 DEF SetSeed
    <2>2. [seed |-> q.seed, draw |-> 0] \in Draws
      BY <1>0 DEF ServersTyped, Requests, Draws
    <2>3. rng' \in [Run -> Draws]
      BY <1>0, <2>1, <2>2 DEF ServersTyped
    <2> QED
      BY <1>0, <2>1, <2>3, AnswersInv
  <1>5. ASSUME NEW q \in inbox[s], GetAction(s, q)
        PROVE  ServerInv'
    <2>1. /\ Handling(s, q, {"get_action"}) /\ Reply(s, q, TRUE, rng'[s])
          /\ rng' = [rng EXCEPT ![s].draw = @ + 1] /\ UNCHANGED <<server, events>>
      BY <1>5 DEF GetAction
    <2>2. rng[s] \in Draws /\ rng \in [Run -> Draws]
      BY <1>0 DEF ServersTyped
    <2>3. [rng[s] EXCEPT !.draw = @ + 1] \in Draws
      BY <2>2 DEF Draws
    <2>4. rng' \in [Run -> Draws] /\ rng'[s] \in Draws
      BY <2>1, <2>2, <2>3
    <2> QED
      BY <1>0, <2>1, <2>4, AnswersInv
  <1>6. ASSUME NEW q \in inbox[s], KillEndpoint(s, q)
        PROVE  ServerInv'
    <2>1. /\ Handling(s, q, {"kill"}) /\ Reply(s, q, TRUE, None)
          /\ server' = [server EXCEPT ![s] = "leaving"] /\ UNCHANGED <<rng, events>>
      BY <1>6 DEF KillEndpoint
    <2> QED
      BY <1>0, <2>1, AnswersInv DEF ServersTyped
  <1>7. ASSUME NEW q \in inbox[s], EndpointRaises(s, q)
        PROVE  ServerInv'
    <2>1. /\ Handling(s, q, {"get_policy_state", "set_seed", "get_action"}) /\ Reply(s, q, FALSE, None)
          /\ Event /\ UNCHANGED <<server, rng>>
      BY <1>7 DEF EndpointRaises
    <2>2. events' \in 0..MaxEvents
      BY <1>0, <2>1, BoundsAssumption DEF Event
    <2> QED
      BY <1>0, <2>1, <2>2, AnswersInv DEF ServersTyped
  <1> QED
    BY <1>1, <1>2, <1>3, <1>4, <1>5, <1>6, <1>7 DEF Serve

LEMMA DeliverInv ==
  ASSUME ServerInv, NEW r \in Run, NEW s \in Run, Deliver(r, s)
  PROVE  ServerInv'
  <1> DEFINE request == [from |-> r, endpoint |-> Endpoint[pc[r]], heard |-> TRUE,
                         seed |-> IF pc[r] = "seeding" THEN <<r, episode[r]>> ELSE None]
  <1>1. /\ call[r] = "queued" /\ server[s] = "bound" /\ call' = [call EXCEPT ![r] = "sent"]
        /\ inbox' = [inbox EXCEPT ![s] = @ \cup {request}]
        /\ UNCHANGED <<pc, answer, broken, episode, acts, spoke, server, rng, cut, events>>
    BY DEF Deliver
  <1>2. RunsTyped /\ ServersTyped /\ events \in 0..MaxEvents
    BY Facts
  <1>3. pc[r] \in DOMAIN Endpoint /\ (pc[r] = "seeding" => episode[r] # 0)
    BY <1>1, Facts DEF PlaceHolds
  <1>4. request \in Requests /\ request.from = r
    <2>1. pc[r] = "seeding" => <<r, episode[r]>> \in Seeds
      BY <1>2, <1>3, BoundsAssumption DEF RunsTyped, Seeds
    <2>2. Endpoint[pc[r]] \in {Endpoint[p] : p \in DOMAIN Endpoint}
      BY <1>3
    <2>3. (IF pc[r] = "seeding" THEN <<r, episode[r]>> ELSE None) \in Seeds \cup {None}
      BY <2>1
    <2> QED
      BY <2>2, <2>3 DEF Requests
  <1> HIDE DEF request
  <1>5. /\ inbox' \in [Run -> SUBSET Requests]
        /\ \A t \in Run : \A q \in inbox'[t] : q \in inbox[t] \/ (t = s /\ q = request)
    BY <1>1, <1>2, <1>4 DEF ServersTyped
  <1>6. /\ call' \in [Run -> {"none", "queued", "sent", "answered"}]
        /\ \A x \in Run : call'[x] = call[x] \/ call'[x] = "sent"
    BY <1>1, <1>2 DEF RunsTyped
  <1>7. ServersTyped' /\ answer' \in [Run -> Answers \cup {None}]
    BY <1>1, <1>2, <1>5 DEF RunsTyped, ServersTyped
  \* A server that is bound while r waits is that of r or of an earlier run.
  <1>8. ASSUME CatchesExpired
        PROVE  s \in {r} \cup cut
    <2>1. pc[r] # "idle" /\ pc[r] # "ended" /\ pc[s] # "idle"
      BY <1>1, <1>3, Facts DEF PlaceHolds, Endpoint
    <2>2. r \in Int /\ s \in Int
      BY DEF Run
    <2>3. s < r \/ s = r
      BY <2>1, <2>2 DEF ServerInv, OneAfterTheOther
    <2>4. s < r => pc[s] = "ended"
      BY <2>1 DEF ServerInv, OneAfterTheOther
    <2>5. pc[s] = "ended" => s \in cut
      BY <1>1, <1>8 DEF ServerInv, NoServerOutlivesItsRun, Alive
    <2> QED
      BY <2>3, <2>4, <2>5
  <1>9. ASSUME CatchesExpired
        PROVE  /\ \A x \in Run : call'[x] = "answered" => answer'[x].by \in {x} \cup cut
               /\ \A t \in Run : \A q \in inbox'[t] : t \in {q.from} \cup cut
    <2>1. /\ \A x \in Run : call[x] = "answered" => answer[x].by \in {x} \cup cut
          /\ \A t \in Run : \A q \in inbox[t] : t \in {q.from} \cup cut
      BY <1>9 DEF ServerInv, OwnHolds
    <2> QED
      BY <1>1, <1>4, <1>5, <1>6, <1>8, <1>9, <2>1
  <1>10. ASSUME NEW x \in Run
         PROVE  /\ call'[x] = "queued" => call[x] = "queued"
                /\ call'[x] = "answered" => answer'[x] \in Answers
                /\ server'[x] = "none" <=> server[x] = "none"
                /\ server'[x] \in Alive => server[x] \in Alive
    BY <1>1, <1>6, Facts DEF PlaceHolds
  <1> QED
    BY <1>1, <1>2, <1>6, <1>7, <1>9, <1>10, StepOfServer

-----------------------------------------------------------------------------
LEMMA InitInv ==
  ASSUME Init
  PROVE  ServerInv
  <1>1. Unseeded \in Draws
    BY DEF Unseeded, Draws
  <1>2. ServerTypeOK
    BY <1>1, BoundsAssumption DEF Init, ServerTypeOK, Places
  <1>3. PlacesHold
    BY DEF Init, PlacesHold, PlaceHolds
  <1>4. OneAfterTheOther
    BY DEF Init, OneAfterTheOther
  <1>5. NoServerOutlivesItsRun /\ OwnHolds
    BY DEF Init, NoServerOutlivesItsRun, OwnHolds, OwnServerAnswers
  <1> QED
    BY <1>2, <1>3, <1>4, <1>5 DEF ServerInv

LEMMA NextInv ==
  ASSUME ServerInv, [Next]_vars
  PROVE  ServerInv'
  <1>1. ASSUME NEW r \in Run,
               Launch(r) \/ Start(r) \/ Work(r) \/ Shutdown(r) \/ CloseRaises(r) \/ RunKilled(r)
        PROVE  ServerInv'
    BY <1>1, LaunchInv, StartInv, WorkInv, ShutdownInv
  <1>2. ASSUME NEW s \in Run, Serve(s)
        PROVE  ServerInv'
    BY <1>2, ServeInv
  <1>3. ASSUME NEW r \in Run, NEW s \in Run, Deliver(r, s)
        PROVE  ServerInv'
    BY <1>3, DeliverInv
  <1>4. ASSUME UNCHANGED vars
        PROVE  ServerInv'
    BY <1>4
    DEF vars, runVars, serverVars, ServerInv, ServerTypeOK, PlacesHold, PlaceHolds, OneAfterTheOther,
        NoServerOutlivesItsRun, OwnHolds, OwnServerAnswers
  <1> QED
    BY <1>1, <1>2, <1>3, <1>4 DEF Next

LEMMA ServerInvAlways == Spec => []ServerInv
  BY InitInv, NextInv, PTL DEF Spec

-----------------------------------------------------------------------------
(* The generator of a server: SeedInv adds to the invariant what requests  *)
(* are in the inboxes, and what they do to the generators.                 *)

\* A call is under way only where a run makes one.
CallsHold == \A r \in Run : call[r] # "none" => pc[r] \in DOMAIN Endpoint

\* The places of a run that has not given up its calls.
Calling == {"starting", "pinging"} \cup InTry

\* The request of the call a run has under way.
RequestOf(r) ==
  [from |-> r, endpoint |-> Endpoint[pc[r]], heard |-> TRUE,
   seed |-> IF pc[r] = "seeding" THEN <<r, episode[r]>> ELSE None]

\* A server is asked by later runs only when its own is over.  The request that is
\* heard is the one of the call under way, and as long as a run has not given up
\* its calls those it does not wait for any more are pings.
RequestHolds(s, q) ==
  /\ q.from >= s /\ pc[q.from] # "idle"
  /\ q.from # s => pc[s] = "ended"
  /\ q.heard => call[q.from] = "sent" /\ q = RequestOf(q.from)
  /\ ~q.heard /\ pc[q.from] \in Calling => q.endpoint = "ping"

RequestsHold ==
  /\ \A s \in Run : \A q \in inbox[s] : RequestHolds(s, q)
  /\ \A s, t \in Run : \A q \in inbox[s], p \in inbox[t] :
       q.heard /\ p.heard /\ q.from = p.from => s = t

DrawOf(r, n) == [seed |-> <<r, episode[r]>>, draw |-> n]

\* The generator of a server that alone has answered its run.
DrawHolds(r) ==
  /\ pc[r] = "seeding" => acts[r] = 0
  /\ pc[r] = "seeding" /\ Answered(r) /\ answer[r].by = r /\ server[r] = "bound" =>
       rng[r] = DrawOf(r, 0)
  /\ pc[r] = "acting" /\ spoke[r] \subseteq {r} =>
       /\ call[r] \in {"queued", "sent"} /\ server[r] = "bound" => rng[r] = DrawOf(r, acts[r])
       /\ Answered(r) /\ answer[r].by = r =>
            /\ answer[r].draw = DrawOf(r, acts[r] + 1)
            /\ server[r] = "bound" => rng[r] = answer[r].draw

\* A server that has not bound the port has answered no one.
SpokeHolds(r) ==
  /\ pc[r] \in InTry => spoke[r] # {}
  /\ r \in spoke[r] \/ (call[r] = "answered" /\ answer[r].by = r) =>
       server[r] \notin {"none", "loading"}

SeedInv ==
  /\ CallsHold /\ RequestsHold
  /\ \A r \in Run : SpokeHolds(r) /\ DrawHolds(r)

\* What a step of one run does at most.
RunMoves(r) ==
  /\ \A x \in Run : x # r => /\ pc'[x] = pc[x] /\ call'[x] = call[x] /\ answer'[x] = answer[x]
                             /\ episode'[x] = episode[x] /\ acts'[x] = acts[x] /\ spoke'[x] = spoke[x]
  /\ \A x \in Run : /\ server'[x] = "bound" => server[x] = "bound" /\ rng'[x] = rng[x]
                    /\ server[x] \notin {"none", "loading"} => server'[x] \notin {"none", "loading"}
  /\ call'[r] \in {"none", "queued"} /\ (call'[r] = "queued" => pc'[r] \in DOMAIN Endpoint)
  /\ pc'[r] # "idle" /\ (pc[r] = "ended" => pc'[r] = "ended")
  /\ pc'[r] \in Calling => pc[r] \in Calling \cup {"idle"}
  /\ \/ call[r] # "sent" /\ \A s \in Run : inbox'[s] \subseteq inbox[s]
     \/ inbox' = Unheard(r) /\ (pc'[r] \in Calling => pc[r] = "pinging")

\* The requests that are left after a step of one run.
LEMMA RequestsLeft ==
  ASSUME ServerInv, SeedInv, NEW r \in Run, RunMoves(r), NEW s \in Run, NEW q \in inbox'[s]
  PROVE  \E p \in inbox[s] :
           /\ q.from = p.from /\ q.from \in Run
           /\ q.from # r => q = p
           /\ q.heard => q = p /\ q.from # r
           /\ q.from = r /\ pc'[r] \in Calling => q.endpoint = "ping"
<1>1. ServersTyped
  BY Facts
<1>2. \A t \in Run : \A p \in inbox[t] : p \in Requests /\ RequestHolds(t, p)
  BY <1>1 DEF ServersTyped, SeedInv, RequestsHold
<1>3. CASE call[r] # "sent" /\ \A t \in Run : inbox'[t] \subseteq inbox[t]
  <2>1. q \in inbox[s] /\ q \in Requests /\ RequestHolds(s, q)
    BY <1>2, <1>3
  <2>2. q.heard => q.from # r
    BY <1>3, <2>1 DEF RequestHolds
  <2>3. q.heard \in BOOLEAN /\ q.from \in Run
    BY <2>1 DEF Requests
  <2>4. ASSUME q.from = r, pc'[r] \in Calling
        PROVE  q.endpoint = "ping"
    <3>1. pc[r] \in Calling
      BY <2>1, <2>4 DEF RunMoves, RequestHolds
    <3> QED
      BY <2>1, <2>2, <2>4, <3>1 DEF RequestHolds
  <2> QED
    BY <2>1, <2>2, <2>3, <2>4
<1>4. CASE inbox' = Unheard(r) /\ (pc'[r] \in Calling => pc[r] = "pinging")
  <2>1. PICK p \in inbox[s] : q = IF p.from = r THEN [p EXCEPT !.heard = FALSE] ELSE p
    BY <1>4 DEF Unheard
  <2>2. p \in Requests /\ RequestHolds(s, p)
    BY <1>2
  <2>3. /\ q.from = p.from /\ q.endpoint = p.endpoint /\ q.from \in Run
        /\ q.from = r => q.heard = FALSE
        /\ q.from # r => q = p
    BY <2>1, <2>2 DEF Requests
  <2>4. ASSUME q.from = r, pc'[r] \in Calling
        PROVE  q.endpoint = "ping"
    <3>1. pc[r] = "pinging" /\ pc[r] \in Calling /\ p.from = r
      BY <1>4, <2>3, <2>4 DEF Calling
    <3>2. CASE p.heard
      <4>1. p = RequestOf(r)
        BY <2>2, <3>1, <3>2 DEF RequestHolds
      <4>2. p.endpoint = Endpoint["pinging"]
        BY <3>1, <4>1 DEF RequestOf
      <4> QED
        BY <2>3, <4>2 DEF Endpoint
    <3>3. CASE ~p.heard
      BY <2>2, <2>3, <3>1, <3>3 DEF RequestHolds
    <3> QED
      BY <3>2, <3>3
  <2> QED
    BY <2>3, <2>4
<1> QED
  BY <1>3, <1>4 DEF RunMoves

LEMMA SeedStepOfRun ==
  ASSUME ServerInv, SeedInv, NEW r \in Run, RunMoves(r), SpokeHolds(r)', DrawHolds(r)'
  PROVE  SeedInv'
<1>1. CallsHold'
  <2>1. ASSUME NEW x \in Run, call'[x] # "none"
        PROVE  pc'[x] \in DOMAIN Endpoint
    <3>1. CASE x = r
      BY <2>1, <3>1 DEF RunMoves
    <3>2. CASE x # r
      BY <2>1, <3>2 DEF RunMoves, SeedInv, CallsHold
    <3> QED
      BY <3>1, <3>2
  <2> QED
    BY <2>1 DEF CallsHold
<1>2. ASSUME NEW s \in Run, NEW q \in inbox'[s]
      PROVE  RequestHolds(s, q)'
  <2>1. PICK p \in inbox[s] :
          /\ q.from = p.from /\ q.from \in Run
          /\ q.from # r => q = p
          /\ q.heard => q = p /\ q.from # r
          /\ q.from = r /\ pc'[r] \in Calling => q.endpoint = "ping"
    BY RequestsLeft
  <2>2. RequestHolds(s, p)
    BY DEF SeedInv, RequestsHold
  <2>3. /\ pc[s] = "ended" => pc'[s] = "ended"
        /\ pc[q.from] # "idle" => pc'[q.from] # "idle"
    BY <2>1 DEF RunMoves
  <2>4. CASE q.from = r
    BY <2>1, <2>2, <2>3, <2>4 DEF RequestHolds, Calling
  <2>5. CASE q.from # r
    <3>1. /\ q = p /\ pc'[q.from] = pc[q.from] /\ call'[q.from] = call[q.from]
          /\ episode'[q.from] = episode[q.from]
      BY <2>1, <2>5 DEF RunMoves
    <3>2. RequestOf(q.from)' = RequestOf(q.from)
      BY <3>1 DEF RequestOf
    <3> QED
      BY <2>2, <2>3, <3>1, <3>2 DEF RequestHolds, Calling
  <2> QED
    BY <2>4, <2>5
<1>3. ASSUME NEW s \in Run, NEW t \in Run, NEW q \in inbox'[s], NEW p \in inbox'[t],
             q.heard, p.heard, q.from = p.from
      PROVE  s = t
  <2>1. q \in inbox[s]
    BY <1>3, RequestsLeft
  <2>2. p \in inbox[t]
    BY <1>3, RequestsLeft
  <2> QED
    BY <1>3, <2>1, <2>2 DEF SeedInv, RequestsHold
<1>4. ASSUME NEW x \in Run, x # r
      PROVE  SpokeHolds(x)' /\ DrawHolds(x)'
  <2>1. /\ pc'[x] = pc[x] /\ call'[x] = call[x] /\ answer'[x] = answer[x]
        /\ episode'[x] = episode[x] /\ acts'[x] = acts[x] /\ spoke'[x] = spoke[x]
        /\ server'[x] = "bound" => server[x] = "bound" /\ rng'[x] = rng[x]
        /\ server[x] \notin {"none", "loading"} => server'[x] \notin {"none", "loading"}
    BY <1>4 DEF RunMoves
  <2>2. SpokeHolds(x) /\ DrawHolds(x)
    BY DEF SeedInv
  <2>3. SpokeHolds(x)'
    BY <2>1, <2>2 DEF SpokeHolds
  <2>4. DrawHolds(x)'
    BY <2>1, <2>2 DEF DrawHolds, DrawOf, Answered
  <2> QED
    BY <2>3, <2>4
<1>5. \A x \in Run : SpokeHolds(x)' /\ DrawHolds(x)'
  BY <1>4
<1> QED
  BY <1>1, <1>2, <1>3, <1>5 DEF SeedInv, RequestsHold

\* A step after which the run neither seeds nor acts.
LEMMA QuietStep ==
  ASSUME ServerInv, SeedInv, NEW r \in Run, RunMoves(r), pc'[r] \notin {"seeding", "acting"},
         spoke'[r] \subseteq spoke[r] \cup (IF call[r] = "answered" THEN {answer[r].by} ELSE {}),
         pc'[r] \in InTry => spoke'[r] # {}
  PROVE  SeedInv'
<1>1. SpokeHolds(r)'
  <2>1. SpokeHolds(r)
    BY DEF SeedInv
  <2>2. /\ call'[r] # "answered"
        /\ server[r] \notin {"none", "loading"} => server'[r] \notin {"none", "loading"}
    BY DEF RunMoves
  <2> QED
    BY <2>1, <2>2 DEF SpokeHolds
<1>2. DrawHolds(r)'
  BY DEF DrawHolds
<1> QED
  BY <1>1, <1>2, SeedStepOfRun

\* What becomes of the servers when a run leaves them alone, or stops or kills its own.
LEMMA ServersMove ==
  ASSUME ServerInv, NEW r \in Run,
         \/ UNCHANGED <<server, rng>>
         \/ server[r] \in Alive /\ server' = [server EXCEPT ![r] = Stopping[@]] /\ UNCHANGED rng
         \/ Kill(r)
  PROVE  \A x \in Run : /\ server'[x] = "bound" => server[x] = "bound" /\ rng'[x] = rng[x]
                        /\ server[x] \notin {"none", "loading"} => server'[x] \notin {"none", "loading"}
<1>1. ServersTyped
  BY Facts
<1>2. CASE UNCHANGED <<server, rng>>
  BY <1>2
<1>3. CASE server[r] \in Alive /\ server' = [server EXCEPT ![r] = Stopping[@]] /\ UNCHANGED rng
  BY <1>1, <1>3 DEF ServersTyped, Stopping, Alive
<1>4. CASE Kill(r)
  BY <1>1, <1>4 DEF ServersTyped, Kill
<1> QED
  BY <1>2, <1>3, <1>4

\* The places in which no call is under way.
LEMMA NoCall ==
  ASSUME SeedInv, NEW r \in Run, pc[r] \in {"idle", "starting", "abandoning", "closing", "polling", "waiting", "ended"}
  PROVE  call[r] = "none"
BY DEF SeedInv, CallsHold, Endpoint

LEMMA SeedStart ==
  ASSUME ServerInv, SeedInv, NEW r \in Run, Start(r)
  PROVE  SeedInv'
<1>0. RunsTyped /\ ServersTyped
  BY Facts
<1> USE DEF Calling, InTry
<1>1. ASSUME pc[r] \in {"starting", "abandoning"}, End(r), UNCHANGED <<server, rng, inbox>> \/ Kill(r)
      PROVE  SeedInv'
  <2>1. /\ pc'[r] = "ended" /\ call'[r] = "none" /\ spoke'[r] = {}
        /\ \A x \in Run : x # r => /\ pc'[x] = pc[x] /\ call'[x] = call[x] /\ answer'[x] = answer[x]
                                   /\ episode'[x] = episode[x] /\ spoke'[x] = spoke[x]
    BY <1>0, <1>1, EndMoves
  <2>2. \A x \in Run : x # r => acts'[x] = acts[x]
    BY <1>0, <1>1 DEF End, RunsTyped
  <2>3. call[r] # "sent" /\ \A s \in Run : inbox'[s] \subseteq inbox[s]
    BY <1>0, <1>1, NoCall DEF Kill, ServersTyped
  <2>4. \A x \in Run : /\ server'[x] = "bound" => server[x] = "bound" /\ rng'[x] = rng[x]
                       /\ server[x] \notin {"none", "loading"} => server'[x] \notin {"none", "loading"}
    BY <1>1, ServersMove
  <2>5. RunMoves(r)
    BY <1>1, <2>1, <2>2, <2>3, <2>4 DEF RunMoves
  <2> QED
    BY <2>1, <2>5, QuietStep
<1>2. CASE FindExited(r)
  BY <1>1, <1>2 DEF FindExited, serverVars
<1>3. CASE AbandonReturns(r) \/ AbandonExpires(r)
  BY <1>1, <1>3 DEF AbandonReturns, AbandonExpires, serverVars
<1>4. CASE StartExpires(r) /\ server[r] = "exited"
  BY <1>1, <1>4 DEF StartExpires
<1>5. CASE StartExpires(r) /\ server[r] # "exited"
  <2>1. /\ pc[r] = "starting" /\ Leave(r, "abandoning") /\ UNCHANGED <<episode, acts, spoke, inbox, rng>>
        /\ server' = [server EXCEPT ![r] = Stopping[@]]
    BY <1>5 DEF StartExpires
  <2>2. server[r] \in Alive
    BY <1>5, <2>1, ServerIsThere
  <2>3. \A x \in Run : /\ server'[x] = "bound" => server[x] = "bound" /\ rng'[x] = rng[x]
                       /\ server[x] \notin {"none", "loading"} => server'[x] \notin {"none", "loading"}
    BY <2>1, <2>2, ServersMove
  <2>4. call[r] # "sent"
    BY <2>1, NoCall
  <2>5. /\ pc'[r] = "abandoning" /\ call'[r] = "none"
        /\ \A x \in Run : x # r => pc'[x] = pc[x] /\ call'[x] = call[x] /\ answer'[x] = answer[x]
    BY <1>0, <2>1, LeaveMoves DEF Places
  <2>6. RunMoves(r)
    BY <2>1, <2>3, <2>4, <2>5 DEF RunMoves
  <2> QED
    BY <2>1, <2>5, <2>6, QuietStep
<1>6. CASE Ping(r)
  <2>1. /\ pc[r] = "starting" /\ Ask(r, "pinging") /\ "pinging" \in DOMAIN Endpoint
        /\ UNCHANGED <<episode, acts, spoke, server, inbox, rng>>
    BY <1>6 DEF Ping, Endpoint, serverVars
  <2>2. /\ pc'[r] = "pinging" /\ call'[r] = "queued"
        /\ \A x \in Run : x # r => pc'[x] = pc[x] /\ call'[x] = call[x] /\ answer'[x] = answer[x]
    BY <1>0, <2>1, AskMoves
  <2>3. call[r] # "sent"
    BY <2>1, NoCall
  <2>4. RunMoves(r)
    BY <2>1, <2>2, <2>3 DEF RunMoves
  <2> QED
    BY <2>1, <2>2, <2>4, QuietStep
<1>7. CASE Ponged(r)
  <2>1. /\ pc[r] = "pinging" /\ call[r] = "answered" /\ Ask(r, "before") /\ "before" \in DOMAIN Endpoint
        /\ spoke' = [spoke EXCEPT ![r] = {answer[r].by}]
        /\ UNCHANGED <<episode, acts, server, inbox, rng>>
    BY <1>7 DEF Ponged, Answered, Endpoint, serverVars
  <2>2. /\ pc'[r] = "before" /\ call'[r] = "queued"
        /\ \A x \in Run : x # r => pc'[x] = pc[x] /\ call'[x] = call[x] /\ answer'[x] = answer[x]
    BY <1>0, <2>1, AskMoves
  <2>3. spoke'[r] = {answer[r].by} /\ \A x \in Run : x # r => spoke'[x] = spoke[x]
    BY <1>0, <2>1 DEF RunsTyped
  <2>4. RunMoves(r)
    BY <2>1, <2>2, <2>3 DEF RunMoves
  <2> QED
    BY <2>1, <2>2, <2>3, <2>4, QuietStep
<1>8. CASE NoPong(r)
  <2>1. /\ pc[r] = "pinging" /\ Leave(r, "starting") /\ inbox' = Unheard(r)
        /\ UNCHANGED <<episode, acts, spoke, server, rng>>
    BY <1>8 DEF NoPong
  <2>2. /\ pc'[r] = "starting" /\ call'[r] = "none"
        /\ \A x \in Run : x # r => pc'[x] = pc[x] /\ call'[x] = call[x] /\ answer'[x] = answer[x]
    BY <1>0, <2>1, LeaveMoves DEF Places
  <2>3. RunMoves(r)
    BY <2>1, <2>2 DEF RunMoves
  <2> QED
    BY <2>1, <2>2, <2>3, QuietStep
<1> QED
  BY <1>2, <1>3, <1>4, <1>5, <1>6, <1>7, <1>8 DEF Start

\* An episode begins with the seed of its own.
LEMMA SeedBegins ==
  ASSUME ServerInv, SeedInv, NEW r \in Run, pc[r] \in InTry, Accept(r), BeginEpisode(r)
  PROVE  SeedInv'
<1>0. RunsTyped
  BY Facts
<1>1. /\ call[r] = "answered" /\ spoke' = [spoke EXCEPT ![r] = @ \cup {answer[r].by}]
      /\ UNCHANGED <<server, inbox, rng>>
  BY DEF Accept, serverVars
<1>2. /\ Ask(r, "seeding") /\ "seeding" \in DOMAIN Endpoint
      /\ episode' = [episode EXCEPT ![r] = @ + 1] /\ acts' = [acts EXCEPT ![r] = 0]
  BY DEF BeginEpisode, Endpoint
<1>3. /\ pc'[r] = "seeding" /\ call'[r] = "queued"
      /\ \A x \in Run : x # r => pc'[x] = pc[x] /\ call'[x] = call[x] /\ answer'[x] = answer[x]
  BY <1>0, <1>2, AskMoves
<1>4. /\ spoke'[r] = spoke[r] \cup {answer[r].by} /\ acts'[r] = 0
      /\ \A x \in Run : x # r => spoke'[x] = spoke[x] /\ episode'[x] = episode[x] /\ acts'[x] = acts[x]
  BY <1>0, <1>1, <1>2 DEF RunsTyped
<1>5. pc[r] # "idle" /\ pc[r] # "ended" /\ pc[r] \in Calling
  BY DEF InTry, Calling
<1>6. RunMoves(r)
  BY <1>1, <1>2, <1>3, <1>4, <1>5 DEF RunMoves
<1>7. SpokeHolds(r)'
  <2>1. SpokeHolds(r)
    BY DEF SeedInv
  <2> QED
    BY <1>1, <1>3, <1>4, <2>1 DEF SpokeHolds
<1>8. DrawHolds(r)'
  BY <1>3, <1>4 DEF DrawHolds, Answered
<1> QED
  BY <1>6, <1>7, <1>8, SeedStepOfRun

\* An action is asked for; the generator is where the seed or the last action left it.
LEMMA SeedActs ==
  ASSUME ServerInv, SeedInv, NEW r \in Run, pc[r] \in {"seeding", "acting"}, Accept(r), Ask(r, "acting"),
         UNCHANGED episode,
         \/ pc[r] = "seeding" /\ UNCHANGED acts
         \/ pc[r] = "acting" /\ acts' = [acts EXCEPT ![r] = @ + 1]
  PROVE  SeedInv'
<1>0. RunsTyped
  BY Facts
<1>1. /\ call[r] = "answered" /\ answer[r].ok /\ spoke' = [spoke EXCEPT ![r] = @ \cup {answer[r].by}]
      /\ UNCHANGED <<server, inbox, rng>>
  BY DEF Accept, serverVars
<1>2. "acting" \in DOMAIN Endpoint
  BY DEF Endpoint
<1>3. /\ pc'[r] = "acting" /\ call'[r] = "queued"
      /\ \A x \in Run : x # r => pc'[x] = pc[x] /\ call'[x] = call[x] /\ answer'[x] = answer[x]
  BY <1>0, <1>2, AskMoves
<1>4. /\ spoke'[r] = spoke[r] \cup {answer[r].by}
      /\ \A x \in Run : x # r => spoke'[x] = spoke[x] /\ acts'[x] = acts[x]
      /\ acts'[r] = IF pc[r] = "seeding" THEN acts[r] ELSE acts[r] + 1
  BY <1>0, <1>1 DEF RunsTyped
<1>5. pc[r] # "idle" /\ pc[r] # "ended" /\ pc[r] \in Calling
  BY DEF InTry, Calling
<1>6. RunMoves(r)
  BY <1>1, <1>2, <1>3, <1>4, <1>5 DEF RunMoves
<1>7. SpokeHolds(r) /\ DrawHolds(r)
  BY DEF SeedInv
<1>8. SpokeHolds(r)'
  BY <1>1, <1>3, <1>4, <1>7 DEF SpokeHolds
<1>9. DrawHolds(r)'
  <2>1. ASSUME spoke'[r] \subseteq {r}, server'[r] = "bound"
        PROVE  rng'[r] = DrawOf(r, acts'[r])
    <3>1. spoke[r] \subseteq {r} /\ answer[r].by = r
      BY <1>4, <2>1
    <3>2. CASE pc[r] = "seeding"
      BY <1>1, <1>4, <1>7, <2>1, <3>1, <3>2 DEF DrawHolds, Answered
    <3>3. CASE pc[r] = "acting"
      BY <1>1, <1>4, <1>7, <2>1, <3>1, <3>3 DEF DrawHolds, Answered
    <3> QED
      BY <3>2, <3>3
  <2>2. \A n : DrawOf(r, n)' = DrawOf(r, n)
    BY DEF DrawOf
  <2> QED
    BY <1>3, <2>1, <2>2 DEF DrawHolds, DrawOf, Answered
<1> QED
  BY <1>6, <1>8, <1>9, SeedStepOfRun

\* The run gives up its calls: the answer is taken or not, the request unheard.
LEMMA SeedLeaves ==
  ASSUME ServerInv, SeedInv, NEW r \in Run, pc[r] # "idle", pc[r] # "ended",
         NEW place \in {"closing", "polling"}, Leave(r, place), UNCHANGED <<episode, acts, server, rng>>,
         \/ call[r] # "sent" /\ UNCHANGED inbox
         \/ inbox' = Unheard(r),
         \/ UNCHANGED spoke
         \/ call[r] = "answered" /\ spoke' = [spoke EXCEPT ![r] = @ \cup {answer[r].by}]
  PROVE  SeedInv'
<1>0. RunsTyped
  BY Facts
<1>1. place \in Places /\ place \notin InTry /\ place \notin Calling /\ place \notin {"seeding", "acting"}
      /\ place # "idle"
  BY DEF Places, InTry, Calling
<1>2. /\ pc'[r] = place /\ call'[r] = "none"
      /\ \A x \in Run : x # r => pc'[x] = pc[x] /\ call'[x] = call[x] /\ answer'[x] = answer[x]
  BY <1>0, <1>1, LeaveMoves
<1>3. /\ spoke'[r] \subseteq spoke[r] \cup (IF call[r] = "answered" THEN {answer[r].by} ELSE {})
      /\ \A x \in Run : x # r => spoke'[x] = spoke[x]
  BY <1>0 DEF RunsTyped
<1>4. RunMoves(r)
  BY <1>1, <1>2, <1>3 DEF RunMoves
<1> QED
  BY <1>1, <1>2, <1>3, <1>4, QuietStep

LEMMA SeedWork ==
  ASSUME ServerInv, SeedInv, NEW r \in Run, Work(r)
  PROVE  SeedInv'
<1>0. RunsTyped
  BY Facts
<1>1. CASE StateBefore(r)
  BY <1>1, SeedBegins DEF StateBefore, InTry
<1>2. CASE Seeded(r)
  <2>1. pc[r] = "seeding" /\ Accept(r) /\ Ask(r, "acting") /\ UNCHANGED <<episode, acts>>
    BY <1>2 DEF Seeded
  <2> QED
    BY <2>1, SeedActs
<1>3. CASE Acted(r)
  <2>1. pc[r] = "acting" /\ pc[r] \in InTry /\ Accept(r)
    BY <1>3 DEF Acted, InTry
  <2>2. CASE Ask(r, "acting") /\ acts' = [acts EXCEPT ![r] = @ + 1] /\ UNCHANGED episode
    BY <2>1, <2>2, SeedActs
  <2>3. CASE BeginEpisode(r)
    BY <2>1, <2>3, SeedBegins
  <2>4. CASE Ask(r, "after") /\ UNCHANGED <<episode, acts>>
    <3>1. /\ call[r] = "answered" /\ spoke' = [spoke EXCEPT ![r] = @ \cup {answer[r].by}]
          /\ UNCHANGED <<server, inbox, rng>> /\ "after" \in DOMAIN Endpoint
      BY <2>1 DEF Accept, serverVars, Endpoint
    <3>2. /\ pc'[r] = "after" /\ call'[r] = "queued"
          /\ \A x \in Run : x # r => pc'[x] = pc[x] /\ call'[x] = call[x] /\ answer'[x] = answer[x]
      BY <1>0, <2>4, <3>1, AskMoves
    <3>3. /\ spoke'[r] = spoke[r] \cup {answer[r].by} /\ \A x \in Run : x # r => spoke'[x] = spoke[x]
      BY <1>0, <3>1 DEF RunsTyped
    <3>4. RunMoves(r)
      BY <2>1, <2>4, <3>1, <3>2, <3>3 DEF RunMoves, Calling
    <3> QED
      BY <3>1, <3>2, <3>3, <3>4, QuietStep
  <2> QED
    BY <1>3, <2>2, <2>3, <2>4 DEF Acted
<1>4. CASE StateAfter(r)
  <2>1. /\ pc[r] = "after" /\ Leave(r, "closing") /\ UNCHANGED <<episode, acts, server, rng, inbox>>
        /\ call[r] = "answered" /\ spoke' = [spoke EXCEPT ![r] = @ \cup {answer[r].by}]
    BY <1>4 DEF StateAfter, Accept, serverVars
  <2> QED
    BY <2>1, SeedLeaves
<1>5. CASE CallTimesOut(r)
  <2>1. /\ pc[r] \in InTry /\ Leave(r, "closing") /\ inbox' = Unheard(r)
        /\ UNCHANGED <<episode, acts, spoke, server, rng>>
    BY <1>5 DEF CallTimesOut
  <2> QED
    BY <2>1, SeedLeaves DEF InTry
<1>6. CASE Raises(r)
  <2>1. /\ pc[r] \in InTry /\ call[r] = "answered" /\ Leave(r, "closing")
        /\ UNCHANGED <<episode, acts, spoke, server, rng, inbox>>
    BY <1>6 DEF Raises, serverVars
  <2> QED
    BY <2>1, SeedLeaves DEF InTry
<1> QED
  BY <1>1, <1>2, <1>3, <1>4, <1>5, <1>6 DEF Work

LEMMA SeedEnds ==
  ASSUME ServerInv, SeedInv, NEW r \in Run, pc[r] # "idle", pc[r] # "ended", End(r),
         \/ pc[r] \in {"closing", "polling", "waiting"} /\ (UNCHANGED <<server, rng, inbox>> \/ Kill(r))
         \/ UNCHANGED <<server, rng>> /\ inbox' = Unheard(r)
  PROVE  SeedInv'
<1>0. RunsTyped /\ ServersTyped
  BY Facts
<1>1. /\ pc'[r] = "ended" /\ call'[r] = "none" /\ spoke'[r] = {}
      /\ \A x \in Run : x # r => /\ pc'[x] = pc[x] /\ call'[x] = call[x] /\ answer'[x] = answer[x]
                                 /\ episode'[x] = episode[x] /\ spoke'[x] = spoke[x]
  BY <1>0, EndMoves
<1>2. \A x \in Run : x # r => acts'[x] = acts[x]
  BY <1>0 DEF End, RunsTyped
<1>3. \/ call[r] # "sent" /\ \A s \in Run : inbox'[s] \subseteq inbox[s]
      \/ inbox' = Unheard(r)
  BY <1>0, NoCall DEF Kill, ServersTyped
<1>4. \A x \in Run : /\ server'[x] = "bound" => server[x] = "bound" /\ rng'[x] = rng[x]
                     /\ server[x] \notin {"none", "loading"} => server'[x] \notin {"none", "loading"}
  BY ServersMove
<1>5. RunMoves(r)
  BY <1>1, <1>2, <1>3, <1>4 DEF RunMoves, Calling, InTry
<1> QED
  BY <1>1, <1>5, QuietStep DEF InTry

LEMMA SeedShutdown ==
  ASSUME ServerInv, SeedInv, NEW r \in Run, Shutdown(r) \/ CloseRaises(r) \/ RunKilled(r)
  PROVE  SeedInv'
<1>0. RunsTyped
  BY Facts
<1>1. CASE CloseEnvironment(r) /\ r \in broken
  <2>1. /\ pc[r] = "closing" /\ Leave(r, "polling") /\ UNCHANGED <<episode, acts, spoke, server, rng, inbox>>
    BY <1>1 DEF CloseEnvironment, serverVars
  <2>2. call[r] # "sent"
    BY <2>1, NoCall
  <2> QED
    BY <2>1, <2>2, SeedLeaves
<1>2. CASE CloseEnvironment(r) /\ r \notin broken
  <2>1. /\ pc[r] = "closing" /\ Ask(r, "killing") /\ "killing" \in DOMAIN Endpoint
        /\ UNCHANGED <<episode, acts, spoke, server, rng, inbox>>
    BY <1>2 DEF CloseEnvironment, Endpoint, serverVars
  <2>2. /\ pc'[r] = "killing" /\ call'[r] = "queued"
        /\ \A x \in Run : x # r => pc'[x] = pc[x] /\ call'[x] = call[x] /\ answer'[x] = answer[x]
    BY <1>0, <2>1, AskMoves
  <2>3. call[r] # "sent"
    BY <2>1, NoCall
  <2>4. RunMoves(r)
    BY <2>1, <2>2, <2>3 DEF RunMoves, Calling, InTry
  <2> QED
    BY <2>1, <2>2, <2>4, QuietStep DEF InTry
<1>3. CASE KillCalled(r)
  <2>1. /\ pc[r] = "killing" /\ Leave(r, "polling") /\ inbox' = Unheard(r)
        /\ UNCHANGED <<episode, acts, spoke, server, rng>>
    BY <1>3 DEF KillCalled
  <2> QED
    BY <2>1, SeedLeaves
<1>4. CASE Terminate(r) /\ server[r] # "exited"
  <2>1. /\ pc[r] = "polling" /\ Leave(r, "waiting") /\ UNCHANGED <<episode, acts, spoke, inbox, rng>>
        /\ server' = [server EXCEPT ![r] = Stopping[@]]
    BY <1>4 DEF Terminate
  <2>2. server[r] \in Alive
    BY <1>4, <2>1, ServerIsThere
  <2>3. \A x \in Run : /\ server'[x] = "bound" => server[x] = "bound" /\ rng'[x] = rng[x]
                       /\ server[x] \notin {"none", "loading"} => server'[x] \notin {"none", "loading"}
    BY <2>1, <2>2, ServersMove
  <2>4. call[r] # "sent"
    BY <2>1, NoCall
  <2>5. /\ pc'[r] = "waiting" /\ call'[r] = "none"
        /\ \A x \in Run : x # r => pc'[x] = pc[x] /\ call'[x] = call[x] /\ answer'[x] = answer[x]
    BY <1>0, <2>1, LeaveMoves DEF Places
  <2>6. RunMoves(r)
    BY <2>1, <2>3, <2>4, <2>5 DEF RunMoves, Calling, InTry
  <2> QED
    BY <2>1, <2>5, <2>6, QuietStep DEF InTry
<1>5. CASE Terminate(r) /\ server[r] = "exited"
  <2>1. pc[r] = "polling" /\ End(r) /\ UNCHANGED <<server, rng, inbox>>
    BY <1>5 DEF Terminate
  <2> QED
    BY <2>1, SeedEnds
<1>6. CASE WaitReturns(r) \/ WaitExpires(r)
  <2>1. pc[r] = "waiting" /\ End(r) /\ (UNCHANGED <<server, rng, inbox>> \/ Kill(r))
    BY <1>6 DEF WaitReturns, WaitExpires, serverVars
  <2> QED
    BY <2>1, SeedEnds
<1>7. CASE CloseRaises(r)
  <2>1. pc[r] = "closing" /\ End(r) /\ UNCHANGED <<server, rng, inbox>>
    BY <1>7 DEF CloseRaises, serverVars
  <2> QED
    BY <2>1, SeedEnds
<1>8. CASE RunKilled(r)
  <2>1. /\ pc[r] # "idle" /\ pc[r] # "ended" /\ End(r) /\ UNCHANGED <<server, rng>>
        /\ inbox' = Unheard(r)
    BY <1>8 DEF RunKilled, Unfinished
  <2> QED
    BY <2>1, SeedEnds
<1> QED
  BY <1>1, <1>2, <1>3, <1>4, <1>5, <1>6, <1>7, <1>8 DEF Shutdown

LEMMA SeedLaunch ==
  ASSUME ServerInv, SeedInv, NEW r \in Run, Launch(r)
  PROVE  SeedInv'
<1>1. /\ RunsTyped /\ ServersTyped /\ PlaceHolds(pc[r], call[r], answer[r], episode[r], server[r])
  BY Facts
<1>2. /\ pc[r] = "idle" /\ pc' = [pc EXCEPT ![r] = "starting"]
      /\ server' = [server EXCEPT ![r] = "loading"]
      /\ UNCHANGED <<call, answer, episode, acts, spoke, inbox, rng>>
  BY DEF Launch
<1>3. server[r] = "none" /\ call[r] = "none"
  BY <1>1, <1>2, NoCall DEF PlaceHolds
<1>4. pc'[r] = "starting" /\ \A x \in Run : x # r => pc'[x] = pc[x]
  BY <1>1, <1>2 DEF RunsTyped
<1>5. server'[r] = "loading" /\ \A x \in Run : x # r => server'[x] = server[x]
  BY <1>1, <1>2 DEF ServersTyped
<1>6. RunMoves(r)
  BY <1>2, <1>3, <1>4, <1>5 DEF RunMoves, Calling
<1> QED
  BY <1>2, <1>4, <1>6, QuietStep DEF InTry

\* A server that binds the port has answered no one; one that is gone is not asked.
LEMMA SeedServerMoves ==
  ASSUME ServerInv, SeedInv, NEW s \in Run, Bind(s) \/ ServerExits(s) \/ ServerCrashes(s)
  PROVE  SeedInv'
<1>1. RunsTyped /\ ServersTyped
  BY Facts
<1>2. UNCHANGED <<pc, call, answer, broken, episode, acts, spoke>>
  BY DEF Bind, ServerExits, ServerCrashes, runVars
<1>3. \A t \in Run : inbox'[t] \subseteq inbox[t]
  BY <1>1 DEF Bind, ServerExits, ServerCrashes, Kill, ServersTyped
<1>4. \A x \in Run : /\ server'[x] = "bound" => server[x] \in {"bound", "loading"} /\ rng'[x] = rng[x]
                     /\ server[x] \notin {"none", "loading"} => server'[x] \notin {"none", "loading"}
  <2>1. CASE Bind(s)
    <3> DEFINE state == IF \E x \in Run : server[x] \in Holding THEN "exited" ELSE "bound"
    <3>1. server[s] = "loading" /\ server' = [server EXCEPT ![s] = state] /\ UNCHANGED rng
      BY <2>1 DEF Bind
    <3>2. state \in {"exited", "bound"}
      OBVIOUS
    <3> HIDE DEF state
    <3> QED
      BY <1>1, <3>1, <3>2 DEF ServersTyped
  <2>2. CASE ServerExits(s) \/ ServerCrashes(s)
    BY <1>1, <2>2 DEF ServerExits, ServerCrashes, Kill, ServersTyped
  <2> QED
    BY <2>1, <2>2
<1>5. CallsHold'
  BY <1>2 DEF SeedInv, CallsHold
<1>6. RequestsHold'
  <2>1. \A q : RequestOf(q.from)' = RequestOf(q.from)
    BY <1>2 DEF RequestOf
  <2>2. \A t \in Run : \A q \in inbox[t] : RequestHolds(t, q)'
    BY <1>2, <2>1 DEF SeedInv, RequestsHold, RequestHolds
  <2> QED
    BY <1>3, <2>2 DEF SeedInv, RequestsHold
<1>7. ASSUME NEW x \in Run
      PROVE  SpokeHolds(x)' /\ DrawHolds(x)'
  <2>1. SpokeHolds(x) /\ DrawHolds(x)
    BY DEF SeedInv
  <2>2. SpokeHolds(x)'
    BY <1>2, <1>4, <2>1 DEF SpokeHolds
  <2>3. CASE server[x] = "loading"
    <3>1. ~ (pc[x] = "acting" /\ spoke[x] \subseteq {x})
      BY <2>1, <2>3 DEF SpokeHolds, InTry
    <3>2. ~ (Answered(x) /\ answer[x].by = x)
      BY <2>1, <2>3 DEF SpokeHolds, Answered
    <3> QED
      BY <1>2, <2>1, <2>2, <3>1, <3>2 DEF DrawHolds, Answered
  <2>4. CASE server[x] # "loading"
    <3>1. server'[x] = "bound" => server[x] = "bound" /\ rng'[x] = rng[x]
      BY <1>4, <2>4
    <3> QED
      BY <1>2, <2>1, <2>2, <3>1 DEF DrawHolds, DrawOf, Answered
  <2> QED
    BY <2>3, <2>4
<1> QED
  BY <1>5, <1>6, <1>7 DEF SeedInv

\* What the handling of a request does to the generator.
Draw(s, q, ok, draw) ==
  \/ q.endpoint \notin {"set_seed", "get_action"} /\ rng'[s] = rng[s]
  \/ ~ok /\ rng'[s] = rng[s]
  \/ q.endpoint = "set_seed" /\ rng'[s] = [seed |-> q.seed, draw |-> 0]
  \/ q.endpoint = "get_action" /\ rng'[s] = [rng[s] EXCEPT !.draw = @ + 1] /\ draw = rng'[s]

\* A server handles one request.
LEMMA SeedReplies ==
  ASSUME ServerInv, SeedInv, NEW s \in Run, NEW q \in inbox[s], server[s] = "bound",
         NEW ok \in BOOLEAN, NEW draw \in Draws \cup {None}, Reply(s, q, ok, draw), Draw(s, q, ok, draw),
         \A x \in Run : x # s => server'[x] = server[x] /\ rng'[x] = rng[x],
         server'[s] \notin {"none", "loading"}
  PROVE  SeedInv'
<1>1. RunsTyped /\ ServersTyped /\ q \in Requests /\ q.from \in Run
  BY Facts DEF ServersTyped, Requests
<1> DEFINE reply == [by |-> s, ok |-> ok, draw |-> draw]
<1>2. /\ UNCHANGED <<pc, episode, acts, spoke>> /\ inbox' = [inbox EXCEPT ![s] = @ \ {q}]
      /\ IF q.heard
         THEN call' = [call EXCEPT ![q.from] = "answered"] /\ answer' = [answer EXCEPT ![q.from] = reply]
         ELSE UNCHANGED <<call, answer>>
  BY DEF Reply
<1>3. reply.by = s /\ reply.ok = ok /\ reply.draw = draw
  OBVIOUS
<1> HIDE DEF reply
<1>4. /\ \A t \in Run : inbox'[t] \subseteq inbox[t]
      /\ q \notin inbox'[s]
  BY <1>1, <1>2 DEF ServersTyped
<1>5. \A x \in Run : \/ call'[x] = call[x] /\ answer'[x] = answer[x] /\ ~(q.heard /\ x = q.from)
                     \/ call'[x] = "answered" /\ answer'[x] = reply /\ x = q.from /\ q.heard
  BY <1>1, <1>2 DEF RunsTyped
<1>6. RequestHolds(s, q) /\ \A x \in Run : SpokeHolds(x) /\ DrawHolds(x)
  BY DEF SeedInv, RequestsHold
<1>7. CallsHold'
  <2>1. q.heard => call[q.from] # "none"
    BY <1>6 DEF RequestHolds
  <2> QED
    BY <1>2, <1>5, <2>1 DEF SeedInv, CallsHold
<1>8. RequestsHold'
  <2>1. ASSUME NEW t \in Run, NEW p \in inbox'[t]
        PROVE  RequestHolds(t, p)'
    <3>1. p \in inbox[t] /\ RequestHolds(t, p) /\ p.from \in Run
      BY <1>1, <1>4 DEF SeedInv, RequestsHold, ServersTyped, Requests
    <3>2. p.heard => ~(q.heard /\ p.from = q.from)
      <4>1. ASSUME p.heard, q.heard, p.from = q.from
            PROVE  FALSE
        <5>1. t = s
          BY <3>1, <4>1 DEF SeedInv, RequestsHold
        <5>2. p = q
          BY <1>6, <3>1, <4>1 DEF RequestHolds
        <5> QED
          BY <1>4, <5>1, <5>2
      <4> QED
        BY <4>1
    <3>3. p.heard => call'[p.from] = call[p.from]
      BY <1>5, <3>1, <3>2
    <3>4. RequestOf(p.from)' = RequestOf(p.from)
      BY <1>2 DEF RequestOf
    <3> QED
      BY <1>2, <3>1, <3>3, <3>4 DEF RequestHolds
  <2> QED
    BY <1>4, <2>1 DEF SeedInv, RequestsHold
<1>9. ASSUME NEW x \in Run
      PROVE  SpokeHolds(x)'
  <2>1. SpokeHolds(x)
    BY <1>6
  <2>2. server[x] \notin {"none", "loading"} => server'[x] \notin {"none", "loading"}
    OBVIOUS
  <2>3. call'[x] = "answered" /\ answer'[x].by = x =>
          x = s \/ (call[x] = "answered" /\ answer[x].by = x)
    BY <1>3, <1>5
  <2> QED
    BY <1>2, <2>1, <2>2, <2>3 DEF SpokeHolds
<1>10. ASSUME NEW x \in Run, x # s
       PROVE  DrawHolds(x)'
  <2>1. DrawHolds(x) /\ server'[x] = server[x] /\ rng'[x] = rng[x]
    BY <1>6, <1>10
  <2>2. Answered(x)' /\ answer'[x].by = x => Answered(x) /\ answer[x].by = x /\ answer'[x] = answer[x]
    BY <1>3, <1>5, <1>10 DEF Answered
  <2>3. call'[x] \in {"queued", "sent"} => call[x] = call'[x]
    BY <1>5
  <2> QED
    BY <1>2, <2>1, <2>2, <2>3 DEF DrawHolds, DrawOf
<1>11. DrawHolds(s)'
  <2>1. DrawHolds(s) /\ SpokeHolds(s)
    BY <1>6
  <2>2. CASE pc[s] \notin {"seeding", "acting"}
    BY <1>2, <2>2 DEF DrawHolds
  <2>3. CASE pc[s] \in {"seeding", "acting"} /\ ~q.heard
    <3>1. q.from = s /\ q.endpoint = "ping"
      BY <1>6, <2>3 DEF RequestHolds, Calling, InTry
    <3>2. rng'[s] = rng[s]
      BY <3>1 DEF Draw
    <3>3. call'[s] = call[s] /\ answer'[s] = answer[s]
      BY <1>2, <2>3
    <3> QED
      BY <1>2, <2>1, <3>2, <3>3 DEF DrawHolds, DrawOf, Answered
  <2>4. CASE pc[s] = "seeding" /\ q.heard
    <3>1. q.from = s
      BY <1>6, <2>4 DEF RequestHolds
    <3>2. q = RequestOf(s)
      BY <1>6, <2>4, <3>1 DEF RequestHolds
    <3>3. q.endpoint = "set_seed" /\ q.seed = <<s, episode[s]>>
      BY <2>4, <3>2 DEF RequestOf, Endpoint
    <3>4. ok => rng'[s] = DrawOf(s, 0)
      BY <3>3 DEF Draw, DrawOf
    <3>5. Answered(s)' => ok
      BY <1>3, <1>5, <2>4, <3>1 DEF Answered
    <3> QED
      BY <1>2, <2>1, <2>4, <3>4, <3>5 DEF DrawHolds, DrawOf
  <2>5. CASE pc[s] = "acting" /\ q.heard
    <3>1. q.from = s
      BY <1>6, <2>5 DEF RequestHolds
    <3>2. q = RequestOf(s) /\ call[s] = "sent"
      BY <1>6, <2>5, <3>1 DEF RequestHolds
    <3>3. q.endpoint = "get_action"
      BY <2>5, <3>2 DEF RequestOf, Endpoint
    <3>4. spoke[s] \subseteq {s} => rng[s] = DrawOf(s, acts[s])
      BY <2>1, <2>5, <3>2 DEF DrawHolds
    <3>5. ok => draw = rng'[s] /\ rng'[s] = [rng[s] EXCEPT !.draw = @ + 1]
      BY <3>3 DEF Draw
    <3>6. ok /\ spoke[s] \subseteq {s} => draw = DrawOf(s, acts[s] + 1) /\ rng'[s] = draw
      BY <3>4, <3>5 DEF DrawOf
    <3>7. (Answered(s)' => ok) /\ call'[s] = "answered" /\ answer'[s].draw = draw
      BY <1>3, <1>5, <2>5, <3>1 DEF Answered
    <3> QED
      BY <1>2, <2>1, <2>5, <3>6, <3>7 DEF DrawHolds, DrawOf
  <2> QED
    BY <2>2, <2>3, <2>4, <2>5
<1>12. \A x \in Run : SpokeHolds(x)' /\ DrawHolds(x)'
  BY <1>9, <1>10, <1>11
<1> QED
  BY <1>7, <1>8, <1>12 DEF SeedInv

LEMMA SeedServe ==
  ASSUME ServerInv, SeedInv, NEW s \in Run, Serve(s)
  PROVE  SeedInv'
<1>0. ServersTyped
  BY Facts
<1>1. CASE Bind(s) \/ ServerExits(s) \/ ServerCrashes(s)
  BY <1>1, SeedServerMoves
<1>2. ASSUME NEW q \in inbox[s], GetState(s, q)
      PROVE  SeedInv'
  <2>1. /\ server[s] = "bound" /\ q.endpoint \in {"ping", "get_policy_state"} /\ Reply(s, q, TRUE, None)
        /\ UNCHANGED <<server, rng>>
    BY <1>2 DEF GetState, Handling
  <2>2. Draw(s, q, TRUE, None)
    BY <2>1 DEF Draw
  <2> QED
    BY <2>1, <2>2, SeedReplies
<1>3. ASSUME NEW q \in inbox[s], SetSeed(s, q)
      PROVE  SeedInv'
  <2>1. /\ server[s] = "bound" /\ q.endpoint = "set_seed" /\ Reply(s, q, TRUE, None) /\ UNCHANGED server
        /\ rng' = [rng EXCEPT ![s] = [seed |-> q.seed, draw |-> 0]]
    BY <1>3 DEF SetSeed, Handling
  <2>2. /\ rng'[s] = [seed |-> q.seed, draw |-> 0]
        /\ \A x \in Run : x # s => rng'[x] = rng[x]
    BY <1>0, <2>1 DEF ServersTyped
  <2>3. Draw(s, q, TRUE, None)
    BY <2>1, <2>2 DEF Draw
  <2> QED
    BY <2>1, <2>2, <2>3, SeedReplies
<1>4. ASSUME NEW q \in inbox[s], GetAction(s, q)
      PROVE  SeedInv'
  <2>1. /\ server[s] = "bound" /\ q.endpoint = "get_action" /\ Reply(s, q, TRUE, rng'[s]) /\ UNCHANGED server
        /\ rng' = [rng EXCEPT ![s].draw = @ + 1]
    BY <1>4 DEF GetAction, Handling
  <2>2. /\ rng'[s] = [rng[s] EXCEPT !.draw = @ + 1]
        /\ \A x \in Run : x # s => rng'[x] = rng[x]
    BY <1>0, <2>1 DEF ServersTyped
  <2>3. rng'[s] \in Draws
    BY <1>0, <2>2 DEF ServersTyped, Draws
  <2>4. Draw(s, q, TRUE, rng'[s])
    BY <2>1, <2>2 DEF Draw
  <2>5. PICK draw \in Draws : draw = rng'[s]
    BY <2>3
  <2>6. Reply(s, q, TRUE, draw) /\ Draw(s, q, TRUE, draw)
    BY <2>1, <2>4, <2>5
  <2> QED
    BY <2>1, <2>2, <2>6, SeedReplies
<1>5. ASSUME NEW q \in inbox[s], KillEndpoint(s, q)
      PROVE  SeedInv'
  <2>1. /\ server[s] = "bound" /\ q.endpoint = "kill" /\ Reply(s, q, TRUE, None) /\ UNCHANGED rng
        /\ server' = [server EXCEPT ![s] = "leaving"]
    BY <1>5 DEF KillEndpoint, Handling
  <2>2. /\ server'[s] = "leaving"
        /\ \A x \in Run : x # s => server'[x] = server[x]
    BY <1>0, <2>1 DEF ServersTyped
  <2>3. Draw(s, q, TRUE, None)
    BY <2>1 DEF Draw
  <2> QED
    BY <2>1, <2>2, <2>3, SeedReplies
<1>6. ASSUME NEW q \in inbox[s], EndpointRaises(s, q)
      PROVE  SeedInv'
  <2>1. server[s] = "bound" /\ Reply(s, q, FALSE, None) /\ UNCHANGED <<server, rng>>
    BY <1>6 DEF EndpointRaises, Handling
  <2>2. Draw(s, q, FALSE, None)
    BY <2>1 DEF Draw
  <2> QED
    BY <2>1, <2>2, SeedReplies
<1> QED
  BY <1>1, <1>2, <1>3, <1>4, <1>5, <1>6 DEF Serve

\* A request reaches the server of its run, or one that a run that is over has left.
LEMMA SeedDeliver ==
  ASSUME ServerInv, SeedInv, NEW r \in Run, NEW s \in Run, Deliver(r, s)
  PROVE  SeedInv'
<1>1. RunsTyped /\ ServersTyped
  BY Facts
<1>2. /\ call[r] = "queued" /\ server[s] = "bound" /\ call' = [call EXCEPT ![r] = "sent"]
      /\ inbox' = [inbox EXCEPT ![s] = @ \cup {RequestOf(r)}]
      /\ UNCHANGED <<pc, answer, episode, acts, spoke, server, rng>>
  BY DEF Deliver, RequestOf
<1>3. /\ \A t \in Run : \A q \in inbox'[t] : q \in inbox[t] \/ (t = s /\ q = RequestOf(r))
      /\ call'[r] = "sent" /\ \A x \in Run : x # r => call'[x] = call[x]
  BY <1>1, <1>2 DEF RunsTyped, ServersTyped
<1>4. /\ RequestOf(r).from = r /\ RequestOf(r).heard
      /\ \A x : RequestOf(x)' = RequestOf(x)
  BY <1>2 DEF RequestOf
<1>5. \A t \in Run : \A q \in inbox[t] : /\ RequestHolds(t, q) /\ q.from \in Run
                                         /\ q.heard => q.from # r
  BY <1>1, <1>2 DEF SeedInv, RequestsHold, RequestHolds, ServersTyped, Requests
<1>6. pc[r] \in DOMAIN Endpoint /\ CallsHold'
  <2>1. pc[r] \in DOMAIN Endpoint
    BY <1>2 DEF SeedInv, CallsHold
  <2> QED
    BY <1>2, <1>3, <2>1 DEF SeedInv, CallsHold
<1>7. r >= s /\ (r # s => pc[s] = "ended")
  <2>1. pc[r] # "idle" /\ pc[r] # "ended" /\ pc[s] # "idle"
    BY <1>2, <1>6, Facts DEF PlaceHolds, Endpoint
  <2>2. r \in Int /\ s \in Int
    BY DEF Run
  <2>3. ~(r < s)
    BY <2>1 DEF ServerInv, OneAfterTheOther
  <2>4. s < r => pc[s] = "ended"
    BY <2>1 DEF ServerInv, OneAfterTheOther
  <2> QED
    BY <2>2, <2>3, <2>4
<1>8. RequestHolds(s, RequestOf(r))'
  BY <1>2, <1>3, <1>4, <1>6, <1>7 DEF RequestHolds, Endpoint
<1>9. \A t \in Run : \A q \in inbox[t] : RequestHolds(t, q)'
  BY <1>2, <1>3, <1>4, <1>5 DEF RequestHolds
<1>10. RequestsHold'
  <2>1. \A t \in Run : \A q \in inbox'[t] : RequestHolds(t, q)'
    BY <1>3, <1>4, <1>8, <1>9
  <2>2. ASSUME NEW t \in Run, NEW u \in Run, NEW q \in inbox'[t], NEW p \in inbox'[u],
               q.heard, p.heard, q.from = p.from
        PROVE  t = u
    <3>1. CASE q.from = r
      BY <1>3, <1>5, <2>2, <3>1
    <3>2. CASE q.from # r
      BY <1>3, <1>4, <2>2, <3>2 DEF SeedInv, RequestsHold
    <3> QED
      BY <3>1, <3>2
  <2> QED
    BY <2>1, <2>2 DEF RequestsHold
<1>11. ASSUME NEW x \in Run
       PROVE  SpokeHolds(x)' /\ DrawHolds(x)'
  <2>1. SpokeHolds(x) /\ DrawHolds(x)
    BY DEF SeedInv
  <2>2. /\ call'[x] = "answered" <=> call[x] = "answered"
        /\ call'[x] \in {"queued", "sent"} => call[x] \in {"queued", "sent"}
    BY <1>2, <1>3
  <2> QED
    BY <1>2, <2>1, <2>2 DEF SpokeHolds, DrawHolds, DrawOf, Answered
<1> QED
  BY <1>6, <1>10, <1>11 DEF SeedInv

LEMMA SeedInit ==
  ASSUME Init
  PROVE  SeedInv
BY DEF Init, SeedInv, CallsHold, RequestsHold, RequestHolds, SpokeHolds, DrawHolds, InTry

LEMMA SeedNext ==
  ASSUME ServerInv, SeedInv, [Next]_vars
  PROVE  SeedInv'
<1>1. ASSUME NEW r \in Run,
             Launch(r) \/ Start(r) \/ Work(r) \/ Shutdown(r) \/ CloseRaises(r) \/ RunKilled(r)
      PROVE  SeedInv'
  BY <1>1, SeedLaunch, SeedStart, SeedWork, SeedShutdown
<1>2. ASSUME NEW s \in Run, Serve(s)
      PROVE  SeedInv'
  BY <1>2, SeedServe
<1>3. ASSUME NEW r \in Run, NEW s \in Run, Deliver(r, s)
      PROVE  SeedInv'
  BY <1>3, SeedDeliver
<1>4. ASSUME UNCHANGED vars
      PROVE  SeedInv'
  BY <1>4 DEF vars, runVars, serverVars, SeedInv, CallsHold, RequestsHold, RequestHolds, RequestOf,
              SpokeHolds, DrawHolds, DrawOf, Answered
<1> QED
  BY <1>1, <1>2, <1>3, <1>4 DEF Next

LEMMA SeedInvAlways == Spec => []SeedInv
BY ServerInvAlways, SeedInit, SeedNext, PTL DEF Spec

-----------------------------------------------------------------------------
\* The places, calls and answers of the runs and the processes, inboxes and
\* generators of the servers are what ServerTypeOK says, for any number of runs,
\* episodes, actions and events, whatever the shutdown catches.
THEOREM ServerTypeCorrect == Spec => []ServerTypeOK
  <1>1. ServerInv => ServerTypeOK
    BY DEF ServerInv
  <1> QED
    BY <1>1, ServerInvAlways, PTL

\* With a shutdown that catches subprocess.TimeoutExpired, as that of the pilot
\* and of the probe does, no run that is over has left its server alive, unless
\* it was killed or could not close its environment.
THEOREM ServersEndWithTheirRuns == CatchesExpired => (Spec => []NoServerOutlivesItsRun)
  <1>1. CatchesExpired /\ ServerInv => NoServerOutlivesItsRun
    BY DEF ServerInv
  <1>2. CASE CatchesExpired
    <2>1. ServerInv => NoServerOutlivesItsRun
      BY <1>1, <1>2
    <2> QED
      BY <2>1, ServerInvAlways, PTL
  <1> QED
    BY <1>2

\* Then every answer a run accepts, the readiness ping included, comes from the
\* server it has started, or from one left behind by a run that was killed or
\* could not close its environment.
THEOREM AnswersAreOwn == CatchesExpired => (Spec => []OwnServerAnswers)
  <1>1. CatchesExpired /\ ServerInv => OwnServerAnswers
    BY DEF ServerInv, OwnHolds
  <1>2. CASE CatchesExpired
    <2>1. ServerInv => OwnServerAnswers
      BY <1>1, <1>2
    <2> QED
      BY <2>1, ServerInvAlways, PTL
  <1> QED
    BY <1>2
\* Whatever a server did before, whoever asks it and whatever fails: as long as
\* only its own server has answered a run, action n of an episode is draw n of
\* the seed of that episode.  Nothing is assumed of the shutdown: a server that
\* another run left behind has a generator of its own.
THEOREM SeededActionsReproduced == Spec => []SeededActionsAreReproducible
  <1>1. SeedInv => SeededActionsAreReproducible
    BY DEF SeedInv, DrawHolds, DrawOf, SeededActionsAreReproducible
  <1> QED
    BY <1>1, SeedInvAlways, PTL
=============================================================================
