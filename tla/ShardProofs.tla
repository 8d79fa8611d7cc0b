---------------------------- MODULE ShardProofs ----------------------------
(***************************************************************************)
(* Theorems of ShardCollection and of ShardGate for any number of          *)
(* collectors, directories, seeds and events.                              *)
(***************************************************************************)
EXTENDS ShardGate, FiniteSetTheorems, TLAPS

\* A started collector has its directory; a change of the repository is an event.
Placed == \A c \in Collector : run[c].pc # "idle" => run[c].dir \in Dir
Counted == repo.head <= events /\ repo.protocol <= events
TypeInv == TypeOK /\ Placed /\ Counted

LEMMA FilesAreNamed ==
  /\ Streams \subseteq Hashed /\ Hashed \subseteq Artifacts /\ Artifacts \subseteq Files
  /\ "software_versions" \in Hashed /\ "policy_server_log" \in Files
  /\ "policy_state_before" \in Hashed /\ "policy_state_after" \in Hashed
  /\ "metrics" \in Hashed /\ "run_manifest" \in Hashed
  /\ "artifact_validation" \in Hashed /\ "shard_integrity" \in Artifacts
  /\ "monitor_inputs" \in Streams /\ "offline_labels" \in Streams
  /\ "dataset_index" \in Streams /\ "episodes" \in Streams /\ "audit_stream" \in Streams
  /\ "software_versions" \notin Streams
  /\ Fragile \subseteq Artifacts
  BY FragileAssumption DEF Streams, Hashed, Artifacts, Files

LEMMA MadeTyped ==
  ASSUME NEW c \in Collector, NEW form \in Forms
  PROVE  Made(c, form) \in FileStates
  <1>1. {} \in SUBSET Episodes(SceneSeeds)
    OBVIOUS
  <1> QED
    BY <1>1 DEF Made, FileStates

\* What the steps of a collector do to run, in one lemma.
LEMMA GoTyped ==
  ASSUME TypeInv, NEW c \in Collector, NEW pc \in Running \cup Ended, Go(c, pc),
         run[c].pc # "idle"
  PROVE  run' \in [Collector -> RunStates] /\ Placed'
  <1>1. run \in [Collector -> RunStates] /\ run[c] \in RunStates
    BY DEF TypeInv, TypeOK
  <1>2. [run[c] EXCEPT !.pc = pc] \in RunStates
    BY <1>1 DEF RunStates
  <1>3. run' = [run EXCEPT ![c] = [run[c] EXCEPT !.pc = pc]]
    BY <1>1 DEF Go
  <1>4. [run[c] EXCEPT !.pc = pc].dir = run[c].dir
    BY <1>1 DEF RunStates
  <1> QED
    BY <1>1, <1>2, <1>3, <1>4 DEF TypeInv, Placed

LEMMA WriteOnceTyped ==
  ASSUME TypeInv, NEW c \in Collector, NEW n \in Files, NEW next \in RunStates,
         next.dir = run[c].dir, run[c].pc # "idle", WriteOnce(c, n, next)
  PROVE  TypeInv'
  <1>1. run \in [Collector -> RunStates] /\ run[c].dir \in Dir
    BY DEF TypeInv, TypeOK, Placed
  <1>2. run' \in [Collector -> RunStates] /\ Placed'
    <2>1. CASE Creates(run[c].dir, n)
      BY <2>1, <1>1 DEF WriteOnce, TypeInv, Placed
    <2>2. CASE ~Creates(run[c].dir, n)
      BY <2>2, GoTyped DEF WriteOnce, Ended
    <2> QED
      BY <2>1, <2>2
  <1>3. fs' \in [Dir -> [Files -> FileStates]]
    <2>1. Made(c, "whole") \in FileStates
      BY MadeTyped DEF Forms
    <2>2. CASE Creates(run[c].dir, n)
      <3>1. fs' = [fs EXCEPT ![run[c].dir][n] = Made(c, "whole")]
        BY <2>2 DEF WriteOnce
      <3>2. fs \in [Dir -> [Files -> FileStates]]
        BY DEF TypeInv, TypeOK
      <3> QED
        BY <2>1, <3>1, <3>2, <1>1
    <2>3. CASE ~Creates(run[c].dir, n)
      BY <2>3 DEF WriteOnce, TypeInv, TypeOK
    <2> QED
      BY <2>2, <2>3
  <1> QED
    BY <1>2, <1>3 DEF WriteOnce, Outside, TypeInv, TypeOK, Counted

LEMMA WriteDirectoryTyped ==
  ASSUME TypeInv, NEW c \in Collector, run[c].pc # "idle",
         NEW files \in [Files -> FileStates],
         fs' = [fs EXCEPT ![run[c].dir] = files]
  PROVE  fs' \in [Dir -> [Files -> FileStates]]
  BY DEF TypeInv, TypeOK

LEMMA RecordTyped ==
  ASSUME TypeInv, NEW c \in Collector, NEW names, NEW eps \in SUBSET Episodes(SceneSeeds),
         NEW pc \in Running, run[c].pc # "idle", Record(c, names, eps, pc)
  PROVE  TypeInv'
  <1> DEFINE files == [n \in Files |->
        IF n \in names
        THEN [fs[run[c].dir][n] EXCEPT !.eps = fs[run[c].dir][n].eps \cup eps]
        ELSE fs[run[c].dir][n]]
  <1>1. fs[run[c].dir] \in [Files -> FileStates]
    BY DEF TypeInv, TypeOK, Placed
  <1>2. files \in [Files -> FileStates]
    <2>1. SUFFICES ASSUME NEW n \in Files, NEW file \in FileStates
                   PROVE  [file EXCEPT !.eps = file.eps \cup eps] \in FileStates
      BY <1>1
    <2> QED
      BY DEF FileStates
  <1>3. fs' \in [Dir -> [Files -> FileStates]]
    BY <1>2, WriteDirectoryTyped DEF Record
  <1>4. run' \in [Collector -> RunStates] /\ Placed'
    BY GoTyped DEF Record
  <1> QED
    BY <1>3, <1>4 DEF Record, Outside, TypeInv, TypeOK, Counted

LEMMA ClosedTyped ==
  ASSUME TypeInv, NEW c \in Collector, run[c].pc # "idle", NEW form \in Forms
  PROVE  Closed(c, form) \in [Files -> FileStates]
  <1>1. fs[run[c].dir] \in [Files -> FileStates]
    BY DEF TypeInv, TypeOK, Placed
  <1>2. \A file \in FileStates : [file EXCEPT !.form = form] \in FileStates
    BY DEF FileStates
  <1> QED
    BY <1>1, <1>2 DEF Closed

LEMMA EpisodesTyped ==
  ASSUME TypeInv, NEW c \in Collector, run[c].pc # "idle"
  PROVE  /\ Episodes(run[c].seeds) \in SUBSET Episodes(SceneSeeds)
         /\ \A n \in Files : Recorded(c, n) \in SUBSET Episodes(SceneSeeds)
  <1>1. run[c].seeds \in SUBSET SceneSeeds /\ fs[run[c].dir] \in [Files -> FileStates]
    BY DEF TypeInv, TypeOK, Placed, RunStates
  <1> QED
    BY <1>1 DEF Episodes, Recorded, FileStates

\* Seals hold checksums of files.
LEMMA SealTyped ==
  ASSUME TypeInv, NEW c \in Collector, Seal(c)
  PROVE  TypeInv'
  <1> DEFINE d == run[c].dir
  <1>1. run[c].pc # "idle" /\ d \in Dir
    BY DEF Seal, TypeInv, Placed
  <1>2. run' \in [Collector -> RunStates] /\ Placed'
    BY <1>1, GoTyped DEF Seal, Ended
  <1>3. fs' \in [Dir -> [Files -> FileStates]]
    <2>1. Made(c, "whole") \in FileStates /\ "shard_integrity" \in Files
      BY MadeTyped, FilesAreNamed DEF Forms
    <2>2. fs \in [Dir -> [Files -> FileStates]]
      BY DEF TypeInv, TypeOK
    <2>3. UNCHANGED fs \/ fs' = [fs EXCEPT ![d]["shard_integrity"] = Made(c, "whole")]
      BY DEF Seal
    <2> QED
      BY <2>1, <2>2, <2>3, <1>1
  <1>4. seal' \in [Dir -> [Hashed -> FileStates]]
    <2>1. seal \in [Dir -> [Hashed -> FileStates]]
      BY DEF TypeInv, TypeOK
    <2>2. [n \in Hashed |-> fs[d][n]] \in [Hashed -> FileStates]
      BY <1>1, FilesAreNamed DEF TypeInv, TypeOK
    <2>3. UNCHANGED seal \/ seal' = [seal EXCEPT ![d] = [n \in Hashed |-> fs[d][n]]]
      BY DEF Seal
    <2> QED
      BY <2>1, <2>2, <2>3, <1>1
  <1> QED
    BY <1>2, <1>3, <1>4 DEF Seal, Outside, TypeInv, TypeOK, Counted

LEMMA EndTyped ==
  ASSUME TypeInv, Event, NEW c \in Collector, run[c].pc # "idle",
         NEW files \in [Files -> FileStates], NEW pc \in Ended,
         fs' = [fs EXCEPT ![run[c].dir] = files], Go(c, pc), UNCHANGED <<seal, repo>>
  PROVE  TypeInv'
  <1>1. run' \in [Collector -> RunStates] /\ Placed'
    BY GoTyped
  <1>2. fs' \in [Dir -> [Files -> FileStates]]
    BY WriteDirectoryTyped
  <1>3. events \in 0..MaxEvents /\ events' = events + 1 /\ events' \in 0..MaxEvents
    BY EventsAssumption DEF Event, TypeInv, TypeOK
  <1> QED
    BY <1>1, <1>2, <1>3 DEF TypeInv, TypeOK, Counted, Commits

LEMMA CollectTyped ==
  ASSUME TypeInv, NEW c \in Collector, Collect(c)
  PROVE  TypeInv'
  <1>t. /\ run \in [Collector -> RunStates] /\ run[c] \in RunStates
        /\ repo.head \in Commits /\ repo.protocol \in Commits
        /\ repo.tree \in {"clean", "dirty"}
        /\ repo.head <= events /\ repo.protocol <= events
    BY DEF TypeInv, TypeOK, Counted
  <1>1. CASE \E d \in Dir, request \in Requests : Launch(c, d, request[1], request[2])
    <2>1. PICK d \in Dir, request \in Requests : Launch(c, d, request[1], request[2])
      BY <1>1
    <2>2. request[1] \in Roles /\ request[2] \in SUBSET SceneSeeds
      BY RequestsAssumption DEF Roles, SceneSeeds
    <2> DEFINE next == [Idle EXCEPT !.pc = "configured", !.dir = d, !.role = request[1],
                          !.seeds = request[2],
                          !.code = IF repo.tree = "dirty" THEN Uncommitted ELSE repo.head,
                          !.plan = repo.protocol]
    <2>3. next \in RunStates /\ next.dir = d
      <3>1. 0 \in Commits
        BY EventsAssumption DEF Commits
      <3>2. Idle \in RunStates
        <4>1. {} \in SUBSET SceneSeeds /\ "debug" \in Roles
          BY DEF Roles
        <4> QED
          BY <3>1, <4>1 DEF Idle, RunStates
      <3>3. "configured" \in {"idle"} \cup Running \cup Ended
        BY DEF Running
      <3> DEFINE code == IF repo.tree = "dirty" THEN Uncommitted ELSE repo.head
      <3>4. code \in Commits \cup {Uncommitted}
        BY <1>t
      <3>5. next = [Idle EXCEPT !.pc = "configured", !.dir = d, !.role = request[1],
                      !.seeds = request[2], !.code = code, !.plan = repo.protocol]
        OBVIOUS
      <3> HIDE DEF code, next
      <3>6. repo.protocol \in Commits
        BY <1>t
      <3>7. next.dir = d
        BY <3>5 DEF Idle
      <3>8. next \in RunStates
        BY <2>2, <3>2, <3>3, <3>4, <3>5, <3>6 DEF RunStates
      <3> QED
        BY <3>7, <3>8
    <2>4. run' = [run EXCEPT ![c] = next]
      BY <2>1 DEF Launch
    <2>5. run' \in [Collector -> RunStates] /\ Placed'
      BY <1>t, <2>3, <2>4 DEF Placed, TypeInv
    <2> QED
      BY <2>1, <2>5 DEF Launch, Outside, TypeInv, TypeOK, Counted
  <1>2. CASE VerifyInputs(c)
    <2> DEFINE pc == IF run[c].role # "debug" /\ repo.tree = "dirty"
                     THEN "failed" ELSE "verified"
               next == [run[c] EXCEPT !.hash = repo.protocol, !.pc = pc]
    <2>1. run[c].pc # "idle" /\ run' = [run EXCEPT ![c] = next]
      BY <1>2, <1>t DEF VerifyInputs
    <2>2. next \in RunStates /\ next.dir = run[c].dir
      <3>1. pc \in {"idle"} \cup Running \cup Ended
        BY DEF Running, Ended
      <3> HIDE DEF pc
      <3> QED
        BY <3>1, <1>t DEF RunStates
    <2> HIDE DEF next
    <2>3. run' \in [Collector -> RunStates] /\ Placed'
      BY <1>t, <2>1, <2>2 DEF Placed, TypeInv
    <2> QED
      BY <1>2, <2>3 DEF VerifyInputs, Outside, TypeInv, TypeOK, Counted
  <1>3. CASE ClaimDirectory(c)
    <2>1. run' \in [Collector -> RunStates] /\ Placed'
      BY <1>3, GoTyped DEF ClaimDirectory, Running, Ended
    <2> QED
      BY <1>3, <2>1 DEF ClaimDirectory, Outside, TypeInv, TypeOK, Counted
  <1>4. CASE ReadCommit(c)
    <2> DEFINE next == [run[c] EXCEPT !.pc = "identified", !.commit = repo.head]
    <2>1. run[c].pc # "idle" /\ run' = [run EXCEPT ![c] = next]
      BY <1>4, <1>t DEF ReadCommit
    <2>2. next \in RunStates /\ next.dir = run[c].dir
      BY <1>t DEF RunStates, Running
    <2>3. run' \in [Collector -> RunStates] /\ Placed'
      BY <1>t, <2>1, <2>2 DEF Placed, TypeInv
    <2> QED
      BY <1>4, <2>3 DEF ReadCommit, Outside, TypeInv, TypeOK, Counted
  <1>5. CASE WriteSoftwareVersions(c)
    <2> DEFINE next == [run[c] EXCEPT !.pc = "started", !.dirty = repo.tree]
    <2>1. next \in RunStates /\ next.dir = run[c].dir
      BY ZenonT(60), <1>t DEF RunStates, Running, Serving
    <2>2. run[c].pc # "idle" /\ WriteOnce(c, "software_versions", next)
      BY <1>5 DEF WriteSoftwareVersions
    <2> QED
      BY <2>1, <2>2, FilesAreNamed, WriteOnceTyped
  <1>6. CASE StartServer(c)
    <2> DEFINE next == [run[c] EXCEPT !.pc = "ready"]
    <2>1. next \in RunStates /\ next.dir = run[c].dir
      BY <1>t DEF RunStates, Running, Serving
    <2>2. run[c].pc # "idle" /\ WriteOnce(c, "policy_server_log", next)
      BY <1>6 DEF StartServer
    <2> QED
      BY <2>1, <2>2, FilesAreNamed, WriteOnceTyped
  <1>7. CASE RecordPolicyBefore(c)
    <2>1. PICK w \in Weights :
            WriteOnce(c, "policy_state_before", [run[c] EXCEPT !.pc = "opening", !.weights = w])
      BY <1>7 DEF RecordPolicyBefore
    <2> DEFINE next == [run[c] EXCEPT !.pc = "opening", !.weights = w]
    <2>2. next \in RunStates /\ next.dir = run[c].dir
      BY <1>t DEF RunStates, Running, Serving
    <2>3. run[c].pc # "idle"
      BY <1>7 DEF RecordPolicyBefore
    <2> QED
      BY <2>1, <2>2, <2>3, FilesAreNamed, WriteOnceTyped
  <1>8. CASE OpenStreams(c)
    <2>1. PICK o \in Openings : run[c].pc = o[1] /\ OpenStream(c, o[2], o[3])
      BY <1>8 DEF OpenStreams
    <2>2. /\ o[2] \in Files /\ o[3] \in Running /\ run[c].pc # "idle"
      BY <2>1 DEF Openings, Files, Artifacts, Hashed, Streams, Running, Serving
    <2>3. run[c].dir \in Dir /\ fs \in [Dir -> [Files -> FileStates]]
      BY <2>2 DEF TypeInv, TypeOK, Placed
    <2>4. CASE fs' = [fs EXCEPT ![run[c].dir][o[2]] = Made(c, "open")] /\ Go(c, o[3])
      <3>1. Made(c, "open") \in FileStates
        BY MadeTyped DEF Forms
      <3>2. fs' \in [Dir -> [Files -> FileStates]]
        BY <2>2, <2>3, <2>4, <3>1
      <3>3. run' \in [Collector -> RunStates] /\ Placed'
        BY <2>2, <2>4, GoTyped
      <3> QED
        BY <2>1, <3>2, <3>3 DEF OpenStream, Outside, TypeInv, TypeOK, Counted
    <2>5. CASE fs' = [fs EXCEPT ![run[c].dir] = Closed(c, "whole")] /\ Go(c, "failed")
      <3>1. Closed(c, "whole") \in [Files -> FileStates]
        BY <2>2, ClosedTyped DEF Forms
      <3>2. fs' \in [Dir -> [Files -> FileStates]]
        BY <2>2, <2>5, <3>1, WriteDirectoryTyped
      <3>3. run' \in [Collector -> RunStates] /\ Placed'
        BY <2>2, <2>5, GoTyped DEF Ended
      <3> QED
        BY <2>1, <3>2, <3>3 DEF OpenStream, Outside, TypeInv, TypeOK, Counted
    <2> QED
      BY <2>1, <2>4, <2>5 DEF OpenStream
  <1>9. CASE AuditEpisode(c)
    <2> DEFINE rest == Episodes(run[c].seeds) \ Recorded(c, "episodes")
               e == CHOOSE e \in rest : TRUE
    <2>1. run[c].pc # "idle" /\ rest # {}
      BY <1>9 DEF AuditEpisode
    <2>2. e \in rest
      BY <2>1
    <2>3. {e} \in SUBSET Episodes(SceneSeeds)
      BY <2>1, <2>2, EpisodesTyped
    <2>4. Record(c, {"audit_stream"}, {e}, "audited")
      BY <1>9 DEF AuditEpisode
    <2> QED
      BY <2>1, <2>3, <2>4, RecordTyped DEF Running, Serving
  <1>10. CASE WriteEpisode(c)
    BY <1>10, EpisodesTyped, FilesAreNamed, RecordTyped DEF WriteEpisode, Running, Serving
  <1>11. CASE IndexEpisode(c)
    BY <1>11, EpisodesTyped, FilesAreNamed, RecordTyped DEF IndexEpisode, Running, Serving
  <1>12. CASE SummariseEpisode(c)
    BY <1>12, EpisodesTyped, FilesAreNamed, RecordTyped DEF SummariseEpisode, Running, Serving
  <1>13. CASE CloseStreams(c)
    <2>1. run[c].pc # "idle"
      BY <1>13 DEF CloseStreams
    <2>2. Closed(c, "whole") \in [Files -> FileStates]
      BY <2>1, ClosedTyped DEF Forms
    <2>3. fs' \in [Dir -> [Files -> FileStates]]
      BY <1>13, <2>1, <2>2, WriteDirectoryTyped DEF CloseStreams
    <2>4. run' \in [Collector -> RunStates] /\ Placed'
      BY <1>13, <2>1, GoTyped DEF CloseStreams, Running, Serving
    <2> QED
      BY <1>13, <2>3, <2>4 DEF CloseStreams, Outside, TypeInv, TypeOK, Counted
  <1>14. CASE RecordPolicyAfter(c)
    <2>1. run[c].pc # "idle"
      BY <1>14 DEF RecordPolicyAfter
    <2>2. CASE WriteOnce(c, "policy_state_after", [run[c] EXCEPT !.pc = "measured"])
      <3> DEFINE next == [run[c] EXCEPT !.pc = "measured"]
      <3>1. next \in RunStates /\ next.dir = run[c].dir
        BY <1>t DEF RunStates, Running, Serving
      <3> QED
        BY <2>1, <2>2, <3>1, FilesAreNamed, WriteOnceTyped
    <2>3. CASE Go(c, "failed") /\ UNCHANGED <<fs, seal>> /\ Outside
      <3>1. run' \in [Collector -> RunStates] /\ Placed'
        BY <2>1, <2>3, GoTyped DEF Ended
      <3> QED
        BY <2>3, <3>1 DEF Outside, TypeInv, TypeOK, Counted
    <2> QED
      BY <1>14, <2>2, <2>3 DEF RecordPolicyAfter
  <1>15. CASE WriteMetrics(c)
    <2> DEFINE next == [run[c] EXCEPT !.pc = "summed"]
    <2>1. next \in RunStates /\ next.dir = run[c].dir
      BY <1>t DEF RunStates, Running, Serving
    <2>2. run[c].pc # "idle" /\ WriteOnce(c, "metrics", next)
      BY <1>15 DEF WriteMetrics
    <2> QED
      BY <2>1, <2>2, FilesAreNamed, WriteOnceTyped
  <1>16. CASE WriteRunManifest(c)
    <2> DEFINE next == [run[c] EXCEPT !.pc = "manifested"]
    <2>1. next \in RunStates /\ next.dir = run[c].dir
      BY <1>t DEF RunStates, Running, Serving
    <2>2. run[c].pc # "idle" /\ WriteOnce(c, "run_manifest", next)
      BY <1>16 DEF WriteRunManifest
    <2> QED
      BY <2>1, <2>2, FilesAreNamed, WriteOnceTyped
  <1>17. CASE ValidateDataset(c)
    <2> DEFINE next == IF DatasetErrors(c)
                       THEN [run[c] EXCEPT !.pc = "failed", !.valid = "failed"]
                       ELSE [run[c] EXCEPT !.pc = "sealing", !.valid = "passed"]
    <2>1. next \in RunStates /\ next.dir = run[c].dir
      <3>1. CASE DatasetErrors(c)
        BY <1>t, <3>1 DEF RunStates, Ended
      <3>2. CASE ~DatasetErrors(c)
        BY <1>t, <3>2 DEF RunStates, Running, Serving
      <3> QED
        BY <3>1, <3>2
    <2>2. run[c].pc # "idle" /\ WriteOnce(c, "artifact_validation", next)
      BY <1>17 DEF ValidateDataset
    <2> HIDE DEF next
    <2> QED
      BY <2>1, <2>2, FilesAreNamed, WriteOnceTyped
  <1>18. CASE Seal(c)
    BY <1>18, SealTyped
  <1>19. CASE Fail(c)
    <2>1. run[c].pc # "idle"
      BY <1>19 DEF Fail, Serving
    <2>2. Closed(c, "whole") \in [Files -> FileStates]
      BY <2>1, ClosedTyped DEF Forms
    <2> QED
      BY <1>19, <2>1, <2>2, EndTyped DEF Fail, Ended
  <1>20. CASE Crash(c)
    <2>1. run[c].pc # "idle"
      BY <1>20 DEF Crash, Running, Serving
    <2>2. PICK form \in {"whole", "empty", "torn"} :
            LET begun == {n \in NextFile(run[c].pc) : form # "whole" /\ Creates(run[c].dir, n)}
            IN fs' = [fs EXCEPT ![run[c].dir] = [n \in Files |->
                        IF n \in begun THEN Made(c, form) ELSE Closed(c, form)[n]]]
      BY <1>20 DEF Crash
    <2> DEFINE begun == {n \in NextFile(run[c].pc) : form # "whole" /\ Creates(run[c].dir, n)}
               files == [n \in Files |-> IF n \in begun THEN Made(c, form) ELSE Closed(c, form)[n]]
    <2>3. form \in Forms
      BY DEF Forms
    <2>4. files \in [Files -> FileStates]
      BY <2>1, <2>3, ClosedTyped, MadeTyped
    <2>5. fs' = [fs EXCEPT ![run[c].dir] = files]
      BY <2>2
    <2> QED
      BY <1>20, <2>1, <2>4, <2>5, EndTyped DEF Crash, Ended
  <1> QED
    BY <1>1, <1>2, <1>3, <1>4, <1>5, <1>6, <1>7, <1>8, <1>9, <1>10, <1>11, <1>12, <1>13,
       <1>14, <1>15, <1>16, <1>17, <1>18, <1>19, <1>20 DEF Collect

LEMMA TypeInvHolds == Spec => []TypeInv
  <1>1. Init => TypeInv
    <2> SUFFICES ASSUME Init PROVE TypeInv
      OBVIOUS
    <2>1. 0 \in Commits /\ 0 \in 0..MaxEvents
      BY EventsAssumption DEF Commits
    <2>2. Idle \in RunStates
      <3>1. {} \in SUBSET SceneSeeds /\ "debug" \in Roles
        BY DEF Roles
      <3> QED
        BY <2>1, <3>1 DEF Idle, RunStates
    <2>3. Absent \in FileStates
      <3>1. {} \in SUBSET Episodes(SceneSeeds)
        OBVIOUS
      <3> QED
        BY <3>1 DEF Absent, FileStates, Forms
    <2>4. Idle.pc = "idle"
      BY DEF Idle
    <2> QED
      BY <2>1, <2>2, <2>3, <2>4 DEF Init, TypeInv, TypeOK, Placed, Counted, NoSeal
  <1>2. TypeInv /\ [Next]_vars => TypeInv'
    <2> SUFFICES ASSUME TypeInv, [Next]_vars PROVE TypeInv'
      OBVIOUS
    <2>1. CASE \E c \in Collector : Collect(c)
      BY <2>1, CollectTyped
    <2>2. CASE Edit \/ Advance
      <3>1. /\ events \in Nat /\ events' = events + 1 /\ events' \in 0..MaxEvents
            /\ repo.head \in Commits /\ repo.protocol \in Commits
            /\ repo.head <= events /\ repo.protocol <= events
        BY <2>2, EventsAssumption DEF Edit, Advance, Event, TypeInv, TypeOK, Counted
      <3>2. /\ repo' \in [head : Commits, tree : {"clean", "dirty"}, protocol : Commits]
            /\ repo'.head <= events' /\ repo'.protocol <= events'
        <4>1. CASE Edit
          <5>1. PICK p \in {repo.protocol, repo.protocol + 1} :
                  repo' = [repo EXCEPT !.tree = "dirty", !.protocol = p]
            BY <4>1 DEF Edit
          <5>2. repo \in [head : Commits, tree : {"clean", "dirty"}, protocol : Commits]
            BY DEF TypeInv, TypeOK
          <5>3. p \in Commits /\ p <= events' /\ repo.head <= events'
            BY <3>1, EventsAssumption DEF Commits
          <5> QED
            BY <5>1, <5>2, <5>3
        <4>2. CASE Advance
          <5>1. PICK p \in {repo.protocol, repo.protocol + 1} :
                  repo' = [head |-> repo.head + 1, tree |-> "clean", protocol |-> p]
            BY <4>2 DEF Advance
          <5> QED
            BY <3>1, <5>1, EventsAssumption DEF Commits
        <4> QED
          BY <2>2, <4>1, <4>2
      <3> QED
        BY <2>2, <3>1, <3>2 DEF Edit, Advance, TypeInv, TypeOK, Placed, Counted
    <2>3. CASE \E d \in Dir, n \in Fragile, form \in {"empty", "torn", "altered"} :
                 Damage(d, n, form)
      <3>1. PICK d \in Dir, n \in Fragile, form \in {"empty", "torn", "altered"} :
              Damage(d, n, form)
        BY <2>3
      <3>2. fs \in [Dir -> [Files -> FileStates]] /\ n \in Files
        BY FilesAreNamed DEF TypeInv, TypeOK
      <3>3. [fs[d][n] EXCEPT !.form = form] \in FileStates
        <4>1. fs[d][n] \in FileStates /\ form \in Forms
          BY <3>2 DEF Forms
        <4>2. \A file \in FileStates : [file EXCEPT !.form = form] \in FileStates
          BY <4>1 DEF FileStates
        <4> QED
          BY <4>1, <4>2
      <3>4. fs' = [fs EXCEPT ![d][n] = [fs[d][n] EXCEPT !.form = form]]
        BY <3>1, <3>2 DEF Damage
      <3>5. fs' \in [Dir -> [Files -> FileStates]]
        BY <3>2, <3>3, <3>4
      <3>6. events' \in 0..MaxEvents /\ events <= events' /\ events \in Nat /\ events' \in Nat
        BY <3>1, EventsAssumption DEF Damage, Event, TypeInv, TypeOK
      <3> QED
        BY <3>1, <3>5, <3>6 DEF Damage, TypeInv, TypeOK, Placed, Counted, Commits
    <2>4. CASE UNCHANGED vars
      BY <2>4 DEF vars, TypeInv, TypeOK, Placed, Counted
    <2> QED
      BY <2>1, <2>2, <2>3, <2>4 DEF Next
  <1> QED
    BY <1>1, <1>2, PTL DEF Spec

\* The variables of ShardCollection have their types in every state: a bound on
\* what every action of a collector, and every change around it, can do.
THEOREM ShardTypeCorrect == Spec => []TypeOK
  BY TypeInvHolds, PTL DEF TypeInv

-----------------------------------------------------------------------------
(* One run per directory.  software_versions.json is the first file of a   *)
(* run and is created exclusively: whoever created it owns the directory.  *)

Owned == \A d \in Dir, n \in Files : Present(d, n) =>
           /\ Present(d, "software_versions")
           /\ fs[d][n].by = fs[d]["software_versions"].by
Held == \A c \in Collector : run[c].pc \in Serving =>
           /\ Present(run[c].dir, "software_versions")
           /\ fs[run[c].dir]["software_versions"].by = c
Ownership == Owned /\ Held

LEMMA OwnDirectory ==
  ASSUME TypeInv, Ownership, NEW c \in Collector, run[c].pc \in Serving
  PROVE  /\ run[c].dir \in Dir /\ fs[run[c].dir] \in [Files -> FileStates]
         /\ fs[run[c].dir]["software_versions"].form # "absent"
         /\ \A n \in Files :
              fs[run[c].dir][n].form = "absent" \/ fs[run[c].dir][n].by = c
  <1>1. run[c].pc # "idle"
    BY DEF Serving
  <1>2. run[c].dir \in Dir /\ fs[run[c].dir] \in [Files -> FileStates]
    BY <1>1 DEF TypeInv, TypeOK, Placed
  <1> QED
    BY <1>2 DEF Ownership, Owned, Held, Present

\* A collector inside its try statement writes in its own directory.
LEMMA ServingWrites ==
  ASSUME TypeInv, Ownership, NEW c \in Collector, run[c].pc \in Serving,
         NEW files \in [Files -> FileStates],
         files["software_versions"].form # "absent",
         \A n \in Files : files[n].form = "absent" \/ files[n].by = c,
         fs' = [fs EXCEPT ![run[c].dir] = files],
         run'[c].dir = run[c].dir,
         \A b \in Collector : b # c => run'[b] = run[b]
  PROVE  Ownership'
  <1>1. fs \in [Dir -> [Files -> FileStates]] /\ "software_versions" \in Files
    BY FilesAreNamed DEF TypeInv, TypeOK
  <1>2. /\ run[c].dir \in Dir
        /\ fs[run[c].dir]["software_versions"].form # "absent"
        /\ fs[run[c].dir]["software_versions"].by = c
    BY <1>1, OwnDirectory
  <1>3. Owned'
    <2> SUFFICES ASSUME NEW d \in Dir, NEW n \in Files, Present(d, n)'
                 PROVE  /\ Present(d, "software_versions")'
                        /\ fs'[d][n].by = fs'[d]["software_versions"].by
      BY DEF Owned
    <2>1. CASE d = run[c].dir
      <3>1. fs'[d] = files
        BY <1>1, <1>2, <2>1
      <3> QED
        BY <1>1, <3>1 DEF Present
    <2>2. CASE d # run[c].dir
      <3>1. fs'[d] = fs[d]
        BY <1>1, <2>2
      <3> QED
        BY <3>1 DEF Ownership, Owned, Present
    <2> QED
      BY <2>1, <2>2
  <1>4. Held'
    <2> SUFFICES ASSUME NEW b \in Collector, run'[b].pc \in Serving
                 PROVE  /\ fs'[run'[b].dir]["software_versions"].form # "absent"
                        /\ fs'[run'[b].dir]["software_versions"].by = b
      BY DEF Held, Present
    <2>1. CASE b = c
      <3>1. fs'[run'[b].dir] = files
        BY <1>1, <1>2, <2>1
      <3> QED
        BY <1>1, <2>1, <3>1
    <2>2. CASE b # c
      <3>1. /\ run'[b].dir = run[b].dir /\ run[b].pc \in Serving
            /\ fs[run[b].dir]["software_versions"].form # "absent"
            /\ fs[run[b].dir]["software_versions"].by = b
            /\ run[b].dir \in Dir
        BY <2>2, OwnDirectory DEF Ownership, Held
      <3>2. run[b].dir # run[c].dir
        BY <1>2, <2>2, <3>1
      <3> QED
        BY <1>1, <3>1, <3>2
    <2> QED
      BY <2>1, <2>2
  <1> QED
    BY <1>3, <1>4 DEF Ownership

\* No file is created and none changes hands.
LEMMA KeepsOwners ==
  ASSUME Ownership,
         \A d \in Dir, n \in Files :
            /\ fs'[d][n].by = fs[d][n].by
            /\ fs'[d][n].form = "absent" <=> fs[d][n].form = "absent",
         \A b \in Collector : run'[b].pc \in Serving =>
            run[b].pc \in Serving /\ run'[b].dir = run[b].dir /\ run[b].dir \in Dir
  PROVE  Ownership'
  <1>1. "software_versions" \in Files
    BY FilesAreNamed
  <1>2. Owned'
    BY <1>1 DEF Ownership, Owned, Present
  <1>3. Held'
    BY <1>1 DEF Ownership, Held, Present
  <1> QED
    BY <1>2, <1>3 DEF Ownership

\* The run of one collector changes, without entering the try statement.
LEMMA StaysOutside ==
  ASSUME TypeInv, Ownership, NEW c \in Collector, NEW next,
         run' = [run EXCEPT ![c] = next], next.pc \notin Serving, UNCHANGED fs
  PROVE  Ownership'
  <1>1. run \in [Collector -> RunStates]
    BY DEF TypeInv, TypeOK
  <1>2. ASSUME NEW b \in Collector, run'[b].pc \in Serving
        PROVE  run[b].pc \in Serving /\ run'[b].dir = run[b].dir /\ run[b].dir \in Dir
    <2>1. run'[b] = run[b]
      BY <1>1, <1>2
    <2> QED
      BY <1>2, <2>1 DEF TypeInv, Placed, Serving
  <1> QED
    BY <1>2, KeepsOwners

LEMMA GoOutside ==
  ASSUME TypeInv, Ownership, NEW c \in Collector, NEW pc, pc \notin Serving, Go(c, pc),
         UNCHANGED fs
  PROVE  Ownership'
  <1> DEFINE next == [run[c] EXCEPT !.pc = pc]
  <1>1. run' = [run EXCEPT ![c] = next] /\ next.pc = pc
    BY DEF Go, TypeInv, TypeOK, RunStates
  <1> QED
    BY <1>1, StaysOutside

\* Go and its like change the run of c only, and not its directory.
LEMMA GoKeepsDirectory ==
  ASSUME TypeInv, NEW c \in Collector, NEW pc, Go(c, pc)
  PROVE  run'[c].dir = run[c].dir /\ \A b \in Collector : b # c => run'[b] = run[b]
  BY DEF Go, TypeInv, TypeOK, RunStates

LEMMA ServingWriteOnce ==
  ASSUME TypeInv, Ownership, NEW c \in Collector, run[c].pc \in Serving, NEW n \in Files,
         NEW next, next.dir = run[c].dir, WriteOnce(c, n, next)
  PROVE  Ownership'
  <1> DEFINE d == run[c].dir
             files == [fs[d] EXCEPT ![n] = Made(c, "whole")]
  <1>1. CASE Creates(d, n)
    <2>1. run \in [Collector -> RunStates] /\ fs \in [Dir -> [Files -> FileStates]]
      BY DEF TypeInv, TypeOK
    <2>2. /\ d \in Dir /\ fs[d] \in [Files -> FileStates]
          /\ fs[d]["software_versions"].form # "absent"
          /\ \A m \in Files : fs[d][m].form = "absent" \/ fs[d][m].by = c
      BY OwnDirectory
    <2>3. /\ Made(c, "whole") \in FileStates /\ Made(c, "whole").by = c
          /\ Made(c, "whole").form # "absent"
      <3>1. Made(c, "whole") \in FileStates
        BY MadeTyped DEF Forms
      <3> QED
        BY <3>1 DEF Made
    <2>4. fs' = [fs EXCEPT ![d] = files] /\ run' = [run EXCEPT ![c] = next]
      BY <1>1, <2>1, <2>2 DEF WriteOnce
    <2>5. /\ files \in [Files -> FileStates] /\ files["software_versions"].form # "absent"
          /\ \A m \in Files : files[m].form = "absent" \/ files[m].by = c
      BY <2>2, <2>3, FilesAreNamed
    <2>6. run'[c].dir = d /\ \A b \in Collector : b # c => run'[b] = run[b]
      BY <2>1, <2>4
    <2> HIDE DEF files
    <2> QED
      BY <2>4, <2>5, <2>6, ServingWrites
  <1>2. CASE ~Creates(d, n)
    <2>1. Go(c, "failed") /\ UNCHANGED fs
      BY <1>2 DEF WriteOnce
    <2>2. "failed" \notin Serving
      BY DEF Serving
    <2> QED
      BY <2>1, <2>2, GoOutside
  <1> QED
    BY <1>1, <1>2

LEMMA ServingRecords ==
  ASSUME TypeInv, Ownership, NEW c \in Collector, run[c].pc \in Serving,
         NEW names, NEW eps \in SUBSET Episodes(SceneSeeds), NEW pc, Record(c, names, eps, pc)
  PROVE  Ownership'
  <1> DEFINE d == run[c].dir
             files == [n \in Files |->
               IF n \in names THEN [fs[d][n] EXCEPT !.eps = fs[d][n].eps \cup eps]
               ELSE fs[d][n]]
  <1>1. /\ fs[d] \in [Files -> FileStates] /\ fs[d]["software_versions"].form # "absent"
        /\ \A m \in Files : fs[d][m].form = "absent" \/ fs[d][m].by = c
    BY OwnDirectory
  <1>2. \A file \in FileStates :
          LET new == [file EXCEPT !.eps = file.eps \cup eps]
          IN new \in FileStates /\ new.by = file.by /\ new.form = file.form
    BY DEF FileStates
  <1>3. \A n \in Files : /\ files[n] \in FileStates
                         /\ files[n].by = fs[d][n].by /\ files[n].form = fs[d][n].form
    BY <1>1, <1>2
  <1>4. fs' = [fs EXCEPT ![d] = files] /\ Go(c, pc)
    BY DEF Record
  <1>5. files \in [Files -> FileStates]
    BY <1>3
  <1>6. run'[c].dir = d /\ \A b \in Collector : b # c => run'[b] = run[b]
    BY <1>4, GoKeepsDirectory
  <1>7. /\ files["software_versions"].form # "absent"
        /\ \A m \in Files : files[m].form = "absent" \/ files[m].by = c
    BY <1>1, <1>3, FilesAreNamed
  <1> HIDE DEF files
  <1> QED
    BY <1>4, <1>5, <1>6, <1>7, ServingWrites

LEMMA ClosedKeepsOwners ==
  ASSUME TypeInv, NEW c \in Collector, run[c].pc # "idle", NEW form \in Forms \ {"absent"}
  PROVE  /\ Closed(c, form) \in [Files -> FileStates]
         /\ \A n \in Files :
              /\ Closed(c, form)[n].by = fs[run[c].dir][n].by
              /\ Closed(c, form)[n].form = "absent" <=> fs[run[c].dir][n].form = "absent"
  <1>1. fs[run[c].dir] \in [Files -> FileStates]
    BY DEF TypeInv, TypeOK, Placed
  <1>2. Closed(c, form) \in [Files -> FileStates]
    BY ClosedTyped
  <1>3. \A file \in FileStates : /\ [file EXCEPT !.form = form].by = file.by
                                 /\ [file EXCEPT !.form = form].form = form
    BY DEF FileStates
  <1> QED
    BY <1>1, <1>2, <1>3 DEF Closed

\* Closing the channels, by the end of the with statement or of the process.
LEMMA ServingCloses ==
  ASSUME TypeInv, Ownership, NEW c \in Collector, run[c].pc \in Serving,
         NEW form \in Forms \ {"absent"}, NEW pc, Go(c, pc),
         fs' = [fs EXCEPT ![run[c].dir] = Closed(c, form)]
  PROVE  Ownership'
  <1>1. run[c].pc # "idle"
    BY DEF Serving
  <1>2. /\ fs[run[c].dir]["software_versions"].form # "absent"
        /\ \A m \in Files : fs[run[c].dir][m].form = "absent" \/ fs[run[c].dir][m].by = c
    BY OwnDirectory
  <1> DEFINE files == Closed(c, form)
  <1>3. /\ files \in [Files -> FileStates]
        /\ files["software_versions"].form # "absent"
        /\ \A m \in Files : files[m].form = "absent" \/ files[m].by = c
    BY <1>1, <1>2, ClosedKeepsOwners, FilesAreNamed
  <1>4. run'[c].dir = run[c].dir /\ \A b \in Collector : b # c => run'[b] = run[b]
    BY GoKeepsDirectory
  <1>5. fs' = [fs EXCEPT ![run[c].dir] = files]
    OBVIOUS
  <1> HIDE DEF files
  <1> QED
    BY <1>3, <1>4, <1>5, ServingWrites

LEMMA CrashKeepsOwnership ==
  ASSUME TypeInv, Ownership, NEW c \in Collector, Crash(c)
  PROVE  Ownership'
  <1> DEFINE d == run[c].dir
  <1>1. run[c].pc \in Running /\ run[c].pc # "idle" /\ Go(c, "crashed")
    BY DEF Crash, Running, Serving
  <1>2. PICK form \in {"whole", "empty", "torn"} :
          LET begun == {n \in NextFile(run[c].pc) : form # "whole" /\ Creates(d, n)}
          IN fs' = [fs EXCEPT ![d] = [n \in Files |->
                      IF n \in begun THEN Made(c, form) ELSE Closed(c, form)[n]]]
    BY DEF Crash
  <1> DEFINE begun == {n \in NextFile(run[c].pc) : form # "whole" /\ Creates(d, n)}
             files == [n \in Files |-> IF n \in begun THEN Made(c, form) ELSE Closed(c, form)[n]]
  <1>3. form \in Forms \ {"absent"}
    BY DEF Forms
  <1>4. /\ Made(c, form) \in FileStates /\ Made(c, form).by = c /\ Made(c, form).form = form
    <2>1. Made(c, form) \in FileStates
      BY <1>3, MadeTyped
    <2> QED
      BY <2>1 DEF Made
  <1>5. fs' = [fs EXCEPT ![d] = files]
    BY <1>2
  <1>6. /\ Closed(c, form) \in [Files -> FileStates]
        /\ \A n \in Files :
             /\ Closed(c, form)[n].by = fs[d][n].by
             /\ Closed(c, form)[n].form = "absent" <=> fs[d][n].form = "absent"
    BY <1>1, <1>3, ClosedKeepsOwners
  <1>7. files \in [Files -> FileStates]
    BY <1>4, <1>6
  <1>8. CASE run[c].pc \in Serving
    <2>1. /\ fs[d]["software_versions"].form # "absent"
          /\ \A m \in Files : fs[d][m].form = "absent" \/ fs[d][m].by = c
      BY <1>8, OwnDirectory
    <2>2. \A n \in Files : files[n].form = "absent" \/ files[n].by = c
      BY <2>1, <1>4, <1>6
    <2>3. files["software_versions"].form # "absent"
      BY <2>1, <1>3, <1>4, <1>6, FilesAreNamed
    <2> HIDE DEF files
    <2> QED
      BY <1>1, <1>5, <1>7, <1>8, <2>2, <2>3, GoKeepsDirectory, ServingWrites
  <1>9. CASE run[c].pc \notin Serving
    <2>1. NextFile(run[c].pc) \subseteq {"software_versions"}
      BY <1>1, <1>9 DEF NextFile, Openings, Running, Serving
    <2>2. d \in Dir /\ fs \in [Dir -> [Files -> FileStates]]
      BY <1>1 DEF TypeInv, TypeOK, Placed
    <2>3. ASSUME NEW b \in Collector, run'[b].pc \in Serving
          PROVE  b # c /\ run[b].pc \in Serving /\ run'[b].dir = run[b].dir /\ run[b].dir \in Dir
      <3>1. b # c
        BY <1>1, <2>3 DEF Go, TypeInv, TypeOK, RunStates, Serving
      <3>2. run'[b] = run[b]
        BY <1>1, <3>1, GoKeepsDirectory
      <3> QED
        BY <2>3, <3>1, <3>2 DEF TypeInv, Placed, Serving
    <2>4. CASE "software_versions" \in begun
      <3>1. \A n \in Files : fs[d][n].form = "absent"
        BY <2>4, <2>2 DEF Ownership, Owned, Present, Creates
      <3>2. \A n \in Files : n # "software_versions" => files[n].form = "absent"
        BY <2>1, <3>1, <1>6
      <3>3. files["software_versions"].form # "absent" /\ files["software_versions"].by = c
        BY <2>4, <1>3, <1>4, FilesAreNamed
      <3> HIDE DEF files
      <3>4. \A e \in Dir : fs'[e] = IF e = d THEN files ELSE fs[e]
        BY <1>5, <2>2
      <3>5. Owned'
        BY <3>2, <3>3, <3>4 DEF Ownership, Owned, Present
      <3>6. Held'
        <4> SUFFICES ASSUME NEW b \in Collector, run'[b].pc \in Serving
                     PROVE  /\ fs'[run'[b].dir]["software_versions"].form # "absent"
                            /\ fs'[run'[b].dir]["software_versions"].by = b
          BY DEF Held, Present
        <4>1. /\ run'[b].dir = run[b].dir /\ run[b].dir \in Dir
              /\ fs[run[b].dir]["software_versions"].form # "absent"
              /\ fs[run[b].dir]["software_versions"].by = b
          BY <2>3 DEF Ownership, Held, Present
        <4>2. run[b].dir # d
          BY <4>1, <3>1, FilesAreNamed
        <4> QED
          BY <4>1, <4>2, <3>4
      <3> QED
        BY <3>5, <3>6 DEF Ownership
    <2>5. CASE "software_versions" \notin begun
      <3>1. \A n \in Files : files[n] = Closed(c, form)[n]
        BY <2>1, <2>5
      <3> HIDE DEF files
      <3>2. \A e \in Dir, n \in Files :
              /\ fs'[e][n].by = fs[e][n].by
              /\ fs'[e][n].form = "absent" <=> fs[e][n].form = "absent"
        BY <1>5, <1>6, <2>2, <3>1
      <3> QED
        BY <2>3, <3>2, KeepsOwners
    <2> QED
      BY <2>4, <2>5
  <1> QED
    BY <1>8, <1>9

LEMMA FirstFileTakesDirectory ==
  ASSUME TypeInv, Ownership, NEW c \in Collector, WriteSoftwareVersions(c)
  PROVE  Ownership'
  <1> DEFINE d == run[c].dir
             next == [run[c] EXCEPT !.pc = "started", !.dirty = repo.tree]
  <1>1. /\ run[c].pc # "idle" /\ d \in Dir /\ run[c] \in RunStates
        /\ run \in [Collector -> RunStates] /\ fs \in [Dir -> [Files -> FileStates]]
    BY DEF WriteSoftwareVersions, TypeInv, TypeOK, Placed
  <1>2. next.dir = d
    BY <1>1 DEF RunStates
  <1>3. CASE Creates(d, "software_versions")
    <2>1. /\ fs' = [fs EXCEPT ![d]["software_versions"] = Made(c, "whole")]
          /\ run' = [run EXCEPT ![c] = next]
      BY <1>3 DEF WriteSoftwareVersions, WriteOnce
    <2> HIDE DEF next
    <2>2. /\ fs'[d]["software_versions"].form # "absent"
          /\ fs'[d]["software_versions"].by = c
      BY <2>1, <1>1, FilesAreNamed DEF Made
    <2>3. \A n \in Files : n # "software_versions" => fs'[d][n].form = "absent"
      BY <2>1, <1>1, <1>3 DEF Ownership, Owned, Present, Creates
    <2>4. \A e \in Dir : e # d => fs'[e] = fs[e]
      BY <2>1, <1>1
    <2>5. Owned'
      BY <2>2, <2>3, <2>4 DEF Ownership, Owned, Present
    <2>6. Held'
      <3> SUFFICES ASSUME NEW b \in Collector, run'[b].pc \in Serving
                   PROVE  /\ fs'[run'[b].dir]["software_versions"].form # "absent"
                          /\ fs'[run'[b].dir]["software_versions"].by = b
        BY DEF Held, Present
      <3>1. CASE b = c
        BY <3>1, <2>1, <2>2, <1>1, <1>2
      <3>2. CASE b # c
        <4>1. run'[b] = run[b]
          BY <3>2, <2>1, <1>1
        <4>2. /\ run[b].dir \in Dir
              /\ fs[run[b].dir]["software_versions"].form # "absent"
              /\ fs[run[b].dir]["software_versions"].by = b
          BY <4>1, OwnDirectory DEF Ownership, Held
        <4>3. run[b].dir # d
          BY <4>2, <1>3 DEF Creates, Present
        <4> QED
          BY <4>1, <4>2, <4>3, <2>4
      <3> QED
        BY <3>1, <3>2
    <2> QED
      BY <2>5, <2>6 DEF Ownership
  <1>4. CASE ~Creates(d, "software_versions")
    <2>1. Go(c, "failed") /\ UNCHANGED fs
      BY <1>4 DEF WriteSoftwareVersions, WriteOnce
    <2>2. "failed" \notin Serving
      BY DEF Serving
    <2> QED
      BY <2>1, <2>2, GoOutside
  <1> QED
    BY <1>3, <1>4

LEMMA SealKeepsOwnership ==
  ASSUME TypeInv, Ownership, NEW c \in Collector, Seal(c)
  PROVE  Ownership'
  <1> DEFINE d == run[c].dir
             files == [fs[d] EXCEPT !["shard_integrity"] = Made(c, "whole")]
  <1>1. run[c].pc \in Serving /\ "failed" \notin Serving
    BY DEF Seal, Serving
  <1>2. \/ Go(c, "failed") /\ UNCHANGED fs
        \/ Go(c, "done") /\ fs' = [fs EXCEPT ![d]["shard_integrity"] = Made(c, "whole")]
    BY DEF Seal
  <1>3. CASE Go(c, "failed") /\ UNCHANGED fs
    BY <1>1, <1>3, GoOutside
  <1>4. CASE Go(c, "done") /\ fs' = [fs EXCEPT ![d]["shard_integrity"] = Made(c, "whole")]
    <2>1. /\ d \in Dir /\ fs[d] \in [Files -> FileStates]
          /\ fs[d]["software_versions"].form # "absent"
          /\ \A m \in Files : fs[d][m].form = "absent" \/ fs[d][m].by = c
      BY <1>1, OwnDirectory
    <2>2. /\ Made(c, "whole") \in FileStates /\ Made(c, "whole").by = c
          /\ Made(c, "whole").form # "absent"
      <3>1. Made(c, "whole") \in FileStates
        BY MadeTyped DEF Forms
      <3> QED
        BY <3>1 DEF Made
    <2>3. fs' = [fs EXCEPT ![d] = files]
      BY <1>4, <2>1 DEF TypeInv, TypeOK
    <2>4. /\ files \in [Files -> FileStates] /\ files["software_versions"].form # "absent"
          /\ \A m \in Files : files[m].form = "absent" \/ files[m].by = c
      BY <2>1, <2>2, FilesAreNamed
    <2>5. run'[c].dir = d /\ \A b \in Collector : b # c => run'[b] = run[b]
      BY <1>4, GoKeepsDirectory
    <2> HIDE DEF files
    <2> QED
      BY <1>1, <2>3, <2>4, <2>5, ServingWrites
  <1> QED
    BY <1>2, <1>3, <1>4

LEMMA OpenKeepsOwnership ==
  ASSUME TypeInv, Ownership, NEW c \in Collector, OpenStreams(c)
  PROVE  Ownership'
  <1>0. PICK o \in Openings : run[c].pc = o[1] /\ OpenStream(c, o[2], o[3])
    BY DEF OpenStreams
  <1> DEFINE d == run[c].dir
             n == o[2]
             files == [fs[d] EXCEPT ![n] = Made(c, "open")]
  <1>1. run[c].pc \in Serving /\ n \in Streams /\ n \in Files
    BY <1>0, FilesAreNamed DEF Openings, Serving, Streams
  <1>2. CASE Go(c, "failed") /\ fs' = [fs EXCEPT ![d] = Closed(c, "whole")]
    BY <1>1, <1>2, ServingCloses DEF Forms
  <1>3. CASE Go(c, o[3]) /\ fs' = [fs EXCEPT ![d][n] = Made(c, "open")]
    <2>1. /\ d \in Dir /\ fs \in [Dir -> [Files -> FileStates]]
          /\ fs[d] \in [Files -> FileStates] /\ fs[d]["software_versions"].form # "absent"
          /\ \A m \in Files : fs[d][m].form = "absent" \/ fs[d][m].by = c
      BY <1>1, OwnDirectory DEF TypeInv, TypeOK
    <2>2. Made(c, "open") \in FileStates /\ Made(c, "open").by = c
      <3>1. Made(c, "open") \in FileStates
        BY MadeTyped DEF Forms
      <3> QED
        BY <3>1 DEF Made
    <2>3. /\ files \in [Files -> FileStates] /\ files["software_versions"].form # "absent"
          /\ \A m \in Files : files[m].form = "absent" \/ files[m].by = c
      BY <1>1, <2>1, <2>2, FilesAreNamed
    <2>4. fs' = [fs EXCEPT ![d] = files]
      BY <1>3, <2>1
    <2>5. run'[c].dir = d /\ \A b \in Collector : b # c => run'[b] = run[b]
      BY <1>3, GoKeepsDirectory
    <2> HIDE DEF files
    <2> QED
      BY <1>1, <2>3, <2>4, <2>5, ServingWrites
  <1> QED
    BY <1>0, <1>2, <1>3 DEF OpenStream

LEMMA CollectKeepsOwnership ==
  ASSUME TypeInv, Ownership, NEW c \in Collector, Collect(c)
  PROVE  Ownership'
  <1>t. run \in [Collector -> RunStates] /\ run[c] \in RunStates
    BY DEF TypeInv, TypeOK
  <1>1. CASE \E d \in Dir, request \in Requests : Launch(c, d, request[1], request[2])
    <2>1. PICK d \in Dir, request \in Requests : Launch(c, d, request[1], request[2])
      BY <1>1
    <2> DEFINE next == [Idle EXCEPT !.pc = "configured", !.dir = d, !.role = request[1],
                          !.seeds = request[2],
                          !.code = IF repo.tree = "dirty" THEN Uncommitted ELSE repo.head,
                          !.plan = repo.protocol]
    <2>2. run' = [run EXCEPT ![c] = next] /\ next.pc = "configured"
      BY <2>1 DEF Launch, Idle
    <2> HIDE DEF next
    <2> QED
      BY <2>1, <2>2, StaysOutside DEF Launch, Serving
  <1>2. CASE VerifyInputs(c)
    <2> DEFINE pc == IF run[c].role # "debug" /\ repo.tree = "dirty"
                     THEN "failed" ELSE "verified"
               next == [run[c] EXCEPT !.hash = repo.protocol, !.pc = pc]
    <2>1. run' = [run EXCEPT ![c] = next] /\ next.pc \in {"failed", "verified"}
      BY <1>2, <1>t DEF VerifyInputs, RunStates
    <2> HIDE DEF next
    <2> QED
      BY <1>2, <2>1, StaysOutside DEF VerifyInputs, Serving
  <1>3. CASE ClaimDirectory(c)
    BY <1>3, GoOutside DEF ClaimDirectory, Serving
  <1>4. CASE ReadCommit(c)
    <2> DEFINE next == [run[c] EXCEPT !.pc = "identified", !.commit = repo.head]
    <2>1. run' = [run EXCEPT ![c] = next] /\ next.pc = "identified"
      BY <1>4, <1>t DEF ReadCommit, RunStates
    <2> HIDE DEF next
    <2> QED
      BY <1>4, <2>1, StaysOutside DEF ReadCommit, Serving
  <1>5. CASE WriteSoftwareVersions(c)
    BY <1>5, FirstFileTakesDirectory
  <1>6. CASE StartServer(c)
    <2> DEFINE next == [run[c] EXCEPT !.pc = "ready"]
    <2>1. WriteOnce(c, "policy_server_log", next) /\ run[c].pc \in Serving
      BY <1>6 DEF StartServer, Serving
    <2>2. next.dir = run[c].dir
      BY <1>t DEF RunStates
    <2> HIDE DEF next
    <2> QED
      BY <2>1, <2>2, FilesAreNamed, ServingWriteOnce
  <1>13. CASE WriteMetrics(c)
    <2> DEFINE next == [run[c] EXCEPT !.pc = "summed"]
    <2>1. WriteOnce(c, "metrics", next) /\ run[c].pc \in Serving
      BY <1>13 DEF WriteMetrics, Serving
    <2>2. next.dir = run[c].dir
      BY <1>t DEF RunStates
    <2> HIDE DEF next
    <2> QED
      BY <2>1, <2>2, FilesAreNamed, ServingWriteOnce
  <1>14. CASE WriteRunManifest(c)
    <2> DEFINE next == [run[c] EXCEPT !.pc = "manifested"]
    <2>1. WriteOnce(c, "run_manifest", next) /\ run[c].pc \in Serving
      BY <1>14 DEF WriteRunManifest, Serving
    <2>2. next.dir = run[c].dir
      BY <1>t DEF RunStates
    <2> HIDE DEF next
    <2> QED
      BY <2>1, <2>2, FilesAreNamed, ServingWriteOnce
  <1>15. CASE RecordPolicyBefore(c)
    <2>1. PICK w \in Weights :
            WriteOnce(c, "policy_state_before", [run[c] EXCEPT !.pc = "opening", !.weights = w])
      BY <1>15 DEF RecordPolicyBefore
    <2> DEFINE next == [run[c] EXCEPT !.pc = "opening", !.weights = w]
    <2>2. WriteOnce(c, "policy_state_before", next) /\ run[c].pc \in Serving
      BY <1>15, <2>1 DEF RecordPolicyBefore, Serving
    <2>3. next.dir = run[c].dir
      BY <1>t DEF RunStates
    <2> HIDE DEF next
    <2> QED
      BY <2>2, <2>3, FilesAreNamed, ServingWriteOnce
  <1>16. CASE ValidateDataset(c)
    <2> DEFINE next == IF DatasetErrors(c)
                       THEN [run[c] EXCEPT !.pc = "failed", !.valid = "failed"]
                       ELSE [run[c] EXCEPT !.pc = "sealing", !.valid = "passed"]
    <2>1. WriteOnce(c, "artifact_validation", next) /\ run[c].pc \in Serving
      BY <1>16 DEF ValidateDataset, Serving
    <2>2. next.dir = run[c].dir
      BY <1>t DEF RunStates
    <2> HIDE DEF next
    <2> QED
      BY <2>1, <2>2, FilesAreNamed, ServingWriteOnce
  <1>7. CASE OpenStreams(c)
    BY <1>7, OpenKeepsOwnership
  <1>8. CASE AuditEpisode(c)
    <2> DEFINE rest == Episodes(run[c].seeds) \ Recorded(c, "episodes")
               e == CHOOSE e \in rest : TRUE
    <2>1. run[c].pc \in Serving /\ run[c].pc # "idle" /\ rest # {}
      BY <1>8 DEF AuditEpisode, Serving
    <2>2. e \in rest
      BY <2>1
    <2>3. {e} \in SUBSET Episodes(SceneSeeds)
      BY <2>1, <2>2, EpisodesTyped
    <2>4. Record(c, {"audit_stream"}, {e}, "audited")
      BY <1>8 DEF AuditEpisode
    <2> QED
      BY <2>1, <2>3, <2>4, ServingRecords
  <1>17. CASE WriteEpisode(c) \/ IndexEpisode(c) \/ SummariseEpisode(c)
    <2>1. run[c].pc \in Serving /\ run[c].pc # "idle"
      BY <1>17 DEF WriteEpisode, IndexEpisode, SummariseEpisode, Serving
    <2>2. /\ Recorded(c, "audit_stream") \in SUBSET Episodes(SceneSeeds)
          /\ Recorded(c, "monitor_inputs") \in SUBSET Episodes(SceneSeeds)
          /\ Recorded(c, "dataset_index") \in SUBSET Episodes(SceneSeeds)
      BY <2>1, EpisodesTyped, FilesAreNamed
    <2>3. CASE WriteEpisode(c)
      BY <2>1, <2>2, <2>3, ServingRecords DEF WriteEpisode
    <2>4. CASE IndexEpisode(c)
      BY <2>1, <2>2, <2>4, ServingRecords DEF IndexEpisode
    <2>5. CASE SummariseEpisode(c)
      BY <2>1, <2>2, <2>5, ServingRecords DEF SummariseEpisode
    <2> QED
      BY <1>17, <2>3, <2>4, <2>5
  <1>9. CASE CloseStreams(c) \/ Fail(c)
    <2>1. /\ run[c].pc \in Serving /\ "whole" \in Forms \ {"absent"}
          /\ fs' = [fs EXCEPT ![run[c].dir] = Closed(c, "whole")]
          /\ \E pc : Go(c, pc)
      BY <1>9 DEF CloseStreams, Fail, Serving, Forms
    <2> QED
      BY <2>1, ServingCloses
  <1>10. CASE RecordPolicyAfter(c)
    <2>1. run[c].pc \in Serving /\ "failed" \notin Serving
      BY <1>10 DEF RecordPolicyAfter, Serving
    <2>2. \/ WriteOnce(c, "policy_state_after", [run[c] EXCEPT !.pc = "measured"])
          \/ Go(c, "failed") /\ UNCHANGED fs
      BY <1>10 DEF RecordPolicyAfter
    <2>3. [run[c] EXCEPT !.pc = "measured"].dir = run[c].dir
      BY <1>t DEF RunStates
    <2> QED
      BY <2>1, <2>2, <2>3, FilesAreNamed, ServingWriteOnce, GoOutside
  <1>11. CASE Seal(c)
    BY <1>11, SealKeepsOwnership
  <1>12. CASE Crash(c)
    BY <1>12, CrashKeepsOwnership
  <1> QED
    BY <1>1, <1>2, <1>3, <1>4, <1>5, <1>6, <1>7, <1>8, <1>9, <1>10, <1>11, <1>12, <1>13,
       <1>14, <1>15, <1>16, <1>17 DEF Collect

\* What the world around the collectors does: no file is created, none changes hands.
LEMMA WorldKeepsOwnership ==
  ASSUME TypeInv, Ownership, UNCHANGED run,
         \A d \in Dir, n \in Files :
            /\ fs'[d][n].by = fs[d][n].by
            /\ fs'[d][n].form = "absent" <=> fs[d][n].form = "absent"
  PROVE  Ownership'
  <1>1. \A b \in Collector : run[b].pc \in Serving => run[b].dir \in Dir
    BY DEF TypeInv, Placed, Serving
  <1> QED
    BY <1>1, KeepsOwners

LEMMA DamageKeepsOwnership ==
  ASSUME TypeInv, Ownership, NEW d \in Dir, NEW n \in Fragile,
         NEW form \in {"empty", "torn", "altered"}, Damage(d, n, form)
  PROVE  Ownership'
  <1>1. fs \in [Dir -> [Files -> FileStates]] /\ n \in Files
    BY FilesAreNamed DEF TypeInv, TypeOK
  <1>2. UNCHANGED run /\ fs[d][n].form = "whole" /\ fs' = [fs EXCEPT ![d][n].form = form]
    BY DEF Damage
  <1>3. \A file \in FileStates :
          [file EXCEPT !.form = form].by = file.by /\ [file EXCEPT !.form = form].form = form
    BY DEF FileStates
  <1>4. fs[d][n] \in FileStates
    BY <1>1
  <1>5. fs'[d][n].by = fs[d][n].by /\ fs'[d][n].form = form
    BY <1>1, <1>2, <1>3, <1>4
  <1>6. \A e \in Dir, m \in Files : e # d \/ m # n => fs'[e][m] = fs[e][m]
    BY <1>1, <1>2
  <1>7. \A e \in Dir, m \in Files :
          /\ fs'[e][m].by = fs[e][m].by
          /\ fs'[e][m].form = "absent" <=> fs[e][m].form = "absent"
    BY <1>2, <1>5, <1>6
  <1> QED
    BY <1>2, <1>7, WorldKeepsOwnership

LEMMA OwnershipHolds == Spec => []Ownership
  <1>1. Init => Ownership
    <2> SUFFICES ASSUME Init PROVE Ownership
      OBVIOUS
    <2>1. \A d \in Dir, n \in Files : ~Present(d, n)
      BY DEF Init, Absent, Present
    <2>2. \A c \in Collector : run[c].pc \notin Serving
      BY DEF Init, Idle, Serving
    <2> QED
      BY <2>1, <2>2 DEF Ownership, Owned, Held
  <1>2. TypeInv /\ Ownership /\ [Next]_vars => Ownership'
    <2> SUFFICES ASSUME TypeInv, Ownership, [Next]_vars PROVE Ownership'
      OBVIOUS
    <2>1. CASE \E c \in Collector : Collect(c)
      BY <2>1, CollectKeepsOwnership
    <2>2. CASE Edit \/ Advance \/ UNCHANGED vars
      <3>1. UNCHANGED <<run, fs>>
        BY <2>2 DEF Edit, Advance, vars
      <3> QED
        BY <3>1, WorldKeepsOwnership
    <2>3. CASE \E d \in Dir, n \in Fragile, form \in {"empty", "torn", "altered"} :
                 Damage(d, n, form)
      BY <2>3, DamageKeepsOwnership
    <2> QED
      BY <2>1, <2>2, <2>3 DEF Next
  <1> QED
    BY <1>1, <1>2, TypeInvHolds, PTL DEF Spec

\* A directory holds the files of one run only, however many collectors were
\* given it: the check of ensure_empty_output_dir alone does not give this, the
\* exclusive creation of the first file does.
THEOREM OneRun == Spec => []OneRunPerDirectory
  <1>1. Ownership => OneRunPerDirectory
    BY DEF Ownership, Owned, OneRunPerDirectory
  <1> QED
    BY <1>1, OwnershipHolds, PTL

-----------------------------------------------------------------------------
(* What the gate relies on.  The invariant of the runs and of their files  *)
(* says what a file holds, who sealed a directory and what a run that      *)
(* wrote its seal has been through.                                        *)

\* The channels of a run at a place of main after they were opened: each has the
\* episodes of the one before it, up to the episode under way.
ChannelsHold(place, all, audit, inputs, labels, index, summary) ==
  /\ inputs = labels
  /\ summary \subseteq index /\ index \subseteq inputs /\ inputs \subseteq audit /\ audit \subseteq all
  /\ place # "audited" => inputs = audit
  /\ place \notin {"audited", "written"} => index = inputs
  /\ place \notin {"audited", "written", "indexed"} => summary = index
  /\ place \notin {"audited", "written", "indexed", "episode"} => summary = all

\* While the channels are being opened: those that are.
Opening == {"inputs_opened", "labels_opened", "index_opened", "episodes_opened"}
OpenedBefore(place) ==
  CASE place = "inputs_opened" -> {"monitor_inputs"}
    [] place = "labels_opened" -> {"monitor_inputs", "offline_labels"}
    [] place = "index_opened" -> {"monitor_inputs", "offline_labels", "dataset_index"}
    [] place = "episodes_opened" -> Streams \ {"audit_stream"}
    [] OTHER -> {}

Collecting == {"episode", "audited", "written", "indexed", "closed", "measured", "summed",
               "manifested", "sealing", "done"}

\* What a run was asked for, what it was told and what it found.
RecordHolds(r) ==
  /\ r.pc # "idle" => /\ r.seeds # {}
                      /\ r.role # "debug" => (r.seeds = SceneSeeds <=> r.role = "full_partition")
  /\ r.pc \in Collecting \cup Opening \cup {"opening"} => r.weights \in Weights
  /\ r.pc \in {"sealing", "done"} => r.valid = "passed"

OpenedEmpty(c) ==
  run[c].pc \in Opening => \A n \in OpenedBefore(run[c].pc) : Recorded(c, n) = {}

FilesHold(c) ==
  /\ OpenedEmpty(c)
  /\ run[c].pc \in Collecting =>
       ChannelsHold(run[c].pc, Episodes(run[c].seeds), Recorded(c, "audit_stream"),
                    Recorded(c, "monitor_inputs"), Recorded(c, "offline_labels"),
                    Recorded(c, "dataset_index"), Recorded(c, "episodes"))
  /\ run[c].pc = "done" =>
       /\ Present(run[c].dir, "software_versions")
       /\ fs[run[c].dir]["software_versions"].by = c
       /\ \A n \in Hashed : fs[run[c].dir][n].form = "whole" => seal[run[c].dir][n] = fs[run[c].dir][n]

\* Only a channel has episodes or is open; only a file of a sealed directory is
\* altered, and not when it is sealed; a seal that is whole is that of a run that is done.
DirectoryHolds(d) ==
  /\ \A n \in Files : /\ n \notin Streams => fs[d][n].eps = {} /\ fs[d][n].form # "open"
                      /\ fs[d][n].form = "altered" => n \in Hashed /\ Present(d, "shard_integrity")
  /\ \A n \in Hashed : seal[d][n].form # "altered"
  /\ fs[d]["shard_integrity"].form = "whole" =>
       \E c \in Collector : /\ fs[d]["shard_integrity"].by = c
                            /\ run[c].pc = "done" /\ run[c].dir = d

SealInv ==
  /\ \A c \in Collector : RecordHolds(run[c]) /\ FilesHold(c)
  /\ \A d \in Dir : DirectoryHolds(d)

\* A shard that passes, and the run that wrote it.
LEMMA PassedRun ==
  ASSUME TypeInv, Ownership, SealInv, NEW d \in Dir, ShardPasses(d)
  PROVE  \E c \in Collector :
           /\ run[c].pc = "done" /\ run[c].role # "debug" /\ run[c].dir = d
           /\ \A n \in Artifacts :
                /\ Author(d, n) = run[c]
                /\ fs[d][n] = [by |-> c, form |-> "whole",
                               eps |-> IF n \in Streams THEN Episodes(run[c].seeds) ELSE {}]
<1>1. /\ fs[d] \in [Files -> FileStates] /\ Artifacts \subseteq Files
      /\ \A n \in Artifacts : fs[d][n].form \in {"whole", "altered"}
  BY FilesAreNamed DEF TypeInv, TypeOK, ShardPasses, Readable
<1>2. DirectoryHolds(d)
  BY DEF SealInv
<1>3. "shard_integrity" \in Artifacts /\ "shard_integrity" \notin Hashed
  BY DEF Artifacts, Hashed, Streams
<1>4. PICK c \in Collector :
        fs[d]["shard_integrity"].by = c /\ run[c].pc = "done" /\ run[c].dir = d
  BY <1>1, <1>2, <1>3 DEF DirectoryHolds
<1>5. \A n \in Artifacts : fs[d][n].by = c
  BY <1>1, <1>3, <1>4 DEF Ownership, Owned, Present
<1>6. \A n \in Artifacts : Author(d, n) = run[c]
  BY <1>5 DEF Author
<1>7. \A n \in Artifacts : fs[d][n].form = "whole"
  <2>1. ASSUME NEW n \in Hashed
        PROVE  fs[d][n].form = "whole"
    <3>1. seal[d][n] = fs[d][n]
      BY <2>1 DEF ShardPasses, ChecksumsAgree
    <3>2. seal[d][n].form # "altered" /\ n \in Artifacts
      BY <1>2, <2>1, FilesAreNamed DEF DirectoryHolds
    <3> QED
      BY <1>1, <3>1, <3>2
  <2>2. \A n \in Artifacts \ Hashed : n = "shard_integrity"
    BY DEF Artifacts
  <2>3. fs[d]["shard_integrity"].form = "whole"
    BY <1>1, <1>2, <1>3 DEF DirectoryHolds
  <2> QED
    BY <2>1, <2>2, <2>3
<1>8. run[c].role # "debug"
  <2>1. Metrics(d) = run[c]
    BY <1>6, FilesAreNamed DEF Metrics
  <2>2. Metrics(d).role \in FormalRoles
    BY DEF ShardPasses, RolesAndSeedsAgree
  <2> QED
    BY <2>1, <2>2 DEF FormalRoles
<1>9. ASSUME NEW n \in Artifacts
      PROVE  fs[d][n].eps = IF n \in Streams THEN Episodes(run[c].seeds) ELSE {}
  <2>1. CASE n \in Streams
    <3>1. Metrics(d) = run[c]
      BY <1>6, FilesAreNamed DEF Metrics
    <3>2. /\ fs[d]["monitor_inputs"].eps = Episodes(run[c].seeds)
          /\ fs[d]["offline_labels"].eps = fs[d]["monitor_inputs"].eps
          /\ \A m \in {"episodes", "dataset_index", "audit_stream"} :
               fs[d][m].eps = fs[d]["monitor_inputs"].eps
      BY <3>1 DEF ShardPasses, EpisodesFollowPlan, StreamsAgree
    <3> QED
      BY <2>1, <3>2 DEF Streams
  <2>2. CASE n \notin Streams
    BY <1>1, <1>2, <2>2 DEF DirectoryHolds
  <2> QED
    BY <2>1, <2>2
<1>10. ASSUME NEW n \in Artifacts
       PROVE  fs[d][n] = [by |-> c, form |-> "whole",
                          eps |-> IF n \in Streams THEN Episodes(run[c].seeds) ELSE {}]
  <2>1. fs[d][n] \in FileStates
    BY <1>1
  <2>2. fs[d][n] = [by |-> fs[d][n].by, form |-> fs[d][n].form, eps |-> fs[d][n].eps]
    BY <2>1 DEF FileStates
  <2> QED
    BY <1>5, <1>7, <1>9, <2>2
<1> QED
  BY <1>4, <1>6, <1>8, <1>10

\* The lists of shards.
LEMMA ListOfShards ==
  ASSUME NEW shards \in ShardLists
  PROVE  \E k \in Nat \ {0} : shards \in [1..k -> Dir] /\ DOMAIN shards = 1..k
<1>1. PICK k \in 1..Cardinality(Dir) : shards \in [1..k -> Dir]
  BY DEF ShardLists
<1>2. Cardinality(Dir) \in Nat
  BY DirAssumption, FS_CardinalityType
<1>3. k \in Nat \ {0}
  BY <1>1, <1>2
<1> QED
  BY <1>1, <1>3

LEMMA RunsAsFinished ==
  ASSUME TypeInv, Ownership, SealInv
  PROVE  PassedShardsAreRunsAsFinished
<1> SUFFICES ASSUME NEW shards \in ShardLists, GatePasses(shards), NEW i \in DOMAIN shards
             PROVE  \E c \in Collector :
                      /\ run[c].pc = "done" /\ run[c].role # "debug" /\ run[c].dir = shards[i]
                      /\ \A n \in Artifacts :
                           fs[shards[i]][n] = [by |-> c, form |-> "whole",
                             eps |-> IF n \in Streams THEN Episodes(run[c].seeds) ELSE {}]
  BY DEF PassedShardsAreRunsAsFinished
<1>1. shards[i] \in Dir
  BY ListOfShards
<1>2. ShardPasses(shards[i])
  BY DEF GatePasses
<1>3. PICK c \in Collector :
        /\ run[c].pc = "done" /\ run[c].role # "debug" /\ run[c].dir = shards[i]
        /\ \A n \in Artifacts :
             /\ Author(shards[i], n) = run[c]
             /\ fs[shards[i]][n] = [by |-> c, form |-> "whole",
                            eps |-> IF n \in Streams THEN Episodes(run[c].seeds) ELSE {}]
  BY <1>1, <1>2, PassedRun
<1> QED
  BY <1>3

LEMMA ShareProvenance ==
  ASSUME TypeInv, Ownership, SealInv
  PROVE  PassedShardsShareProvenance
<1> SUFFICES ASSUME NEW shards \in ShardLists, GatePasses(shards)
             PROVE  \E w \in Weights, h \in Commits : \A i \in DOMAIN shards : \E c \in Collector :
                      /\ run[c].dir = shards[i] /\ run[c].pc = "done"
                      /\ run[c].plan = repo.protocol /\ run[c].hash = repo.protocol
                      /\ run[c].weights = w
                      /\ run[c].commit = h /\ run[c].dirty = "clean"
  BY DEF PassedShardsShareProvenance
<1>1. 1 \in DOMAIN shards /\ \A i \in DOMAIN shards : shards[i] \in Dir
  BY ListOfShards
<1>2. ASSUME NEW i \in DOMAIN shards
      PROVE  \E c \in Collector :
               /\ run[c].dir = shards[i] /\ run[c].pc = "done"
               /\ run[c].plan = repo.protocol /\ run[c].hash = repo.protocol
               /\ run[c].weights = Metrics(shards[i]).weights
               /\ run[c].commit = Software(shards[i]).commit /\ run[c].dirty = "clean"
               /\ run[c].weights \in Weights /\ run[c].commit \in Commits
  <2>1. ShardPasses(shards[i])
    BY DEF GatePasses
  <2>2. PICK c \in Collector :
          /\ run[c].pc = "done" /\ run[c].role # "debug" /\ run[c].dir = shards[i]
          /\ \A n \in Artifacts :
               /\ Author(shards[i], n) = run[c]
               /\ fs[shards[i]][n] = [by |-> c, form |-> "whole",
                              eps |-> IF n \in Streams THEN Episodes(run[c].seeds) ELSE {}]
    BY <1>1, <2>1, PassedRun
  <2>3. Metrics(shards[i]) = run[c] /\ Manifest(shards[i]) = run[c] /\ Software(shards[i]) = run[c]
    BY <2>2, FilesAreNamed DEF Metrics, Manifest, Software
  <2>4. run[c].plan = repo.protocol /\ run[c].hash = repo.protocol /\ run[c].dirty = "clean"
    BY <2>1, <2>3 DEF ShardPasses, EpisodesFollowPlan, ProtocolIsCurrent, SnapshotIsClean
  <2>5. run[c].weights \in Weights
    BY <2>2 DEF SealInv, RecordHolds, Opening, Collecting
  <2>6. run[c].commit \in Commits
    BY DEF TypeInv, TypeOK, RunStates
  <2> QED
    BY <2>2, <2>3, <2>4, <2>5, <2>6
<1>3. \A i \in DOMAIN shards : /\ Metrics(shards[i]).weights = Metrics(shards[1]).weights
                               /\ Software(shards[i]).commit = Software(shards[1]).commit
  BY <1>1 DEF GatePasses, Fingerprint
<1> DEFINE w == Metrics(shards[1]).weights
           h == Software(shards[1]).commit
<1>4. w \in Weights /\ h \in Commits
  BY <1>1, <1>2
<1>5. \A i \in DOMAIN shards : \E c \in Collector :
        /\ run[c].dir = shards[i] /\ run[c].pc = "done"
        /\ run[c].plan = repo.protocol /\ run[c].hash = repo.protocol
        /\ run[c].weights = w
        /\ run[c].commit = h /\ run[c].dirty = "clean"
  BY <1>2, <1>3
<1> QED
  BY <1>4, <1>5

\* Nothing but the conditions of the gate makes the shards a partition.
LEMMA CoverPartition ==
  PassedShardsCoverPartition
<1> SUFFICES ASSUME NEW shards \in ShardLists, GatePasses(shards), NEW e \in Episodes(SceneSeeds)
             PROVE  Cardinality({i \in DOMAIN shards : e \in fs[shards[i]]["offline_labels"].eps}) = 1
  BY DEF PassedShardsCoverPartition
<1>1. \A i \in DOMAIN shards :
        fs[shards[i]]["offline_labels"].eps = Episodes(Metrics(shards[i]).seeds)
  BY DEF GatePasses, ShardPasses, EpisodesFollowPlan
<1>2. PICK k \in SceneSeeds, condition \in Conditions : e = <<k, condition>>
  BY DEF Episodes
<1>3. \A s : e \in Episodes(s) <=> k \in s
  BY <1>2 DEF Episodes
<1>4. PICK j \in DOMAIN shards : k \in Metrics(shards[j]).seeds
  BY <1>2 DEF GatePasses, SeedsCoverPartition
<1>5. \A i \in DOMAIN shards : k \in Metrics(shards[i]).seeds => i = j
  BY <1>4 DEF GatePasses, SeedsCoverPartition
<1>6. {i \in DOMAIN shards : e \in fs[shards[i]]["offline_labels"].eps} = {j}
  BY <1>1, <1>3, <1>4, <1>5
<1> QED
  BY <1>6, FS_Singleton

\* A run that is done and whose files are all as they were written is a shard the
\* gate accepts by itself, whatever the other shards are.
LEMMA GoodRun ==
  ASSUME TypeInv, Ownership, SealInv, NEW c \in Collector, run[c].dir \in Dir,
         run[c].pc = "done", run[c].role # "debug",
         run[c].plan = repo.protocol, run[c].hash = repo.protocol, run[c].dirty = "clean",
         \A n \in Artifacts : fs[run[c].dir][n].form = "whole"
  PROVE  /\ ShardPasses(run[c].dir)
         /\ \A n \in Artifacts : Author(run[c].dir, n) = run[c]
<1> DEFINE d == run[c].dir
<1>1. FilesHold(c) /\ RecordHolds(run[c]) /\ run[c] \in RunStates
  BY DEF SealInv, TypeInv, TypeOK
<1>2. \A n \in Artifacts : fs[d][n].by = c
  BY <1>1, FilesAreNamed DEF FilesHold, Ownership, Owned, Present
<1>3. \A n \in Artifacts : Author(d, n) = run[c]
  BY <1>2 DEF Author
<1>4. /\ Metrics(d) = run[c] /\ Manifest(d) = run[c] /\ Integrity(d) = run[c] /\ Software(d) = run[c]
      /\ Author(d, "artifact_validation") = run[c]
      /\ Author(d, "monitor_inputs") = run[c] /\ Author(d, "offline_labels") = run[c]
      /\ Author(d, "policy_state_before") = run[c] /\ Author(d, "policy_state_after") = run[c]
  BY <1>3, FilesAreNamed DEF Metrics, Manifest, Integrity, Software
<1>5. Readable(d) /\ ValidationPassed(d)
  BY <1>1, <1>4 DEF Readable, ValidationPassed, RecordHolds
<1>6. RolesAndSeedsAgree(d)
  <2>1. run[c].role \in FormalRoles /\ run[c].seeds \subseteq SceneSeeds
    BY <1>1 DEF RunStates, Roles, FormalRoles
  <2>2. run[c].seeds # {} /\ (run[c].seeds = SceneSeeds <=> run[c].role = "full_partition")
    BY <1>1 DEF RecordHolds
  <2>3. (run[c].seeds = SceneSeeds) = (run[c].role = "full_partition")
    BY <2>2
  <2> QED
    BY <1>4, <2>1, <2>2, <2>3 DEF RolesAndSeedsAgree
<1>7. ProtocolIsCurrent(d) /\ PolicyUnchanged(d) /\ SnapshotIsClean(d)
  BY <1>4 DEF ProtocolIsCurrent, PolicyUnchanged, SnapshotIsClean
<1>8. ChecksumsAgree(d)
  BY <1>1, FilesAreNamed DEF FilesHold, ChecksumsAgree
<1>9. /\ fs[d]["audit_stream"].eps = Episodes(run[c].seeds)
      /\ fs[d]["monitor_inputs"].eps = Episodes(run[c].seeds)
      /\ fs[d]["offline_labels"].eps = Episodes(run[c].seeds)
      /\ fs[d]["dataset_index"].eps = Episodes(run[c].seeds)
      /\ fs[d]["episodes"].eps = Episodes(run[c].seeds)
  BY <1>1 DEF FilesHold, ChannelsHold, Opening, Collecting, Recorded
<1>10. EpisodesFollowPlan(d) /\ StreamsAgree(d)
  BY <1>4, <1>9 DEF EpisodesFollowPlan, StreamsAgree
<1> QED
  BY <1>3, <1>5, <1>6, <1>7, <1>8, <1>10 DEF ShardPasses

\* As many runs as shards: every shard is the directory of exactly one of them.
LEMMA OneRunPerShard ==
  ASSUME TypeInv, Ownership, SealInv, NEW shards \in ShardLists,
         Cardinality(Campaign(shards)) = Len(shards)
  PROVE  /\ \A i, j \in DOMAIN shards : i # j => shards[i] # shards[j]
         /\ \A i \in DOMAIN shards : \E c \in Campaign(shards) : run[c].dir = shards[i]
<1>1. PICK k \in Nat \ {0} : shards \in [1..k -> Dir] /\ DOMAIN shards = 1..k
  BY ListOfShards
<1> DEFINE campaign == Campaign(shards)
           given == {shards[i] : i \in 1..k}
           place == [c \in campaign |-> run[c].dir]
<1>2. Len(shards) = k
  BY <1>1
<1>3. shards \in Surjection(1..k, given)
  BY <1>1 DEF Surjection
<1>4. IsFiniteSet(1..k) /\ Cardinality(1..k) = k
  BY <1>1, FS_Interval
<1>5. /\ IsFiniteSet(given) /\ Cardinality(given) <= k
      /\ Cardinality(given) = k => shards \in Injection(1..k, given)
  BY <1>3, <1>4, FS_Surjection
<1>6. place \in Injection(campaign, given)
  <2>1. place \in [campaign -> given]
    BY <1>1 DEF Campaign
  <2>2. ASSUME NEW b \in campaign, NEW c \in campaign, run[b].dir = run[c].dir
        PROVE  b = c
    <3>1. FilesHold(b) /\ FilesHold(c) /\ run[b].pc = "done" /\ run[c].pc = "done"
      BY DEF SealInv, Campaign
    <3> QED
      BY <2>2, <3>1 DEF FilesHold
  <2> QED
    BY <2>1, <2>2 DEF Injection, IsInjective
<1>7. /\ Cardinality(campaign) <= Cardinality(given)
      /\ Cardinality(campaign) = Cardinality(given) => place \in Surjection(campaign, given)
  BY <1>5, <1>6, FS_Injection
<1>8. Cardinality(given) = k
  <2>1. Cardinality(given) \in Nat
    BY <1>5, FS_CardinalityType
  <2>2. Cardinality(campaign) = k
    BY <1>2
  <2> QED
    BY <1>1, <1>5, <1>7, <2>1, <2>2
<1>9. shards \in Injection(1..k, given) /\ place \in Surjection(campaign, given)
  BY <1>2, <1>5, <1>7, <1>8
<1>10. \A i, j \in 1..k : i # j => shards[i] # shards[j]
  BY <1>9 DEF Injection, IsInjective
<1>11. \A i \in 1..k : \E c \in campaign : run[c].dir = shards[i]
  BY <1>9 DEF Surjection
<1> QED
  BY <1>1, <1>10, <1>11

LEMMA CampaignsPass ==
  ASSUME TypeInv, Ownership, SealInv
  PROVE  GoodCampaignsPass
<1> SUFFICES ASSUME NEW shards \in ShardLists, GoodCampaign(Campaign(shards)),
                    Cardinality(Campaign(shards)) = Len(shards)
             PROVE  GatePasses(shards)
  BY DEF GoodCampaignsPass
<1> DEFINE campaign == Campaign(shards)
<1>1. PICK k \in Nat \ {0} : shards \in [1..k -> Dir] /\ DOMAIN shards = 1..k
  BY ListOfShards
<1>2. \A i, j \in 1..k : i # j => shards[i] # shards[j]
  BY <1>1, OneRunPerShard
<1>3. \A c \in campaign : \E i \in 1..k : run[c].dir = shards[i]
  BY <1>1 DEF Campaign
<1>4. ASSUME NEW i \in 1..k
      PROVE  \E c \in campaign : /\ run[c].dir = shards[i] /\ ShardPasses(shards[i])
                                 /\ \A n \in Artifacts : Author(shards[i], n) = run[c]
  <2>1. PICK c \in campaign : run[c].dir = shards[i]
    BY <1>1, OneRunPerShard
  <2>2. /\ c \in Collector /\ run[c].dir \in Dir
        /\ run[c].pc = "done" /\ run[c].role # "debug"
        /\ run[c].plan = repo.protocol /\ run[c].hash = repo.protocol /\ run[c].dirty = "clean"
        /\ \A n \in Artifacts : fs[run[c].dir][n].form = "whole"
    BY <1>1, <2>1 DEF GoodCampaign, Campaign
  <2> QED
    BY <2>1, <2>2, GoodRun
<1>5. \A i \in 1..k : \E c \in campaign :
        /\ run[c].dir = shards[i] /\ Metrics(shards[i]) = run[c] /\ Software(shards[i]) = run[c]
  BY <1>4, FilesAreNamed DEF Metrics, Software
<1>6. \A i \in 1..k : ShardPasses(shards[i])
  BY <1>4
<1>7. ASSUME NEW c \in campaign
      PROVE  \E i \in 1..k : Metrics(shards[i]) = run[c]
  <2>1. PICK i \in 1..k : run[c].dir = shards[i]
    BY <1>3
  <2>2. PICK b \in campaign : run[b].dir = shards[i] /\ Metrics(shards[i]) = run[b]
    BY <1>5
  <2>3. FilesHold(b) /\ FilesHold(c) /\ run[b].pc = "done" /\ run[c].pc = "done"
        /\ b \in Collector /\ c \in Collector
    BY DEF SealInv, Campaign
  <2>4. b = c
    BY <2>1, <2>2, <2>3 DEF FilesHold
  <2> QED
    BY <2>2, <2>4
<1>8. SeedsCoverPartition(shards)
  <2>1. UNION {Metrics(shards[i]).seeds : i \in 1..k} = UNION {run[c].seeds : c \in campaign}
    BY <1>5, <1>7
  <2>2. UNION {run[c].seeds : c \in campaign} = SceneSeeds
    BY DEF GoodCampaign
  <2>3. ASSUME NEW i \in 1..k, NEW j \in 1..k, i # j
        PROVE  Metrics(shards[i]).seeds \cap Metrics(shards[j]).seeds = {}
    <3>1. PICK b \in campaign : run[b].dir = shards[i] /\ Metrics(shards[i]) = run[b]
      BY <1>5
    <3>2. PICK c \in campaign : run[c].dir = shards[j] /\ Metrics(shards[j]) = run[c]
      BY <1>5
    <3>3. b # c
      BY <1>2, <2>3, <3>1, <3>2
    <3> QED
      BY <3>1, <3>2, <3>3 DEF GoodCampaign
  <2> QED
    BY <1>1, <2>1, <2>2, <2>3 DEF SeedsCoverPartition
<1>9. \A i, j \in 1..k : Fingerprint(shards[i]) = Fingerprint(shards[j])
  <2> TAKE i, j \in 1..k
  <2>1. PICK b \in campaign : Metrics(shards[i]) = run[b] /\ Software(shards[i]) = run[b]
    BY <1>5
  <2>2. PICK c \in campaign : Metrics(shards[j]) = run[c] /\ Software(shards[j]) = run[c]
    BY <1>5
  <2>3. /\ run[b].hash = run[c].hash /\ run[b].weights = run[c].weights
        /\ run[b].commit = run[c].commit /\ run[b].dirty = run[c].dirty
    BY DEF GoodCampaign
  <2> QED
    BY <2>1, <2>2, <2>3 DEF Fingerprint
<1>10. ASSUME Len(shards) > 1, NEW i \in 1..k
       PROVE  Metrics(shards[i]).role # "full_partition"
  <2>1. Len(shards) = k
    BY <1>1
  <2>2. PICK j \in 1..k : j # i
    <3>1. 1 \in 1..k /\ 2 \in 1..k
      BY <1>1, <1>10, <2>1
    <3> QED
      BY <3>1
  <2>3. /\ RolesAndSeedsAgree(shards[i]) /\ RolesAndSeedsAgree(shards[j])
        /\ Metrics(shards[i]).seeds \cap Metrics(shards[j]).seeds = {}
    BY <1>1, <1>6, <1>8, <2>2 DEF ShardPasses, SeedsCoverPartition
  <2>4. /\ Metrics(shards[j]).seeds # {} /\ Metrics(shards[j]).seeds \subseteq SceneSeeds
        /\ Metrics(shards[i]).role = "full_partition" => Metrics(shards[i]).seeds = SceneSeeds
    BY <2>3 DEF RolesAndSeedsAgree
  <2> QED
    BY <2>3, <2>4
<1>11. shards # <<>>
  BY <1>1
<1> QED
  BY <1>1, <1>2, <1>6, <1>8, <1>9, <1>10, <1>11 DEF GatePasses

-----------------------------------------------------------------------------
(* The steps.  A collector fills, closes and creates files of its own      *)
(* directory only.                                                         *)

\* What a step of a collector does to a file, if anything.
FileMoves(c, d, n) ==
  \/ fs'[d][n] = fs[d][n]
  \/ /\ fs[d][n].form = "absent"
     /\ \E form \in {"whole", "open", "empty", "torn"} :
          /\ fs'[d][n] = Made(c, form)
          /\ form = "open" => n \in Streams
          /\ n = "shard_integrity" /\ form = "whole" => run'[c].pc = "done" /\ run'[c].dir = d
  \/ /\ fs[d][n].form = "open" /\ fs'[d][n].form \in {"whole", "empty", "torn"}
     /\ fs'[d][n].by = fs[d][n].by /\ fs'[d][n].eps = fs[d][n].eps
  \/ /\ n \in Streams
     /\ fs'[d][n].by = fs[d][n].by /\ fs'[d][n].form = fs[d][n].form

\* A directory is left alone that is not its own or that another has taken.
Moves(c) ==
  /\ run[c].pc \notin Ended /\ \A b \in Collector : b # c => run'[b] = run[b]
  /\ \A d \in Dir, n \in Files : FileMoves(c, d, n)
  /\ \A d \in Dir :
       (d = run[c].dir => Present(d, "software_versions") /\ fs[d]["software_versions"].by # c)
         => fs'[d] = fs[d] /\ seal'[d] = seal[d]
  /\ \A d \in Dir : \/ seal'[d] = seal[d]
                    \/ ~Present(d, "shard_integrity") /\ seal'[d] = [n \in Hashed |-> fs[d][n]]

LEMMA DirectoriesKept ==
  ASSUME SealInv, NEW c \in Collector, Moves(c), NEW d \in Dir
  PROVE  DirectoryHolds(d)'
<1>1. DirectoryHolds(d) /\ \A n \in Files : FileMoves(c, d, n)
  BY DEF SealInv, Moves
<1>2. "shard_integrity" \in Files /\ "shard_integrity" \notin Streams /\ Hashed \subseteq Files
  BY DEF Files, Artifacts, Hashed, Streams
<1>3. Present(d, "shard_integrity") => Present(d, "shard_integrity")'
  BY <1>1, <1>2 DEF FileMoves, Present, Made
<1>4. ASSUME NEW n \in Files
      PROVE  /\ n \notin Streams => fs'[d][n].eps = {} /\ fs'[d][n].form # "open"
             /\ fs'[d][n].form = "altered" => n \in Hashed /\ Present(d, "shard_integrity")'
  <2>1. /\ n \notin Streams => fs[d][n].eps = {} /\ fs[d][n].form # "open"
        /\ fs[d][n].form = "altered" => n \in Hashed /\ Present(d, "shard_integrity")
        /\ FileMoves(c, d, n)
    BY <1>1 DEF DirectoryHolds
  <2> QED
    BY <1>3, <2>1 DEF FileMoves, Made
<1>5. \A n \in Hashed : seal'[d][n].form # "altered"
  <2>1. \/ seal'[d] = seal[d]
        \/ ~Present(d, "shard_integrity") /\ seal'[d] = [n \in Hashed |-> fs[d][n]]
    BY DEF Moves
  <2> QED
    BY <1>1, <1>2, <2>1 DEF DirectoryHolds
<1>6. ASSUME fs'[d]["shard_integrity"].form = "whole"
      PROVE  \E b \in Collector : /\ fs'[d]["shard_integrity"].by = b
                                  /\ run'[b].pc = "done" /\ run'[b].dir = d
  <2>1. \/ fs'[d]["shard_integrity"] = fs[d]["shard_integrity"]
        \/ /\ fs'[d]["shard_integrity"] = Made(c, "whole")
           /\ run'[c].pc = "done" /\ run'[c].dir = d
    <3>1. FileMoves(c, d, "shard_integrity") /\ fs[d]["shard_integrity"].form # "open"
      BY <1>1, <1>2 DEF DirectoryHolds
    <3> QED
      BY <1>2, <1>6, <3>1 DEF FileMoves, Made
  <2>2. CASE fs'[d]["shard_integrity"] = fs[d]["shard_integrity"]
    <3>1. PICK b \in Collector : /\ fs[d]["shard_integrity"].by = b
                                 /\ run[b].pc = "done" /\ run[b].dir = d
      BY <1>1, <1>6, <2>2 DEF DirectoryHolds
    <3>2. run'[b] = run[b]
      BY <3>1 DEF Moves, Ended
    <3> QED
      BY <2>2, <3>1, <3>2
  <2>3. CASE fs'[d]["shard_integrity"] = Made(c, "whole") /\ run'[c].pc = "done" /\ run'[c].dir = d
    BY <2>3 DEF Made
  <2> QED
    BY <2>1, <2>2, <2>3
<1> QED
  BY <1>4, <1>5, <1>6 DEF DirectoryHolds

LEMMA PastOpening ==
  ASSUME NEW c \in Collector, run'[c].pc \notin Opening
  PROVE  OpenedEmpty(c)'
BY DEF OpenedEmpty

\* The other runs are what they were, and so are the directories they have taken.
LEMMA OthersKept ==
  ASSUME TypeInv, Ownership, SealInv, NEW c \in Collector, Moves(c), NEW b \in Collector, b # c
  PROVE  RecordHolds(run'[b]) /\ FilesHold(b)'
<1>1. run'[b] = run[b] /\ RecordHolds(run[b]) /\ FilesHold(b)
  BY DEF Moves, SealInv
<1>2. CASE run[b].pc \notin Opening \cup Collecting
  <2>1. run[b].pc # "done"
    BY <1>2 DEF Opening, Collecting
  <2>2. OpenedEmpty(b)'
    BY <1>1, <1>2, PastOpening
  <2> QED
    BY <1>1, <1>2, <2>1, <2>2 DEF FilesHold
<1>3. CASE run[b].pc \in Opening \cup Collecting
  <2>1. run[b].pc # "idle" /\ (run[b].pc \in Serving \/ run[b].pc = "done")
    BY <1>3 DEF Opening, Collecting, Serving
  <2>2. run[b].dir \in Dir
    BY <2>1 DEF TypeInv, Placed
  <2>3. Present(run[b].dir, "software_versions") /\ fs[run[b].dir]["software_versions"].by = b
    BY <1>1, <2>1 DEF Ownership, Held, FilesHold
  <2>4. fs'[run[b].dir] = fs[run[b].dir] /\ seal'[run[b].dir] = seal[run[b].dir]
    BY <2>2, <2>3 DEF Moves
  <2>5. OpenedEmpty(b)'
    BY <1>1, <2>4 DEF FilesHold, OpenedEmpty, OpenedBefore, Recorded
  <2> QED
    BY <1>1, <2>4, <2>5 DEF FilesHold, Recorded, Present
<1> QED
  BY <1>2, <1>3

LEMMA MovesKeep ==
  ASSUME TypeInv, Ownership, SealInv, NEW c \in Collector, Moves(c),
         RecordHolds(run'[c]), FilesHold(c)'
  PROVE  SealInv'
<1>1. \A b \in Collector : RecordHolds(run'[b]) /\ FilesHold(b)'
  BY OthersKept
<1>2. \A d \in Dir : DirectoryHolds(d)'
  BY DirectoriesKept
<1>3. \A b \in Collector : RecordHolds(run[b])'
  BY <1>1 DEF RecordHolds
<1> QED
  BY <1>1, <1>2, <1>3 DEF SealInv

\* A step of a run to a place in which nothing is said of its files.
LEMMA OutOfCollection ==
  ASSUME NEW c \in Collector, run'[c].pc \notin Opening \cup Collecting
  PROVE  FilesHold(c)'
<1>1. run'[c].pc # "done"
  BY DEF Collecting
<1> QED
  BY <1>1, PastOpening DEF FilesHold

\* Steps that leave the files alone.
LEMMA FilesLeft ==
  ASSUME TypeInv, NEW c \in Collector, run[c].pc \notin Ended, NEW next,
         run' = [run EXCEPT ![c] = next], UNCHANGED <<fs, seal>>
  PROVE  Moves(c) /\ run'[c] = next
<1>1. run'[c] = next /\ \A b \in Collector : b # c => run'[b] = run[b]
  BY DEF TypeInv, TypeOK
<1>2. \A d \in Dir, n \in Files : FileMoves(c, d, n)
  BY DEF FileMoves
<1> QED
  BY <1>1, <1>2 DEF Moves

LEMMA GoRecord ==
  ASSUME TypeInv, NEW c \in Collector, NEW pc, Go(c, pc)
  PROVE  /\ run' = [run EXCEPT ![c] = [run[c] EXCEPT !.pc = pc]]
         /\ run'[c] = [run[c] EXCEPT !.pc = pc] /\ run'[c].pc = pc
         /\ run'[c].dir = run[c].dir /\ run'[c].seeds = run[c].seeds /\ run'[c].role = run[c].role
         /\ run'[c].weights = run[c].weights /\ run'[c].valid = run[c].valid
         /\ \A b \in Collector : b # c => run'[b] = run[b]
BY DEF Go, TypeInv, TypeOK, RunStates

\* A run that gives up, whatever becomes of its files.
LEMMA GivesUp ==
  ASSUME TypeInv, Ownership, SealInv, NEW c \in Collector, run[c].pc # "idle", Moves(c),
         NEW pc \in {"failed", "crashed"}, Go(c, pc)
  PROVE  SealInv'
<1>1. RecordHolds(run[c])
  BY DEF SealInv
<1>2. RecordHolds(run'[c])
  BY <1>1, GoRecord DEF RecordHolds, Opening, Collecting
<1>3. run'[c].pc \notin Opening \cup Collecting
  BY GoRecord DEF Opening, Collecting
<1> QED
  BY <1>2, <1>3, OutOfCollection, MovesKeep

LEMMA FailsClean ==
  ASSUME TypeInv, Ownership, SealInv, NEW c \in Collector, run[c].pc \notin Ended \cup {"idle"},
         Go(c, "failed"), UNCHANGED <<fs, seal>>
  PROVE  SealInv'
<1>1. run' = [run EXCEPT ![c] = [run[c] EXCEPT !.pc = "failed"]]
  BY GoRecord
<1>2. Moves(c)
  BY <1>1, FilesLeft
<1> QED
  BY <1>2, GivesUp

\* A file that is created by a run goes to its directory, if nobody else has taken that.
LEMMA WriteOnceMoves ==
  ASSUME TypeInv, Ownership, NEW c \in Collector, run[c].pc \in Running,
         NEW n \in Files \ (Streams \cup {"shard_integrity"}), NEW next,
         run[c].pc \notin Serving => n = "software_versions",
         WriteOnce(c, n, next), Creates(run[c].dir, n)
  PROVE  /\ Moves(c) /\ run'[c] = next /\ seal' = seal
         /\ \A m \in Files : m # n => fs'[run[c].dir][m] = fs[run[c].dir][m]
<1>1. run[c].pc \notin Ended /\ run[c].pc # "idle"
  BY DEF Running, Serving, Ended
<1>2. run[c].dir \in Dir /\ fs \in [Dir -> [Files -> FileStates]] /\ run \in [Collector -> RunStates]
  BY <1>1 DEF TypeInv, TypeOK, Placed
<1>3. /\ fs' = [fs EXCEPT ![run[c].dir][n] = Made(c, "whole")]
      /\ run' = [run EXCEPT ![c] = next] /\ seal' = seal
  BY DEF WriteOnce
<1>4. run'[c] = next /\ \A b \in Collector : b # c => run'[b] = run[b]
  BY <1>2, <1>3
<1>5. /\ fs'[run[c].dir][n] = Made(c, "whole")
      /\ \A d \in Dir, m \in Files : d # run[c].dir \/ m # n => fs'[d][m] = fs[d][m]
      /\ \A d \in Dir : d # run[c].dir => fs'[d] = fs[d]
  BY <1>2, <1>3
<1>6. \A d \in Dir, m \in Files : FileMoves(c, d, m)
  BY <1>5 DEF FileMoves, Creates, Present
<1>7. ~(Present(run[c].dir, "software_versions") /\ fs[run[c].dir]["software_versions"].by # c)
  <2>1. CASE run[c].pc \in Serving
    BY <2>1 DEF Ownership, Held
  <2>2. CASE run[c].pc \notin Serving
    BY <2>2 DEF Creates
  <2> QED
    BY <2>1, <2>2
<1> QED
  BY <1>1, <1>3, <1>4, <1>5, <1>6, <1>7 DEF Moves

\* What a file of the directory of a run becomes, but for those written once.
Becomes(c, n, new) ==
  LET old == fs[run[c].dir][n] IN
  \/ new = old
  \/ old.form = "absent" /\ n \in Streams /\ new = Made(c, "open")
  \/ old.form = "absent" /\ \E form \in {"empty", "torn"} : new = Made(c, form)
  \/ /\ old.form = "open" /\ new.form \in {"whole", "empty", "torn"}
     /\ new.by = old.by /\ new.eps = old.eps
  \/ n \in Streams /\ new.by = old.by /\ new.form = old.form

\* The files of a directory change under the hands of the run that has taken it.
LEMMA DirectoryMoves ==
  ASSUME TypeInv, Ownership, NEW c \in Collector, run[c].pc \in Serving,
         NEW files, fs' = [fs EXCEPT ![run[c].dir] = files], seal' = seal,
         \A b \in Collector : b # c => run'[b] = run[b],
         \A n \in Files : Becomes(c, n, files[n])
  PROVE  Moves(c) /\ fs'[run[c].dir] = files
<1>1. run[c].dir \in Dir /\ run[c].pc \notin Ended
  BY OwnDirectory DEF Serving, Ended
<1>2. fs'[run[c].dir] = files /\ \A d \in Dir : d # run[c].dir => fs'[d] = fs[d]
  BY <1>1 DEF TypeInv, TypeOK
<1>3. ASSUME NEW n \in Files PROVE FileMoves(c, run[c].dir, n)
  <2>1. Becomes(c, n, fs'[run[c].dir][n])
    BY <1>2
  <2>2. n \in Streams => n # "shard_integrity"
    BY DEF Streams
  <2> QED
    BY <2>1, <2>2 DEF FileMoves, Becomes
<1>4. \A d \in Dir, n \in Files : FileMoves(c, d, n)
  BY <1>2, <1>3 DEF FileMoves
<1>5. fs[run[c].dir]["software_versions"].by = c
  BY DEF Ownership, Held
<1> QED
  BY <1>1, <1>2, <1>4, <1>5 DEF Moves

\* Places between the closing of the channels and the seal.
Finishing == {"closed", "measured", "summed", "manifested", "sealing"}

LEMMA ChannelsKept ==
  ASSUME NEW c \in Collector, FilesHold(c),
         run[c].pc \in Finishing, run'[c].pc \in Finishing,
         run'[c].dir = run[c].dir, run'[c].seeds = run[c].seeds,
         \A n \in Streams : fs'[run[c].dir][n].eps = fs[run[c].dir][n].eps
  PROVE  FilesHold(c)'
<1>1. ChannelsHold(run[c].pc, Episodes(run[c].seeds), Recorded(c, "audit_stream"),
                   Recorded(c, "monitor_inputs"), Recorded(c, "offline_labels"),
                   Recorded(c, "dataset_index"), Recorded(c, "episodes"))
  BY DEF FilesHold, Finishing, Opening, Collecting
<1>2. \A n \in Streams : Recorded(c, n)' = Recorded(c, n)
  BY DEF Recorded
<1>3. /\ Recorded(c, "audit_stream")' = Recorded(c, "audit_stream")
      /\ Recorded(c, "monitor_inputs")' = Recorded(c, "monitor_inputs")
      /\ Recorded(c, "offline_labels")' = Recorded(c, "offline_labels")
      /\ Recorded(c, "dataset_index")' = Recorded(c, "dataset_index")
      /\ Recorded(c, "episodes")' = Recorded(c, "episodes")
  BY <1>2, FilesAreNamed
<1>4. Episodes(run[c].seeds)' = Episodes(run[c].seeds)
  BY DEF Episodes
<1>5. ChannelsHold(run'[c].pc, Episodes(run[c].seeds), Recorded(c, "audit_stream"),
                   Recorded(c, "monitor_inputs"), Recorded(c, "offline_labels"),
                   Recorded(c, "dataset_index"), Recorded(c, "episodes"))
  BY <1>1 DEF ChannelsHold, Finishing
<1>6. ChannelsHold(run[c].pc, Episodes(run[c].seeds), Recorded(c, "audit_stream"),
                   Recorded(c, "monitor_inputs"), Recorded(c, "offline_labels"),
                   Recorded(c, "dataset_index"), Recorded(c, "episodes"))'
  BY <1>3, <1>4, <1>5 DEF ChannelsHold
<1>7. run'[c].pc # "done" /\ run'[c].pc \notin Opening
  BY DEF Finishing, Opening
<1> QED
  BY <1>6, <1>7, PastOpening DEF FilesHold

\* A file that is written once: before the channels are opened, or after they are closed.
LEMMA OnceInv ==
  ASSUME TypeInv, Ownership, SealInv, NEW c \in Collector, run[c].pc \in Running,
         NEW n \in Files \ (Streams \cup {"shard_integrity"}), NEW next,
         run[c].pc \notin Serving => n = "software_versions",
         WriteOnce(c, n, next), RecordHolds(next),
         \/ next.pc \notin Opening \cup Collecting
         \/ /\ run[c].pc \in Finishing /\ next.pc \in Finishing
            /\ next.dir = run[c].dir /\ next.seeds = run[c].seeds
  PROVE  SealInv'
<1>1. CASE ~Creates(run[c].dir, n)
  <2>1. run[c].pc \notin Ended \cup {"idle"}
    BY DEF Running, Serving, Ended
  <2>2. Go(c, "failed") /\ UNCHANGED <<fs, seal>>
    BY <1>1 DEF WriteOnce
  <2> QED
    BY <2>1, <2>2, FailsClean
<1>2. CASE Creates(run[c].dir, n)
  <2>1. /\ Moves(c) /\ run'[c] = next /\ seal' = seal
        /\ \A m \in Files : m # n => fs'[run[c].dir][m] = fs[run[c].dir][m]
    BY <1>2, WriteOnceMoves
  <2>2. CASE next.pc \notin Opening \cup Collecting
    BY <2>1, <2>2, OutOfCollection, MovesKeep
  <2>3. CASE /\ run[c].pc \in Finishing /\ next.pc \in Finishing
             /\ next.dir = run[c].dir /\ next.seeds = run[c].seeds
    <3>1. \A m \in Streams : fs'[run[c].dir][m].eps = fs[run[c].dir][m].eps
      BY <2>1, FilesAreNamed
    <3>2. FilesHold(c)
      BY DEF SealInv
    <3>3. FilesHold(c)'
      BY <2>1, <2>3, <3>1, <3>2, ChannelsKept
    <3> QED
      BY <2>1, <3>3, MovesKeep
  <2> QED
    BY <2>2, <2>3
<1> QED
  BY <1>1, <1>2

LEMMA LaunchSeals ==
  ASSUME TypeInv, Ownership, SealInv, NEW c \in Collector,
         NEW d \in Dir, NEW request \in Requests, Launch(c, d, request[1], request[2])
  PROVE  SealInv'
<1> DEFINE next == [Idle EXCEPT !.pc = "configured", !.dir = d, !.role = request[1],
                      !.seeds = request[2],
                      !.code = IF repo.tree = "dirty" THEN Uncommitted ELSE repo.head,
                      !.plan = repo.protocol]
<1>1. /\ run[c].pc = "idle" /\ LegalRequest(request[1], request[2])
      /\ run' = [run EXCEPT ![c] = next] /\ UNCHANGED <<fs, seal>>
  BY DEF Launch
<1>2. next.pc = "configured" /\ next.role = request[1] /\ next.seeds = request[2]
  BY DEF Idle
<1> HIDE DEF next
<1>3. request[1] \in Roles
  BY RequestsAssumption DEF Roles
<1>4. request[2] # {}
  <2>1. PICK first \in SceneSeeds, last \in SceneSeeds : first <= last /\ request[2] = first..last
    BY <1>1 DEF LegalRequest
  <2>2. first \in request[2]
    BY <2>1 DEF SceneSeeds
  <2> QED
    BY <2>2
<1>5. request[1] # "debug" => (request[2] = SceneSeeds <=> request[1] = "full_partition")
  BY <1>1, <1>3 DEF LegalRequest, Roles
<1>6. RecordHolds(next)
  BY <1>2, <1>4, <1>5 DEF RecordHolds, Opening, Collecting
<1>7. Moves(c) /\ run'[c] = next
  BY <1>1, FilesLeft DEF Ended
<1>8. run'[c].pc \notin Opening \cup Collecting
  BY <1>2, <1>7 DEF Opening, Collecting
<1> QED
  BY <1>6, <1>7, <1>8, OutOfCollection, MovesKeep

\* The places before the first file.
LEMMA PreparesSeals ==
  ASSUME TypeInv, Ownership, SealInv, NEW c \in Collector,
         VerifyInputs(c) \/ ClaimDirectory(c) \/ ReadCommit(c)
  PROVE  SealInv'
<1>1. /\ run \in [Collector -> RunStates] /\ run[c] \in RunStates /\ RecordHolds(run[c])
      /\ run[c].pc \in {"configured", "verified", "claimed"} /\ UNCHANGED <<fs, seal>>
  BY DEF TypeInv, TypeOK, SealInv, VerifyInputs, ClaimDirectory, ReadCommit
<1>2. \E next : /\ run' = [run EXCEPT ![c] = next]
                /\ next.pc \in {"verified", "claimed", "identified", "failed"}
                /\ next.role = run[c].role /\ next.seeds = run[c].seeds
  <2>1. CASE VerifyInputs(c)
    <3> DEFINE pc == IF run[c].role # "debug" /\ repo.tree = "dirty" THEN "failed" ELSE "verified"
               next == [run[c] EXCEPT !.hash = repo.protocol, !.pc = pc]
    <3>1. run' = [run EXCEPT ![c] = next]
      BY <1>1, <2>1 DEF VerifyInputs
    <3>2. pc \in {"failed", "verified"}
      OBVIOUS
    <3> HIDE DEF pc
    <3>3. next.pc = pc /\ next.role = run[c].role /\ next.seeds = run[c].seeds
      BY <1>1 DEF RunStates
    <3> QED
      BY <3>1, <3>2, <3>3
  <2>2. CASE ClaimDirectory(c)
    <3>1. PICK pc \in {"failed", "claimed"} : Go(c, pc)
      BY <2>2 DEF ClaimDirectory
    <3> DEFINE next == [run[c] EXCEPT !.pc = pc]
    <3>2. run' = [run EXCEPT ![c] = next]
      BY <3>1, GoRecord
    <3>3. next.pc = pc /\ next.role = run[c].role /\ next.seeds = run[c].seeds
      BY <1>1 DEF RunStates
    <3> QED
      BY <3>2, <3>3
  <2>3. CASE ReadCommit(c)
    <3> DEFINE next == [run[c] EXCEPT !.pc = "identified", !.commit = repo.head]
    <3>1. run' = [run EXCEPT ![c] = next]
      BY <1>1, <2>3 DEF ReadCommit
    <3>2. next.pc = "identified" /\ next.role = run[c].role /\ next.seeds = run[c].seeds
      BY <1>1 DEF RunStates
    <3> QED
      BY <3>1, <3>2
  <2> QED
    BY <2>1, <2>2, <2>3
<1>3. PICK next : /\ run' = [run EXCEPT ![c] = next]
                  /\ next.pc \in {"verified", "claimed", "identified", "failed"}
                  /\ next.role = run[c].role /\ next.seeds = run[c].seeds
  BY <1>2
<1>4. Moves(c) /\ run'[c] = next
  BY <1>1, <1>3, FilesLeft DEF Ended
<1>5. RecordHolds(run'[c]) /\ run'[c].pc \notin Opening \cup Collecting
  BY <1>1, <1>3, <1>4 DEF RecordHolds, Opening, Collecting
<1> QED
  BY <1>4, <1>5, OutOfCollection, MovesKeep

\* The files that are written once.
LEMMA WritesSeal ==
  ASSUME TypeInv, Ownership, SealInv, NEW c \in Collector,
         \/ WriteSoftwareVersions(c) \/ StartServer(c) \/ RecordPolicyBefore(c)
         \/ RecordPolicyAfter(c) \/ WriteMetrics(c) \/ WriteRunManifest(c) \/ ValidateDataset(c)
  PROVE  SealInv'
<1>1. run[c] \in RunStates /\ RecordHolds(run[c])
  BY DEF TypeInv, TypeOK, SealInv
<1>2. /\ {"software_versions", "policy_server_log", "policy_state_before", "policy_state_after",
          "metrics", "run_manifest", "artifact_validation"}
           \subseteq Files \ (Streams \cup {"shard_integrity"})
  BY DEF Files, Artifacts, Hashed, Streams
<1>3. CASE WriteSoftwareVersions(c)
  <2> DEFINE next == [run[c] EXCEPT !.pc = "started", !.dirty = repo.tree]
  <2>1. run[c].pc = "identified" /\ run[c].pc \in Running /\ WriteOnce(c, "software_versions", next)
    BY <1>3 DEF WriteSoftwareVersions, Running
  <2>2. next.pc = "started" /\ next.role = run[c].role /\ next.seeds = run[c].seeds
    BY <1>1 DEF RunStates
  <2> HIDE DEF next
  <2>3. RecordHolds(next) /\ next.pc \notin Opening \cup Collecting
    BY <1>1, <2>1, <2>2 DEF RecordHolds, Opening, Collecting
  <2> QED
    BY <1>2, <2>1, <2>3, OnceInv
<1>4. CASE StartServer(c)
  <2> DEFINE next == [run[c] EXCEPT !.pc = "ready"]
  <2>1. run[c].pc = "started" /\ run[c].pc \in Running /\ run[c].pc \in Serving
        /\ WriteOnce(c, "policy_server_log", next)
    BY <1>4 DEF StartServer, Running, Serving
  <2>2. next.pc = "ready" /\ next.role = run[c].role /\ next.seeds = run[c].seeds
    BY <1>1 DEF RunStates
  <2> HIDE DEF next
  <2>3. RecordHolds(next) /\ next.pc \notin Opening \cup Collecting
    BY <1>1, <2>1, <2>2 DEF RecordHolds, Opening, Collecting
  <2> QED
    BY <1>2, <2>1, <2>3, OnceInv
<1>5. CASE RecordPolicyBefore(c)
  <2>1. PICK w \in Weights :
          WriteOnce(c, "policy_state_before", [run[c] EXCEPT !.pc = "opening", !.weights = w])
    BY <1>5, Zenon DEF RecordPolicyBefore
  <2> DEFINE next == [run[c] EXCEPT !.pc = "opening", !.weights = w]
  <2>2. run[c].pc = "ready" /\ run[c].pc \in Running /\ run[c].pc \in Serving
        /\ WriteOnce(c, "policy_state_before", next)
    <3>1. run[c].pc = "ready"
      BY <1>5, Zenon DEF RecordPolicyBefore
    <3> QED
      BY <2>1, <3>1 DEF Running, Serving
  <2>3. next.pc = "opening" /\ next.role = run[c].role /\ next.seeds = run[c].seeds /\ next.weights = w
    BY <1>1 DEF RunStates
  <2> HIDE DEF next
  <2>4. RecordHolds(next) /\ next.pc \notin Opening \cup Collecting
    BY <1>1, <2>2, <2>3 DEF RecordHolds, Opening, Collecting
  <2> QED
    BY <1>2, <2>2, <2>4, OnceInv
<1>6. ASSUME NEW n \in Files \ (Streams \cup {"shard_integrity"}), NEW pc \in Finishing \ {"closed", "sealing"},
             run[c].pc \in Finishing \ {"sealing"}, WriteOnce(c, n, [run[c] EXCEPT !.pc = pc])
      PROVE  SealInv'
  <2> DEFINE next == [run[c] EXCEPT !.pc = pc]
  <2>1. run[c].pc \in Running /\ run[c].pc \in Serving /\ pc \in Finishing /\ run[c].pc \in Finishing
    BY <1>6 DEF Running, Serving, Finishing
  <2>2. /\ next.pc = pc /\ next.role = run[c].role /\ next.seeds = run[c].seeds
        /\ next.weights = run[c].weights /\ next.dir = run[c].dir
    BY <1>1 DEF RunStates
  <2>3. WriteOnce(c, n, next)
    BY <1>6
  <2> HIDE DEF next
  <2>4. RecordHolds(next)
    BY <1>1, <1>6, <2>2 DEF RecordHolds, Opening, Collecting, Finishing
  <2> QED
    BY <2>1, <2>2, <2>3, <2>4, OnceInv
<1>7. CASE RecordPolicyAfter(c)
  <2>1. run[c].pc = "closed"
    BY <1>7 DEF RecordPolicyAfter
  <2>2. CASE WriteOnce(c, "policy_state_after", [run[c] EXCEPT !.pc = "measured"])
    BY <1>2, <1>6, <2>1, <2>2 DEF Finishing
  <2>3. CASE Go(c, "failed") /\ UNCHANGED <<fs, seal>>
    BY <2>1, <2>3, FailsClean DEF Ended
  <2> QED
    BY <1>7, <2>2, <2>3 DEF RecordPolicyAfter
<1>8. CASE WriteMetrics(c)
  <2>1. run[c].pc = "measured" /\ WriteOnce(c, "metrics", [run[c] EXCEPT !.pc = "summed"])
    BY <1>8 DEF WriteMetrics
  <2> QED
    BY <1>2, <1>6, <2>1 DEF Finishing
<1>9. CASE WriteRunManifest(c)
  <2>1. run[c].pc = "summed" /\ WriteOnce(c, "run_manifest", [run[c] EXCEPT !.pc = "manifested"])
    BY <1>9 DEF WriteRunManifest
  <2> QED
    BY <1>2, <1>6, <2>1 DEF Finishing
<1>10. CASE ValidateDataset(c)
  <2> DEFINE next == IF DatasetErrors(c)
                     THEN [run[c] EXCEPT !.pc = "failed", !.valid = "failed"]
                     ELSE [run[c] EXCEPT !.pc = "sealing", !.valid = "passed"]
  <2>1. run[c].pc = "manifested" /\ WriteOnce(c, "artifact_validation", next)
    BY <1>10 DEF ValidateDataset
  <2>2. /\ next.pc = "failed" \/ (next.pc = "sealing" /\ next.valid = "passed")
        /\ next.role = run[c].role /\ next.seeds = run[c].seeds
        /\ next.weights = run[c].weights /\ next.dir = run[c].dir
    BY <1>1 DEF RunStates
  <2> HIDE DEF next
  <2>3. RecordHolds(next)
    BY <1>1, <2>1, <2>2 DEF RecordHolds, Opening, Collecting
  <2>4. run[c].pc \in Running /\ run[c].pc \in Serving /\ run[c].pc \in Finishing
    BY <2>1 DEF Running, Serving, Finishing
  <2>5. next.pc \notin Opening \cup Collecting \/ next.pc \in Finishing
    BY <2>2 DEF Opening, Collecting, Finishing
  <2> QED
    BY <1>2, <2>1, <2>2, <2>3, <2>4, <2>5, OnceInv
<1> QED
  BY <1>3, <1>4, <1>5, <1>7, <1>8, <1>9, <1>10

\* What the channels become when they are closed.
LEMMA ClosedFiles ==
  ASSUME TypeInv, NEW c \in Collector, run[c].dir \in Dir, NEW form \in {"whole", "empty", "torn"},
         NEW n \in Files
  PROVE  \/ Closed(c, form)[n] = fs[run[c].dir][n]
         \/ /\ fs[run[c].dir][n].form = "open" /\ fs[run[c].dir][n].by = c
            /\ Closed(c, form)[n].form = form
            /\ Closed(c, form)[n].by = c /\ Closed(c, form)[n].eps = fs[run[c].dir][n].eps
<1>1. fs[run[c].dir][n] \in FileStates
  BY DEF TypeInv, TypeOK
<1>2. Closed(c, form)[n] = IF fs[run[c].dir][n].by = c /\ fs[run[c].dir][n].form = "open"
                           THEN [fs[run[c].dir][n] EXCEPT !.form = form] ELSE fs[run[c].dir][n]
  BY DEF Closed
<1> QED
  BY <1>1, <1>2 DEF FileStates

\* The files a run leaves when its channels are closed.
LEMMA ClosingMoves ==
  ASSUME TypeInv, Ownership, NEW c \in Collector, run[c].pc \in Serving, seal' = seal,
         NEW pc, Go(c, pc), fs' = [fs EXCEPT ![run[c].dir] = Closed(c, "whole")]
  PROVE  Moves(c) /\ fs'[run[c].dir] = Closed(c, "whole")
<1> DEFINE files == Closed(c, "whole")
<1>1. fs' = [fs EXCEPT ![run[c].dir] = files]
  OBVIOUS
<1>2. run[c].dir \in Dir
  BY OwnDirectory
<1>3. \A n \in Files : Becomes(c, n, files[n])
  BY <1>2, ClosedFiles DEF Becomes
<1>4. \A b \in Collector : b # c => run'[b] = run[b]
  BY GoRecord
<1> HIDE DEF files
<1>5. Moves(c) /\ fs'[run[c].dir] = files
  BY <1>1, <1>3, <1>4, DirectoryMoves
<1> QED
  BY <1>5 DEF files

\* The channels are created empty, one after another.
LEMMA OpenSeals ==
  ASSUME TypeInv, Ownership, SealInv, NEW c \in Collector, OpenStreams(c)
  PROVE  SealInv'
<1>0. PICK o \in Openings : run[c].pc = o[1] /\ OpenStream(c, o[2], o[3])
  BY DEF OpenStreams
<1> DEFINE n == o[2]
<1>1. /\ run[c].pc \in Serving /\ run[c].pc # "idle" /\ seal' = seal
      /\ run[c].pc \in Opening \cup {"opening"} /\ o[3] \in Opening \cup {"episode"}
      /\ n \in Streams /\ RecordHolds(run[c]) /\ FilesHold(c)
  BY <1>0 DEF Openings, OpenStream, Serving, Opening, Streams, SealInv
<1>2. CASE Go(c, "failed") /\ fs' = [fs EXCEPT ![run[c].dir] = Closed(c, "whole")]
  BY <1>1, <1>2, ClosingMoves, GivesUp
<1>3. CASE /\ Creates(run[c].dir, n) /\ Go(c, o[3])
           /\ fs' = [fs EXCEPT ![run[c].dir][n] = Made(c, "open")]
  <2> DEFINE files == [fs[run[c].dir] EXCEPT ![n] = Made(c, "open")]
  <2>1. /\ run[c].dir \in Dir /\ fs \in [Dir -> [Files -> FileStates]]
        /\ fs[run[c].dir] \in [Files -> FileStates] /\ n \in Files
    BY <1>1, OwnDirectory, FilesAreNamed DEF TypeInv, TypeOK
  <2>2. fs' = [fs EXCEPT ![run[c].dir] = files]
    BY <1>3, <2>1
  <2>3. files[n] = Made(c, "open") /\ \A m \in Files : m # n => files[m] = fs[run[c].dir][m]
    BY <2>1
  <2>4. \A m \in Files : Becomes(c, m, files[m])
    BY <1>1, <1>3, <2>3 DEF Becomes, Creates, Present
  <2> HIDE DEF files
  <2>5. \A b \in Collector : b # c => run'[b] = run[b]
    BY <1>3, GoRecord
  <2>6. Moves(c) /\ fs'[run[c].dir] = files
    BY <1>1, <2>2, <2>4, <2>5, DirectoryMoves
  <2>7. RecordHolds(run'[c])
    BY <1>1, <1>3, GoRecord DEF RecordHolds, Opening, Collecting
  <2>8. run'[c].pc = o[3] /\ run'[c].dir = run[c].dir
    BY <1>3, GoRecord
  <2>9. /\ Recorded(c, n)' = {}
        /\ \A m \in Streams : m # n => Recorded(c, m)' = Recorded(c, m)
    BY <1>1, <2>3, <2>6, <2>8, FilesAreNamed DEF Recorded, Made
  <2>10. ASSUME o[1] # "opening"
         PROVE  FilesHold(c)'
    <3>1. \A m \in OpenedBefore(o[1]) : Recorded(c, m) = {}
      BY <1>0, <1>1, <2>10 DEF FilesHold, OpenedEmpty
    <3>2. \A m \in OpenedBefore(o[1]) \cup {n} : Recorded(c, m)' = {}
      <4>1. OpenedBefore(o[1]) \subseteq Streams
        BY FilesAreNamed DEF OpenedBefore
      <4> QED
        BY <2>9, <3>1, <4>1
    <3>3. CASE o[3] = "episode"
      <4>1. OpenedBefore(o[1]) \cup {n} = Streams
        BY <3>3, FilesAreNamed DEF Openings, OpenedBefore
      <4>2. /\ Recorded(c, "audit_stream")' = {} /\ Recorded(c, "monitor_inputs")' = {}
            /\ Recorded(c, "offline_labels")' = {} /\ Recorded(c, "dataset_index")' = {}
            /\ Recorded(c, "episodes")' = {}
        BY <3>2, <4>1, FilesAreNamed
      <4>3. run'[c].pc = "episode"
        BY <2>8, <3>3
      <4>4. ChannelsHold(run[c].pc, Episodes(run[c].seeds), Recorded(c, "audit_stream"),
                         Recorded(c, "monitor_inputs"), Recorded(c, "offline_labels"),
                         Recorded(c, "dataset_index"), Recorded(c, "episodes"))'
        BY <4>2, <4>3 DEF ChannelsHold
      <4>5. run'[c].pc \notin Opening /\ run'[c].pc # "done"
        BY <4>3 DEF Opening
      <4> QED
        BY <4>4, <4>5, PastOpening DEF FilesHold
    <3>4. CASE o[3] # "episode"
      <4>1. OpenedBefore(o[3]) \subseteq OpenedBefore(o[1]) \cup {n}
        BY <2>10, <3>4, FilesAreNamed DEF Openings, OpenedBefore, Streams
      <4>2. run'[c].pc \notin Collecting /\ run'[c].pc # "done"
        BY <1>1, <2>8, <3>4 DEF Opening, Collecting
      <4>3. \A m \in OpenedBefore(run'[c].pc) : Recorded(c, m)' = {}
        BY <2>8, <3>2, <4>1
      <4>4. OpenedEmpty(c)'
        BY <4>3 DEF OpenedEmpty, OpenedBefore
      <4> QED
        BY <4>2, <4>4 DEF FilesHold
    <3> QED
      BY <3>3, <3>4
  <2>11. ASSUME o[1] = "opening"
         PROVE  FilesHold(c)'
    <3>1. o[3] = "inputs_opened" /\ n = "monitor_inputs"
      BY <2>11 DEF Openings
    <3>2. run'[c].pc = "inputs_opened" /\ Recorded(c, "monitor_inputs")' = {}
      BY <2>8, <2>9, <3>1
    <3>3. OpenedEmpty(c)'
      BY <3>2 DEF OpenedEmpty, OpenedBefore
    <3>4. run'[c].pc \notin Collecting /\ run'[c].pc # "done"
      BY <3>2 DEF Collecting
    <3> QED
      BY <3>3, <3>4 DEF FilesHold
  <2>12. FilesHold(c)'
    BY <2>10, <2>11
  <2> QED
    BY <2>6, <2>7, <2>12, MovesKeep
<1> QED
  BY <1>0, <1>2, <1>3 DEF OpenStream

\* What recording an episode does to the channels.
Extends(c, names, eps) ==
  \A n \in Streams : Recorded(c, n)' = IF n \in names THEN Recorded(c, n) \cup eps
                                       ELSE Recorded(c, n)

LEMMA RecordMoves ==
  ASSUME TypeInv, Ownership, SealInv, NEW c \in Collector, run[c].pc \in Serving \ {"started", "ready"},
         NEW names \in SUBSET Streams, NEW eps, NEW pc \in {"episode", "audited", "written", "indexed"},
         Record(c, names, eps, pc)
  PROVE  /\ Moves(c) /\ RecordHolds(run'[c]) /\ run'[c].pc = pc
         /\ Episodes(run[c].seeds)' = Episodes(run[c].seeds)
         /\ Extends(c, names, eps)
<1> DEFINE files == [n \in Files |->
      IF n \in names THEN [fs[run[c].dir][n] EXCEPT !.eps = fs[run[c].dir][n].eps \cup eps]
      ELSE fs[run[c].dir][n]]
<1>1. fs' = [fs EXCEPT ![run[c].dir] = files] /\ Go(c, pc) /\ seal' = seal
  BY DEF Record
<1>2. run[c].dir \in Dir /\ fs[run[c].dir] \in [Files -> FileStates] /\ Streams \subseteq Files
  BY OwnDirectory, FilesAreNamed
<1>3. \A n \in Files : \/ n \notin names /\ files[n] = fs[run[c].dir][n]
                       \/ /\ n \in names /\ n \in Streams
                          /\ files[n].by = fs[run[c].dir][n].by /\ files[n].form = fs[run[c].dir][n].form
                          /\ files[n].eps = fs[run[c].dir][n].eps \cup eps
  BY <1>2 DEF FileStates
<1>a. \A n \in Files : Becomes(c, n, files[n])
  BY <1>3 DEF Becomes
<1> HIDE DEF files
<1>b. run'[c].dir = run[c].dir /\ \A b \in Collector : b # c => run'[b] = run[b]
  BY <1>1, GoRecord
<1>4. Moves(c) /\ fs'[run[c].dir] = files
  BY <1>1, <1>a, <1>b, DirectoryMoves
<1>5. RecordHolds(run'[c])
  <2>1. RecordHolds(run[c]) /\ run[c].pc # "idle" /\ run[c].pc \in Collecting \cup Opening \cup {"opening"}
    BY DEF SealInv, Serving, Opening, Collecting
  <2> QED
    BY <1>1, <2>1, GoRecord DEF RecordHolds, Opening, Collecting
<1>6. \A n \in Streams : fs'[run'[c].dir][n].eps = IF n \in names THEN fs[run[c].dir][n].eps \cup eps
                                                   ELSE fs[run[c].dir][n].eps
  BY <1>2, <1>3, <1>4, <1>b
<1>7. Episodes(run[c].seeds)' = Episodes(run[c].seeds) /\ run'[c].pc = pc
  BY <1>1, GoRecord DEF Episodes
<1>8. Extends(c, names, eps)
  BY <1>6 DEF Recorded, Extends
<1> QED
  BY <1>4, <1>5, <1>7, <1>8

LEMMA RecordsSeal ==
  ASSUME TypeInv, Ownership, SealInv, NEW c \in Collector,
         AuditEpisode(c) \/ WriteEpisode(c) \/ IndexEpisode(c) \/ SummariseEpisode(c)
  PROVE  SealInv'
<1> DEFINE all == Episodes(run[c].seeds)
           audit == Recorded(c, "audit_stream")
           inputs == Recorded(c, "monitor_inputs")
           labels == Recorded(c, "offline_labels")
           index == Recorded(c, "dataset_index")
           summary == Recorded(c, "episodes")
<1>1. run[c].pc \in Serving \ {"started", "ready"} /\ run[c].pc \in {"episode", "audited", "written", "indexed"}
  BY DEF AuditEpisode, WriteEpisode, IndexEpisode, SummariseEpisode, Serving
<1>2. ChannelsHold(run[c].pc, all, audit, inputs, labels, index, summary)
  BY <1>1 DEF SealInv, FilesHold, Opening, Collecting
<1>3. ASSUME NEW names \in SUBSET Streams, NEW eps, NEW pc \in {"episode", "audited", "written", "indexed"},
             Record(c, names, eps, pc),
             ChannelsHold(pc, all, IF "audit_stream" \in names THEN audit \cup eps ELSE audit,
                          IF "monitor_inputs" \in names THEN inputs \cup eps ELSE inputs,
                          IF "offline_labels" \in names THEN labels \cup eps ELSE labels,
                          IF "dataset_index" \in names THEN index \cup eps ELSE index,
                          IF "episodes" \in names THEN summary \cup eps ELSE summary)
      PROVE  SealInv'
  <2>0. names \in SUBSET Streams /\ Record(c, names, eps, pc)
    BY <1>3
  <2>1. /\ Moves(c) /\ RecordHolds(run'[c]) /\ run'[c].pc = pc
        /\ Episodes(run[c].seeds)' = Episodes(run[c].seeds)
        /\ Extends(c, names, eps)
    <3>1. run[c].pc \in Serving \ {"started", "ready"}
      BY <1>1
    <3>2. pc \in {"episode", "audited", "written", "indexed"}
      OBVIOUS
    <3> QED
      BY <2>0, <3>1, <3>2, RecordMoves
  <2>2. /\ audit' = IF "audit_stream" \in names THEN audit \cup eps ELSE audit
        /\ inputs' = IF "monitor_inputs" \in names THEN inputs \cup eps ELSE inputs
        /\ labels' = IF "offline_labels" \in names THEN labels \cup eps ELSE labels
        /\ index' = IF "dataset_index" \in names THEN index \cup eps ELSE index
        /\ summary' = IF "episodes" \in names THEN summary \cup eps ELSE summary
    BY <2>1, FilesAreNamed DEF Extends
  <2>3. ChannelsHold(run'[c].pc, all', audit', inputs', labels', index', summary')
    BY <1>3, <2>1, <2>2
  <2>4. ChannelsHold(run[c].pc, all, audit, inputs, labels, index, summary)'
    BY <2>3 DEF ChannelsHold
  <2>5. run'[c].pc # "done" /\ run'[c].pc \notin Opening
    BY <1>3, <2>1 DEF Opening
  <2>6. FilesHold(c)'
    BY <2>4, <2>5, PastOpening DEF FilesHold
  <2> QED
    BY <2>1, <2>6, MovesKeep
<1>4. CASE AuditEpisode(c)
  <2>1. PICK e \in all \ summary : run[c].pc = "episode" /\ Record(c, {"audit_stream"}, {e}, "audited")
    BY <1>4 DEF AuditEpisode
  <2>2. /\ {"audit_stream"} \in SUBSET Streams
        /\ ChannelsHold("audited", all, audit \cup {e}, inputs, labels, index, summary)
    BY <1>2, <2>1, FilesAreNamed DEF ChannelsHold
  <2> HIDE DEF all, audit, inputs, labels, index, summary
  <2> QED
    BY <1>3, <2>1, <2>2
<1>5. CASE WriteEpisode(c)
  <2>1. run[c].pc = "audited" /\ Record(c, {"monitor_inputs", "offline_labels"}, audit, "written")
    BY <1>5 DEF WriteEpisode
  <2>2. /\ {"monitor_inputs", "offline_labels"} \in SUBSET Streams
        /\ ChannelsHold("written", all, audit, inputs \cup audit, labels \cup audit, index, summary)
    BY <1>2, <2>1, FilesAreNamed DEF ChannelsHold
  <2> HIDE DEF all, audit, inputs, labels, index, summary
  <2> QED
    BY <1>3, <2>1, <2>2
<1>6. CASE IndexEpisode(c)
  <2>1. run[c].pc = "written" /\ Record(c, {"dataset_index"}, inputs, "indexed")
    BY <1>6 DEF IndexEpisode
  <2>2. /\ {"dataset_index"} \in SUBSET Streams
        /\ ChannelsHold("indexed", all, audit, inputs, labels, index \cup inputs, summary)
    BY <1>2, <2>1, FilesAreNamed DEF ChannelsHold
  <2> HIDE DEF all, audit, inputs, labels, index, summary
  <2> QED
    BY <1>3, <2>1, <2>2
<1>7. CASE SummariseEpisode(c)
  <2>1. run[c].pc = "indexed" /\ Record(c, {"episodes"}, index, "episode")
    BY <1>7 DEF SummariseEpisode
  <2>2. /\ {"episodes"} \in SUBSET Streams
        /\ ChannelsHold("episode", all, audit, inputs, labels, index, summary \cup index)
    BY <1>2, <2>1, FilesAreNamed DEF ChannelsHold
  <2> HIDE DEF all, audit, inputs, labels, index, summary
  <2> QED
    BY <1>3, <2>1, <2>2
<1> QED
  BY <1>4, <1>5, <1>6, <1>7

LEMMA ClosesSeal ==
  ASSUME TypeInv, Ownership, SealInv, NEW c \in Collector, CloseStreams(c) \/ Fail(c)
  PROVE  SealInv'
<1>1. /\ run[c].pc \in Serving /\ run[c].pc # "idle" /\ seal' = seal
      /\ fs' = [fs EXCEPT ![run[c].dir] = Closed(c, "whole")]
      /\ \E pc : Go(c, pc)
  BY DEF CloseStreams, Fail, Serving
<1>2. run[c].dir \in Dir /\ fs[run[c].dir] \in [Files -> FileStates]
  BY <1>1, OwnDirectory
<1>3. \A n \in Files :
         \/ Closed(c, "whole")[n] = fs[run[c].dir][n]
         \/ /\ fs[run[c].dir][n].form = "open" /\ fs[run[c].dir][n].by = c
            /\ Closed(c, "whole")[n].form = "whole"
            /\ Closed(c, "whole")[n].by = c /\ Closed(c, "whole")[n].eps = fs[run[c].dir][n].eps
  BY <1>2, ClosedFiles
<1>4. Moves(c) /\ fs'[run[c].dir] = Closed(c, "whole")
  BY <1>1, ClosingMoves
<1>5. CASE Fail(c)
  BY <1>1, <1>4, <1>5, GivesUp DEF Fail
<1>6. CASE CloseStreams(c)
  <2>1. /\ run[c].pc = "episode" /\ Go(c, "closed")
        /\ Episodes(run[c].seeds) \subseteq Recorded(c, "episodes")
    BY <1>6 DEF CloseStreams
  <2>2. RecordHolds(run[c]) /\ FilesHold(c)
    BY DEF SealInv
  <2>3. RecordHolds(run'[c]) /\ run'[c].pc = "closed"
    BY <2>1, <2>2, GoRecord DEF RecordHolds, Opening, Collecting
  <2>4. \A n \in Files : fs'[run[c].dir][n].eps = fs[run[c].dir][n].eps
    BY <1>3, <1>4
  <2>5. \A n \in Streams : Recorded(c, n)' = Recorded(c, n)
    BY <2>1, <2>4, GoRecord, FilesAreNamed DEF Recorded
  <2>6. /\ Recorded(c, "audit_stream")' = Recorded(c, "audit_stream")
        /\ Recorded(c, "monitor_inputs")' = Recorded(c, "monitor_inputs")
        /\ Recorded(c, "offline_labels")' = Recorded(c, "offline_labels")
        /\ Recorded(c, "dataset_index")' = Recorded(c, "dataset_index")
        /\ Recorded(c, "episodes")' = Recorded(c, "episodes")
    BY <2>5, FilesAreNamed
  <2>7. Episodes(run[c].seeds)' = Episodes(run[c].seeds)
    BY <2>1, GoRecord DEF Episodes
  <2>8. ChannelsHold("closed", Episodes(run[c].seeds), Recorded(c, "audit_stream"),
                     Recorded(c, "monitor_inputs"), Recorded(c, "offline_labels"),
                     Recorded(c, "dataset_index"), Recorded(c, "episodes"))
    BY <2>1, <2>2 DEF FilesHold, ChannelsHold, Opening, Collecting
  <2>9. ChannelsHold(run[c].pc, Episodes(run[c].seeds), Recorded(c, "audit_stream"),
                     Recorded(c, "monitor_inputs"), Recorded(c, "offline_labels"),
                     Recorded(c, "dataset_index"), Recorded(c, "episodes"))'
    BY <2>3, <2>6, <2>7, <2>8 DEF ChannelsHold
  <2>10. FilesHold(c)'
    <3>1. run'[c].pc # "done" /\ run'[c].pc \notin Opening
      BY <2>3 DEF Opening
    <3> QED
      BY <2>9, <3>1, PastOpening DEF FilesHold
  <2> QED
    BY <1>4, <2>3, <2>10, MovesKeep
<1> QED
  BY <1>5, <1>6

\* The seal lists the files as they are.
LEMMA SealSeals ==
  ASSUME TypeInv, Ownership, SealInv, NEW c \in Collector, Seal(c)
  PROVE  SealInv'
<1>1. /\ run[c].pc = "sealing" /\ run[c].pc \in Serving /\ run[c].pc \notin Ended \cup {"idle"}
      /\ RecordHolds(run[c]) /\ FilesHold(c)
  BY DEF Seal, Serving, Ended, SealInv
<1>2. /\ run[c].dir \in Dir /\ fs[run[c].dir] \in [Files -> FileStates]
      /\ fs \in [Dir -> [Files -> FileStates]] /\ seal \in [Dir -> [Hashed -> FileStates]]
  BY <1>1, OwnDirectory DEF TypeInv, TypeOK
<1>3. CASE Go(c, "failed") /\ UNCHANGED <<fs, seal>>
  BY <1>1, <1>3, FailsClean
<1>4. CASE /\ Creates(run[c].dir, "shard_integrity") /\ Go(c, "done")
           /\ fs' = [fs EXCEPT ![run[c].dir]["shard_integrity"] = Made(c, "whole")]
           /\ seal' = [seal EXCEPT ![run[c].dir] = [n \in Hashed |-> fs[run[c].dir][n]]]
  <2>1. /\ run'[c].pc = "done" /\ run'[c].dir = run[c].dir
        /\ \A b \in Collector : b # c => run'[b] = run[b]
    BY <1>4, GoRecord
  <2>2. /\ fs'[run[c].dir]["shard_integrity"] = Made(c, "whole")
        /\ \A d \in Dir : d # run[c].dir => fs'[d] = fs[d]
        /\ \A n \in Files : n # "shard_integrity" => fs'[run[c].dir][n] = fs[run[c].dir][n]
    BY <1>2, <1>4, FilesAreNamed
  <2>3. /\ seal'[run[c].dir] = [n \in Hashed |-> fs[run[c].dir][n]]
        /\ \A d \in Dir : d # run[c].dir => seal'[d] = seal[d]
    BY <1>2, <1>4
  <2>4. fs[run[c].dir]["shard_integrity"].form = "absent"
    BY <1>4 DEF Creates, Present
  <2>5. \A n \in Files : FileMoves(c, run[c].dir, n)
    BY <2>1, <2>2, <2>4 DEF FileMoves
  <2>6. \A d \in Dir, n \in Files : FileMoves(c, d, n)
    BY <2>2, <2>5 DEF FileMoves
  <2>7. Present(run[c].dir, "software_versions") /\ fs[run[c].dir]["software_versions"].by = c
    BY <1>1 DEF Ownership, Held
  <2>8. Moves(c)
    <3>1. \A d \in Dir : (d = run[c].dir => Present(d, "software_versions") /\ fs[d]["software_versions"].by # c)
                            => fs'[d] = fs[d] /\ seal'[d] = seal[d]
      BY <2>2, <2>3, <2>7
    <3>2. \A d \in Dir : \/ seal'[d] = seal[d]
                         \/ ~Present(d, "shard_integrity") /\ seal'[d] = [n \in Hashed |-> fs[d][n]]
      BY <2>3, <2>4 DEF Present
    <3> QED
      BY <1>1, <2>1, <2>6, <3>1, <3>2 DEF Moves
  <2>9. RecordHolds(run'[c])
    BY <1>1, <1>4, GoRecord DEF RecordHolds, Opening, Collecting
  <2>10. "shard_integrity" \notin Hashed
    BY DEF Hashed, Streams
  <2>11. \A n \in Hashed : fs'[run'[c].dir][n] = fs[run[c].dir][n] /\ seal'[run'[c].dir][n] = fs[run[c].dir][n]
    BY <2>1, <2>2, <2>3, <2>10, FilesAreNamed
  <2>12. /\ Present(run[c].dir, "software_versions")'
         /\ fs'[run'[c].dir]["software_versions"].by = c
    BY <2>7, <2>11, FilesAreNamed DEF Present
  <2>13. \A n \in Streams : Recorded(c, n)' = Recorded(c, n)
    BY <2>11, FilesAreNamed DEF Recorded
  <2>14. /\ Recorded(c, "audit_stream")' = Recorded(c, "audit_stream")
         /\ Recorded(c, "monitor_inputs")' = Recorded(c, "monitor_inputs")
         /\ Recorded(c, "offline_labels")' = Recorded(c, "offline_labels")
         /\ Recorded(c, "dataset_index")' = Recorded(c, "dataset_index")
         /\ Recorded(c, "episodes")' = Recorded(c, "episodes")
    BY <2>13, FilesAreNamed
  <2>15. Episodes(run[c].seeds)' = Episodes(run[c].seeds)
    BY <1>4, GoRecord DEF Episodes
  <2>16. ChannelsHold("done", Episodes(run[c].seeds), Recorded(c, "audit_stream"),
                      Recorded(c, "monitor_inputs"), Recorded(c, "offline_labels"),
                      Recorded(c, "dataset_index"), Recorded(c, "episodes"))
    BY <1>1 DEF FilesHold, ChannelsHold, Opening, Collecting
  <2>17. ChannelsHold(run[c].pc, Episodes(run[c].seeds), Recorded(c, "audit_stream"),
                      Recorded(c, "monitor_inputs"), Recorded(c, "offline_labels"),
                      Recorded(c, "dataset_index"), Recorded(c, "episodes"))'
    BY <2>1, <2>14, <2>15, <2>16 DEF ChannelsHold
  <2>18. FilesHold(c)'
    <3>1. OpenedEmpty(c)'
      BY <2>1, PastOpening DEF Opening
    <3> QED
      BY <2>11, <2>12, <2>17, <3>1 DEF FilesHold
  <2> QED
    BY <2>8, <2>9, <2>18, MovesKeep
<1> QED
  BY <1>3, <1>4 DEF Seal

\* A process is killed.  If it had not taken its directory, it leaves at most the
\* first file, and that only where there was none.
LEMMA CrashSeals ==
  ASSUME TypeInv, Ownership, SealInv, NEW c \in Collector, Crash(c)
  PROVE  SealInv'
<1>1. /\ run[c].pc \in Running /\ run[c].pc \notin Ended /\ run[c].pc # "idle"
      /\ Go(c, "crashed") /\ seal' = seal
  BY DEF Crash, Running, Serving, Ended
<1>2. PICK form \in {"whole", "empty", "torn"} :
        LET begun == {n \in NextFile(run[c].pc) : form # "whole" /\ Creates(run[c].dir, n)}
        IN fs' = [fs EXCEPT ![run[c].dir] = [n \in Files |->
                    IF n \in begun THEN Made(c, form) ELSE Closed(c, form)[n]]]
  BY DEF Crash
<1> DEFINE begun == {n \in NextFile(run[c].pc) : form # "whole" /\ Creates(run[c].dir, n)}
           files == [n \in Files |-> IF n \in begun THEN Made(c, form) ELSE Closed(c, form)[n]]
<1>3. /\ run[c].dir \in Dir /\ fs[run[c].dir] \in [Files -> FileStates]
      /\ fs \in [Dir -> [Files -> FileStates]] /\ run \in [Collector -> RunStates]
  BY <1>1 DEF TypeInv, TypeOK, Placed
<1>4. fs' = [fs EXCEPT ![run[c].dir] = files]
  BY <1>2
<1>5. ASSUME NEW n \in Files
      PROVE  \/ /\ n \in begun /\ form \in {"empty", "torn"} /\ files[n] = Made(c, form)
                /\ fs[run[c].dir][n].form = "absent"
             \/ n \notin begun /\ files[n] = fs[run[c].dir][n]
             \/ /\ n \notin begun /\ fs[run[c].dir][n].form = "open" /\ fs[run[c].dir][n].by = c
                /\ files[n].form = form /\ files[n].by = c /\ files[n].eps = fs[run[c].dir][n].eps
  <2>1. CASE n \in begun
    BY <2>1 DEF Creates, Present
  <2>2. CASE n \notin begun
    <3>1. files[n] = Closed(c, form)[n]
      BY <2>2
    <3> QED
      BY <1>3, <2>2, <3>1, ClosedFiles
  <2> QED
    BY <2>1, <2>2
<1>6. \A b \in Collector : b # c => run'[b] = run[b]
  BY <1>1, GoRecord
<1>7. begun \subseteq NextFile(run[c].pc)
  OBVIOUS
<1> HIDE DEF files, begun
<1>8. \A n \in Files : Becomes(c, n, files[n])
  BY <1>5 DEF Becomes
<1>9. CASE run[c].pc \in Serving
  <2>1. Moves(c)
    BY <1>1, <1>4, <1>6, <1>8, <1>9, DirectoryMoves
  <2> QED
    BY <1>1, <2>1, GivesUp
<1>10. CASE run[c].pc \notin Serving
  <2>1. NextFile(run[c].pc) \subseteq {"software_versions"}
    BY <1>1, <1>10 DEF NextFile, Openings, Running, Serving
  <2>2. /\ fs'[run[c].dir] = files
        /\ \A d \in Dir : d # run[c].dir => fs'[d] = fs[d]
    BY <1>3, <1>4
  <2>3. "shard_integrity" \notin Streams
    BY DEF Streams
  <2>4. \A d \in Dir, n \in Files : FileMoves(c, d, n)
    BY <1>8, <2>2, <2>3 DEF FileMoves, Becomes
  <2>5. ASSUME Present(run[c].dir, "software_versions"), fs[run[c].dir]["software_versions"].by # c
        PROVE  fs'[run[c].dir] = fs[run[c].dir]
    <3>1. \A n \in Files : fs[run[c].dir][n].form = "absent" \/ fs[run[c].dir][n].by # c
      BY <1>3, <2>5 DEF Ownership, Owned, Present
    <3>2. "software_versions" \notin begun
      BY <1>5, <2>5, FilesAreNamed DEF Present
    <3>3. begun = {}
      BY <1>7, <2>1, <3>2
    <3>4. \A n \in Files : files[n] = fs[run[c].dir][n]
      BY <1>5, <3>1, <3>3
    <3>5. files \in [Files -> FileStates] /\ \A f, g \in [Files -> FileStates] :
            (\A n \in Files : f[n] = g[n]) => f = g
      <4>1. \A n \in Files : files[n] \in FileStates
        BY <1>3, <3>4
      <4>2. files = [n \in Files |-> files[n]]
        BY DEF files
      <4> QED
        BY <4>1, <4>2
    <3> QED
      BY <1>3, <2>2, <3>4, <3>5
  <2>6. Moves(c)
    <3>1. \A d \in Dir : (d = run[c].dir => Present(d, "software_versions") /\ fs[d]["software_versions"].by # c)
                            => fs'[d] = fs[d] /\ seal'[d] = seal[d]
      BY <1>1, <2>2, <2>5
    <3> QED
      BY <1>1, <1>6, <2>4, <3>1 DEF Moves
  <2> QED
    BY <1>1, <2>6, GivesUp
<1> QED
  BY <1>9, <1>10

LEMMA CollectSeals ==
  ASSUME TypeInv, Ownership, SealInv, NEW c \in Collector, Collect(c)
  PROVE  SealInv'
<1>1. CASE \E d \in Dir, request \in Requests : Launch(c, d, request[1], request[2])
  BY <1>1, LaunchSeals
<1>2. CASE VerifyInputs(c) \/ ClaimDirectory(c) \/ ReadCommit(c)
  BY <1>2, PreparesSeals
<1>3. CASE \/ WriteSoftwareVersions(c) \/ StartServer(c) \/ RecordPolicyBefore(c)
           \/ RecordPolicyAfter(c) \/ WriteMetrics(c) \/ WriteRunManifest(c) \/ ValidateDataset(c)
  BY <1>3, WritesSeal
<1>4. CASE OpenStreams(c)
  BY <1>4, OpenSeals
<1>5. CASE AuditEpisode(c) \/ WriteEpisode(c) \/ IndexEpisode(c) \/ SummariseEpisode(c)
  BY <1>5, RecordsSeal
<1>6. CASE CloseStreams(c) \/ Fail(c)
  BY <1>6, ClosesSeal
<1>7. CASE Seal(c)
  BY <1>7, SealSeals
<1>8. CASE Crash(c)
  BY <1>8, CrashSeals
<1> QED
  BY <1>1, <1>2, <1>3, <1>4, <1>5, <1>6, <1>7, <1>8 DEF Collect

\* A damaged file keeps its author and its episodes, and is no longer whole.
LEMMA DamageSeals ==
  ASSUME TypeInv, Ownership, SealInv, NEW d \in Dir, NEW n \in Fragile,
         NEW form \in {"empty", "torn", "altered"}, Damage(d, n, form)
  PROVE  SealInv'
<1>1. fs \in [Dir -> [Files -> FileStates]] /\ n \in Files
  BY FilesAreNamed DEF TypeInv, TypeOK
<1>2. /\ run' = run /\ seal' = seal /\ fs[d][n].form = "whole"
      /\ fs' = [fs EXCEPT ![d][n].form = form]
      /\ form = "altered" => n \in Hashed /\ Present(d, "shard_integrity")
  BY DEF Damage
<1>3. fs'[d][n].by = fs[d][n].by /\ fs'[d][n].eps = fs[d][n].eps /\ fs'[d][n].form = form
  <2>1. fs[d][n] \in FileStates
    BY <1>1
  <2>2. fs'[d][n] = [fs[d][n] EXCEPT !.form = form]
    BY <1>1, <1>2
  <2> QED
    BY <2>1, <2>2 DEF FileStates
<1>4. \A e \in Dir, m \in Files : e # d \/ m # n => fs'[e][m] = fs[e][m]
  BY <1>1, <1>2
<1>5. ASSUME NEW e \in Dir, NEW m \in Files
      PROVE  /\ fs'[e][m].by = fs[e][m].by /\ fs'[e][m].eps = fs[e][m].eps
             /\ fs'[e][m].form = "absent" <=> fs[e][m].form = "absent"
             /\ fs'[e][m].form = "whole" => fs'[e][m] = fs[e][m]
             /\ fs'[e][m].form = "open" => fs[e][m].form = "open"
             /\ fs'[e][m].form = "altered" /\ fs[e][m].form # "altered" =>
                  m \in Hashed /\ Present(e, "shard_integrity")
  <2>1. CASE e = d /\ m = n
    BY <1>2, <1>3, <2>1
  <2>2. CASE e # d \/ m # n
    BY <1>4, <2>2
  <2> QED
    BY <2>1, <2>2
<1>6. \A e \in Dir, m \in Files : Present(e, m)' <=> Present(e, m)
  BY <1>5 DEF Present
<1>7. ASSUME NEW e \in Dir
      PROVE  DirectoryHolds(e)'
  <2>1. DirectoryHolds(e)
    BY DEF SealInv
  <2>2. "shard_integrity" \in Files
    BY FilesAreNamed
  <2>3. \A m \in Files :
           /\ m \notin Streams => fs'[e][m].eps = {} /\ fs'[e][m].form # "open"
           /\ fs'[e][m].form = "altered" => m \in Hashed /\ Present(e, "shard_integrity")'
    BY <1>5, <1>6, <2>1, <2>2 DEF DirectoryHolds
  <2>4. \A m \in Hashed : seal'[e][m].form # "altered"
    BY <1>2, <2>1 DEF DirectoryHolds
  <2>5. fs'[e]["shard_integrity"].form = "whole" =>
           \E c \in Collector : /\ fs'[e]["shard_integrity"].by = c
                                /\ run'[c].pc = "done" /\ run'[c].dir = e
    BY <1>2, <1>5, <2>1, <2>2 DEF DirectoryHolds
  <2> QED
    BY <2>3, <2>4, <2>5 DEF DirectoryHolds
<1>8. ASSUME NEW c \in Collector
      PROVE  RecordHolds(run[c])' /\ FilesHold(c)'
  <2>1. RecordHolds(run[c]) /\ FilesHold(c)
    BY DEF SealInv
  <2>2. RecordHolds(run[c])'
    BY <1>2, <2>1
  <2>3. CASE run[c].pc \notin Opening \cup Collecting
    BY <1>2, <2>2, <2>3, OutOfCollection
  <2>4. CASE run[c].pc \in Opening \cup Collecting
    <3>1. run[c].dir \in Dir
      BY <2>4 DEF TypeInv, Placed, Opening, Collecting
    <3>2. \A m \in Files : Recorded(c, m)' = Recorded(c, m)
      BY <1>2, <1>5, <3>1 DEF Recorded
    <3>3. /\ Recorded(c, "audit_stream")' = Recorded(c, "audit_stream")
          /\ Recorded(c, "monitor_inputs")' = Recorded(c, "monitor_inputs")
          /\ Recorded(c, "offline_labels")' = Recorded(c, "offline_labels")
          /\ Recorded(c, "dataset_index")' = Recorded(c, "dataset_index")
          /\ Recorded(c, "episodes")' = Recorded(c, "episodes")
      BY <3>2, FilesAreNamed
    <3>4. Episodes(run[c].seeds)' = Episodes(run[c].seeds)
      BY <1>2 DEF Episodes
    <3>5. OpenedEmpty(c)'
      <4>1. OpenedEmpty(c) /\ OpenedBefore(run[c].pc) \subseteq Files
        BY <2>1, FilesAreNamed DEF FilesHold, OpenedBefore
      <4> QED
        BY <1>2, <3>2, <4>1 DEF OpenedEmpty, OpenedBefore
    <3>6. ASSUME run[c].pc \in Collecting
          PROVE  ChannelsHold(run[c].pc, Episodes(run[c].seeds), Recorded(c, "audit_stream"),
                              Recorded(c, "monitor_inputs"), Recorded(c, "offline_labels"),
                              Recorded(c, "dataset_index"), Recorded(c, "episodes"))'
      <4>1. ChannelsHold(run[c].pc, Episodes(run[c].seeds), Recorded(c, "audit_stream"),
                         Recorded(c, "monitor_inputs"), Recorded(c, "offline_labels"),
                         Recorded(c, "dataset_index"), Recorded(c, "episodes"))
        BY <2>1, <3>6 DEF FilesHold
      <4> QED
        BY <1>2, <3>3, <3>4, <4>1 DEF ChannelsHold
    <3>7. ASSUME run[c].pc = "done"
          PROVE  /\ Present(run[c].dir, "software_versions")'
                 /\ fs'[run[c].dir]["software_versions"].by = c
                 /\ \A m \in Hashed : fs'[run[c].dir][m].form = "whole" =>
                      seal[run[c].dir][m] = fs'[run[c].dir][m]
      <4>1. /\ Present(run[c].dir, "software_versions")
            /\ fs[run[c].dir]["software_versions"].by = c
            /\ \A m \in Hashed : fs[run[c].dir][m].form = "whole" =>
                 seal[run[c].dir][m] = fs[run[c].dir][m]
        BY <2>1, <3>7 DEF FilesHold
      <4>2. Present(run[c].dir, "software_versions")'
        BY <1>2, <1>5, <3>1, <4>1, FilesAreNamed DEF Present
      <4> QED
        BY <1>5, <3>1, <4>1, <4>2, FilesAreNamed
    <3> QED
      BY <1>2, <2>2, <3>5, <3>6, <3>7 DEF FilesHold
  <2> QED
    BY <2>3, <2>4
<1> QED
  BY <1>7, <1>8 DEF SealInv

LEMMA SealInvHolds == Spec => []SealInv
<1>1. Init => SealInv
  <2> SUFFICES ASSUME Init PROVE SealInv
    OBVIOUS
  <2>1. ASSUME NEW c \in Collector
        PROVE  RecordHolds(run[c]) /\ FilesHold(c)
    <3>1. run[c].pc = "idle"
      BY DEF Init, Idle
    <3> QED
      BY <3>1 DEF RecordHolds, FilesHold, OpenedEmpty, Opening, Collecting
  <2>2. ASSUME NEW d \in Dir
        PROVE  DirectoryHolds(d)
    <3>1. \A n \in Files : fs[d][n] = Absent
      BY DEF Init
    <3>2. \A n \in Hashed : seal[d][n] = Absent
      BY DEF Init, NoSeal
    <3> QED
      BY <3>1, <3>2, FilesAreNamed DEF DirectoryHolds, Absent
  <2> QED
    BY <2>1, <2>2 DEF SealInv
<1>2. TypeInv /\ Ownership /\ SealInv /\ [Next]_vars => SealInv'
  <2> SUFFICES ASSUME TypeInv, Ownership, SealInv, [Next]_vars PROVE SealInv'
    OBVIOUS
  <2>1. CASE \E c \in Collector : Collect(c)
    BY <2>1, CollectSeals
  <2>2. CASE Edit \/ Advance \/ UNCHANGED vars
    <3>1. UNCHANGED <<run, fs, seal>>
      BY <2>2 DEF Edit, Advance, vars
    <3>2. ASSUME NEW c \in Collector
          PROVE  RecordHolds(run[c])' /\ FilesHold(c)'
      <4>1. RecordHolds(run[c]) /\ FilesHold(c)
        BY DEF SealInv
      <4>2. RecordHolds(run[c])' = RecordHolds(run[c])
        BY <3>1 DEF RecordHolds
      <4>3. OpenedEmpty(c)' = OpenedEmpty(c)
        BY <3>1 DEF OpenedEmpty, OpenedBefore, Recorded
      <4> QED
        BY <3>1, <4>1, <4>2, <4>3 DEF FilesHold, ChannelsHold, Recorded, Present, Episodes
    <3>3. \A d \in Dir : DirectoryHolds(d)'
      BY <3>1 DEF SealInv, DirectoryHolds, Present
    <3> QED
      BY <3>2, <3>3 DEF SealInv
  <2>3. CASE \E d \in Dir, n \in Fragile, form \in {"empty", "torn", "altered"} :
               Damage(d, n, form)
    BY <2>3, DamageSeals
  <2> QED
    BY <2>1, <2>2, <2>3 DEF Next
<1> QED
  BY <1>1, <1>2, TypeInvHolds, OwnershipHolds, PTL DEF Spec

-----------------------------------------------------------------------------

\* Whoever passes the gate has each planned episode of the partition exactly once in
\* the label channels, whatever happened to directories, runs and the repository:
\* the conditions of _validate_shard and of validate_formal_shard_set are enough.
THEOREM ShardsCoverPartition == Spec => []PassedShardsCoverPartition
<1> QED
  BY CoverPartition, PTL

\* A shard that passes is what one run left that went through main to the end: no
\* exception, kill or damage at any point, and no second run in the directory, leaves
\* something the gate takes for it.
THEOREM ShardsAreRunsAsFinished == Spec => []PassedShardsAreRunsAsFinished
<1> QED
  BY RunsAsFinished, TypeInvHolds, OwnershipHolds, SealInvHolds, PTL

\* The shards of a list that passes were planned from the protocol file the gate
\* reads, served by one set of parameters and recorded at one clean commit, however
\* the repository was edited and committed while the runs went on.
THEOREM ShardsShareProvenance == Spec => []PassedShardsShareProvenance
<1> QED
  BY ShareProvenance, TypeInvHolds, OwnershipHolds, SealInvHolds, PTL

\* The gate is not too strict: runs that reached their seal, share protocol, commit
\* and parameters and divide the seeds among them pass, in any order and number.
THEOREM CampaignsAccepted == Spec => []GoodCampaignsPass
<1> QED
  BY CampaignsPass, TypeInvHolds, OwnershipHolds, SealInvHolds, PTL

-----------------------------------------------------------------------------
(* Sealed directories are final.  Whoever began to write the seal has      *)
(* ended, so no process is left that holds the directory.                  *)

SealedByEnded ==
  \A d \in Dir : Present(d, "shard_integrity") =>
    \E c \in Collector : fs[d]["shard_integrity"].by = c /\ run[c].pc \in Ended

\* What a collector that may go on does to the seal of a directory: it begins one
\* with its last step, and touches nothing beside one that is there.
LeavesSealed(c, d) ==
  \/ fs'[d] = fs[d] /\ seal'[d] = seal[d]
  \/ /\ ~Present(d, "shard_integrity")
     /\ \/ fs'[d]["shard_integrity"].form = "absent"
        \/ fs'[d]["shard_integrity"].by = c /\ run'[c].pc \in Ended

LEMMA SealIsNamed == "shard_integrity" \in Files /\ "shard_integrity" \notin Streams
BY DEF Files, Artifacts, Streams

\* In a sealed directory every file is of another, which has ended.
LEMMA SealedIsOfOther ==
  ASSUME TypeInv, Ownership, SealedByEnded, NEW c \in Collector, run[c].pc \notin Ended,
         NEW d \in Dir, Present(d, "shard_integrity")
  PROVE  /\ Present(d, "software_versions")
         /\ \A n \in Files : Present(d, n) => fs[d][n].by # c
         /\ run[c].pc \in Serving => run[c].dir # d
<1>1. PICK o \in Collector : fs[d]["shard_integrity"].by = o /\ run[o].pc \in Ended
  BY DEF SealedByEnded
<1>2. o # c /\ Present(d, "software_versions") /\ fs[d]["software_versions"].by = o
  BY <1>1, SealIsNamed DEF Ownership, Owned
<1>3. \A n \in Files : Present(d, n) => fs[d][n].by # c
  BY <1>2 DEF Ownership, Owned
<1>4. run[c].pc \in Serving => run[c].dir # d
  BY <1>2 DEF Ownership, Held
<1> QED
  BY <1>2, <1>3, <1>4

\* A collector that holds its directory may do what it likes to it, but for the seal.
LEMMA ServingLeavesSealed ==
  ASSUME TypeInv, Ownership, SealedByEnded, NEW c \in Collector, run[c].pc \in Serving,
         NEW files, fs' = [fs EXCEPT ![run[c].dir] = files], seal' = seal,
         \/ files["shard_integrity"] = fs[run[c].dir]["shard_integrity"]
         \/ files["shard_integrity"].by = c /\ run'[c].pc \in Ended
  PROVE  \A d \in Dir : LeavesSealed(c, d)
<1>1. run[c].pc \notin Ended /\ run[c].dir \in Dir /\ fs \in [Dir -> [Files -> FileStates]]
  BY OwnDirectory DEF Serving, Ended, TypeInv, TypeOK
<1>2. ~Present(run[c].dir, "shard_integrity")
  BY <1>1, SealedIsOfOther
<1>3. fs'[run[c].dir] = files /\ \A d \in Dir : d # run[c].dir => fs'[d] = fs[d]
  BY <1>1
<1> QED
  BY <1>2, <1>3 DEF LeavesSealed, Present

LEMMA WriteOnceLeavesSealed ==
  ASSUME TypeInv, Ownership, SealedByEnded, NEW c \in Collector, run[c].pc \in Serving,
         NEW n \in Files \ {"shard_integrity"}, NEW next, WriteOnce(c, n, next)
  PROVE  /\ \A b \in Collector : b # c => run'[b] = run[b]
         /\ \A d \in Dir : LeavesSealed(c, d)
<1>a. \A b \in Collector : b # c => run'[b] = run[b]
  BY DEF WriteOnce, Go, TypeInv, TypeOK
<1>1. CASE UNCHANGED fs
  BY <1>a, <1>1 DEF WriteOnce, LeavesSealed
<1>2. CASE fs' = [fs EXCEPT ![run[c].dir][n] = Made(c, "whole")]
  <2> DEFINE files == [fs[run[c].dir] EXCEPT ![n] = Made(c, "whole")]
  <2>1. run[c].dir \in Dir /\ fs[run[c].dir] \in [Files -> FileStates]
    BY OwnDirectory
  <2>2. files["shard_integrity"] = fs[run[c].dir]["shard_integrity"]
    BY <2>1, SealIsNamed
  <2>3. fs' = [fs EXCEPT ![run[c].dir] = files] /\ seal' = seal
    BY <1>2, <2>1 DEF WriteOnce, TypeInv, TypeOK
  <2> HIDE DEF files
  <2> QED
    BY <1>a, <2>2, <2>3, ServingLeavesSealed
<1> QED
  BY <1>1, <1>2 DEF WriteOnce

LEMMA RecordLeavesSealed ==
  ASSUME TypeInv, Ownership, SealedByEnded, NEW c \in Collector, run[c].pc \in Serving,
         NEW names \in SUBSET Streams, NEW eps, NEW pc, Record(c, names, eps, pc)
  PROVE  /\ \A b \in Collector : b # c => run'[b] = run[b]
         /\ \A d \in Dir : LeavesSealed(c, d)
<1> DEFINE files == [n \in Files |->
             IF n \in names THEN [fs[run[c].dir][n] EXCEPT !.eps = fs[run[c].dir][n].eps \cup eps]
             ELSE fs[run[c].dir][n]]
<1>1. fs' = [fs EXCEPT ![run[c].dir] = files] /\ Go(c, pc) /\ seal' = seal
  BY DEF Record
<1>2. files["shard_integrity"] = fs[run[c].dir]["shard_integrity"]
  BY SealIsNamed
<1> HIDE DEF files
<1> QED
  BY <1>1, <1>2, GoRecord, ServingLeavesSealed

\* The channels closed by the end of the with statement or of the process.
LEMMA ClosedKeepsSeal ==
  ASSUME TypeInv, SealInv, NEW c \in Collector, run[c].dir \in Dir, NEW form
  PROVE  Closed(c, form)["shard_integrity"] = fs[run[c].dir]["shard_integrity"]
<1>1. fs[run[c].dir]["shard_integrity"].form # "open"
  BY SealIsNamed DEF SealInv, DirectoryHolds
<1> QED
  BY <1>1, SealIsNamed DEF Closed

LEMMA CrashLeavesSealed ==
  ASSUME TypeInv, Ownership, SealInv, SealedByEnded, NEW c \in Collector, Crash(c)
  PROVE  \A d \in Dir : LeavesSealed(c, d)
<1>1. /\ run[c].pc \in Running /\ run[c].pc \notin Ended /\ run[c].pc # "idle"
      /\ Go(c, "crashed") /\ seal' = seal
  BY DEF Crash, Running, Serving, Ended
<1>2. PICK form \in {"whole", "empty", "torn"} :
        LET begun == {n \in NextFile(run[c].pc) : form # "whole" /\ Creates(run[c].dir, n)}
        IN fs' = [fs EXCEPT ![run[c].dir] = [n \in Files |->
                    IF n \in begun THEN Made(c, form) ELSE Closed(c, form)[n]]]
  BY DEF Crash
<1> DEFINE begun == {n \in NextFile(run[c].pc) : form # "whole" /\ Creates(run[c].dir, n)}
           files == [n \in Files |-> IF n \in begun THEN Made(c, form) ELSE Closed(c, form)[n]]
<1>3. /\ run[c].dir \in Dir /\ fs[run[c].dir] \in [Files -> FileStates]
      /\ fs \in [Dir -> [Files -> FileStates]]
  BY <1>1 DEF TypeInv, TypeOK, Placed
<1>4. fs' = [fs EXCEPT ![run[c].dir] = files] /\ run'[c].pc = "crashed"
  BY <1>1, <1>2, GoRecord
<1>5. CASE run[c].pc \in Serving
  <2>1. \/ files["shard_integrity"] = Made(c, form)
        \/ files["shard_integrity"] = fs[run[c].dir]["shard_integrity"]
    BY <1>3, ClosedKeepsSeal, SealIsNamed
  <2>2. \/ files["shard_integrity"] = fs[run[c].dir]["shard_integrity"]
        \/ files["shard_integrity"].by = c /\ run'[c].pc \in Ended
    BY <1>4, <2>1 DEF Made, Ended
  <2> HIDE DEF files
  <2> QED
    BY <1>1, <1>4, <1>5, <2>2, ServingLeavesSealed
<1>6. CASE run[c].pc \notin Serving
  <2>1. begun \subseteq {"software_versions"}
    BY <1>6 DEF NextFile, Openings, Serving
  <2>2. ASSUME Present(run[c].dir, "shard_integrity")
        PROVE  files = fs[run[c].dir]
    <3>1. /\ Present(run[c].dir, "software_versions")
          /\ \A n \in Files : Present(run[c].dir, n) => fs[run[c].dir][n].by # c
      BY <1>1, <1>3, <2>2, SealedIsOfOther
    <3>2. begun = {}
      BY <2>1, <3>1 DEF Creates
    <3>3. \A n \in Files : Closed(c, form)[n] = fs[run[c].dir][n]
      BY <3>1 DEF Closed, Present
    <3>4. \A n \in Files : files[n] = fs[run[c].dir][n]
      BY <3>2, <3>3
    <3> QED
      BY <1>3, <3>4
  <2>3. files["shard_integrity"] = fs[run[c].dir]["shard_integrity"]
    <3>1. "shard_integrity" \notin begun
      BY <2>1
    <3> QED
      BY <1>3, <3>1, ClosedKeepsSeal, SealIsNamed
  <2> HIDE DEF files
  <2>4. fs'[run[c].dir] = files /\ \A d \in Dir : d # run[c].dir => fs'[d] = fs[d]
    BY <1>3, <1>4
  <2> QED
    BY <1>1, <2>2, <2>3, <2>4 DEF LeavesSealed, Present
<1> QED
  BY <1>5, <1>6

LEMMA SealLeavesSealed ==
  ASSUME TypeInv, Ownership, SealedByEnded, NEW c \in Collector, Seal(c)
  PROVE  \A d \in Dir : LeavesSealed(c, d)
<1>1. run[c].pc \in Serving
  BY DEF Seal, Serving
<1>2. /\ run[c].dir \in Dir /\ fs \in [Dir -> [Files -> FileStates]]
      /\ seal \in [Dir -> [Hashed -> FileStates]]
  BY <1>1, OwnDirectory DEF TypeInv, TypeOK
<1>3. CASE UNCHANGED <<fs, seal>>
  BY <1>3 DEF LeavesSealed
<1>4. CASE /\ Creates(run[c].dir, "shard_integrity") /\ Go(c, "done")
           /\ fs' = [fs EXCEPT ![run[c].dir]["shard_integrity"] = Made(c, "whole")]
           /\ seal' = [seal EXCEPT ![run[c].dir] = [n \in Hashed |-> fs[run[c].dir][n]]]
  <2>1. fs'[run[c].dir]["shard_integrity"] = Made(c, "whole") /\ run'[c].pc = "done"
    BY <1>2, <1>4, SealIsNamed, GoRecord
  <2>2. \A d \in Dir : d # run[c].dir => fs'[d] = fs[d] /\ seal'[d] = seal[d]
    BY <1>2, <1>4
  <2> QED
    BY <1>4, <2>1, <2>2 DEF LeavesSealed, Creates, Made, Ended
<1> QED
  BY <1>3, <1>4 DEF Seal

LEMMA CollectLeavesSealed ==
  ASSUME TypeInv, Ownership, SealInv, SealedByEnded, NEW c \in Collector, Collect(c)
  PROVE  /\ run[c].pc \notin Ended /\ \A b \in Collector : b # c => run'[b] = run[b]
         /\ \A d \in Dir : LeavesSealed(c, d)
<1>1. CASE \/ \E d \in Dir, request \in Requests : Launch(c, d, request[1], request[2])
           \/ VerifyInputs(c) \/ ClaimDirectory(c) \/ ReadCommit(c)
  <2>1. run[c].pc \in {"idle", "configured", "verified", "claimed"} /\ UNCHANGED <<fs, seal>>
    <3>1. ASSUME NEW d \in Dir, NEW request \in Requests, Launch(c, d, request[1], request[2])
          PROVE  run[c].pc = "idle" /\ UNCHANGED <<fs, seal>>
      BY <3>1, Zenon DEF Launch
    <3>2. VerifyInputs(c) \/ ClaimDirectory(c) \/ ReadCommit(c) =>
            run[c].pc \in {"configured", "verified", "claimed"} /\ UNCHANGED <<fs, seal>>
      BY DEF VerifyInputs, ClaimDirectory, ReadCommit
    <3> QED
      BY <1>1, <3>1, <3>2
  <2>2. \E next : run' = [run EXCEPT ![c] = next]
    BY <1>1, Zenon DEF Launch, VerifyInputs, ClaimDirectory, ReadCommit, Go
  <2>3. \A b \in Collector : b # c => run'[b] = run[b]
    BY <2>2 DEF TypeInv, TypeOK
  <2> QED
    BY <2>1, <2>3 DEF LeavesSealed, Ended
<1>2. CASE WriteSoftwareVersions(c)
  <2> DEFINE next == [run[c] EXCEPT !.pc = "started", !.dirty = repo.tree]
  <2>1. /\ run[c].pc = "identified" /\ WriteOnce(c, "software_versions", next)
        /\ run \in [Collector -> RunStates] /\ fs \in [Dir -> [Files -> FileStates]]
    BY <1>2 DEF WriteSoftwareVersions, TypeInv, TypeOK
  <2>2. run[c].pc \notin Ended /\ run[c].pc # "idle" /\ run[c].dir \in Dir
    BY <2>1 DEF Ended, TypeInv, Placed
  <2> HIDE DEF next
  <2>3. \A b \in Collector : b # c => run'[b] = run[b]
    BY <2>1 DEF WriteOnce, Go
  <2>4. CASE UNCHANGED fs
    BY <2>1, <2>2, <2>3, <2>4 DEF WriteOnce, LeavesSealed
  <2>5. CASE /\ Creates(run[c].dir, "software_versions")
             /\ fs' = [fs EXCEPT ![run[c].dir]["software_versions"] = Made(c, "whole")]
    <3>1. ~Present(run[c].dir, "shard_integrity")
      BY <2>2, <2>5, SealedIsOfOther DEF Creates
    <3>2. fs'[run[c].dir]["shard_integrity"] = fs[run[c].dir]["shard_integrity"]
      BY <2>1, <2>2, <2>5, SealIsNamed
    <3>3. \A d \in Dir : d # run[c].dir => fs'[d] = fs[d]
      BY <2>1, <2>5
    <3> QED
      BY <2>1, <2>2, <2>3, <3>1, <3>2, <3>3 DEF WriteOnce, LeavesSealed, Present
  <2> QED
    BY <2>1, <2>4, <2>5 DEF WriteOnce
<1>3. /\ {"policy_server_log", "policy_state_before", "policy_state_after", "metrics",
          "run_manifest", "artifact_validation"} \subseteq Files \ {"shard_integrity"}
  BY DEF Files, Artifacts, Hashed, Streams
<1>4. CASE \/ StartServer(c) \/ RecordPolicyBefore(c) \/ RecordPolicyAfter(c)
           \/ WriteMetrics(c) \/ WriteRunManifest(c) \/ ValidateDataset(c)
  <2>1. run[c].pc \in Serving /\ run[c].pc \notin Ended
    BY <1>4, Zenon DEF StartServer, RecordPolicyBefore, RecordPolicyAfter, WriteMetrics,
                       WriteRunManifest, ValidateDataset, Serving, Ended
  <2>2. CASE StartServer(c)
    BY <1>3, <2>1, <2>2, WriteOnceLeavesSealed DEF StartServer
  <2>3. CASE RecordPolicyBefore(c)
    <3>1. PICK w \in Weights :
            WriteOnce(c, "policy_state_before", [run[c] EXCEPT !.pc = "opening", !.weights = w])
      BY <2>3, Zenon DEF RecordPolicyBefore
    <3> QED
      BY <1>3, <2>1, <3>1, WriteOnceLeavesSealed
  <2>4. CASE RecordPolicyAfter(c)
    <3>1. CASE WriteOnce(c, "policy_state_after", [run[c] EXCEPT !.pc = "measured"])
      BY <1>3, <2>1, <3>1, WriteOnceLeavesSealed
    <3>2. CASE Go(c, "failed") /\ UNCHANGED <<fs, seal>>
      BY <2>1, <3>2, GoRecord DEF LeavesSealed
    <3> QED
      BY <2>4, <3>1, <3>2 DEF RecordPolicyAfter
  <2>5. CASE WriteMetrics(c)
    BY <1>3, <2>1, <2>5, WriteOnceLeavesSealed DEF WriteMetrics
  <2>6. CASE WriteRunManifest(c)
    BY <1>3, <2>1, <2>6, WriteOnceLeavesSealed DEF WriteRunManifest
  <2>7. CASE ValidateDataset(c)
    <3> DEFINE next == IF DatasetErrors(c)
                       THEN [run[c] EXCEPT !.pc = "failed", !.valid = "failed"]
                       ELSE [run[c] EXCEPT !.pc = "sealing", !.valid = "passed"]
    <3>1. WriteOnce(c, "artifact_validation", next)
      BY <2>7 DEF ValidateDataset
    <3> HIDE DEF next
    <3> QED
      BY <1>3, <2>1, <3>1, WriteOnceLeavesSealed
  <2> QED
    BY <1>4, <2>2, <2>3, <2>4, <2>5, <2>6, <2>7
<1>5. CASE OpenStreams(c)
  <2>0. PICK o \in Openings : run[c].pc = o[1] /\ OpenStream(c, o[2], o[3])
    BY <1>5 DEF OpenStreams
  <2>1. /\ run[c].pc \in Serving /\ run[c].pc \notin Ended /\ seal' = seal
        /\ o[2] \in Files /\ o[2] # "shard_integrity"
    BY <2>0, FilesAreNamed DEF Openings, OpenStream, Serving, Ended, Streams
  <2>2. run[c].dir \in Dir /\ fs[run[c].dir] \in [Files -> FileStates]
        /\ fs \in [Dir -> [Files -> FileStates]]
    BY <2>1, OwnDirectory DEF TypeInv, TypeOK
  <2>3. CASE Go(c, "failed") /\ fs' = [fs EXCEPT ![run[c].dir] = Closed(c, "whole")]
    <3>1. Closed(c, "whole")["shard_integrity"] = fs[run[c].dir]["shard_integrity"]
      BY <2>2, ClosedKeepsSeal
    <3> QED
      BY <2>1, <2>3, <3>1, GoRecord, ServingLeavesSealed
  <2>4. CASE Go(c, o[3]) /\ fs' = [fs EXCEPT ![run[c].dir][o[2]] = Made(c, "open")]
    <3> DEFINE files == [fs[run[c].dir] EXCEPT ![o[2]] = Made(c, "open")]
    <3>1. fs' = [fs EXCEPT ![run[c].dir] = files]
      BY <2>2, <2>4
    <3>2. files["shard_integrity"] = fs[run[c].dir]["shard_integrity"]
      BY <2>1, <2>2, SealIsNamed
    <3> HIDE DEF files
    <3> QED
      BY <2>1, <2>4, <3>1, <3>2, GoRecord, ServingLeavesSealed
  <2> QED
    BY <2>0, <2>3, <2>4 DEF OpenStream
<1>6. CASE AuditEpisode(c) \/ WriteEpisode(c) \/ IndexEpisode(c) \/ SummariseEpisode(c)
  <2>1. run[c].pc \in Serving /\ run[c].pc \notin Ended
    BY <1>6 DEF AuditEpisode, WriteEpisode, IndexEpisode, SummariseEpisode, Serving, Ended
  <2>2. /\ {"audit_stream"} \in SUBSET Streams /\ {"monitor_inputs", "offline_labels"} \in SUBSET Streams
        /\ {"dataset_index"} \in SUBSET Streams /\ {"episodes"} \in SUBSET Streams
    BY FilesAreNamed
  <2>3. CASE AuditEpisode(c)
    <3>1. \E e : Record(c, {"audit_stream"}, {e}, "audited")
      BY <2>3 DEF AuditEpisode
    <3> QED
      BY <2>1, <2>2, <3>1, RecordLeavesSealed
  <2>4. CASE WriteEpisode(c)
    BY <2>1, <2>2, <2>4, RecordLeavesSealed DEF WriteEpisode
  <2>5. CASE IndexEpisode(c)
    BY <2>1, <2>2, <2>5, RecordLeavesSealed DEF IndexEpisode
  <2>6. CASE SummariseEpisode(c)
    BY <2>1, <2>2, <2>6, RecordLeavesSealed DEF SummariseEpisode
  <2> QED
    BY <1>6, <2>3, <2>4, <2>5, <2>6
<1>7. CASE CloseStreams(c) \/ Fail(c)
  <2>1. /\ run[c].pc \in Serving /\ run[c].pc \notin Ended
        /\ fs' = [fs EXCEPT ![run[c].dir] = Closed(c, "whole")] /\ seal' = seal
        /\ Go(c, "closed") \/ Go(c, "failed")
    BY <1>7 DEF CloseStreams, Fail, Serving, Ended
  <2>2. Closed(c, "whole")["shard_integrity"] = fs[run[c].dir]["shard_integrity"]
    BY <2>1, OwnDirectory, ClosedKeepsSeal
  <2> QED
    BY <2>1, <2>2, GoRecord, ServingLeavesSealed
<1>8. CASE Seal(c)
  <2>1. run[c].pc \notin Ended /\ (Go(c, "failed") \/ Go(c, "done"))
    BY <1>8 DEF Seal, Ended
  <2> QED
    BY <1>8, <2>1, GoRecord, SealLeavesSealed
<1>9. CASE Crash(c)
  <2>1. run[c].pc \notin Ended /\ Go(c, "crashed")
    BY <1>9 DEF Crash, Running, Serving, Ended
  <2> QED
    BY <1>9, <2>1, GoRecord, CrashLeavesSealed
<1> QED
  BY <1>1, <1>2, <1>4, <1>5, <1>6, <1>7, <1>8, <1>9 DEF Collect

\* Damage changes what a file holds, not whether it is there or whose it is.
LEMMA DamageLeavesSealed ==
  ASSUME TypeInv, NEW d \in Dir, NEW n \in Fragile,
         NEW form \in {"empty", "torn", "altered"}, Damage(d, n, form)
  PROVE  /\ run' = run /\ seal' = seal
         /\ \A e \in Dir : e # d => fs'[e] = fs[e]
         /\ \A e \in Dir, m \in Files : fs'[e][m].by = fs[e][m].by
         /\ \A e \in Dir, m \in Files : Present(e, m)' <=> Present(e, m)
<1>1. fs \in [Dir -> [Files -> FileStates]] /\ n \in Files
  BY FilesAreNamed DEF TypeInv, TypeOK
<1>2. /\ run' = run /\ seal' = seal /\ fs[d][n].form = "whole"
      /\ fs' = [fs EXCEPT ![d][n].form = form]
  BY DEF Damage
<1>3. fs'[d][n].by = fs[d][n].by /\ fs'[d][n].form = form
  <2>1. fs[d][n] \in FileStates /\ fs'[d][n] = [fs[d][n] EXCEPT !.form = form]
    BY <1>1, <1>2
  <2> QED
    BY <2>1 DEF FileStates
<1>4. \A e \in Dir, m \in Files : e # d \/ m # n => fs'[e][m] = fs[e][m]
  BY <1>1, <1>2
<1>5. \A e \in Dir : e # d => fs'[e] = fs[e]
  BY <1>1, <1>2
<1> QED
  BY <1>2, <1>3, <1>4, <1>5 DEF Present

LEMMA SealedByEndedHolds == Spec => []SealedByEnded
<1>1. Init => SealedByEnded
  BY SealIsNamed DEF Init, SealedByEnded, Present, Absent
<1>2. TypeInv /\ Ownership /\ SealInv /\ SealedByEnded /\ [Next]_vars => SealedByEnded'
  <2> SUFFICES ASSUME TypeInv, Ownership, SealInv, SealedByEnded, [Next]_vars,
                      NEW d \in Dir, Present(d, "shard_integrity")'
               PROVE  \E b \in Collector : fs'[d]["shard_integrity"].by = b /\ run'[b].pc \in Ended
    BY DEF SealedByEnded
  <2>1. CASE \E c \in Collector : Collect(c)
    <3>1. PICK c \in Collector : Collect(c)
      BY <2>1
    <3>2. /\ run[c].pc \notin Ended /\ \A b \in Collector : b # c => run'[b] = run[b]
          /\ LeavesSealed(c, d)
      BY <3>1, CollectLeavesSealed
    <3>3. CASE fs'[d] = fs[d]
      <4>1. PICK b \in Collector : fs[d]["shard_integrity"].by = b /\ run[b].pc \in Ended
        BY <3>3 DEF SealedByEnded, Present
      <4> QED
        BY <3>2, <3>3, <4>1
    <3>4. CASE fs'[d]["shard_integrity"].by = c /\ run'[c].pc \in Ended
      BY <3>4
    <3> QED
      BY <3>2, <3>3, <3>4 DEF LeavesSealed, Present
  <2>2. CASE Edit \/ Advance \/ UNCHANGED vars
    BY <2>2 DEF Edit, Advance, vars, SealedByEnded, Present
  <2>3. CASE \E e \in Dir, n \in Fragile, form \in {"empty", "torn", "altered"} :
               Damage(e, n, form)
    <3>0. PICK e \in Dir, n \in Fragile, form \in {"empty", "torn", "altered"} : Damage(e, n, form)
      BY <2>3
    <3>1. run' = run /\ \A m \in Files : fs'[d][m].by = fs[d][m].by
      BY <3>0, DamageLeavesSealed
    <3>2. \A m \in Files : fs'[d][m].form # "absent" => fs[d][m].form # "absent"
      BY <3>0, DamageLeavesSealed DEF Present
    <3>3. fs[d]["shard_integrity"].form # "absent"
      BY <3>2, SealIsNamed DEF Present
    <3> QED
      BY <3>1, <3>3, SealIsNamed DEF SealedByEnded, Present
  <2> QED
    BY <2>1, <2>2, <2>3 DEF Next
<1> QED
  BY <1>1, <1>2, TypeInvHolds, OwnershipHolds, SealInvHolds, PTL DEF Spec

\* Once the seal of a directory is begun, no process writes there again: a second
\* collector with that directory, the exception path of one that lost it and a kill
\* leave every file and the checksums alone.  Only damage from outside is left, which
\* the gate has to find.  (the modes "x" of collect_monitor_dataset.py)
THEOREM SealedShardsAreFinal ==
  Spec => [][\A d \in Dir : Present(d, "shard_integrity") =>
               /\ seal'[d] = seal[d]
               /\ fs'[d] # fs[d] => \E n \in Fragile, form \in {"empty", "torn", "altered"} :
                                      Damage(d, n, form)]_vars
<1> DEFINE Final == \A d \in Dir : Present(d, "shard_integrity") =>
               /\ seal'[d] = seal[d]
               /\ fs'[d] # fs[d] => \E n \in Fragile, form \in {"empty", "torn", "altered"} :
                                      Damage(d, n, form)
<1>1. TypeInv /\ Ownership /\ SealInv /\ SealedByEnded /\ [Next]_vars => [Final]_vars
  <2> SUFFICES ASSUME TypeInv, Ownership, SealInv, SealedByEnded, Next,
                      NEW d \in Dir, Present(d, "shard_integrity")
               PROVE  /\ seal'[d] = seal[d]
                      /\ fs'[d] # fs[d] => \E n \in Fragile, form \in {"empty", "torn", "altered"} :
                                             Damage(d, n, form)
    OBVIOUS
  <2>1. CASE \E c \in Collector : Collect(c)
    BY <2>1, CollectLeavesSealed DEF LeavesSealed
  <2>2. CASE Edit \/ Advance
    BY <2>2 DEF Edit, Advance
  <2>3. CASE \E e \in Dir, n \in Fragile, form \in {"empty", "torn", "altered"} :
               Damage(e, n, form)
    BY <2>3, DamageLeavesSealed
  <2> QED
    BY <2>1, <2>2, <2>3 DEF Next
<1> QED
  BY <1>1, TypeInvHolds, OwnershipHolds, SealInvHolds, SealedByEndedHolds, PTL DEF Spec
=============================================================================
