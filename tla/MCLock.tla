------------------------------- MODULE MCLock -------------------------------
EXTENDS ProbeLock, TLC

SplitsOf(calibration, validation) ==
  [pilot |-> "500-511", train |-> "600-699", calibration |-> calibration,
   validation |-> validation, final_test |-> "900-929"]
With(d, fields) == [f \in DOMAIN d \cup DOMAIN fields |-> IF f \in DOMAIN fields THEN fields[f] ELSE d[f]]
At(path, hash) == [path |-> path, hash |-> hash]

V10 == [research |-> "1.4", body |-> "frozen", splits |-> SplitsOf("700-749", "800-849")]
V10Drifted == [V10 EXCEPT !.body = "drifted"]
\* The settings of v1.0 with other pilot, training and final test seeds.
OtherSplits(d) == [d EXCEPT !.splits.pilot = "512-523", !.splits.train = "300-399",
                            !.splits.final_test = "930-959"]

V12 == With(V10, [version |-> "1.2", parent |-> At("v1.0", "v1.0"), reason |-> "budget",
                  decisions |-> "1.2", splits |-> SplitsOf("1000-1049", "1100-1149")])
V12Reparented == [V12 EXCEPT !.body = "drifted", !.parent = At("v1.0", "v1.0 drifted")]

V13 == With(V12, [version |-> "1.3", decisions |-> "1.3", retraining |-> "1.3",
                  splits |-> SplitsOf("1000-1049", "1150-1199"), supersedes |-> At("v1.2", "v1.2"),
                  sources |-> [train |-> At("v1.0", "v1.0"), calibration |-> At("v1.2", "v1.2"),
                               validation |-> [path |-> "self"]]])
V13Reparented == [V13 EXCEPT !.body = "drifted", !.parent = At("v1.0", "v1.0 drifted")]
V13Own == [OtherSplits(V13) EXCEPT !.parent = At("own", "v1.0 resplit")]

V14 == With(V13, [version |-> "1.4", decisions |-> "1.4", retraining |-> "1.4", fresh |-> "1.4",
                  splits |-> SplitsOf("1200-1249", "1250-1299"),
                  parent |-> At("v1.3", "v1.3"), supersedes |-> At("v1.3", "v1.3"),
                  sources |-> [train |-> At("v1.3", "v1.3"), calibration |-> [path |-> "self"],
                               validation |-> [path |-> "self"]]])
V14Reworded == [V14 EXCEPT !.reason = "other words"]
V14OldSeeds == [V14 EXCEPT !.splits = SplitsOf("1000-1049", "1100-1149")]
V14Drifted == [V14 EXCEPT !.body = "drifted"]

MCDocument ==
  [c \in {"v1.0", "v1.0 drifted", "v1.0 resplit", "v1.2", "v1.2 reparented",
          "v1.3", "v1.3 reparented", "v1.3 own",
          "v1.4", "v1.4 reworded", "v1.4 old seeds", "v1.4 drifted"} |->
     CASE c = "v1.0" -> V10 [] c = "v1.0 drifted" -> V10Drifted
       [] c = "v1.0 resplit" -> OtherSplits(V10)
       [] c = "v1.2" -> V12 [] c = "v1.2 reparented" -> V12Reparented
       [] c = "v1.3" -> V13 [] c = "v1.3 reparented" -> V13Reparented
       [] c = "v1.3 own" -> V13Own
       [] c = "v1.4" -> V14 [] c = "v1.4 reworded" -> V14Reworded
       [] c = "v1.4 old seeds" -> V14OldSeeds [] c = "v1.4 drifted" -> V14Drifted]
MCApproved == [p \in {"v1.0", "v1.2", "v1.3"} |-> p]

MCProbeDocument ==
  [c \in {"probe", "other rate", "older"} |->
     [version |-> "1.1", eligibility |-> "frozen",
      research |-> IF c = "older" THEN "1.3" ELSE "1.4",
      settings |-> IF c = "other rate" THEN "drifted" ELSE "frozen"]]
MCCheckpoints == {"m1", "m2"}
MCRiskThreshold == [m \in MCCheckpoints |-> IF m = "m1" THEN 3 ELSE 5]
MCMetrics ==
  [c \in {"m1 passed", "m2 passed", "m2 failed"} |->
     [passed |-> c # "m2 failed", model |-> IF c = "m1 passed" THEN "m1" ELSE "m2"]]
MCReplacements ==
  [p \in {"v1.0", "own", "v1.2", "v1.3", "v1.4", "probe", "monitor", "metrics"} |->
     CASE p = "v1.0" -> {"v1.0", "v1.0 drifted"}
       [] p = "own" -> {"v1.0 resplit"}
       [] p = "v1.2" -> {"v1.2", "v1.2 reparented", "v1.4"}
       [] p = "v1.3" -> {"v1.3", "v1.3 reparented", "v1.3 own"}
       [] p = "v1.4" -> {"v1.4", "v1.4 reworded", "v1.4 old seeds", "v1.4 drifted", "v1.2"}
       [] p = "probe" -> DOMAIN MCProbeDocument
       [] p = "monitor" -> MCCheckpoints
       [] p = "metrics" -> DOMAIN MCMetrics]

MCBlocks == {"700-749", "800-849", "1000-1049", "1100-1149", "1150-1199", "1200-1249", "1250-1299"}
Episode(risk, entropy) == [risk |-> risk, entropy |-> entropy]

\* Four clean episodes of every kind, in any order that sorts them.
Kinds == [risk : 1..2, entropy : 0..2]
Key(e) == 3 * e.risk + e.entropy
FourEpisodes == {s \in [1..4 -> Kinds] : \A i \in 1..3 : Key(s[i]) <= Key(s[i + 1])}
Quiet == [i \in 1..4 |-> Episode(0, 0)]

\* Every block has a least threshold of its own under each checkpoint; holdouts
\* are quiet but for that of v1.2 under m2.
Level(m, b) ==
  (IF m = "m1" THEN 0 ELSE 1) +
  CASE b = "1000-1049" -> 2 [] b = "1200-1249" -> 4 [] b = "700-749" -> 6 [] OTHER -> 0
Plain(m, b) ==
  [i \in 1..4 |->
     IF m = "m2" /\ b = "1100-1149" /\ i < 4 THEN Episode(2, 9)
     ELSE Episode(IF m = "m2" /\ i = 1 THEN 2 ELSE 1 - (i % 2), Level(m, b) + i)]
PlainScore == [m \in MCCheckpoints |-> [b \in MCBlocks |->
                IF b \in {"800-849", "1100-1149", "1150-1199", "1250-1299"} /\ ~(m = "m2" /\ b = "1100-1149")
                THEN Quiet ELSE Plain(m, b)]]

Frozen == [p \in DOMAIN MCReplacements |->
             CASE p = "monitor" -> "m1" [] p = "metrics" -> "m1 passed"
               [] p = "own" -> "v1.0 resplit" [] OTHER -> p]
Drifted == [Frozen EXCEPT !["v1.0"] = "v1.0 drifted", !["v1.2"] = "v1.2 reparented",
                          !["v1.3"] = "v1.3 reparented", !["v1.4"] = "v1.4 drifted"]
Half == [Drifted EXCEPT !["v1.2"] = "v1.2"]
Retrained == [Frozen EXCEPT !["metrics"] = "m2 passed"]
OldSeeds == [Frozen EXCEPT !["v1.4"] = "v1.4 old seeds"]
OwnParent == [Frozen EXCEPT !["v1.3"] = "v1.3 own"]

CONSTANTS l1, l2, r1, Edits
Arg(path, output) == [protocol |-> path, output |-> output]

\* One locker and every four episodes; and two lockers with one output, a run
\* that is given it, and files that are replaced.
MCScenarios ==
  {[file |-> Frozen, edits |-> 0, args |-> l1 :> Arg("v1.2", "d"),
    score |-> [PlainScore EXCEPT !["m1"] =
                 [@ EXCEPT !["1000-1049"] = c, !["1100-1149"] = v]]] :
     c \in FourEpisodes, v \in {s \in FourEpisodes : s[1].risk = 1 /\ s[2].entropy = 0}}
  \cup
  {[file |-> f, edits |-> Edits, score |-> PlainScore,
    args |-> l1 :> Arg(a[1], "d") @@ l2 :> Arg(a[2], "d") @@ r1 :> Arg(a[1], "d")] :
     f \in {Frozen, Drifted, Half, Retrained, OldSeeds, OwnParent},
     a \in {<<"v1.2", "v1.0">>, <<"v1.2", "v1.4">>, <<"v1.3", "v1.2">>, <<"v1.4", "v1.2">>}}

\* One locker and one run: a v1.3 with a parent of its own, and v1.4 with files that
\* are replaced.
Alone(path) == l1 :> Arg(path, "d") @@ r1 :> Arg(path, "d")
OwnParentScenarios ==
  {[file |-> OwnParent, edits |-> 0, score |-> PlainScore, args |-> Alone("v1.3")]}
SwapScenarios ==
  {[file |-> Frozen, edits |-> Edits, score |-> PlainScore, args |-> Alone("v1.4")]}
SeedScenarios == OwnParentScenarios \cup SwapScenarios
=============================================================================
