------------------------------ MODULE MCRunner ------------------------------
(* The runner over three small workflows: a brief that routes into a       *)
(* writing step with a figure of its own, a gate a decider may answer      *)
(* before a judge whose approval ends the run, and a writing step that     *)
(* waits on CI and hands on.                                               *)
EXTENDS RunnerProperties

Plain == [checkpoint |-> FALSE, decidedBy |-> None, writes |-> FALSE, checks |-> FALSE,
          push |-> FALSE, ci |-> FALSE, install |-> FALSE, figure |-> 0,
          routes |-> [w \in {} |-> None], next |-> None]
Writing == [Plain EXCEPT !.writes = TRUE, !.checks = TRUE, !.push = TRUE]

Build ==
    [first |-> "brief", budget |-> 5, ceiling |-> 6,
     steps |-> [brief |-> [Plain EXCEPT !.routes = [trivial |-> "implement", full |-> "ask"]],
                implement |-> [Writing EXCEPT !.figure = 2, !.install = TRUE, !.next = "done"]]]

Gated ==
    [first |-> "decider", budget |-> 0, ceiling |-> 0,
     steps |-> [decider |-> [Plain EXCEPT !.next = "decide"],
                decide |-> [Plain EXCEPT !.checkpoint = TRUE, !.decidedBy = "decider",
                                         !.next = "judge"],
                judge |-> [Plain EXCEPT !.routes = [approve |-> "done", changes |-> "ask"]]]]

Land ==
    [first |-> "land", budget |-> 4, ceiling |-> 0,
     steps |-> [land |-> [Writing EXCEPT !.ci = TRUE, !.next = "tell"],
                tell |-> [Plain EXCEPT !.next = "done"]]]

All == {Build, Gated, Land}
BuildOnly == {Build}
=============================================================================
