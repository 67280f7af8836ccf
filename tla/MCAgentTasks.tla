---------------------------- MODULE MCAgentTasks ----------------------------
(* Small instances of AgentTasks: j1 is a project with task t1 and, where  *)
(* there are two tasks, t2.                                                *)
EXTENDS AgentTasks, TLC

CONSTANTS t1, t2, j1, o1, o2, r1, r2

Nobody == {}
OneTask == {t1}
TwoTasks == {t1, t2}
OneProject == {j1}
OneOp == {o1}
TwoOps == {o1, o2}
TwoRuns == {r1, r2}
InProject == [t \in Task |-> j1]

Fresh == [t \in Task |-> "fresh"]
(* t1 resumes a branch, t2 works on its source branch itself. *)
Mixed == [t \in Task |-> IF t = t1 THEN "resume" ELSE "source"]

(* A new branch; a branch that exists on origin only. *)
NoBranch == [tree |-> "none", local |-> FALSE, ahead |-> FALSE, remote |-> FALSE, away |-> FALSE]
OnOrigin == [NoBranch EXCEPT !.remote = TRUE]
NewBranch == {NoBranch}
OnOriginOnly == {OnOrigin}

AllKinds == TaskKinds \cup {"deleteProject"}
SettingsKinds == {"start", "update", "archive", "unarchive", "push"}
OwnershipKinds == {"start", "deleteProject"}
LiveKinds == {"start", "push"}
StartAndClean == {"start", "cleanup"}

NoAuto == {0}
UpToPush == {2}
NoneOrFull == {0, 3}

Symmetry == Permutations(Op) \cup Permutations(Run)
=============================================================================
