---------------------------- MODULE TaskWorktree ----------------------------
(***************************************************************************)
(* What src/server/services/agent-worktrees.ts does to the git worktree    *)
(* and the branch of one agent task.  The functions of that file are pure  *)
(* git: each is an operator from the worktree it finds to the one it       *)
(* leaves, with the condition under which git or the code refuses.         *)
(*                                                                         *)
(*   tree    the checkout: absent, clean, or with uncommitted changes      *)
(*   local   refs/heads/<taskBranch> exists in the project's repository    *)
(*   ahead   the local branch has commits that origin does not have        *)
(*   remote  refs/remotes/origin/<taskBranch> exists after the fetch       *)
(*   away    checkout and repository lie in the folder that the project    *)
(*           had before it was renamed                                     *)
(*                                                                         *)
(* The mode of a task is what it asked for: a new branch ("fresh"), an     *)
(* existing one (resumeExistingBranch, "resume"), or to work on its source *)
(* branch itself (sourceBranch = taskBranch, "source").                    *)
(***************************************************************************)

Worktree == [tree : {"none", "clean", "dirty"}, local : BOOLEAN, ahead : BOOLEAN,
             remote : BOOLEAN, away : BOOLEAN]

Modes == {"fresh", "resume", "source"}

(* A branch that only local history explains is accepted if the task made  *)
(* it (sourceSha is set) or if it can be fast-forwarded to origin.         *)
OwnsBranch(w, sha, mode) == sha \/ (mode = "resume" /\ w.remote /\ ~w.ahead)

(* prepareTaskWorktree gets past its own refusals. *)
CanPrepare(w, sha, mode) ==
  \/ w.tree # "none"
  \/ mode = "source" /\ (w.local \/ w.remote)
  \/ mode # "source" /\ w.local /\ OwnsBranch(w, sha, mode)
  \/ mode # "source" /\ ~w.local /\ (w.remote => mode = "resume")

(* git worktree add: an existing checkout is taken as it is. *)
Prepared(w) == IF w.tree = "none" THEN [w EXCEPT !.tree = "clean", !.local = TRUE] ELSE w

(* merge --ff-only runs after worktree add, and may fail after it. *)
MergesAfterAdd(w) == w.tree = "none" /\ w.local /\ w.remote

Edited(w) == [w EXCEPT !.tree = "dirty"]

(* git add and git commit; with selected paths some changes may stay. *)
Committed(w) == [w EXCEPT !.tree = "clean", !.ahead = TRUE]
CommittedInPart(w) == [w EXCEPT !.ahead = TRUE]

Pushed(w) == [w EXCEPT !.remote = TRUE, !.ahead = FALSE]

Removable_Always(w, force) == TRUE

(* git worktree remove refuses changes unless it is forced. *)
Removable(w, force) == w.tree = "dirty" => force
Removed(w) == [w EXCEPT !.tree = "none"]

(* ensureAgentRepository clones where the project's folder is not there. *)
Cloned(w) == [w EXCEPT !.tree = "none", !.local = FALSE, !.ahead = FALSE, !.away = FALSE]

(* The folder of a project is removed, its repository with it, and the     *)
(* folder of its checkouts if that is empty.                               *)
Swept(w) == [w EXCEPT !.local = FALSE, !.ahead = FALSE]
=============================================================================
