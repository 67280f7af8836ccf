------------------------------ MODULE RunLease ------------------------------
(***************************************************************************)
(* What task execution promises, without requests, locks or processes: a   *)
(* run is a lease of a task.  A task has at most one, at most MaxActive    *)
(* are out at a time, and a lease that was returned is never granted       *)
(* again.  (src/server/services/agent-tasks.ts implements it with a row    *)
(* lock, a unique index and a map in memory: see AgentTasks.)              *)
(***************************************************************************)
EXTENDS Naturals, FiniteSets

CONSTANTS Task, Run, MaxActive, NoRun

VARIABLES owner,    \* the run that owns each task, or NoRun
          spent     \* every run that was ever granted

Leased == {t \in Task : owner[t] # NoRun}

Init == owner = [t \in Task |-> NoRun] /\ spent = {}

Grant(t, r) == /\ owner[t] = NoRun
               /\ Cardinality(Leased) < MaxActive
               /\ r \notin spent
               /\ owner' = [owner EXCEPT ![t] = r]
               /\ spent' = spent \cup {r}

Return(t) == /\ owner[t] # NoRun
             /\ owner' = [owner EXCEPT ![t] = NoRun]
             /\ UNCHANGED spent

Next == \E t \in Task : Return(t) \/ \E r \in Run : Grant(t, r)

Spec == Init /\ [][Next]_<<owner, spent>>
=============================================================================
