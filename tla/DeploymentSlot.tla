--------------------------- MODULE DeploymentSlot ---------------------------
(***************************************************************************)
(* What startDeployment and finishDeployment promise a project, without    *)
(* transactions, caches, workers or restarts: the project is a slot for    *)
(* one deployment at a time, and a deployment that left its slot never     *)
(* comes back.  (Deployments shows that the code implements it.)           *)
(***************************************************************************)
CONSTANTS Project, Dep, NoDep

VARIABLES slot,     \* the deployment in progress of each project, or NoDep
          spent     \* every deployment that was ever started

Init == slot = [p \in Project |-> NoDep] /\ spent = {}

Open(p, d) == /\ slot[p] = NoDep
              /\ d \notin spent
              /\ slot' = [slot EXCEPT ![p] = d]
              /\ spent' = spent \cup {d}

(* A restart closes every slot at once. *)
Close(S) == /\ slot' = [p \in Project |-> IF p \in S THEN NoDep ELSE slot[p]]
            /\ UNCHANGED spent

Next == \/ \E S \in SUBSET Project : Close(S)
        \/ \E p \in Project, d \in Dep : Open(p, d)

Spec == Init /\ [][Next]_<<slot, spent>>
=============================================================================
