----------------------------- MODULE MCServices -----------------------------
(***************************************************************************)
(* Nine services that share no state, checked in one run: Init picks the   *)
(* one that moves in a behaviour, the others stay as they started, so that *)
(* the run checks each service by itself.  No fair action of a service is  *)
(* enabled in its initial state, so a service at rest owes nothing.        *)
(*                                                                         *)
(* Keys: one project (key 1) with two tasks (keys 2 and 3); operations on  *)
(* a task take the project's key and the task's, deleteProject takes the   *)
(* project's alone.  The set without key 1 makes the tasks contended too.  *)
(***************************************************************************)
EXTENDS LifecycleLock, DeploymentOutput, AgentStream, RunnerStop, Accounts, Containers,
        Backups, ViewLoads, AiProviders

CONSTANT Parts   \* the services this run looks at

VARIABLE part

MCKey == 1..3
MCKeySets == {{1}, {1, 2}, {1, 3}, {2, 3}}

servicesVars == <<vars, outputVars, streamVars, runnerVars, accountVars, containersVars,
                  backupsVars, viewVars, aiVars, part>>

ServicesInit ==
  /\ part \in Parts
  /\ Init /\ OutputInit /\ StreamInit /\ RunnerInit /\ AccountsInit /\ ContainersInit
  /\ BackupsInit /\ ViewsInit /\ AiInit
  /\ part # "output" => remote = FALSE

ServicesNext ==
  /\ UNCHANGED part
  /\ \/ /\ part = "lock" /\ Next
        /\ UNCHANGED <<outputVars, streamVars, runnerVars, accountVars, containersVars, backupsVars, viewVars, aiVars>>
     \/ /\ part = "output" /\ OutputNext
        /\ UNCHANGED <<vars, streamVars, runnerVars, accountVars, containersVars, backupsVars, viewVars, aiVars>>
     \/ /\ part = "stream" /\ StreamNext
        /\ UNCHANGED <<vars, outputVars, runnerVars, accountVars, containersVars, backupsVars, viewVars, aiVars>>
     \/ /\ part = "runner" /\ RunnerNext
        /\ UNCHANGED <<vars, outputVars, streamVars, accountVars, containersVars, backupsVars, viewVars, aiVars>>
     \/ /\ part = "accounts" /\ AccountsNext
        /\ UNCHANGED <<vars, outputVars, streamVars, runnerVars, containersVars, backupsVars, viewVars, aiVars>>
     \/ /\ part = "containers" /\ ContainersNext
        /\ UNCHANGED <<vars, outputVars, streamVars, runnerVars, accountVars, backupsVars, viewVars, aiVars>>
     \/ /\ part = "backups" /\ BackupsNext
        /\ UNCHANGED <<vars, outputVars, streamVars, runnerVars, accountVars, containersVars, viewVars, aiVars>>
     \/ /\ part = "views" /\ ViewsNext
        /\ UNCHANGED <<vars, outputVars, streamVars, runnerVars, accountVars, containersVars, backupsVars, aiVars>>
     \/ /\ part = "providers" /\ AiNext
        /\ UNCHANGED <<vars, outputVars, streamVars, runnerVars, accountVars, containersVars, backupsVars, viewVars>>

ServicesSpec == ServicesInit /\ [][ServicesNext]_servicesVars

FairServicesSpec ==
  /\ ServicesSpec
  /\ Fairness /\ OutputFairness /\ StreamFairness /\ RunnerFairness /\ AccountsFairness /\ ContainersFairness
  /\ BackupsFairness /\ ViewsFairness

(* The types of the variables of all nine. *)
ServicesTypeOK ==
  /\ TypeOK /\ OutputTypeOK /\ StreamTypeOK /\ RunnerTypeOK /\ AccountsTypeOK /\ ContainersTypeOK
  /\ BackupsTypeOK /\ ViewsTypeOK /\ AiTypeOK
=============================================================================
