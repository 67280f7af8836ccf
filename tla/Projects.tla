------------------------------ MODULE Projects ------------------------------
(***************************************************************************)
(* Projects, their folders and their env files: services/projects.ts,      *)
(* services/project-env.ts, services/paths.ts and routes/projects.ts.      *)
(*                                                                         *)
(* A project is a row that names a folder; the folder is made by the first *)
(* thing that writes to it and removed when the project is deleted, after  *)
(* its row.  Requests overlap: no unique index backs the folder check, and *)
(* only deletes of one project wait for each other.  Database and file     *)
(* calls succeed; a folder is the env file in it.                          *)
(***************************************************************************)
EXTENDS Naturals, FiniteSets

CONSTANTS MaxProject,   \* bound: projects created
          Folder,       \* folder names
          Content,      \* what an env file may say
          Requester     \* requests at a time

ASSUME ProjectsAssumption == MaxProject \in Nat /\ {"absent", "empty"} \cap Content = {}

VARIABLES
  projects,  \* the rows, by id
  disk,      \* projectsRoot: for each folder, "absent", "empty" or its env file
  requests,  \* the request each requester has made, and how far it is
  savedEnv,  \* the last env saved for a project since it was given its folder
  clashed    \* whether a request took a folder another was at work on, or moved a project whose env was being written

projectsVars == <<projects, disk, requests, savedEnv, clashed>>

NoProject == [st |-> "unused", folder |-> "none"]
NoRequest == [at |-> "idle", kind |-> "none", project |-> 0, folder |-> "none", content |-> "none"]

ProjectsInit ==
  /\ projects = [p \in 1..MaxProject |-> NoProject]
  /\ disk = [f \in Folder |-> "absent"]
  /\ requests = [c \in Requester |-> NoRequest]
  /\ savedEnv = [p \in 1..MaxProject |-> "none"]
  /\ clashed = FALSE

Live == {p \in 1..MaxProject : projects[p].st = "live"}
NextProject == {p \in 1..MaxProject : projects[p].st = "unused" /\ \A q \in 1..(p - 1) : projects[q].st # "unused"}

(* The select for a project of that folder, other than p *)
FolderFree_Unchecked(f, p) == TRUE
FolderFree(f, p) == \A q \in Live \ {p} : projects[q].folder # f

Writes == {"env", "deploy"}
Goes(c, r) == requests' = [requests EXCEPT ![c] = r]
Arrives(c, r) == Goes(c, r) /\ UNCHANGED clashed
At(c, step) == requests[c].at = step
Ends(c) == Arrives(c, NoRequest)

(* The races no check sees.  A folder is found free for p while a request for another project  *)
(* has found it free as well, or is about to write its env there or to remove it; and the row  *)
(* of p is given another folder while an env of p is on its way to the old one.                *)
Holding(d) == requests[d].at \notin {"idle", "conflict"} /\ requests[d].kind # "deploy"
Held(f, p) == \E d \in Requester : Holding(d) /\ requests[d].folder = f /\ (p = 0 \/ requests[d].project # p)
MovedUnder(p, f) ==
  projects[p].folder # f /\ \E d \in Requester : requests[d].kind = "env" /\ requests[d].project = p
TakesFolder(f, p) == clashed' = (clashed \/ Held(f, p))
-----------------------------------------------------------------------------
(* createProject: the conflict is looked for, ports are probed, the row is inserted. *)
CreateProject(c) ==
  /\ At(c, "idle")
  /\ \E f \in Folder :
       /\ FolderFree(f, 0) /\ TakesFolder(f, 0)
       /\ Goes(c, [NoRequest EXCEPT !.at = "insert", !.kind = "create", !.folder = f])
  /\ UNCHANGED <<projects, disk, savedEnv>>

InsertProject(c) ==
  /\ At(c, "insert")
  /\ \E p \in NextProject : projects' = [projects EXCEPT ![p] = [st |-> "live", folder |-> requests[c].folder]]
  /\ Ends(c)
  /\ UNCHANGED <<disk, savedEnv>>

(* updateProject with a folder name: the row is read, the conflict looked for, the row updated *)
(* if it is still there.  What is in the old folder stays there.                               *)
UpdateProject(c) ==
  /\ At(c, "idle")
  /\ \E p \in Live, f \in Folder :
       Arrives(c, [NoRequest EXCEPT !.at = "conflict", !.kind = "update", !.project = p, !.folder = f])
  /\ UNCHANGED <<projects, disk, savedEnv>>

CheckConflict(c) ==
  /\ At(c, "conflict")
  /\ IF FolderFree(requests[c].folder, requests[c].project)
     THEN Goes(c, [requests[c] EXCEPT !.at = "update"]) /\ TakesFolder(requests[c].folder, requests[c].project)
     ELSE Ends(c)
  /\ UNCHANGED <<projects, disk, savedEnv>>

UpdateRow(c) ==
  /\ At(c, "update")
  /\ LET p == requests[c].project
         f == requests[c].folder
     IN  IF p \in Live
         THEN /\ projects' = [projects EXCEPT ![p].folder = f]
              /\ savedEnv' = [savedEnv EXCEPT ![p] = IF projects[p].folder = f THEN @ ELSE "none"]
              /\ clashed' = (clashed \/ MovedUnder(p, f))
         ELSE UNCHANGED <<projects, savedEnv, clashed>>
  /\ Goes(c, NoRequest)
  /\ UNCHANGED disk

(* deleteProject: under the project's lock the row is read and, its tasks' worktrees gone, deleted; *)
(* the folder that was read is removed when the lock is released.                                   *)
Locked(p) == \E d \in Requester : At(d, "delete") /\ requests[d].project = p
DeleteProject(c) ==
  /\ At(c, "idle")
  /\ \E p \in Live : /\ ~Locked(p)
                     /\ Arrives(c, [NoRequest EXCEPT !.at = "delete", !.kind = "delete", !.project = p,
                                                     !.folder = projects[p].folder])
  /\ UNCHANGED <<projects, disk, savedEnv>>

DeleteRow(c) ==
  /\ At(c, "delete")
  /\ projects' = [projects EXCEPT ![requests[c].project] = [@ EXCEPT !.st = "gone"]]
  /\ Goes(c, [requests[c] EXCEPT !.at = "remove"])
  /\ UNCHANGED <<disk, savedEnv, clashed>>

RemoveFolder(c) ==
  /\ At(c, "remove")
  /\ disk' = [disk EXCEPT ![requests[c].folder] = "absent"]
  /\ Ends(c)
  /\ UNCHANGED <<projects, savedEnv>>
-----------------------------------------------------------------------------
(* writeProjectEnv, after getProject; a deployment makes the folder and leaves the env alone. *)
WriteProject(c) ==
  /\ At(c, "idle")
  /\ \E p \in Live, k \in Writes, v \in Content :
       Arrives(c, [at |-> "mkdir", kind |-> k, project |-> p, folder |-> projects[p].folder, content |-> v])
  /\ UNCHANGED <<projects, disk, savedEnv>>

MakeFolder(c) ==
  /\ At(c, "mkdir")
  /\ disk' = [disk EXCEPT ![requests[c].folder] = IF @ = "absent" THEN "empty" ELSE @]
  /\ IF requests[c].kind = "env" THEN Goes(c, [requests[c] EXCEPT !.at = "file"]) /\ UNCHANGED clashed ELSE Ends(c)
  /\ UNCHANGED <<projects, savedEnv>>

WriteEnv(c) ==
  /\ At(c, "file")
  /\ LET r == requests[c] IN
     IF disk[r.folder] = "absent"
     THEN UNCHANGED <<disk, savedEnv>>
     ELSE disk' = [disk EXCEPT ![r.folder] = r.content] /\ savedEnv' = [savedEnv EXCEPT ![r.project] = r.content]
  /\ Ends(c)
  /\ UNCHANGED projects
-----------------------------------------------------------------------------
ProjectsNext ==
  \E c \in Requester :
    \/ CreateProject(c) \/ InsertProject(c) \/ UpdateProject(c) \/ CheckConflict(c) \/ UpdateRow(c)
    \/ DeleteProject(c) \/ DeleteRow(c) \/ RemoveFolder(c) \/ WriteProject(c) \/ MakeFolder(c) \/ WriteEnv(c)

ProjectsSpec == ProjectsInit /\ [][ProjectsNext]_projectsVars
-----------------------------------------------------------------------------
ProjectRow == [st : {"unused", "live", "gone"}, folder : Folder \cup {"none"}]
ProjectRequest ==
  [at : {"idle", "insert", "conflict", "update", "delete", "remove", "mkdir", "file"},
   kind : Writes \cup {"none", "create", "update", "delete"}, project : 0..MaxProject,
   folder : Folder \cup {"none"}, content : Content \cup {"none"}]

ProjectsTypeOK ==
  /\ projects \in [1..MaxProject -> ProjectRow]
  /\ disk \in [Folder -> Content \cup {"absent", "empty"}]
  /\ requests \in [Requester -> ProjectRequest]
  /\ savedEnv \in [1..MaxProject -> Content \cup {"none"}]
  /\ clashed \in BOOLEAN

(* Projects never share a folder, and the env last saved for a project is the one in its folder, *)
(* however creations, moves, deletions, deployments and saves overlap, but for two races: a     *)
(* folder found free while a request for another project was at work on it, and a project moved *)
(* under the save of its env (projects.ts:92-93, 164-175, 182-196; project-env.ts:95-101).      *)
FoldersAreKept ==
  clashed \/ \A p \in Live :
               /\ \A q \in Live \ {p} : projects[q].folder # projects[p].folder
               /\ savedEnv[p] # "none" => disk[projects[p].folder] = savedEnv[p]
=============================================================================
