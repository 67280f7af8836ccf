--------------------------- MODULE DeployingProofs --------------------------
(***************************************************************************)
(* The safety of what a deployment rests on: projects and their folders,   *)
(* the ports of a compose file, the log of what a deployment prints, and   *)
(* FRP tunnels. Each has an invariant, which holds at first and which      *)
(* every action keeps, and the property that follows from it.              *)
(***************************************************************************)
EXTENDS Projects, ComposePorts, DeploymentOutput, Frp, FiniteSetTheorems,
        SequenceTheorems, TLAPS
-----------------------------------------------------------------------------
(* Projects *)

(* What a request is about, whoever else is at work. *)
RequestNames(c) ==
  /\ requests[c].at # "idle" => requests[c].folder \in Folder
  /\ requests[c].at \in {"mkdir", "file"} => requests[c].content \in Content
RowNames(p) == projects[p].st = "live" => projects[p].folder \in Folder

(* What a request has found out still holds as long as no race has been lost. *)
OfAProject == {"conflict", "update", "delete", "remove", "mkdir", "file"}
RequestHolds(c) ==
  /\ requests[c].at = "insert" => requests[c].kind = "create" /\ requests[c].project = 0
  /\ requests[c].at \in OfAProject => requests[c].project # 0 /\ projects[requests[c].project].st # "unused"
  /\ requests[c].at = "remove" => projects[requests[c].project].st = "gone"
  /\ requests[c].at \in {"mkdir", "file"} /\ requests[c].kind = "env" /\ requests[c].project \in Live =>
       requests[c].folder = projects[requests[c].project].folder
  /\ requests[c].at = "file" => requests[c].kind = "env"
  /\ requests[c].kind = "deploy" => requests[c].at = "mkdir"
  /\ Holding(c) => FolderFree(requests[c].folder, requests[c].project)

(* The row of a project and the folder it names. *)
RowHolds(p) ==
  /\ p \in Live => FolderFree(projects[p].folder, p)
       /\ (savedEnv[p] # "none" => disk[projects[p].folder] = savedEnv[p])
  /\ projects[p].st = "unused" => savedEnv[p] = "none"

(* Requests at work on one folder are about one project. *)
Apart(c, d) ==
  Holding(c) /\ Holding(d) /\ requests[c].folder = requests[d].folder =>
    requests[c].project = requests[d].project /\ requests[c].project # 0

Kept ==
  /\ \A c \in Requester : RequestHolds(c) /\ \A d \in Requester \ {c} : Apart(c, d)
  /\ \A p \in 1..MaxProject : RowHolds(p)

ProjectsInv ==
  /\ ProjectsTypeOK
  /\ \A c \in Requester : RequestNames(c)
  /\ \A p \in 1..MaxProject : RowNames(p)
  /\ clashed = FALSE => Kept

(* No project, no folder and no request: nothing can disagree. *)
LEMMA ProjectsInvInit == ProjectsInit => ProjectsInv
<1> SUFFICES ASSUME ProjectsInit PROVE ProjectsInv
  OBVIOUS
<1>1. NoProject \in ProjectRow /\ NoRequest \in ProjectRequest
  BY ProjectsAssumption DEF NoProject, NoRequest, ProjectRow, ProjectRequest
<1>2. ProjectsTypeOK
  BY <1>1 DEF ProjectsInit, ProjectsTypeOK
<1>3. \A c \in Requester : requests[c].at = "idle" /\ requests[c].kind = "none"
  BY DEF ProjectsInit, NoRequest
<1>4. \A p \in 1..MaxProject : projects[p].st = "unused" /\ savedEnv[p] = "none"
  BY DEF ProjectsInit, NoProject
<1>. QED  BY <1>2, <1>3, <1>4 DEF ProjectsInv, Kept, RequestNames, RowNames, RequestHolds, OfAProject, Holding, Apart,
       RowHolds, Live

(* A step keeps the types, and what requests and rows name. *)
LEMMA ProjectsTypes ==
  ASSUME ProjectsTypeOK, \A c \in Requester : RequestNames(c), \A p \in 1..MaxProject : RowNames(p),
         [ProjectsNext]_projectsVars
  PROVE  ProjectsTypeOK' /\ (\A c \in Requester : RequestNames(c)') /\ (\A p \in 1..MaxProject : RowNames(p)')
<1> DEFINE AllNamed == (\A c \in Requester : RequestNames(c)) /\ (\A p \in 1..MaxProject : RowNames(p))
<1>0. /\ projects \in [1..MaxProject -> ProjectRow] /\ disk \in [Folder -> Content \cup {"absent", "empty"}]
      /\ requests \in [Requester -> ProjectRequest] /\ savedEnv \in [1..MaxProject -> Content \cup {"none"}]
      /\ clashed \in BOOLEAN
      /\ NoRequest \in ProjectRequest /\ NoRequest.at = "idle"
  BY ProjectsAssumption DEF ProjectsTypeOK, NoRequest, ProjectRequest
<1>a. ASSUME NEW c \in Requester, NEW r \in ProjectRequest, Goes(c, r),
             r.at # "idle" => r.folder \in Folder, r.at \in {"mkdir", "file"} => r.content \in Content
      PROVE  requests' \in [Requester -> ProjectRequest] /\ \A d \in Requester : RequestNames(d)'
  BY <1>0, <1>a DEF Goes, RequestNames
<1>b. ASSUME NEW c \in Requester, Goes(c, NoRequest)
      PROVE  requests' \in [Requester -> ProjectRequest] /\ \A d \in Requester : RequestNames(d)'
  <2>1. NoRequest.at \notin {"mkdir", "file"}
    BY <1>0
  <2>. QED  BY <1>0, <1>a, <1>b, <2>1
<1>c. ASSUME NEW c \in Requester, NEW r, NEW f, NEW p,
             \/ Arrives(c, r) \/ Ends(c) \/ TakesFolder(f, p) \/ UNCHANGED clashed
             \/ clashed' = (clashed \/ MovedUnder(p, f))
      PROVE  clashed' \in BOOLEAN
  BY <1>0, <1>c DEF Arrives, Ends, TakesFolder
<1>d. ASSUME UNCHANGED projects PROVE projects' \in [1..MaxProject -> ProjectRow]
               /\ \A p \in 1..MaxProject : RowNames(p)'
  BY <1>0, <1>d DEF RowNames
<1>e. ASSUME NEW c \in Requester
      PROVE  requests[c] \in ProjectRequest /\ RequestNames(c) /\ requests[c].folder \in Folder \cup {"none"}
  BY <1>0 DEF ProjectRequest
<1>f. ASSUME NEW c \in Requester, NEW at \in {"update", "remove", "file"}
      PROVE  LET h == [requests[c] EXCEPT !.at = at]
             IN  h \in ProjectRequest /\ h.at = at /\ h.folder = requests[c].folder /\ h.content = requests[c].content
  BY <1>e DEF ProjectRequest
<1>1. ASSUME NEW c \in Requester, CreateProject(c) PROVE ProjectsTypeOK' /\ AllNamed'
  <2>1. PICK f \in Folder : /\ TakesFolder(f, 0)
                           /\ Goes(c, [NoRequest EXCEPT !.at = "insert", !.kind = "create", !.folder = f])
    BY <1>1 DEF CreateProject
  <2> DEFINE r == [NoRequest EXCEPT !.at = "insert", !.kind = "create", !.folder = f]
  <2>2. r \in ProjectRequest /\ r.at = "insert" /\ r.folder = f
    BY <1>0 DEF ProjectRequest
  <2>3. Goes(c, r) /\ clashed' \in BOOLEAN
    BY <1>c, <2>1
  <2> HIDE DEF r
  <2>4. requests' \in [Requester -> ProjectRequest] /\ \A d \in Requester : RequestNames(d)'
    BY <1>a, <2>2, <2>3
  <2>. QED  BY <1>0, <1>1, <1>d, <2>3, <2>4 DEF CreateProject, ProjectsTypeOK
<1>2. ASSUME NEW c \in Requester, InsertProject(c) PROVE ProjectsTypeOK' /\ AllNamed'
  <2>1. PICK p \in 1..MaxProject : projects' = [projects EXCEPT ![p] = [st |-> "live", folder |-> requests[c].folder]]
    BY <1>2 DEF InsertProject, NextProject
  <2>2. requests[c].folder \in Folder /\ [st |-> "live", folder |-> requests[c].folder] \in ProjectRow
    BY <1>2, <1>e DEF InsertProject, At, RequestNames, ProjectRow
  <2>3. projects' \in [1..MaxProject -> ProjectRow] /\ \A q \in 1..MaxProject : RowNames(q)'
    BY <1>0, <2>1, <2>2 DEF RowNames
  <2>. QED  BY <1>0, <1>2, <1>b, <1>c, <2>3 DEF InsertProject, Ends, Arrives, ProjectsTypeOK
<1>3. ASSUME NEW c \in Requester, UpdateProject(c) PROVE ProjectsTypeOK' /\ AllNamed'
  <2>1. PICK p \in Live, f \in Folder :
          Arrives(c, [NoRequest EXCEPT !.at = "conflict", !.kind = "update", !.project = p, !.folder = f])
    BY <1>3 DEF UpdateProject
  <2> DEFINE r == [NoRequest EXCEPT !.at = "conflict", !.kind = "update", !.project = p, !.folder = f]
  <2>2. p \in 0..MaxProject
    BY ProjectsAssumption DEF Live
  <2>3. r \in ProjectRequest /\ r.at = "conflict" /\ r.folder = f
    BY <1>0, <2>2 DEF ProjectRequest
  <2>4. Goes(c, r) /\ clashed' \in BOOLEAN
    BY <1>c, <2>1 DEF Arrives
  <2> HIDE DEF r
  <2>5. requests' \in [Requester -> ProjectRequest] /\ \A d \in Requester : RequestNames(d)'
    BY <1>a, <2>3, <2>4
  <2>. QED  BY <1>0, <1>3, <1>d, <2>4, <2>5 DEF UpdateProject, ProjectsTypeOK
<1>4. ASSUME NEW c \in Requester, CheckConflict(c) PROVE ProjectsTypeOK' /\ AllNamed'
  <2>1. requests[c].folder \in Folder /\ clashed' \in BOOLEAN
    BY <1>4, <1>c, <1>e DEF CheckConflict, At, RequestNames
  <2>2. Goes(c, [requests[c] EXCEPT !.at = "update"]) \/ Goes(c, NoRequest)
    BY <1>4 DEF CheckConflict, Ends, Arrives
  <2>3. requests' \in [Requester -> ProjectRequest] /\ \A d \in Requester : RequestNames(d)'
    BY <1>a, <1>b, <1>f, <2>1, <2>2
  <2>. QED  BY <1>0, <1>4, <1>d, <2>1, <2>3 DEF CheckConflict, ProjectsTypeOK
<1>5. ASSUME NEW c \in Requester, UpdateRow(c) PROVE ProjectsTypeOK' /\ AllNamed'
  <2>1. requests[c].folder \in Folder
    BY <1>5, <1>e DEF UpdateRow, At, RequestNames
  <2>2. /\ projects' \in [1..MaxProject -> ProjectRow] /\ (\A q \in 1..MaxProject : RowNames(q)')
        /\ savedEnv' \in [1..MaxProject -> Content \cup {"none"}]
    <3>1. CASE requests[c].project \in Live
      <4> DEFINE p == requests[c].project
      <4>1. p \in 1..MaxProject /\ projects[p] \in ProjectRow
        BY <1>0, <3>1 DEF Live
      <4>2. LET h == [projects[p] EXCEPT !.folder = requests[c].folder]
              IN h \in ProjectRow /\ h.folder = requests[c].folder
        BY <2>1, <4>1 DEF ProjectRow
      <4>3. projects' = [projects EXCEPT ![p] = [projects[p] EXCEPT !.folder = requests[c].folder]]
        BY <1>5, <3>1 DEF UpdateRow
      <4>4. savedEnv' \in [1..MaxProject -> Content \cup {"none"}]
        BY <1>0, <1>5, <3>1 DEF UpdateRow
      <4>. QED  BY <1>0, <2>1, <4>1, <4>2, <4>3, <4>4 DEF RowNames
    <3>2. CASE requests[c].project \notin Live
      BY <1>0, <1>5, <1>d, <3>2 DEF UpdateRow
    <3>. QED  BY <3>1, <3>2
  <2>3. clashed' \in BOOLEAN
    BY <1>5, <1>c DEF UpdateRow
  <2>. QED  BY <1>0, <1>5, <1>b, <2>2, <2>3 DEF UpdateRow, ProjectsTypeOK
<1>6. ASSUME NEW c \in Requester, DeleteProject(c) PROVE ProjectsTypeOK' /\ AllNamed'
  <2>1. PICK p \in Live : Arrives(c, [NoRequest EXCEPT !.at = "delete", !.kind = "delete", !.project = p,
                                                      !.folder = projects[p].folder])
    BY <1>6 DEF DeleteProject
  <2> DEFINE r == [NoRequest EXCEPT !.at = "delete", !.kind = "delete", !.project = p, !.folder = projects[p].folder]
  <2>2. p \in 0..MaxProject /\ projects[p].folder \in Folder
    BY ProjectsAssumption DEF Live, RowNames
  <2>3. r \in ProjectRequest /\ r.at = "delete" /\ r.folder = projects[p].folder
    BY <1>0, <2>2 DEF ProjectRequest
  <2>4. Goes(c, r) /\ clashed' \in BOOLEAN
    BY <1>c, <2>1 DEF Arrives
  <2> HIDE DEF r
  <2>5. requests' \in [Requester -> ProjectRequest] /\ \A d \in Requester : RequestNames(d)'
    BY <1>a, <2>2, <2>3, <2>4
  <2>. QED  BY <1>0, <1>6, <1>d, <2>4, <2>5 DEF DeleteProject, ProjectsTypeOK
<1>7. ASSUME NEW c \in Requester, DeleteRow(c) PROVE ProjectsTypeOK' /\ AllNamed'
  <2>1. requests[c].folder \in Folder
    BY <1>7, <1>e DEF DeleteRow, At, RequestNames
  <2>2. requests' \in [Requester -> ProjectRequest] /\ \A d \in Requester : RequestNames(d)'
    BY <1>7, <1>a, <1>f, <2>1 DEF DeleteRow
  <2>3. \A x \in ProjectRow : LET h == [x EXCEPT !.st = "gone"] IN h \in ProjectRow /\ h.st = "gone"
    BY DEF ProjectRow
  <2>4. projects' \in [1..MaxProject -> ProjectRow] /\ \A q \in 1..MaxProject : RowNames(q)'
    BY <1>0, <1>7, <2>3 DEF DeleteRow, RowNames
  <2>. QED  BY <1>0, <1>7, <2>2, <2>4 DEF DeleteRow, ProjectsTypeOK
<1>8. ASSUME NEW c \in Requester, RemoveFolder(c) PROVE ProjectsTypeOK' /\ AllNamed'
  BY <1>0, <1>8, <1>b, <1>c, <1>d DEF RemoveFolder, Ends, Arrives, ProjectsTypeOK
<1>9. ASSUME NEW c \in Requester, WriteProject(c) PROVE ProjectsTypeOK' /\ AllNamed'
  <2>1. PICK p \in Live, k \in Writes, v \in Content :
          Arrives(c, [at |-> "mkdir", kind |-> k, project |-> p, folder |-> projects[p].folder, content |-> v])
    BY <1>9 DEF WriteProject
  <2> DEFINE r == [at |-> "mkdir", kind |-> k, project |-> p, folder |-> projects[p].folder, content |-> v]
  <2>2. p \in 0..MaxProject /\ projects[p].folder \in Folder
    BY ProjectsAssumption DEF Live, RowNames
  <2>3. r \in ProjectRequest /\ r.folder = projects[p].folder /\ r.content \in Content
    BY <2>2 DEF ProjectRequest
  <2>4. Goes(c, r) /\ clashed' \in BOOLEAN
    BY <1>c, <2>1 DEF Arrives
  <2> HIDE DEF r
  <2>5. requests' \in [Requester -> ProjectRequest] /\ \A d \in Requester : RequestNames(d)'
    BY <1>a, <2>2, <2>3, <2>4
  <2>. QED  BY <1>0, <1>9, <1>d, <2>4, <2>5 DEF WriteProject, ProjectsTypeOK
<1>10. ASSUME NEW c \in Requester, MakeFolder(c) PROVE ProjectsTypeOK' /\ AllNamed'
  <2>1. requests[c].folder \in Folder /\ requests[c].content \in Content /\ UNCHANGED clashed
    BY <1>10, <1>e DEF MakeFolder, At, RequestNames, Ends, Arrives
  <2>2. Goes(c, [requests[c] EXCEPT !.at = "file"]) \/ Goes(c, NoRequest)
    BY <1>10 DEF MakeFolder, Ends, Arrives
  <2>3. requests' \in [Requester -> ProjectRequest] /\ \A d \in Requester : RequestNames(d)'
    BY <1>a, <1>b, <1>f, <2>1, <2>2
  <2>4. disk' \in [Folder -> Content \cup {"absent", "empty"}]
    BY <1>0, <1>10 DEF MakeFolder
  <2>. QED  BY <1>0, <1>10, <1>d, <2>1, <2>3, <2>4 DEF MakeFolder, ProjectsTypeOK
<1>11. ASSUME NEW c \in Requester, WriteEnv(c) PROVE ProjectsTypeOK' /\ AllNamed'
  <2>1. requests[c].content \in Content
    BY <1>11, <1>e DEF WriteEnv, At, RequestNames
  <2>2. disk' \in [Folder -> Content \cup {"absent", "empty"}]
          /\ savedEnv' \in [1..MaxProject -> Content \cup {"none"}]
    BY <1>0, <1>11, <2>1 DEF WriteEnv
  <2>. QED  BY <1>0, <1>11, <1>b, <1>c, <1>d, <2>2 DEF WriteEnv, Ends, Arrives, ProjectsTypeOK
<1>12. CASE UNCHANGED projectsVars
  BY <1>12 DEF projectsVars, ProjectsTypeOK, RequestNames, RowNames
<1>. QED  BY <1>1, <1>2, <1>3, <1>4, <1>5, <1>6, <1>7, <1>8, <1>9, <1>10, <1>11, <1>12 DEF ProjectsNext

(* A request stays as it is: what it has found out holds while no row changes. *)
LEMMA RequestStays ==
  ASSUME UNCHANGED projects, NEW d \in Requester, RequestHolds(d), requests'[d] = requests[d]
  PROVE  RequestHolds(d)'
BY DEF RequestHolds, OfAProject, Holding, FolderFree, Live

(* The row of a project changes: what a request has found out holds if the row is another *)
(* project's and not given its folder, or its own and still what it was.                  *)
LEMMA RowChanges ==
  ASSUME ProjectsTypeOK, NEW p \in 1..MaxProject, NEW e \in ProjectRow, projects' = [projects EXCEPT ![p] = e],
         e.st # "unused", NEW d \in Requester, RequestHolds(d), requests'[d] = requests[d],
         Holding(d) /\ e.st = "live" /\ requests[d].project # p => e.folder # requests[d].folder,
         requests[d].at # "idle" /\ requests[d].project = p =>
           /\ projects[p].st = "gone" => e.st = "gone"
           /\ e.st = "live" /\ requests[d].kind = "env" => projects[p].st = "live" /\ e.folder = projects[p].folder
  PROVE  RequestHolds(d)'
<1> DEFINE q == requests[d].project
<1>0. /\ projects'[p] = e /\ \A x \in 1..MaxProject \ {p} : projects'[x] = projects[x]
      /\ q \in 0..MaxProject /\ (q # 0 => q \in 1..MaxProject)
  BY ProjectsAssumption DEF ProjectsTypeOK, ProjectRequest
<1>1. Holding(d) => FolderFree(requests[d].folder, q)'
  <2> SUFFICES ASSUME Holding(d) PROVE FolderFree(requests[d].folder, q)'
    OBVIOUS
  <2>1. FolderFree(requests[d].folder, q)
    BY DEF RequestHolds
  <2> HIDE DEF q
  <2>2. e.st = "live" /\ p # q => e.folder # requests[d].folder
    BY DEF q
  <2>3. \A x \in Live' \ {q} : projects'[x].folder # requests[d].folder
    BY <1>0, <2>1, <2>2 DEF FolderFree, Live
  <2>. QED  BY <2>3 DEF FolderFree, q
<1>2. requests[d].at \in OfAProject => q # 0 /\ projects'[q].st # "unused"
  BY <1>0 DEF RequestHolds
<1>3. requests[d].at = "remove" => projects'[q].st = "gone"
  BY <1>0 DEF RequestHolds, OfAProject
<1>4. requests[d].at \in {"mkdir", "file"} /\ requests[d].kind = "env" /\ q \in Live' =>
        requests[d].folder = projects'[q].folder
  BY <1>0 DEF RequestHolds, Live
<1>. QED  BY <1>0, <1>1, <1>2, <1>3, <1>4 DEF RequestHolds, Holding

(* One request goes on, and all is kept when what it has found out, and what it is at work on, *)
(* does not concern another.                                                                   *)
LEMMA KeptWhen ==
  ASSUME ProjectsTypeOK, Kept, NEW c \in Requester, NEW r, Goes(c, r), RequestHolds(c)',
         \A d \in Requester \ {c} : RequestHolds(d)' /\ Apart(c, d)',
         \A p \in 1..MaxProject : RowHolds(p)'
  PROVE  Kept'
<1>1. \A d \in Requester \ {c} : requests'[d] = requests[d]
  BY DEF Goes, ProjectsTypeOK
<1>2. ASSUME NEW x \in Requester, NEW y \in Requester, x # y PROVE Apart(x, y)'
  <2>1. CASE x # c /\ y # c
    BY <1>1, <1>2, <2>1 DEF Kept, Apart, Holding
  <2>2. CASE x = c \/ y = c
    BY <1>2, <2>2 DEF Apart
  <2>. QED  BY <2>1, <2>2
<1>. QED  BY <1>2 DEF Kept

(* The same when it lets go, or keeps at what it was at work on. *)
LEMMA KeepsApart ==
  ASSUME ProjectsTypeOK, Kept, NEW c \in Requester, NEW r, Goes(c, r),
         \/ r.at \in {"idle", "conflict"}
         \/ Holding(c) /\ r.folder = requests[c].folder /\ r.project = requests[c].project
  PROVE  \A d \in Requester \ {c} : Apart(c, d)'
<1>1. requests'[c] = r /\ \A d \in Requester \ {c} : requests'[d] = requests[d]
  BY DEF Goes, ProjectsTypeOK
<1>. QED  BY <1>1 DEF Kept, Apart, Holding

(* A request goes on and neither rows nor folders change. *)
LEMMA RequestMoves ==
  ASSUME ProjectsTypeOK, Kept, UNCHANGED <<projects, disk, savedEnv>>, NEW c \in Requester, NEW r, Goes(c, r),
         RequestHolds(c)', \A d \in Requester \ {c} : Apart(c, d)'
  PROVE  Kept'
<1>1. ASSUME NEW d \in Requester \ {c} PROVE RequestHolds(d)'
  BY RequestStays DEF Goes, Kept, ProjectsTypeOK
<1>2. ASSUME NEW p \in 1..MaxProject PROVE RowHolds(p)'
  BY DEF Kept, RowHolds, Live, FolderFree
<1>. QED  BY <1>1, <1>2, KeptWhen

(* A folder a request takes with no race lost is no other project's, nor about to be. *)
LEMMA TakenAlone ==
  ASSUME ProjectsTypeOK, Kept, NEW c \in Requester, NEW r, Goes(c, r), ~Held(r.folder, r.project)
  PROVE  \A d \in Requester \ {c} : Apart(c, d)'
<1>1. requests'[c] = r /\ \A d \in Requester \ {c} : requests'[d] = requests[d]
  BY DEF Goes, ProjectsTypeOK
<1>2. \A d \in Requester : Holding(d) /\ requests[d].folder = r.folder =>
        r.project # 0 /\ requests[d].project = r.project
  BY DEF Held
<1>. QED  BY <1>1, <1>2 DEF Apart, Holding

(* A request about a live project that starts on the project's folder meets its own at most. *)
LEMMA OwnFolder ==
  ASSUME ProjectsTypeOK, Kept, NEW c \in Requester, NEW r, Goes(c, r), r.project \in Live,
         r.folder = projects[r.project].folder
  PROVE  \A d \in Requester \ {c} : Apart(c, d)'
<1>1. requests'[c] = r /\ \A d \in Requester \ {c} : requests'[d] = requests[d]
  BY DEF Goes, ProjectsTypeOK
<1>2. r.project # 0
  BY ProjectsAssumption DEF Live
<1>3. ASSUME NEW d \in Requester, Holding(d), requests[d].folder = r.folder PROVE requests[d].project = r.project
  <2>1. FolderFree(requests[d].folder, requests[d].project)
    BY <1>3 DEF Kept, RequestHolds
  <2>. QED  BY <1>3, <2>1 DEF FolderFree
<1>. QED  BY <1>1, <1>2, <1>3 DEF Apart, Holding

(* A step in which no race is lost keeps every request's and every project's part. *)
LEMMA KeptStep ==
  ASSUME ProjectsInv, ProjectsNext, clashed' = FALSE
  PROVE  Kept'
<1>0. /\ ProjectsTypeOK /\ clashed \in BOOLEAN
      /\ projects \in [1..MaxProject -> ProjectRow] /\ disk \in [Folder -> Content \cup {"absent", "empty"}]
      /\ requests \in [Requester -> ProjectRequest] /\ savedEnv \in [1..MaxProject -> Content \cup {"none"}]
      /\ NoRequest.at = "idle" /\ NoRequest.kind = "none" /\ NoRequest \in ProjectRequest
      /\ \A c \in Requester : RequestNames(c)
      /\ \A p \in 1..MaxProject : RowNames(p)
      /\ (clashed = FALSE => Kept)
      /\ Live \subseteq 1..MaxProject /\ 0 \notin 1..MaxProject
  BY ProjectsAssumption DEF ProjectsInv, ProjectsTypeOK, NoRequest, ProjectRequest, Live
<1>a. ASSUME NEW f, NEW p, TakesFolder(f, p) PROVE Kept /\ ~Held(f, p)
  <2>1. clashed' = (clashed \/ Held(f, p))
    BY <1>a DEF TakesFolder
  <2>2. ~clashed /\ ~Held(f, p)
    BY <2>1, Zenon
  <2>. QED  BY <1>0, <2>2
<1>b. ASSUME UNCHANGED clashed PROVE Kept
  BY <1>0, <1>b
<1>c. ASSUME NEW c \in Requester, Goes(c, NoRequest)
      PROVE  requests'[c] = NoRequest /\ RequestHolds(c)'
  BY <1>0, <1>c DEF Goes, RequestHolds, OfAProject, Holding
<1>d. ASSUME NEW c \in Requester, NEW at \in {"update", "remove", "file"}
      PROVE  LET h == [requests[c] EXCEPT !.at = at]
             IN  /\ h.at = at /\ h.kind = requests[c].kind /\ h.folder = requests[c].folder
                 /\ h.project = requests[c].project /\ h.content = requests[c].content
  BY <1>0 DEF ProjectRequest
<1>e. ASSUME NEW c \in Requester, NEW r, Goes(c, r)
      PROVE  requests'[c] = r /\ \A d \in Requester \ {c} : requests'[d] = requests[d]
  BY <1>0, <1>e DEF Goes
<1>1. ASSUME NEW c \in Requester, CreateProject(c) PROVE Kept'
  <2>1. PICK f \in Folder : /\ FolderFree(f, 0) /\ TakesFolder(f, 0)
                           /\ Goes(c, [NoRequest EXCEPT !.at = "insert", !.kind = "create", !.folder = f])
    BY <1>1 DEF CreateProject
  <2> DEFINE r == [NoRequest EXCEPT !.at = "insert", !.kind = "create", !.folder = f]
  <2>2. r.at = "insert" /\ r.kind = "create" /\ r.folder = f /\ r.project = 0
    BY DEF NoRequest
  <2>3. UNCHANGED <<projects, disk, savedEnv>> /\ Goes(c, r) /\ Kept /\ ~Held(f, 0)
    BY <1>1, <1>a, <2>1 DEF CreateProject
  <2> HIDE DEF r
  <2>4. RequestHolds(c)'
    BY <1>e, <2>1, <2>2, <2>3 DEF RequestHolds, OfAProject, FolderFree, Live
  <2>5. \A d \in Requester \ {c} : Apart(c, d)'
    BY <1>0, <2>2, <2>3, TakenAlone
  <2>. QED  BY <1>0, <2>3, <2>4, <2>5, RequestMoves
<1>2. ASSUME NEW c \in Requester, UpdateProject(c) PROVE Kept'
  <2>1. PICK p \in Live, f \in Folder :
          Arrives(c, [NoRequest EXCEPT !.at = "conflict", !.kind = "update", !.project = p, !.folder = f])
    BY <1>2 DEF UpdateProject
  <2> DEFINE r == [NoRequest EXCEPT !.at = "conflict", !.kind = "update", !.project = p, !.folder = f]
  <2>2. r.at = "conflict" /\ r.kind = "update" /\ r.folder = f /\ r.project = p
    BY DEF NoRequest
  <2>3. UNCHANGED <<projects, disk, savedEnv>> /\ Goes(c, r) /\ Kept
    BY <1>2, <1>b, <2>1 DEF UpdateProject, Arrives
  <2> HIDE DEF r
  <2>4. p # 0 /\ projects[p].st = "live"
    BY <1>0 DEF Live
  <2>5. RequestHolds(c)'
    BY <1>e, <2>2, <2>3, <2>4 DEF RequestHolds, OfAProject, Holding
  <2>6. \A d \in Requester \ {c} : Apart(c, d)'
    BY <1>0, <2>2, <2>3, KeepsApart
  <2>. QED  BY <1>0, <2>3, <2>5, <2>6, RequestMoves
<1>3. ASSUME NEW c \in Requester, CheckConflict(c) PROVE Kept'
  <2>1. UNCHANGED <<projects, disk, savedEnv>> /\ requests[c].at = "conflict"
    BY <1>3 DEF CheckConflict, At
  <2>2. CASE FolderFree(requests[c].folder, requests[c].project)
    <3> DEFINE r == [requests[c] EXCEPT !.at = "update"]
    <3>1. /\ r.at = "update" /\ r.kind = requests[c].kind /\ r.folder = requests[c].folder
          /\ r.project = requests[c].project
      BY <1>d
    <3>2. Goes(c, r) /\ TakesFolder(requests[c].folder, requests[c].project)
      BY <1>3, <2>2 DEF CheckConflict
    <3> HIDE DEF r
    <3>3. Kept /\ RequestHolds(c) /\ ~Held(r.folder, r.project)
      BY <1>a, <3>1, <3>2 DEF Kept
    <3>4. requests'[c] = r
      BY <1>e, <3>2
    <3>5. RequestHolds(c)'
      BY <2>1, <2>2, <3>1, <3>3, <3>4 DEF RequestHolds, OfAProject, FolderFree, Live
    <3>6. \A d \in Requester \ {c} : Apart(c, d)'
      BY <1>0, <3>2, <3>3, TakenAlone
    <3>. QED  BY <1>0, <2>1, <3>2, <3>3, <3>5, <3>6, RequestMoves
  <2>3. CASE ~FolderFree(requests[c].folder, requests[c].project)
    <3>1. Goes(c, NoRequest) /\ Kept
      BY <1>3, <1>b, <2>3 DEF CheckConflict, Ends, Arrives
    <3>2. \A d \in Requester \ {c} : Apart(c, d)'
      BY <1>0, <3>1, KeepsApart
    <3>. QED  BY <1>0, <1>c, <2>1, <3>1, <3>2, RequestMoves
  <2>. QED  BY <2>2, <2>3
<1>4. ASSUME NEW c \in Requester, DeleteProject(c) PROVE Kept'
  <2>1. PICK p \in Live : Arrives(c, [NoRequest EXCEPT !.at = "delete", !.kind = "delete", !.project = p,
                                                      !.folder = projects[p].folder])
    BY <1>4 DEF DeleteProject
  <2> DEFINE r == [NoRequest EXCEPT !.at = "delete", !.kind = "delete", !.project = p, !.folder = projects[p].folder]
  <2>2. r.at = "delete" /\ r.kind = "delete" /\ r.folder = projects[p].folder /\ r.project = p
    BY DEF NoRequest
  <2>3. UNCHANGED <<projects, disk, savedEnv>> /\ Goes(c, r) /\ Kept
    BY <1>4, <1>b, <2>1 DEF DeleteProject, Arrives
  <2> HIDE DEF r
  <2>4. p # 0 /\ projects[p].st = "live" /\ FolderFree(projects[p].folder, p)
    BY <1>0, <2>3 DEF Live, Kept, RowHolds
  <2>5. RequestHolds(c)'
    BY <1>e, <2>2, <2>3, <2>4 DEF RequestHolds, OfAProject, FolderFree, Live
  <2>6. \A d \in Requester \ {c} : Apart(c, d)'
    BY <1>0, <2>2, <2>3, OwnFolder
  <2>. QED  BY <1>0, <2>3, <2>5, <2>6, RequestMoves
<1>5. ASSUME NEW c \in Requester, WriteProject(c) PROVE Kept'
  <2>1. PICK p \in Live, k \in Writes, v \in Content :
          Arrives(c, [at |-> "mkdir", kind |-> k, project |-> p, folder |-> projects[p].folder, content |-> v])
    BY <1>5 DEF WriteProject
  <2> DEFINE r == [at |-> "mkdir", kind |-> k, project |-> p, folder |-> projects[p].folder, content |-> v]
  <2>2. r.at = "mkdir" /\ r.kind = k /\ r.folder = projects[p].folder /\ r.project = p
    OBVIOUS
  <2>3. UNCHANGED <<projects, disk, savedEnv>> /\ Goes(c, r) /\ Kept
    BY <1>5, <1>b, <2>1 DEF WriteProject, Arrives
  <2> HIDE DEF r
  <2>4. p # 0 /\ projects[p].st = "live" /\ FolderFree(projects[p].folder, p)
    BY <1>0, <2>3 DEF Live, Kept, RowHolds
  <2>5. RequestHolds(c)'
    BY <1>e, <2>2, <2>3, <2>4 DEF RequestHolds, OfAProject, FolderFree, Live
  <2>6. \A d \in Requester \ {c} : Apart(c, d)'
    BY <1>0, <2>2, <2>3, OwnFolder
  <2>. QED  BY <1>0, <2>3, <2>5, <2>6, RequestMoves
<1>6. ASSUME NEW c \in Requester, InsertProject(c) PROVE Kept'
  <2>1. PICK p \in NextProject : projects' = [projects EXCEPT ![p] = [st |-> "live", folder |-> requests[c].folder]]
    BY <1>6 DEF InsertProject
  <2> DEFINE f == requests[c].folder
             e == [st |-> "live", folder |-> f]
  <2>2. /\ p \in 1..MaxProject /\ projects[p].st = "unused" /\ e.st = "live" /\ e.folder = f /\ f \in Folder
        /\ e \in ProjectRow
    BY <1>0, <1>6, <2>1 DEF NextProject, ProjectRow, InsertProject, At, RequestNames
  <2>3. /\ UNCHANGED <<disk, savedEnv>> /\ Goes(c, NoRequest) /\ Kept /\ requests[c].at = "insert"
        /\ projects' = [projects EXCEPT ![p] = e]
    BY <1>6, <1>b, <2>1 DEF InsertProject, At, Ends, Arrives
  <2>4. requests[c].project = 0 /\ FolderFree(f, 0) /\ Holding(c)
    BY <2>3 DEF Kept, RequestHolds, Holding
  <2> HIDE DEF f, e
  <2>5. ASSUME NEW d \in Requester \ {c} PROVE RequestHolds(d)'
    <3>1. RequestHolds(d) /\ Apart(c, d) /\ requests'[d] = requests[d]
      BY <1>e, <2>3 DEF Kept
    <3>2. requests[d].at # "idle" => requests[d].project # p
      BY <1>0, <2>2, <3>1 DEF RequestHolds, OfAProject, ProjectRequest
    <3>3. Holding(d) => requests[d].folder # f
      BY <2>4, <3>1 DEF Apart, f
    <3>. QED  BY <1>0, <2>2, <2>3, <3>1, <3>2, <3>3, RowChanges
  <2>6. ASSUME NEW q \in 1..MaxProject PROVE RowHolds(q)'
    <3>1. RowHolds(q) /\ RowHolds(p)
      BY <2>2, <2>3 DEF Kept
    <3>2. CASE q = p
      BY <1>0, <2>2, <2>3, <2>4, <3>1, <3>2 DEF RowHolds, FolderFree, Live
    <3>3. CASE q # p
      BY <1>0, <2>2, <2>3, <2>4, <3>1, <3>3 DEF RowHolds, FolderFree, Live
    <3>. QED  BY <3>2, <3>3
  <2>7. \A d \in Requester \ {c} : Apart(c, d)'
    BY <1>0, <2>3, KeepsApart
  <2>. QED  BY <1>0, <1>c, <2>3, <2>5, <2>6, <2>7, KeptWhen
<1>7. ASSUME NEW c \in Requester, UpdateRow(c) PROVE Kept'
  <2> DEFINE p == requests[c].project
             f == requests[c].folder
  <2>1. Goes(c, NoRequest) /\ requests[c].at = "update" /\ UNCHANGED disk
    BY <1>7 DEF UpdateRow, At
  <2>2. CASE p \notin Live
    <3>1. UNCHANGED <<projects, disk, savedEnv>> /\ Kept
      BY <1>7, <1>b, <2>2 DEF UpdateRow
    <3>2. \A d \in Requester \ {c} : Apart(c, d)'
      BY <1>0, <2>1, <3>1, KeepsApart
    <3>. QED  BY <1>0, <1>c, <2>1, <3>1, <3>2, RequestMoves
  <2>3. CASE p \in Live
    <3> DEFINE e == [projects[p] EXCEPT !.folder = f]
    <3>1. /\ projects' = [projects EXCEPT ![p].folder = f]
          /\ savedEnv' = [savedEnv EXCEPT ![p] = IF projects[p].folder = f THEN savedEnv[p] ELSE "none"]
          /\ clashed' = (clashed \/ MovedUnder(p, f))
      BY <1>7, <2>3 DEF UpdateRow
    <3>2. ~clashed /\ ~MovedUnder(p, f)
      BY <3>1, Zenon
    <3>3. Kept
      BY <1>0, <3>2
    <3>4. p \in 1..MaxProject /\ e \in ProjectRow /\ e.st = "live" /\ e.folder = f /\ f \in Folder
      BY <1>0, <2>1, <2>3 DEF ProjectRow, Live, RequestNames
    <3>5. projects' = [projects EXCEPT ![p] = e]
      BY <3>1
    <3>6. RequestHolds(c) /\ FolderFree(f, p) /\ p # 0 /\ Holding(c)
      BY <1>0, <2>1, <3>3, <3>4 DEF Kept, RequestHolds, Holding, ProjectRequest
    <3> HIDE DEF e, f, p
    <3>7. ASSUME NEW d \in Requester \ {c} PROVE RequestHolds(d)'
      <4>1. RequestHolds(d) /\ Apart(c, d) /\ requests'[d] = requests[d]
        BY <1>e, <2>1, <3>3 DEF Kept
      <4>2. Holding(d) /\ requests[d].project # p => requests[d].folder # f
        BY <3>6, <4>1 DEF Apart, f, p
      <4>3. requests[d].kind = "env" /\ requests[d].project = p => e.folder = projects[p].folder
        BY <3>2, <3>4 DEF MovedUnder
      <4>4. projects[p].st = "live"
        BY <2>3 DEF Live, p
      <4>. QED  BY <1>0, <3>4, <3>5, <4>1, <4>2, <4>3, <4>4, RowChanges
    <3>8. ASSUME NEW q \in 1..MaxProject PROVE RowHolds(q)'
      <4>1. RowHolds(q) /\ p \in Live
        BY <2>3, <3>3 DEF Kept, p
      <4>2. CASE q = p
        BY <1>0, <2>1, <3>1, <3>4, <3>5, <3>6, <4>1, <4>2 DEF RowHolds, FolderFree, Live
      <4>3. CASE q # p
        BY <1>0, <2>1, <3>1, <3>4, <3>5, <3>6, <4>1, <4>3 DEF RowHolds, FolderFree, Live
      <4>. QED  BY <4>2, <4>3
    <3>9. \A d \in Requester \ {c} : Apart(c, d)'
      BY <1>0, <2>1, <3>3, KeepsApart
    <3>. QED  BY <1>0, <1>c, <2>1, <3>3, <3>7, <3>8, <3>9, KeptWhen
  <2>. QED  BY <2>2, <2>3
<1>8. ASSUME NEW c \in Requester, DeleteRow(c) PROVE Kept'
  <2> DEFINE p == requests[c].project
             f == requests[c].folder
             e == [projects[p] EXCEPT !.st = "gone"]
             r == [requests[c] EXCEPT !.at = "remove"]
  <2>1. Kept /\ Goes(c, r) /\ requests[c].at = "delete" /\ UNCHANGED <<disk, savedEnv>> /\ RequestHolds(c)
    BY <1>8, <1>b DEF DeleteRow, At, Kept
  <2>2. r.at = "remove" /\ r.kind = requests[c].kind /\ r.folder = f /\ r.project = p
    BY <1>d
  <2>3. p \in 1..MaxProject /\ p # 0
    BY <1>0, <2>1, ProjectsAssumption DEF RequestHolds, OfAProject, ProjectRequest
  <2>4. e \in ProjectRow /\ e.st = "gone"
    BY <1>0, <2>3 DEF ProjectRow
  <2>5. projects' = [projects EXCEPT ![p] = e]
    BY <1>8 DEF DeleteRow
  <2> HIDE DEF e, r, p, f
  <2>6. requests'[c] = r /\ projects'[p] = e
    BY <1>0, <1>e, <2>1, <2>3, <2>5
  <2>7. ASSUME NEW q \in 1..MaxProject PROVE RowHolds(q)'
    <3>1. RowHolds(q)
      BY <2>1 DEF Kept
    <3>. QED  BY <1>0, <2>1, <2>3, <2>4, <2>5, <3>1 DEF RowHolds, FolderFree, Live
  <2>8. RequestHolds(c)'
    <3>1. Holding(c)' => Holding(c)
      BY <2>1, <2>2, <2>6 DEF Holding
    <3>2. Holding(c) => FolderFree(f, p)
      BY <2>1 DEF RequestHolds, f, p
    <3>3. FolderFree(f, p) => \A x \in Live' \ {p} : projects'[x].folder # f
      BY <1>0, <2>2, <2>3, <2>4, <2>5 DEF FolderFree, Live
    <3>. QED  BY <2>1, <2>2, <2>3, <2>4, <2>6, <3>1, <3>2, <3>3 DEF RequestHolds, FolderFree, OfAProject
  <2>9. ASSUME NEW d \in Requester \ {c} PROVE RequestHolds(d)'
    <3>1. RequestHolds(d) /\ requests'[d] = requests[d]
      BY <1>e, <2>1 DEF Kept
    <3>. QED  BY <1>0, <2>3, <2>4, <2>5, <3>1, RowChanges
  <2>10. \A d \in Requester \ {c} : Apart(c, d)'
    <3>1. requests[c].kind = "deploy" => ~Holding(c)'
      BY <2>2, <2>6 DEF Holding
    <3>2. CASE requests[c].kind # "deploy"
      <4>1. Holding(c)
        BY <2>1, <3>2 DEF Holding
      <4>. QED  BY <1>0, <2>1, <2>2, <4>1, KeepsApart DEF f, p
    <3>. QED  BY <3>1, <3>2 DEF Apart
  <2>. QED  BY <1>0, <2>1, <2>7, <2>8, <2>9, <2>10, KeptWhen
<1>9. ASSUME NEW c \in Requester, RemoveFolder(c) PROVE Kept'
  <2>1. requests[c].at = "remove" /\ UNCHANGED <<projects, savedEnv>> /\ Goes(c, NoRequest) /\ Kept
    BY <1>9, <1>b DEF RemoveFolder, At, Ends, Arrives
  <2>2. \A q \in Live : projects[q].folder # requests[c].folder
    <3>1. RequestHolds(c) /\ Holding(c)
      BY <1>9, <2>1 DEF Kept, RemoveFolder, RequestHolds, Holding
    <3>. QED  BY <3>1, <2>1 DEF RequestHolds, FolderFree, Live
  <2>3. ASSUME NEW q \in 1..MaxProject PROVE RowHolds(q)'
    <3>1. RowHolds(q) /\ disk' = [disk EXCEPT ![requests[c].folder] = "absent"]
      BY <1>9, <2>1 DEF Kept, RemoveFolder
    <3>. QED  BY <1>0, <2>1, <2>2, <3>1 DEF RowHolds, FolderFree, Live, RowNames
  <2>4. ASSUME NEW d \in Requester \ {c} PROVE RequestHolds(d)'
    BY <1>e, <2>1, RequestStays DEF Kept
  <2>5. \A d \in Requester \ {c} : Apart(c, d)'
    BY <1>0, <2>1, KeepsApart
  <2>. QED  BY <1>0, <1>c, <2>1, <2>3, <2>4, <2>5, KeptWhen
<1>10. ASSUME NEW c \in Requester, MakeFolder(c) PROVE Kept'
  <2> DEFINE r == [requests[c] EXCEPT !.at = "file"]
  <2>1. requests[c].at = "mkdir" /\ UNCHANGED <<projects, savedEnv>> /\ Kept /\ RequestHolds(c)
    BY <1>10, <1>b DEF MakeFolder, At, Ends, Arrives, Kept
  <2>2. r.at = "file" /\ r.kind = requests[c].kind /\ r.folder = requests[c].folder /\ r.project = requests[c].project
    BY <1>d
  <2>3. (requests[c].kind = "env" /\ Goes(c, r)) \/ Goes(c, NoRequest)
    BY <1>10 DEF MakeFolder, Ends, Arrives
  <2> HIDE DEF r
  <2>4. ASSUME NEW q \in 1..MaxProject PROVE RowHolds(q)'
    <3>1. RowHolds(q) /\ disk' = [disk EXCEPT ![requests[c].folder] = IF disk[requests[c].folder] = "absent"
            THEN "empty" ELSE disk[requests[c].folder]]
      BY <1>10, <2>1 DEF Kept, MakeFolder
    <3>2. q \in Live /\ savedEnv[q] # "none" => disk[projects[q].folder] # "absent"
      BY <1>0, <3>1, ProjectsAssumption DEF RowHolds
    <3>3. q \in Live /\ savedEnv[q] # "none" => disk'[projects[q].folder] = disk[projects[q].folder]
      BY <1>0, <3>1, <3>2 DEF RowNames, Live
    <3>4. FolderFree(projects[q].folder, q) => FolderFree(projects[q].folder, q)'
      BY <2>1 DEF FolderFree, Live
    <3>. QED  BY <2>1, <3>1, <3>3, <3>4 DEF RowHolds, Live
  <2>5. ASSUME NEW d \in Requester \ {c} PROVE RequestHolds(d)'
    BY <1>e, <2>1, <2>3, RequestStays DEF Kept
  <2>6. CASE Goes(c, NoRequest)
    <3>1. \A d \in Requester \ {c} : Apart(c, d)'
      BY <1>0, <2>1, <2>6, KeepsApart
    <3>. QED  BY <1>0, <1>c, <2>1, <2>4, <2>5, <2>6, <3>1, KeptWhen
  <2>7. CASE requests[c].kind = "env" /\ Goes(c, r)
    <3>1. requests'[c] = r /\ Holding(c)
      BY <1>e, <2>1, <2>7 DEF Holding
    <3>2. RequestHolds(c)'
      BY <2>1, <2>2, <2>7, <3>1 DEF RequestHolds, OfAProject, FolderFree, Live
    <3>3. \A d \in Requester \ {c} : Apart(c, d)'
      BY <1>0, <2>1, <2>2, <2>7, <3>1, KeepsApart
    <3>. QED  BY <1>0, <2>1, <2>4, <2>5, <2>7, <3>2, <3>3, KeptWhen
  <2>. QED  BY <2>3, <2>6, <2>7
<1>11. ASSUME NEW c \in Requester, WriteEnv(c) PROVE Kept'
  <2> DEFINE p == requests[c].project
             f == requests[c].folder
  <2>1. Goes(c, NoRequest) /\ Kept /\ requests[c].at = "file" /\ UNCHANGED projects /\ RequestHolds(c)
    BY <1>11, <1>b DEF WriteEnv, At, Ends, Arrives, Kept
  <2>2. /\ p \in 1..MaxProject /\ projects[p].st # "unused" /\ FolderFree(f, p) /\ f \in Folder
        /\ p \in Live => f = projects[p].folder
    <3>1. p # 0 /\ projects[p].st # "unused" /\ requests[c].kind = "env" /\ Holding(c)
      BY <2>1 DEF RequestHolds, OfAProject, Holding
    <3>2. p \in 1..MaxProject
      BY <1>0, <3>1, ProjectsAssumption DEF ProjectRequest
    <3>. QED  BY <1>0, <2>1, <3>1, <3>2 DEF RequestHolds, RequestNames
  <2>3. ASSUME NEW q \in 1..MaxProject PROVE RowHolds(q)'
    <3>1. RowHolds(q)
      BY <2>1 DEF Kept
    <3>2. CASE disk[f] = "absent"
      BY <1>11, <2>1, <3>1, <3>2 DEF WriteEnv, RowHolds, FolderFree, Live
    <3>3. CASE disk[f] # "absent"
      <4>1. disk' = [disk EXCEPT ![f] = requests[c].content]
              /\ savedEnv' = [savedEnv EXCEPT ![p] = requests[c].content]
        BY <1>11, <3>3 DEF WriteEnv
      <4>2. q \in Live /\ q # p => projects[q].folder # f /\ projects[q].folder \in Folder
        BY <1>0, <2>2 DEF FolderFree, RowNames, Live
      <4> HIDE DEF p, f
      <4>3. q \in Live /\ savedEnv'[q] # "none" => disk'[projects[q].folder] = savedEnv'[q]
        BY <1>0, <2>2, <3>1, <4>1, <4>2 DEF RowHolds
      <4>4. projects[q].st = "unused" => savedEnv'[q] = "none"
        BY <1>0, <2>2, <3>1, <4>1 DEF RowHolds
      <4>5. FolderFree(projects[q].folder, q) => FolderFree(projects[q].folder, q)'
        BY <2>1 DEF FolderFree, Live
      <4>. QED  BY <2>1, <3>1, <4>3, <4>4, <4>5 DEF RowHolds, Live
    <3>. QED  BY <3>2, <3>3
  <2>4. ASSUME NEW d \in Requester \ {c} PROVE RequestHolds(d)'
    BY <1>e, <2>1, RequestStays DEF Kept
  <2>5. \A d \in Requester \ {c} : Apart(c, d)'
    BY <1>0, <2>1, KeepsApart
  <2>. QED  BY <1>0, <1>c, <2>1, <2>3, <2>4, <2>5, KeptWhen
<1>. QED  BY <1>1, <1>2, <1>3, <1>4, <1>5, <1>6, <1>7, <1>8, <1>9, <1>10, <1>11 DEF ProjectsNext

(* The invariant holds in every state. *)
THEOREM ProjectsInvariant == ProjectsSpec => []ProjectsInv
<1>1. ProjectsInv /\ [ProjectsNext]_projectsVars => ProjectsInv'
  <2> SUFFICES ASSUME ProjectsInv, [ProjectsNext]_projectsVars PROVE ProjectsInv'
    OBVIOUS
  <2>1. clashed' = FALSE => Kept'
    <3>1. CASE ProjectsNext
      BY <3>1, KeptStep
    <3>2. CASE UNCHANGED projectsVars
      <4>1. Kept' <=> Kept
        BY <3>2 DEF projectsVars, Kept, RequestHolds, OfAProject, Holding, Apart, RowHolds, FolderFree, Live
      <4>. QED  BY <3>2, <4>1 DEF projectsVars, ProjectsInv
    <3>. QED  BY <3>1, <3>2
  <2>. QED  BY <2>1, ProjectsTypes DEF ProjectsInv
<1>. QED  BY <1>1, ProjectsInvInit, PTL DEF ProjectsSpec

(* Projects never share a folder, and the env last saved for one is the one in its folder, unless *)
(* a folder was found free while a request for another project was at work on it, or a project    *)
(* was moved under the save of its env.                                                          *)
THEOREM FoldersStayKept == ProjectsSpec => []FoldersAreKept
<1>1. ProjectsInv => FoldersAreKept
  <2> SUFFICES ASSUME ProjectsInv, clashed = FALSE PROVE FoldersAreKept
    BY DEF ProjectsInv, ProjectsTypeOK, FoldersAreKept
  <2>1. \A p \in Live : p \in 1..MaxProject /\ RowHolds(p)
    BY DEF ProjectsInv, Kept, Live
  <2>. QED  BY <2>1 DEF RowHolds, FolderFree, FoldersAreKept
<1>. QED  BY <1>1, ProjectsInvariant, PTL

-----------------------------------------------------------------------------
(* ComposePorts *)

(* Nobody has a port that somebody else has. *)
PortsApart ==
  /\ \A n \in ComposeName : listening \cap Runs(n) = {}
  /\ \A n, m \in ComposeName : n # m => Runs(n) \cap Runs(m) = {}

(* The list of containers that is kept: every port in use is in it, for the one who has it, or came since. *)
ListSound ==
  listed.kept =>
    /\ listening \subseteq listed.others \cup listed.came
    /\ \A n \in ComposeName : Runs(n) \subseteq listed.rows[n] \cup listed.came
         /\ listed.rows[n] \cap listed.others = {}
    /\ \A n, m \in ComposeName : n # m => listed.rows[n] \cap listed.rows[m] = {}

(* A check c under way, where others have the ports o and the containers of its name the ports w: those *)
(* were so when the containers were listed, or came since; a port of others is on the list it compares  *)
(* with, or a TCP port that it does not ignore, or one it cannot see.  When it is accepted on a host it *)
(* sees, only what came since or what it cannot see may be taken.                                       *)
CheckFits(c, o, w) ==
  /\ c.at \in {"lsof", "accepted"} =>
       /\ o \subseteq c.others \cup c.came /\ w \subseteq c.ignored \cup c.unknown \cup c.came
       /\ c.used \subseteq c.others \cup c.unknown
       /\ \A k \in c.others : k \in c.used \/ k \in c.unseen \/ (k[1] = "tcp" /\ k \notin c.ignored)
  /\ c.at = "accepted" /\ c.lsof = "host" =>
       \A k \in extractPublishedComposePorts(c.file) \cap o : k \in c.came \/ k \in c.unseen
  /\ c.at = "refused" => \/ Repeated(c.file)
                         \/ extractPublishedComposePorts(c.file) \cap (c.others \cup c.came \cup c.unknown) # {}
                         \/ c.lsof = "own" /\ extractPublishedComposePorts(c.file) \cap Inside # {}
  /\ c.at = "failed" => Unchecked(c) \/ Binds(c.file) \cap (c.came \cup c.unseen) # {}

CheckOf(d) == CheckFits(checks[d], Others(checks[d].file.name), Runs(checks[d].file.name))
PortsInv == PortsTypeOK /\ PortsApart /\ ListSound /\ \A d \in Deployer : CheckOf(d)

(* The check b is the check c, some ports K having come since; it may have ended well. *)
CheckGrows(c, b, K) ==
  /\ b.at \in {c.at, "up"} /\ b.came = c.came \cup K
  /\ b.file = c.file /\ b.used = c.used /\ b.ignored = c.ignored /\ b.others = c.others /\ b.lsof = c.lsof
       /\ b.unseen = c.unseen /\ b.unknown = c.unknown

(* A check that fits goes on fitting while ports are taken that it remembers. *)
LEMMA GrownFits ==
  ASSUME NEW c, NEW b, NEW o, NEW p, NEW w, NEW v, NEW K,
         CheckFits(c, o, w), CheckGrows(c, b, K), p \subseteq o \cup K, v \subseteq w \cup K
  PROVE  CheckFits(b, p, v)
<1> DEFINE X == extractPublishedComposePorts(c.file)
           B == Binds(c.file)
<1>1. b.at \in {c.at, "up"} /\ b.came = c.came \cup K /\ b.file = c.file
      /\ b.used = c.used /\ b.ignored = c.ignored /\ b.others = c.others /\ b.lsof = c.lsof /\ b.unseen = c.unseen
           /\ b.unknown = c.unknown
  BY DEF CheckGrows
<1>2. Unchecked(b) <=> Unchecked(c)
  BY <1>1 DEF Unchecked
<1>3. CASE b.at = c.at
  <2>1. b.at \in {"lsof", "accepted"} =>
          /\ p \subseteq b.others \cup b.came /\ v \subseteq b.ignored \cup b.unknown \cup b.came
          /\ b.used \subseteq b.others \cup b.unknown
          /\ \A k \in b.others : k \in b.used \/ k \in b.unseen \/ (k[1] = "tcp" /\ k \notin b.ignored)
    BY <1>1, <1>3 DEF CheckFits
  <2>2. b.at = "accepted" /\ b.lsof = "host" => \A k \in X \cap p : k \in b.came \/ k \in b.unseen
    BY <1>1, <1>3 DEF CheckFits
  <2>3. b.at = "refused" => \/ Repeated(c.file) \/ X \cap (b.others \cup b.came \cup b.unknown) # {}
                            \/ b.lsof = "own" /\ X \cap Inside # {}
    BY <1>1, <1>3 DEF CheckFits
  <2>4. b.at = "failed" => Unchecked(c) \/ B \cap (b.came \cup b.unseen) # {}
    BY <1>1, <1>3 DEF CheckFits
  <2> QED
    BY <1>1, <1>2, <2>1, <2>2, <2>3, <2>4 DEF CheckFits
<1>4. CASE b.at = "up"
  BY <1>4 DEF CheckFits
<1> QED
  BY <1>1, <1>3, <1>4

(* Who has a port besides the containers of a name. *)
LEMMA OthersHave ==
  \A n, k : k \in Others(n) <=> k \in listening \/ \E m \in ComposeName : m # n /\ k \in Runs(m)
  BY DEF Others, RunBy

(* The ports of a file are a protocol and a number each. *)
LEMMA BindsKeys ==
  ASSUME NEW f \in Files
  PROVE  f.name \in ComposeName /\ Binds(f) \subseteq PortKey
<1>1. f.name \in ComposeName /\ f.ports \in Seq(ComposeEntry)
  BY PortsAssumption
<1> DEFINE ports == f.ports
<1>2. ASSUME NEW i \in DOMAIN ports PROVE {ports[i].protocol} \X (ports[i].lo..ports[i].hi) \subseteq PortKey
  <2>1. ports[i] \in ComposeEntry
    BY <1>1, <1>2
  <2>2. ports[i].protocol \in {"tcp", "udp"} /\ ports[i].lo \in Nat /\ ports[i].hi \in Nat
    BY <2>1 DEF ComposeEntry
  <2>3. ports[i].lo..ports[i].hi \subseteq Nat
    BY <2>2
  <2> QED
    BY <2>2, <2>3 DEF PortKey
<1> QED
  BY <1>1, <1>2 DEF Binds

(* Ports are taken: the list and every check remember them. *)
LEMMA TakesAll ==
  ASSUME NEW K \in SUBSET PortKey, NEW cs \in [Deployer -> PortsCheck], listed \in ContainerList, Takes(K, cs)
  PROVE  /\ checks' \in [Deployer -> PortsCheck]
         /\ \A e \in Deployer : /\ checks'[e].at = cs[e].at /\ checks'[e].came = cs[e].came \cup K
                                /\ checks'[e].file = cs[e].file /\ checks'[e].used = cs[e].used
                                /\ checks'[e].ignored = cs[e].ignored /\ checks'[e].others = cs[e].others
                                /\ checks'[e].lsof = cs[e].lsof /\ checks'[e].unseen = cs[e].unseen
                                     /\ checks'[e].unknown = cs[e].unknown
         /\ listed' \in ContainerList
         /\ listed'.kept = listed.kept /\ listed'.rows = listed.rows /\ listed'.others = listed.others
         /\ listed'.came = listed.came \cup K
<1>1. ASSUME NEW c \in PortsCheck, NEW b, b = [c EXCEPT !.came = c.came \cup K]
      PROVE  /\ b \in PortsCheck /\ b.at = c.at /\ b.came = c.came \cup K
             /\ b.file = c.file /\ b.used = c.used /\ b.ignored = c.ignored /\ b.others = c.others
                  /\ b.lsof = c.lsof /\ b.unseen = c.unseen /\ b.unknown = c.unknown
  BY <1>1 DEF PortsCheck
<1>2. checks' = [d \in Deployer |-> [cs[d] EXCEPT !.came = cs[d].came \cup K]]
  BY DEF Takes
<1>3. \A e \in Deployer : cs[e] \in PortsCheck /\ checks'[e] = [cs[e] EXCEPT !.came = cs[e].came \cup K]
  BY <1>2
<1>4. listed' = [listed EXCEPT !.came = listed.came \cup K]
  BY DEF Takes
<1>5. /\ listed' \in ContainerList
      /\ listed'.kept = listed.kept /\ listed'.rows = listed.rows /\ listed'.others = listed.others
      /\ listed'.came = listed.came \cup K
  BY <1>4 DEF ContainerList
<1>6. checks' \in [Deployer -> PortsCheck]
  BY <1>1, <1>2
<1> QED
  BY <1>1, <1>3, <1>5, <1>6

(* Ports K are taken, and others given up, by whomever. *)
LEMMA PortsChange ==
  ASSUME PortsInv, PortsTypeOK', PortsApart', NEW K,
         listening' \subseteq listening \cup K, \A n \in ComposeName : Runs(n)' \subseteq Runs(n) \cup K,
         listed'.kept = listed.kept, listed'.rows = listed.rows, listed'.others = listed.others,
         listed'.came = listed.came \cup K,
         \A e \in Deployer : CheckGrows(checks[e], checks'[e], K)
  PROVE  PortsInv'
<1>1. ListSound'
  BY DEF PortsInv, ListSound
<1>2. ASSUME NEW d \in Deployer PROVE CheckOf(d)'
  <2> DEFINE n == checks[d].file.name
  <2>0. checks'[d].file.name = n
    BY <1>2 DEF CheckGrows
  <2>a. n \in ComposeName
    <3>1. checks[d].file \in Files
      BY <1>2 DEF PortsInv, PortsTypeOK, PortsCheck
    <3> QED
      BY <3>1, BindsKeys
  <2>b. CheckFits(checks[d], Others(n), Runs(n))
    BY <1>2 DEF PortsInv, CheckOf
  <2> HIDE DEF n
  <2>c. PICK m \in ComposeName : m = n
    BY <2>a
  <2>1. \A k \in Others(m)' : k \in Others(m) \cup K
    <3> SUFFICES ASSUME NEW k \in Others(m)' PROVE k \in Others(m) \cup K
      OBVIOUS
    <3>1. k \in listening' \/ \E e \in ComposeName : e # m /\ k \in Runs(e)'
      BY OthersHave DEF Others, RunBy
    <3> QED
      BY <3>1, OthersHave
  <2>2. CheckFits(checks[d], Others(m), Runs(m))
    BY <2>b, <2>c
  <2>3. CheckFits(checks'[d], Others(m)', Runs(m)')
    BY <1>2, <2>1, <2>2, GrownFits
  <2> QED
    BY <2>0, <2>3, <2>c DEF CheckOf
<1> QED
  BY <1>1, <1>2 DEF PortsInv

(* A check goes on to a check b of the same file; ports may be given up meanwhile, and the list read anew. *)
LEMMA CheckGoesOn ==
  ASSUME PortsInv, PortsTypeOK', PortsApart', ListSound', NEW d \in Deployer, NEW b \in PortsCheck,
         checks' = [checks EXCEPT ![d] = b], listening' = listening,
         \A n \in ComposeName : Runs(n)' \subseteq Runs(n),
         CheckFits(b, Others(b.file.name), Runs(b.file.name))
  PROVE  PortsInv'
<1>1. \A e \in Deployer : checks'[e] = IF e = d THEN b ELSE checks[e]
  BY DEF PortsInv, PortsTypeOK
<1>2. ASSUME NEW e \in Deployer PROVE CheckOf(e)'
  <2> DEFINE n == (IF e = d THEN b ELSE checks[e]).file.name
  <2>a. n \in ComposeName
    <3>1. (IF e = d THEN b ELSE checks[e]).file \in Files
      BY <1>2 DEF PortsInv, PortsTypeOK, PortsCheck
    <3> QED
      BY <3>1, BindsKeys
  <2>b. checks'[e].file.name = n
    BY <1>1
  <2>c. CheckFits(checks'[e], Others(n), Runs(n))
    BY <1>1 DEF PortsInv, CheckOf
  <2> HIDE DEF n
  <2>d. PICK m \in ComposeName : m = n
    BY <2>a
  <2>1. Others(m)' \subseteq Others(m) \cup {} /\ Runs(m)' \subseteq Runs(m) \cup {}
    BY DEF Others, RunBy
  <2>2. CheckFits(checks'[e], Others(m), Runs(m))
    BY <2>c, <2>d
  <2>3. checks'[e].came = checks'[e].came \cup {}
    OBVIOUS
  <2>4. CheckGrows(checks'[e], checks'[e], {})
    BY <2>3 DEF CheckGrows
  <2>5. CheckFits(checks'[e], Others(m)', Runs(m)')
    BY <2>1, <2>2, <2>4, GrownFits
  <2> QED
    BY <2>b, <2>d, <2>5 DEF CheckOf
<1> QED
  BY <1>2 DEF PortsInv

(* The starting state is sound. *)
LEMMA PortsInvInit == PortsInit => PortsInv
<1> SUFFICES ASSUME PortsInit PROVE PortsInv
  OBVIOUS
<1>1. NotComposed \in Composition /\ NotComposed.running = FALSE
  BY DEF NotComposed, Composition
<1>2. NotListed \in ContainerList /\ NotListed.kept = FALSE
  BY DEF NotListed, ContainerList
<1>3. (CHOOSE f \in Files : TRUE) \in Files
  BY PortsAssumption
<1>4. NoCheck \in PortsCheck /\ NoCheck.at = "idle"
  BY <1>3 DEF NoCheck, PortsCheck
<1>5. (\A n \in ComposeName : composed[n] = NotComposed) /\ (\A d \in Deployer : checks[d] = NoCheck)
  BY DEF PortsInit
<1>6. 0 \in 0..MaxComings
  BY PortsAssumption
<1>7. PortsTypeOK
  BY <1>1, <1>2, <1>4, <1>6 DEF PortsInit, PortsTypeOK
<1>8. \A n \in ComposeName : Runs(n) = {}
  BY <1>1, <1>5 DEF Runs
<1>9. PortsApart
  BY <1>8 DEF PortsApart
<1>10. ListSound
  BY <1>2 DEF PortsInit, ListSound
<1>11. \A d \in Deployer : CheckOf(d)
  BY <1>4, <1>5 DEF CheckFits, CheckOf
<1> QED
  BY <1>7, <1>9, <1>10, <1>11 DEF PortsInv

(* What is on the list that is read, new or kept, accounts for every port in use. *)
LEMMA RefreshedSound ==
  ASSUME PortsTypeOK, PortsApart, ListSound, listed' = Refreshed, UNCHANGED <<composed, listening>>
  PROVE  ListSound' /\ Refreshed \in ContainerList /\ Refreshed.kept
<1>1. \A n \in ComposeName : Runs(n)' = Runs(n) /\ Runs(n) \in SUBSET PortKey
  BY DEF Runs, PortsTypeOK, Composition
<1>2. CASE listed.kept
  <2>1. Refreshed = listed
    BY <1>2 DEF Refreshed
  <2> QED
    BY <1>1, <1>2, <2>1 DEF ListSound, PortsTypeOK
<1>3. CASE ~listed.kept
  <2> DEFINE l == [kept |-> TRUE, rows |-> [n \in ComposeName |-> Runs(n)], others |-> listening, came |-> {}]
  <2>1. Refreshed = l
    BY <1>3 DEF Refreshed
  <2>2. l.kept = TRUE /\ l.rows = [n \in ComposeName |-> Runs(n)] /\ l.others = listening /\ l.came = {}
    OBVIOUS
  <2>3. l \in ContainerList
    BY <1>1 DEF ContainerList, PortsTypeOK
  <2> HIDE DEF l
  <2>4. \A n \in ComposeName : l.rows[n] = Runs(n)
    BY <2>2
  <2>5. ListSound'
    BY <1>1, <2>1, <2>2, <2>4 DEF ListSound, PortsApart
  <2> QED
    BY <2>1, <2>2, <2>3, <2>5
<1> QED
  BY <1>2, <1>3

(* The ports seen of a container are its own. *)
LEMMA SeenKeys == \A keys : Seen(keys) \subseteq keys
BY DEF Seen

(* The check reads the list. *)
LEMMA ListedFits ==
  ASSUME PortsTypeOK, NEW l \in ContainerList, l.kept, NEW d \in Deployer, NEW b \in PortsCheck,
         NEW n \in ComposeName, b.file.name = n,
         listening \subseteq l.others \cup l.came,
         \A m \in ComposeName : Runs(m) \subseteq l.rows[m] \cup l.came /\ l.rows[m] \cap l.others = {},
         \A m, q \in ComposeName : m # q => l.rows[m] \cap l.rows[q] = {},
         b.at = "lsof", b.used = UNION {Seen(l.rows[m]) : m \in ComposeName \ {folderName[d]}},
         b.ignored = Seen(l.rows[folderName[d]]),
         b.others = UsedBy(l.rows, ComposeName \ {n}) \cup l.others,
         b.unseen = HiddenUdp(l) \cup (IF n = folderName[d] THEN {} ELSE l.rows[folderName[d]]),
         b.unknown = (IF n = folderName[d] THEN l.rows[n] \ Seen(l.rows[n]) ELSE l.rows[n]), b.came = l.came
  PROVE  CheckFits(b, Others(n), Runs(n))
<1> DEFINE own == folderName[d]
<1>0. own \in ComposeName
  BY PortsAssumption
<1>1. \A k : k \in b.others <=> k \in l.others \/ \E m \in ComposeName : m # n /\ k \in l.rows[m]
  BY DEF UsedBy
<1>2. \A k : k \in b.used <=> \E m \in ComposeName : m # own /\ k \in Seen(l.rows[m])
  OBVIOUS
<1>3. Others(n) \subseteq b.others \cup b.came
  BY <1>1, OthersHave
<1>4. Runs(n) \subseteq b.ignored \cup b.unknown \cup b.came
  <2>1. Runs(n) \subseteq l.rows[n] \cup l.came
    OBVIOUS
  <2> QED
    BY <2>1
<1>5. b.used \subseteq b.others \cup b.unknown
  <2> SUFFICES ASSUME NEW k \in b.used PROVE k \in b.others \cup b.unknown
    OBVIOUS
  <2>1. PICK m \in ComposeName : m # own /\ k \in Seen(l.rows[m])
    BY <1>2
  <2>2. k \in l.rows[m]
    BY <2>1, SeenKeys
  <2>3. CASE m = n
    BY <2>1, <2>2, <2>3
  <2>4. CASE m # n
    BY <1>1, <2>2, <2>4
  <2> QED
    BY <2>3, <2>4
<1>6. ASSUME NEW k \in b.others PROVE k \in b.used \/ k \in b.unseen \/ (k[1] = "tcp" /\ k \notin b.ignored)
  <2>0. k \in PortKey
    BY <1>6 DEF PortsCheck
  <2>1. k[1] = "tcp" \/ k[1] = "udp"
    BY <2>0 DEF PortKey
  <2>2. b.ignored \subseteq l.rows[own]
    BY SeenKeys
  <2>3. CASE k \in l.others
    <3>1. k \notin b.ignored
      BY <1>0, <2>2, <2>3
    <3>2. k[1] = "udp" => k \in HiddenUdp(l)
      BY <2>3 DEF HiddenUdp
    <3> QED
      BY <2>1, <3>1, <3>2
  <2>4. CASE k \notin l.others
    <3>1. PICK m \in ComposeName : m # n /\ k \in l.rows[m]
      BY <1>1, <1>6, <2>4
    <3>2. CASE m = own
      BY <3>1, <3>2
    <3>3. CASE m # own
      <4>1. k \notin l.rows[own]
        BY <1>0, <3>1, <3>3
      <4>2. CASE k \in Seen(l.rows[m])
        BY <1>2, <3>3, <4>2
      <4>3. CASE k \notin Seen(l.rows[m])
        <5>1. k[1] = "udp" => k \in HiddenUdp(l)
          BY <3>1, <4>3 DEF HiddenUdp
        <5>2. k \notin b.ignored
          BY <2>2, <4>1
        <5> QED
          BY <2>1, <5>1, <5>2
      <4> QED
        BY <4>2, <4>3
    <3> QED
      BY <3>2, <3>3
  <2> QED
    BY <2>3, <2>4
<1> QED
  BY <1>3, <1>4, <1>5, <1>6 DEF CheckFits

(* The listening processes have been read: the check is refused for a cause, or accepted. *)
LEMMA AssertedFits ==
  ASSUME PortsTypeOK, NEW n \in ComposeName, NEW c \in PortsCheck, CheckFits(c, Others(n), Runs(n)), c.at = "lsof",
         NEW lsof \in {"host", "own", "none"}, NEW b \in PortsCheck,
         b.at = (IF Conflicts(c, TcpPorts(lsof)) THEN "refused" ELSE "accepted"), b.lsof = lsof,
         b.file = c.file, b.used = c.used, b.ignored = c.ignored, b.others = c.others, b.came = c.came,
         b.unseen = c.unseen, b.unknown = c.unknown
  PROVE  CheckFits(b, Others(n), Runs(n))
<1> DEFINE X == extractPublishedComposePorts(c.file)
           keys == TcpPorts(lsof)
<1>1. /\ Others(n) \subseteq c.others \cup c.came /\ Runs(n) \subseteq c.ignored \cup c.unknown \cup c.came
      /\ c.used \subseteq c.others \cup c.unknown
      /\ \A k \in c.others : k \in c.used \/ k \in c.unseen \/ (k[1] = "tcp" /\ k \notin c.ignored)
  BY DEF CheckFits
<1>2. \A k \in TcpPorts("host") : k \in Others(n) \cup Runs(n)
  BY OthersHave DEF TcpPorts, RunBy
<1>3. CASE Conflicts(c, keys)
  <2>1. Repeated(c.file) \/ X \cap (c.used \cup (keys \ c.ignored)) # {}
    BY <1>3 DEF Conflicts
  <2>2. b.at = "refused"
    BY <1>3
  <2>3. Repeated(c.file) \/ X \cap (c.others \cup c.came \cup c.unknown) # {} \/ (lsof = "own" /\ X \cap Inside # {})
    <3>1. CASE lsof = "host"
      BY <1>1, <1>2, <2>1, <3>1
    <3>2. CASE lsof = "own"
      BY <1>1, <2>1, <3>2 DEF TcpPorts
    <3>3. CASE lsof = "none"
      BY <1>1, <2>1, <3>3 DEF TcpPorts
    <3> QED
      BY <3>1, <3>2, <3>3
  <2> QED
    BY <2>2, <2>3 DEF CheckFits
<1>4. CASE ~Conflicts(c, keys)
  <2>1. X \cap (c.used \cup (keys \ c.ignored)) = {} /\ b.at = "accepted"
    BY <1>4 DEF Conflicts
  <2>2. ASSUME lsof = "host", NEW k \in X, k \in Others(n), k \notin c.came PROVE k \in c.unseen
    <3>1. k \in c.others /\ k \notin c.used
      BY <1>1, <2>1, <2>2
    <3>2. k \in c.unseen \/ (k[1] = "tcp" /\ k \notin c.ignored)
      BY <1>1, <3>1
    <3>3. k \in listening \cup RunBy(ComposeName)
      BY <2>2, OthersHave DEF RunBy
    <3>4. k[1] = "tcp" => k \in TcpPorts("host")
      BY <3>3 DEF TcpPorts
    <3> QED
      BY <2>1, <2>2, <3>2, <3>4
  <2> QED
    BY <1>1, <2>1, <2>2 DEF CheckFits
<1> QED
  BY <1>3, <1>4

(* Docker found a port taken. *)
LEMMA FailedFits ==
  ASSUME NEW c \in PortsCheck, NEW o, NEW w, CheckFits(c, o, w), c.at = "accepted", Binds(c.file) \cap o # {},
         NEW b, b.at = "failed", b.file = c.file, b.came = c.came, b.others = c.others, b.lsof = c.lsof,
         b.unseen = c.unseen, b.unknown = c.unknown
  PROVE  CheckFits(b, o, w)
<1> DEFINE X == extractPublishedComposePorts(c.file)
           B == Binds(c.file)
<1>1. Unchecked(b) <=> Unchecked(c)
  BY DEF Unchecked
<1>2. ASSUME ~Unchecked(c) PROVE B \cap (c.came \cup c.unseen) # {}
  <2>1. c.lsof = "host" /\ B \subseteq X
    BY <1>2 DEF Unchecked
  <2>2. PICK k \in B : k \in o
    OBVIOUS
  <2>3. k \in c.came \/ k \in c.unseen
    BY <2>1, <2>2 DEF CheckFits
  <2> QED
    BY <2>2, <2>3
<1> QED
  BY <1>1, <1>2 DEF CheckFits

(* Containers that stop have no port any more. *)
LEMMA StoppedRuns ==
  ASSUME composed \in [ComposeName -> Composition], NEW n \in ComposeName,
         composed' = [composed EXCEPT ![n].running = FALSE]
  PROVE  composed' \in [ComposeName -> Composition] /\ \A e \in ComposeName : Runs(e)' \subseteq Runs(e)
<1> DEFINE h == [composed[n] EXCEPT !.running = FALSE]
<1>1. h \in Composition /\ h.running = FALSE
  BY DEF Composition
<1>2. composed' = [composed EXCEPT ![n] = h]
  OBVIOUS
<1> HIDE DEF h
<1>3. \A e \in ComposeName : composed'[e] = IF e = n THEN h ELSE composed[e]
  BY <1>2
<1> QED
  BY <1>1, <1>2, <1>3 DEF Runs

(* Containers come up with ports that nobody else has. *)
LEMMA ContainersComeUp ==
  ASSUME PortsInv, NEW n \in ComposeName, NEW K \in SUBSET PortKey, NEW h \in Composition, h.keys = K,
           h.running = TRUE,
         K \cap Others(n) = {}, composed' = [composed EXCEPT ![n] = h], listening' = listening,
         comings' \in 0..MaxComings, checks' \in [Deployer -> PortsCheck], listed' \in ContainerList,
         listed'.kept = listed.kept, listed'.rows = listed.rows, listed'.others = listed.others,
         listed'.came = listed.came \cup K,
         \A e \in Deployer : CheckGrows(checks[e], checks'[e], K)
  PROVE  PortsInv'
<1>1. composed' \in [ComposeName -> Composition] /\ \A e \in ComposeName : composed'[e] = IF e = n THEN h
        ELSE composed[e]
  BY DEF PortsInv, PortsTypeOK
<1>2. \A e \in ComposeName : Runs(e)' = IF e = n THEN K ELSE Runs(e)
  BY <1>1 DEF Runs
<1>3. PortsTypeOK'
  BY <1>1 DEF PortsInv, PortsTypeOK
<1>4. PortsApart'
  BY <1>2, OthersHave DEF PortsInv, PortsApart
<1>5. \A e \in ComposeName : Runs(e)' \subseteq Runs(e) \cup K
  BY <1>2
<1> QED
  BY <1>3, <1>4, <1>5, PortsChange

(* Every step keeps the invariant of the ports. *)
LEMMA PortsInvStep == PortsInv /\ [PortsNext]_portsVars => PortsInv'
<1> SUFFICES ASSUME PortsInv, [PortsNext]_portsVars PROVE PortsInv'
  OBVIOUS
<1>0. PortsTypeOK /\ PortsApart /\ ListSound /\ \A d \in Deployer : CheckOf(d)
  BY DEF PortsInv
<1>a. (\A d \in Deployer : checks[d] \in PortsCheck) /\ (\A n \in ComposeName : composed[n] \in Composition)
  BY <1>0 DEF PortsTypeOK
<1>f. \A d \in Deployer : checks[d].file \in Files /\ checks[d].file.name \in ComposeName
  BY <1>a, BindsKeys DEF PortsCheck
<1>g. \A d \in Deployer : CheckFits(checks[d], Others(checks[d].file.name), Runs(checks[d].file.name))
  BY <1>0 DEF CheckOf
<1>b. ASSUME Comes PROVE comings' \in 0..MaxComings
  <2>1. comings \in 0..MaxComings
    BY <1>0 DEF PortsTypeOK
  <2>2. comings < MaxComings /\ comings' = comings + 1
    BY <1>b DEF Comes
  <2> QED
    BY <2>1, <2>2, PortsAssumption
<1>c. ASSUME NEW K \in SUBSET PortKey, Takes(K, checks)
      PROVE  /\ checks' \in [Deployer -> PortsCheck] /\ listed' \in ContainerList
             /\ listed'.kept = listed.kept /\ listed'.rows = listed.rows /\ listed'.others = listed.others
             /\ listed'.came = listed.came \cup K
             /\ \A e \in Deployer : CheckGrows(checks[e], checks'[e], K)
  <2>1. checks \in [Deployer -> PortsCheck] /\ listed \in ContainerList
    BY <1>0 DEF PortsTypeOK
  <2>2. /\ checks' \in [Deployer -> PortsCheck] /\ listed' \in ContainerList
        /\ listed'.kept = listed.kept /\ listed'.rows = listed.rows /\ listed'.others = listed.others
        /\ listed'.came = listed.came \cup K
    BY <1>c, <2>1, TakesAll
  <2>3. \A e \in Deployer : /\ checks'[e].at = checks[e].at /\ checks'[e].came = checks[e].came \cup K
                            /\ checks'[e].file = checks[e].file /\ checks'[e].used = checks[e].used
                            /\ checks'[e].ignored = checks[e].ignored /\ checks'[e].others = checks[e].others
                            /\ checks'[e].lsof = checks[e].lsof /\ checks'[e].unseen = checks[e].unseen
                                 /\ checks'[e].unknown = checks[e].unknown
    BY <1>c, <2>1, TakesAll
  <2>4. \A e \in Deployer : CheckGrows(checks[e], checks'[e], K)
    BY <2>3 DEF CheckGrows
  <2> QED
    BY <2>2, <2>4
<1>d. ASSUME UNCHANGED <<listed, checks>>
      PROVE  /\ listed'.kept = listed.kept /\ listed'.rows = listed.rows /\ listed'.others = listed.others
             /\ listed'.came = listed.came \cup {}
             /\ \A e \in Deployer : CheckGrows(checks[e], checks'[e], {})
  BY <1>d DEF CheckGrows
<1>e. ASSUME UNCHANGED composed PROVE \A e \in ComposeName : Runs(e)' = Runs(e)
  BY <1>e DEF Runs
<1>1. ASSUME NEW k \in {"tcp", "udp"} \X HostPorts, Listen(k) PROVE PortsInv'
  <2>1. Comes /\ k \notin listening \cup RunBy(ComposeName) /\ listening' = listening \cup {k}
        /\ Takes({k}, checks) /\ UNCHANGED composed
    BY <1>1 DEF Listen
  <2>2. {k} \in SUBSET PortKey
    BY PortsAssumption DEF PortKey
  <2>3. PortsTypeOK'
    BY <1>0, <1>b, <1>c, <2>1, <2>2 DEF PortsTypeOK
  <2>4. PortsApart'
    BY <1>0, <1>e, <2>1 DEF PortsApart, RunBy
  <2> QED
    BY <1>c, <1>e, <2>1, <2>2, <2>3, <2>4, PortsChange
<1>2. ASSUME NEW k \in {"tcp", "udp"} \X HostPorts, StopListening(k) PROVE PortsInv'
  <2>1. listening' = listening \ {k} /\ UNCHANGED <<composed, listed, checks, comings>>
    BY <1>2 DEF StopListening
  <2>2. PortsTypeOK'
    BY <1>0, <2>1 DEF PortsTypeOK
  <2>3. PortsApart'
    BY <1>0, <1>e, <2>1 DEF PortsApart
  <2> QED
    BY <1>d, <1>e, <2>1, <2>2, <2>3, PortsChange
<1>3. CASE ListExpires
  <2>1. listed' = NotListed /\ UNCHANGED <<composed, listening, checks, comings>>
    BY <1>3 DEF ListExpires
  <2>2. NotListed \in ContainerList /\ ~NotListed.kept
    BY DEF NotListed, ContainerList
  <2>3. PortsTypeOK' /\ PortsApart' /\ ListSound'
    BY <1>0, <1>e, <2>1, <2>2 DEF PortsTypeOK, PortsApart, ListSound
  <2>4. \A d \in Deployer : CheckOf(d)'
    <3>1. UNCHANGED <<composed, listening, checks>>
      BY <2>1
    <3> QED
      BY <1>0, <3>1 DEF CheckOf, Others, RunBy, Runs
  <2> QED
    BY <2>3, <2>4 DEF PortsInv
<1>4. ASSUME NEW n \in ComposeName, ContainersStop(n) PROVE PortsInv'
  <2>1. composed' = [composed EXCEPT ![n].running = FALSE] /\ UNCHANGED <<listening, listed, checks, comings>>
    BY <1>4 DEF ContainersStop
  <2>2. composed' \in [ComposeName -> Composition] /\ \A e \in ComposeName : Runs(e)' \subseteq Runs(e)
    BY <1>0, <2>1, StoppedRuns DEF PortsTypeOK
  <2>3. PortsTypeOK'
    BY <1>0, <2>1, <2>2 DEF PortsTypeOK
  <2>4. PortsApart'
    BY <1>0, <2>1, <2>2 DEF PortsApart
  <2> QED
    BY <1>d, <2>1, <2>2, <2>3, <2>4, PortsChange
<1>5. ASSUME NEW n \in ComposeName, ContainersReturn(n) PROVE PortsInv'
  <2> DEFINE K == composed[n].keys
             h == [composed[n] EXCEPT !.running = TRUE]
  <2>1. Comes /\ K \cap Others(n) = {} /\ composed' = [composed EXCEPT ![n] = h]
        /\ Takes(K, checks) /\ listening' = listening
    BY <1>5 DEF ContainersReturn
  <2>2. K \in SUBSET PortKey /\ h \in Composition /\ h.keys = K /\ h.running = TRUE
    BY <1>a DEF Composition
  <2> HIDE DEF K, h
  <2> QED
    BY <1>0, <1>b, <1>c, <2>1, <2>2, ContainersComeUp DEF PortsTypeOK
<1>6. ASSUME NEW d \in Deployer, BeginCheck(d) PROVE PortsInv'
  <2>1. PICK f \in Files : checks' = [checks EXCEPT ![d] = [NoCheck EXCEPT !.at = "list", !.file = f]]
    BY <1>6 DEF BeginCheck
  <2> DEFINE b == [NoCheck EXCEPT !.at = "list", !.file = f]
  <2>3. b \in PortsCheck /\ b.at = "list"
    BY DEF PortsCheck, NoCheck
  <2> HIDE DEF b
  <2>4. Comes /\ UNCHANGED <<composed, listening, listed>> /\ checks' = [checks EXCEPT ![d] = b]
    BY <1>6, <2>1 DEF BeginCheck, b
  <2>5. PortsTypeOK'
    BY <1>0, <1>b, <2>3, <2>4 DEF PortsTypeOK
  <2>6. PortsApart' /\ ListSound'
    BY <1>0, <1>e, <2>4 DEF PortsApart, ListSound
  <2>7. CheckFits(b, Others(b.file.name), Runs(b.file.name))
    BY <2>3 DEF CheckFits
  <2> QED
    BY <1>e, <2>3, <2>4, <2>5, <2>6, <2>7, CheckGoesOn
<1>7. ASSUME NEW d \in Deployer, ListContainers(d) PROVE PortsInv'
  <2>0. PICK n \in ComposeName : n = checks[d].file.name
    BY <1>f
  <2> DEFINE l == Refreshed
             used == UNION {Seen(l.rows[m]) : m \in ComposeName \ {folderName[d]}}
             ignored == Seen(l.rows[folderName[d]])
             others == UsedBy(l.rows, ComposeName \ {n}) \cup l.others
             unseen == HiddenUdp(l) \cup (IF n = folderName[d] THEN {} ELSE l.rows[folderName[d]])
             unknown == IF n = folderName[d] THEN l.rows[n] \ Seen(l.rows[n]) ELSE l.rows[n]
             b == [checks[d] EXCEPT !.at = "lsof", !.used = used, !.ignored = ignored, !.others = others,
                                    !.unseen = unseen, !.unknown = unknown, !.came = l.came]
  <2>1. listed' = l /\ checks' = [checks EXCEPT ![d] = b] /\ UNCHANGED <<composed, listening, comings>>
    BY <1>7, <2>0 DEF ListContainers, Ignored, Recognised
  <2>2. ListSound' /\ l \in ContainerList /\ l.kept
    BY <1>0, <2>1, RefreshedSound
  <2> HIDE DEF l
  <2>3. \A m \in ComposeName : l.rows[m] \in SUBSET PortKey /\ Seen(l.rows[m]) \in SUBSET PortKey
    BY <2>2, SeenKeys DEF ContainerList
  <2>4. l.others \in SUBSET PortKey /\ l.came \in SUBSET PortKey /\ folderName[d] \in ComposeName
    BY <2>2, PortsAssumption DEF ContainerList
  <2>5. /\ used \in SUBSET PortKey /\ ignored \in SUBSET PortKey /\ others \in SUBSET PortKey
        /\ unseen \in SUBSET PortKey /\ unknown \in SUBSET PortKey
    BY <2>3, <2>4 DEF UsedBy, HiddenUdp
  <2>a. /\ used = UNION {Seen(l.rows[m]) : m \in ComposeName \ {folderName[d]}}
        /\ ignored = Seen(l.rows[folderName[d]])
        /\ others = UsedBy(l.rows, ComposeName \ {n}) \cup l.others
        /\ unseen = HiddenUdp(l) \cup (IF n = folderName[d] THEN {} ELSE l.rows[folderName[d]])
        /\ unknown = (IF n = folderName[d] THEN l.rows[n] \ Seen(l.rows[n]) ELSE l.rows[n])
    OBVIOUS
  <2> HIDE DEF used, ignored, others, unseen, unknown
  <2>6. b \in PortsCheck /\ b.at = "lsof" /\ b.used = used /\ b.ignored = ignored /\ b.file = checks[d].file
        /\ b.others = others /\ b.unseen = unseen /\ b.unknown = unknown /\ b.came = l.came
    BY <1>a, <2>4, <2>5 DEF PortsCheck
  <2> HIDE DEF b
  <2>7. CheckFits(b, Others(n), Runs(n))
    <3>1. /\ listening \subseteq l.others \cup l.came
          /\ \A m \in ComposeName : Runs(m) \subseteq l.rows[m] \cup l.came /\ l.rows[m] \cap l.others = {}
          /\ \A m, q \in ComposeName : m # q => l.rows[m] \cap l.rows[q] = {}
      BY <1>e, <2>1, <2>2 DEF ListSound
    <3>2. b.file.name = n /\ b.used = UNION {Seen(l.rows[m]) : m \in ComposeName \ {folderName[d]}}
          /\ b.ignored = Seen(l.rows[folderName[d]])
          /\ b.others = UsedBy(l.rows, ComposeName \ {n}) \cup l.others
          /\ b.unseen = HiddenUdp(l) \cup (IF n = folderName[d] THEN {} ELSE l.rows[folderName[d]])
          /\ b.unknown = (IF n = folderName[d] THEN l.rows[n] \ Seen(l.rows[n]) ELSE l.rows[n])
      BY <2>0, <2>6, <2>a
    <3> QED
      BY <1>0, <2>2, <2>6, <3>1, <3>2, ListedFits
  <2>8. PortsTypeOK'
    BY <1>0, <2>1, <2>2, <2>6 DEF PortsTypeOK
  <2>9. PortsApart'
    BY <1>0, <1>e, <2>1 DEF PortsApart
  <2>10. CheckFits(b, Others(b.file.name), Runs(b.file.name))
    BY <2>0, <2>6, <2>7
  <2> QED
    BY <1>e, <2>1, <2>2, <2>6, <2>10, <2>8, <2>9, CheckGoesOn
<1>8. ASSUME NEW d \in Deployer, assertComposePortsAvailable(d) PROVE PortsInv'
  <2>0. PICK n \in ComposeName : n = checks[d].file.name
    BY <1>f
  <2>1. PICK lsof \in {"host", "own", "none"} :
          checks' = [checks EXCEPT ![d] = [checks[d] EXCEPT
                       !.lsof = lsof,
                       !.at = IF Conflicts(checks[d], TcpPorts(lsof)) THEN "refused" ELSE "accepted"]]
    BY <1>8 DEF assertComposePortsAvailable
  <2> DEFINE end == IF Conflicts(checks[d], TcpPorts(lsof)) THEN "refused" ELSE "accepted"
             b == [checks[d] EXCEPT !.lsof = lsof, !.at = end]
  <2>2. end \in {"refused", "accepted"} /\ checks' = [checks EXCEPT ![d] = b]
    BY <2>1
  <2>3. checks[d].at = "lsof" /\ UNCHANGED <<composed, listening, listed, comings>>
    BY <1>8 DEF assertComposePortsAvailable
  <2>4. end = (IF Conflicts(checks[d], TcpPorts(lsof)) THEN "refused" ELSE "accepted")
    OBVIOUS
  <2> HIDE DEF end
  <2>5. b \in PortsCheck /\ b.at = end /\ b.lsof = lsof
        /\ b.file = checks[d].file /\ b.used = checks[d].used /\ b.ignored = checks[d].ignored
        /\ b.others = checks[d].others /\ b.came = checks[d].came
        /\ b.unseen = checks[d].unseen /\ b.unknown = checks[d].unknown
    BY <1>a, <2>2 DEF PortsCheck
  <2> HIDE DEF b
  <2>a. CheckFits(checks[d], Others(n), Runs(n))
    BY <1>g, <2>0
  <2>6. CheckFits(b, Others(n), Runs(n))
    BY <1>0, <1>a, <2>3, <2>4, <2>5, <2>a, AssertedFits
  <2>b. CheckFits(b, Others(b.file.name), Runs(b.file.name))
    BY <2>0, <2>5, <2>6
  <2>7. PortsTypeOK'
    BY <1>0, <2>2, <2>3, <2>5 DEF PortsTypeOK
  <2>8. PortsApart' /\ ListSound'
    BY <1>0, <1>e, <2>3 DEF PortsApart, ListSound
  <2> QED
    BY <1>e, <2>2, <2>3, <2>5, <2>b, <2>7, <2>8, CheckGoesOn
<1>9. ASSUME NEW d \in Deployer, replaceComposeDeployment(d) PROVE PortsInv'
  <2>0. PICK n \in ComposeName : n = checks[d].file.name
    BY <1>f
  <2>1. checks[d].at = "accepted" /\ UNCHANGED <<listening, comings>>
    BY <1>9 DEF replaceComposeDeployment
  <2> DEFINE K == Binds(checks[d].file)
  <2>2. K \in SUBSET PortKey
    BY <1>f, BindsKeys
  <2>3. CASE /\ K \cap Others(n) = {}
             /\ composed' = [composed EXCEPT ![n] = [keys |-> K, running |-> TRUE]]
             /\ Takes(K, [checks EXCEPT ![d].at = "up"])
    <3> DEFINE h == [keys |-> K, running |-> TRUE]
               u == [checks[d] EXCEPT !.at = "up"]
               cs == [checks EXCEPT ![d] = u]
    <3> HIDE DEF K
    <3>1. h \in Composition /\ h.keys = K /\ h.running = TRUE
      BY <2>2 DEF Composition
    <3>2. u \in PortsCheck /\ u.at = "up" /\ u.came = checks[d].came /\ u.file = checks[d].file
          /\ u.used = checks[d].used /\ u.ignored = checks[d].ignored /\ u.others = checks[d].others
          /\ u.lsof = checks[d].lsof /\ u.unseen = checks[d].unseen /\ u.unknown = checks[d].unknown
      BY <1>a DEF PortsCheck
    <3>3. Takes(K, cs) /\ composed' = [composed EXCEPT ![n] = h]
      BY <2>3
    <3> HIDE DEF h, u
    <3>4. cs \in [Deployer -> PortsCheck] /\ \A e \in Deployer : cs[e] = IF e = d THEN u ELSE checks[e]
      BY <1>0, <3>2 DEF PortsTypeOK
    <3> HIDE DEF cs
    <3>5. listed \in ContainerList
      BY <1>0 DEF PortsTypeOK
    <3>6. /\ checks' \in [Deployer -> PortsCheck] /\ listed' \in ContainerList
          /\ listed'.kept = listed.kept /\ listed'.rows = listed.rows /\ listed'.others = listed.others
          /\ listed'.came = listed.came \cup K
      BY <2>2, <3>3, <3>4, <3>5, TakesAll
    <3>7. \A e \in Deployer : CheckGrows(checks[e], checks'[e], K)
      <4>1. \A e \in Deployer :
              /\ checks'[e].at = cs[e].at /\ checks'[e].came = cs[e].came \cup K
              /\ checks'[e].file = cs[e].file /\ checks'[e].used = cs[e].used
              /\ checks'[e].ignored = cs[e].ignored /\ checks'[e].others = cs[e].others
              /\ checks'[e].lsof = cs[e].lsof /\ checks'[e].unseen = cs[e].unseen
                   /\ checks'[e].unknown = cs[e].unknown
        BY <2>2, <3>3, <3>4, <3>5, TakesAll
      <4> QED
        BY <3>2, <3>4, <4>1 DEF CheckGrows
    <3>8. comings' \in 0..MaxComings
      BY <1>0, <2>1 DEF PortsTypeOK
    <3> QED
      BY <2>1, <2>2, <2>3, <3>1, <3>3, <3>6, <3>7, <3>8, ContainersComeUp
  <2>4. CASE /\ K \cap Others(n) # {}
             /\ composed' \in {composed, [composed EXCEPT ![n].running = FALSE]}
             /\ checks' = [checks EXCEPT ![d].at = "failed"]
             /\ UNCHANGED listed
    <3> DEFINE b == [checks[d] EXCEPT !.at = "failed"]
    <3>1. b \in PortsCheck /\ b.at = "failed" /\ b.came = checks[d].came /\ b.file = checks[d].file
          /\ b.others = checks[d].others /\ b.lsof = checks[d].lsof
          /\ b.unseen = checks[d].unseen /\ b.unknown = checks[d].unknown
      BY <1>a DEF PortsCheck
    <3>2. checks' = [checks EXCEPT ![d] = b]
      BY <2>4
    <3> HIDE DEF b
    <3>3. composed' \in [ComposeName -> Composition] /\ \A e \in ComposeName : Runs(e)' \subseteq Runs(e)
      <4>1. CASE composed' = composed
        BY <1>0, <1>e, <4>1 DEF PortsTypeOK
      <4>2. CASE composed' = [composed EXCEPT ![n].running = FALSE]
        BY <1>0, <4>2, StoppedRuns DEF PortsTypeOK
      <4> QED
        BY <2>4, <4>1, <4>2
    <3>a. CheckFits(checks[d], Others(n), Runs(n))
      BY <1>g, <2>0
    <3>4. CheckFits(b, Others(n), Runs(n))
      BY <1>a, <2>1, <2>4, <3>1, <3>a, FailedFits
    <3>b. CheckFits(b, Others(b.file.name), Runs(b.file.name))
      BY <2>0, <3>1, <3>4
    <3>5. PortsTypeOK'
      BY <1>0, <2>1, <2>4, <3>1, <3>2, <3>3 DEF PortsTypeOK
    <3>6. PortsApart'
      BY <1>0, <2>1, <3>3 DEF PortsApart
    <3>7. ListSound'
      BY <1>0, <2>1, <2>4, <3>3 DEF ListSound
    <3> QED
      BY <2>1, <3>1, <3>2, <3>3, <3>b, <3>5, <3>6, <3>7, CheckGoesOn
  <2> QED
    BY <1>9, <2>0, <2>3, <2>4 DEF replaceComposeDeployment
<1>10. CASE UNCHANGED portsVars
  <2>1. UNCHANGED <<listed, checks>> /\ UNCHANGED composed /\ listening' = listening /\ PortsTypeOK'
    BY <1>0, <1>10 DEF portsVars, PortsTypeOK
  <2>2. PortsApart'
    BY <1>0, <1>e, <2>1 DEF PortsApart
  <2> QED
    BY <1>d, <1>e, <2>1, <2>2, PortsChange
<1> QED
  BY <1>1, <1>2, <1>3, <1>4, <1>5, <1>6, <1>7, <1>8, <1>9, <1>10 DEF PortsNext

(* The invariant of the ports holds in every state. *)
THEOREM PortsInvariant == PortsSpec => []PortsInv
<1> QED
  BY PortsInvInit, PortsInvStep, PTL DEF PortsSpec

(* A deployment is refused for a port that is taken, and fails after the check over one that came to *)
(* be used since or that the check cannot know of (compose.ts:170-212).                              *)
THEOREM PreflightIsSound == PortsSpec => []PreflightSound
<1>1. PortsInv => PreflightSound
  BY DEF PortsInv, CheckOf, CheckFits, PreflightSound, RefusedForCause, FailsForCause
<1> QED
  BY <1>1, PortsInvariant, PTL

-----------------------------------------------------------------------------
(* DeploymentOutput *)

(* s is a piece of the log that leads from item a to item b: in the order  *)
(* in which they were printed, a notice wherever some are missing, and to  *)
(* the last of them.                                                       *)
Chain(s, a, b) ==
  /\ s \in Seq(Int) /\ a <= b
  /\ s = << >> => a = b
  /\ s # << >> => s[Len(s)] = b
  /\ \A i \in 1..Len(s) : s[i] # Gap =>
       /\ a < s[i] /\ s[i] <= b
       /\ IF i = 1 THEN s[i] = a + 1
          ELSE s[i] = s[i - 1] + 1 \/ (s[i - 1] = Gap /\ \A j \in 1..(i - 1) : s[j] < s[i])

Before == {"off", "step"}
Within == {"header", "spawn", "command", "flush", "newline"}
Awaiting == {"header", "newline", "finish", "report", "mark"}
Reported == {"report", "unmarked", "mark", "dying", "over"}

(* The output a process has not handed over yet is the newest of it.       *)
PipeFits ==
  /\ Len(pipe) <= printed
  /\ \A i \in 1..Len(pipe) : pipe[i] = printed - Len(pipe) + i
  /\ place # "command" => prog.st = "none" /\ pipe = << >>

(* What the place in the runner's program says of its state.               *)
PlaceFits ==
  /\ place \in Within => step <= Len(Plan)
  /\ place = "command" => prog.st \in {"running", "exited"}
  /\ place \in Before \cup {"header", "spawn", "newline"} => ~failure
  /\ place \in Within \/ step > Len(Plan) => printed >= 1
  /\ Len(row.log) <= MaxLog

(* The runner awaits one call, the writer another, and an answered call is awaited. *)
CallsFit ==
  /\ \A c \in calls : c.st = "published" => c.by # "nobody"
  /\ \A c \in calls : c.by = "runner" => place \in Awaiting
  /\ \A c \in calls : c.by = "writer" => drains = 1
  /\ drains = 1 => place \in {"command", "flush"}
  /\ \A c, d \in calls : c.by = d.by /\ c.by # "nobody" => c = d

Going == place \in Before \cup Within /\ ~failure

(* As long as nothing has failed, the log, the call that is under way and  *)
(* what waits behind it make up all the output that was taken.             *)
GoingFits ==
  Going =>
    /\ \A c \in calls : c.by # "nobody" /\ c.sets = "none"
    /\ drains = 0 => pending = << >>
    /\ \E p, q \in 0..printed :
         /\ Chain(row.log, 0, p)
         /\ Chain(pending, q, printed - Len(pipe))
         /\ \A c \in calls : c.st = "sent" => Chain(c.adds, p, q)
         /\ (\A c \in calls : c.st # "sent") => p = q

Successful == row.status = "success" \/ \E c \in calls : c.sets = "success"

(* From the call that records the success on, nothing is added to the log  *)
(* but the message of the catch block, and that once.                      *)
SuccessFits ==
  Successful =>
    /\ place \in {"finish", "reconcile", "failed"} \cup Reported
    /\ \A c \in calls : c.adds \in {<< >>, <<Failure>>}
    /\ printed >= 1
    /\ Chain(Output(row.log), 0, printed)
    /\ place \notin Reported =>
         Chain(row.log, 0, printed) /\ \A c \in calls : c.adds = << >>
    /\ \A c \in calls : c.st = "sent" /\ c.adds = <<Failure>> =>
         /\ Chain(row.log, 0, printed)
         /\ \A d \in calls : d.st = "sent" /\ d.adds = <<Failure>> => d = c

OutputFits == OutputTypeOK /\ PipeFits /\ PlaceFits /\ CallsFit /\ GoingFits /\ SuccessFits

(* Nothing at all leads from an item to itself, an item from the one before it to it. *)
LEMMA ChainStarts ==
  ASSUME NEW a \in Nat
  PROVE  Chain(<< >>, a, a) /\ Chain(<<a + 1>>, a, a + 1)
BY DEF Chain, Gap

(* What is appended goes on where the log ends.                            *)
LEMMA ChainJoins ==
  ASSUME NEW a \in Nat, NEW b \in Nat, NEW c \in Nat, NEW s, NEW t, Chain(s, a, b), Chain(t, b, c)
  PROVE  Chain(s \o t, a, c)
<1> DEFINE u == s \o t
<1>1. s \in Seq(Int) /\ t \in Seq(Int) /\ Len(s) \in Nat /\ Len(t) \in Nat
  BY LenProperties DEF Chain
<1>2. /\ u \in Seq(Int) /\ Len(u) = Len(s) + Len(t)
      /\ \A i \in 1..Len(s) : u[i] = s[i]
      /\ \A i \in 1..Len(t) : u[i + Len(s)] = t[i]
      /\ \A i \in (Len(s) + 1)..Len(u) : u[i] = t[i - Len(s)]
      /\ \A i \in 1..Len(u) : u[i] \in Int
  BY <1>1
<1>3. s = << >> => Len(s) = 0 /\ u = t
  BY <1>1
<1>4. t = << >> => u = s
  BY <1>1
<1>5. CASE s = << >>
  BY <1>3, <1>5 DEF Chain
<1>6. CASE t = << >>
  BY <1>4, <1>6 DEF Chain
<1>7. CASE s # << >> /\ t # << >>
  <2>1. Len(s) > 0 /\ Len(t) > 0 /\ Len(s) \in Nat /\ Len(t) \in Nat
    BY <1>1, <1>7, EmptySeq
  <2>2. s[Len(s)] = b /\ t[Len(t)] = c /\ a <= b /\ b <= c
    BY <1>7 DEF Chain
  <2>3. /\ \A i \in 1..Len(s) : s[i] \in Int /\ (s[i] # 0 => a < s[i] /\ s[i] <= b)
        /\ \A i \in 1..Len(t) : t[i] \in Int /\ (t[i] # 0 => b < t[i] /\ t[i] <= c)
    BY <1>1, ElementOfSeq DEF Chain, Gap
  <2>4. /\ \A i \in 1..Len(s) : s[i] # 0 /\ i # 1 =>
              s[i] = s[i - 1] + 1 \/ (s[i - 1] = 0 /\ \A j \in 1..(i - 1) : s[j] < s[i])
        /\ \A i \in 1..Len(t) : t[i] # 0 /\ i # 1 =>
              t[i] = t[i - 1] + 1 \/ (t[i - 1] = 0 /\ \A j \in 1..(i - 1) : t[j] < t[i])
        /\ s[1] # 0 => s[1] = a + 1
        /\ t[1] # 0 => t[1] = b + 1
    BY <2>1 DEF Chain, Gap
  <2> DEFINE m == Len(s)
             n == Len(t)
  <2>5. m \in Nat /\ n \in Nat /\ m > 0 /\ n > 0 /\ Len(u) = m + n
    BY <1>2, <2>1
  <2>6. /\ \A i \in 1..m : u[i] = s[i]
        /\ \A i \in (m + 1)..(m + n) : u[i] = t[i - m]
        /\ u[m + n] = t[n]
    BY <1>2, <2>5
  <2>7. ASSUME NEW i \in 1..(m + n), u[i] # 0
        PROVE  /\ a < u[i] /\ u[i] <= c
               /\ i = 1 => u[i] = a + 1
               /\ i # 1 => u[i] = u[i - 1] + 1 \/ (u[i - 1] = 0 /\ \A j \in 1..(i - 1) : u[j] < u[i])
    <3> HIDE DEF m, n, u
    <3>1. CASE i <= m
      <4>1. i \in 1..m /\ u[i] = s[i]
        BY <2>5, <2>6, <3>1
      <4>2. s[i] # 0 /\ a < s[i] /\ s[i] <= c
        BY <2>2, <2>3, <2>7, <4>1 DEF m
      <4>3. \A j \in 1..(i - 1) : u[j] = s[j]
        BY <2>6, <4>1, <2>5
      <4>4. i # 1 => i - 1 \in 1..(i - 1)
        BY <4>1, <2>5
      <4>. QED  BY <2>4, <4>1, <4>2, <4>3, <4>4 DEF m
    <3>2. CASE i > m
      <4> DEFINE k == i - m
      <4>0. i \in (m + 1)..(m + n) /\ i # 1 /\ i - m \in 1..n /\ i = (i - m) + m
        BY <2>5, <3>2
      <4>1. k \in 1..n /\ u[i] = t[k] /\ i = k + m /\ i # 1
        BY <2>6, <4>0
      <4>2. t[k] # 0 /\ b < t[k] /\ t[k] <= c /\ t[k] \in Int
        BY <2>3, <2>7, <4>1 DEF n
      <4>3. ASSUME NEW j \in 1..m PROVE u[j] < t[k]
        <5>1. u[j] = s[j] /\ s[j] \in Int /\ (s[j] # 0 => s[j] <= b)
          BY <2>3, <2>6 DEF m
        <5> HIDE DEF k
        <5>. QED  BY <4>2, <5>1
      <4>4. CASE k = 1
        <5>1. t[k] = b + 1
          BY <2>4, <4>2, <4>4
        <5>3. i - 1 = m /\ m \in 1..m
          BY <2>5, <4>1, <4>4
        <5>2. u[i - 1] = b
          BY <2>2, <2>6, <5>3 DEF m
        <5>. QED  BY <2>2, <4>1, <4>2, <5>1, <5>2
      <4>5. CASE k # 1
        <5>0. ASSUME NEW j \in (m + 1)..(i - 1) PROVE u[j] = t[j - m] /\ j - m \in 1..(k - 1)
          <6>1. j \in (m + 1)..(m + n) /\ j - m \in 1..(k - 1)
            BY <2>5, <4>0
          <6>. QED  BY <2>6, <6>1
        <5>4. i - 1 \in (m + 1)..(i - 1) /\ (i - 1) - m = k - 1
          BY <2>5, <4>0, <4>5
        <5>1. u[i - 1] = t[k - 1] /\ \A j \in (m + 1)..(i - 1) : u[j] = t[j - m] /\ j - m \in 1..(k - 1)
          BY <5>0, <5>4
        <5>2. t[k] = t[k - 1] + 1 \/ (t[k - 1] = 0 /\ \A j \in 1..(k - 1) : t[j] < t[k])
          BY <2>4, <4>1, <4>2, <4>5 DEF n
        <5>3. \A j \in 1..(i - 1) : j \in 1..m \/ j \in (m + 1)..(i - 1)
          BY <2>5
        <5>. QED  BY <2>2, <4>1, <4>2, <4>3, <5>1, <5>2, <5>3
      <4>. QED  BY <4>4, <4>5
    <3>. QED  BY <2>5, <3>1, <3>2
  <2>8. u # << >> /\ u[Len(u)] = c
    BY <2>2, <2>5, <2>6, EmptySeq, <1>2
  <2>9. u \in Seq(Int) /\ a <= c /\ Len(u) = m + n
    BY <1>2, <2>2, <2>5
  <2> HIDE DEF m, n, u
  <2>. QED
    <3>1. Chain(u, a, c)
      BY <2>7, <2>8, <2>9 DEF Chain, Gap
    <3>. QED  BY <3>1 DEF u
<1>. QED  BY <1>5, <1>6, <1>7

(* A notice, and the last n items of a sequence.                           *)
LEMMA NoticeAndLast ==
  ASSUME NEW s \in Seq(Int), NEW n \in Nat, n < Len(s)
  PROVE  LET u == <<Gap>> \o LastOf(s, n)
         IN  /\ u \in Seq(Int) /\ Len(u) = n + 1 /\ u[1] = Gap
             /\ \A i \in 2..(n + 1) : u[i] = s[i + (Len(s) - n - 1)]
<1> DEFINE m == Len(s)
           t == SubSeq(s, m - n + 1, m)
           u == <<Gap>> \o t
<1>1. m \in Nat /\ n < m /\ m - n + 1 \in 1..(m + 1) /\ DOMAIN s = 1..m
  BY LenProperties
<1>2. t \in Seq(Int) /\ Len(t) = n /\ \A i \in 1..n : t[i] = s[i + (m - n)]
  <2> HIDE DEF m
  <2>1. t \in Seq(Int) /\ Len(t) = n
    BY <1>1
  <2>2. ASSUME NEW i \in 1..n PROVE t[i] = s[i + (m - n)]
    <3>1. t[i] = s[(m - n + 1) + i - 1] /\ (m - n + 1) + i - 1 = i + (m - n)
      BY <1>1, <2>1
    <3>. QED  BY <3>1
  <2>. QED  BY <2>1, <2>2
<1> HIDE DEF t, m
<1>3. <<Gap>> \in Seq(Int) /\ Len(<<Gap>>) = 1 /\ <<Gap>>[1] = Gap
  BY DEF Gap
<1>4. /\ u \in Seq(Int) /\ Len(u) = n + 1 /\ u[1] = Gap
      /\ \A i \in 2..(n + 1) : u[i] = t[i - 1]
  BY <1>2, <1>3
<1> HIDE DEF u
<1>5. ASSUME NEW i \in 2..(n + 1) PROVE u[i] = s[i + (m - n - 1)]
  <2>1. u[i] = t[i - 1] /\ i - 1 \in 1..n /\ (i - 1) + (m - n) = i + (m - n - 1)
    BY <1>1, <1>4
  <2>. QED  BY <1>2, <2>1
<1>. QED  BY <1>4, <1>5 DEF u, t, m, LastOf

(* A piece whose beginning is left out, with a notice in its place, leads  *)
(* to the same item.                                                       *)
LEMMA ChainLimited ==
  ASSUME NEW a \in Nat, NEW b \in Nat, NEW s, Chain(s, a, b), NEW n \in Nat, n >= 2
  PROVE  Chain(Limited(s, n), a, b) /\ Len(Limited(s, n)) <= n
<1>1. s \in Seq(Int) /\ Len(s) \in Nat
  BY LenProperties DEF Chain
<1>2. CASE ~(Len(s) > n)
  BY <1>1, <1>2 DEF Limited
<1>3. CASE Len(s) > n
  <2> DEFINE u == <<Gap>> \o LastOf(s, n - 1)
             d == Len(s) - n
  <2>1. /\ u \in Seq(Int) /\ Len(u) = n /\ u[1] = 0
        /\ \A i \in 2..n : u[i] = s[i + d]
    <3>1. n - 1 \in Nat /\ n - 1 < Len(s)
      BY <1>1, <1>3
    <3>2. (n - 1) + 1 = n /\ Len(s) - (n - 1) - 1 = d
      BY <1>1
    <3>. QED  BY <1>1, <3>1, <3>2, NoticeAndLast DEF Gap
  <2>2. Limited(s, n) = u
    BY <1>3 DEF Limited
  <2>3. d \in Nat /\ d >= 1 /\ Len(s) = n + d
    BY <1>1, <1>3
  <2>4. /\ \A i \in 1..(n + d) : s[i] \in Int /\ (s[i] # 0 => a < s[i] /\ s[i] <= b)
        /\ \A i \in 1..(n + d) : s[i] # 0 /\ i # 1 =>
              s[i] = s[i - 1] + 1 \/ (s[i - 1] = 0 /\ \A j \in 1..(i - 1) : s[j] < s[i])
        /\ s[n + d] = b /\ a <= b
    BY <1>1, <2>3, ElementOfSeq, EmptySeq DEF Chain, Gap
  <2> HIDE DEF u, d
  <2>5. ASSUME NEW i \in 1..n, u[i] # 0
        PROVE  /\ a < u[i] /\ u[i] <= b /\ i # 1
               /\ u[i] = u[i - 1] + 1 \/ (u[i - 1] = 0 /\ \A j \in 1..(i - 1) : u[j] < u[i])
    <3>1. i \in 2..n /\ i + d \in 1..(n + d) /\ i + d # 1
      BY <2>1, <2>3, <2>5
    <3>2. u[i] = s[i + d] /\ s[i + d] \in Int /\ a < s[i + d] /\ s[i + d] <= b
      BY <2>1, <2>4, <2>5, <3>1
    <3>3. CASE i = 2
      <4>1. u[i - 1] = 0 /\ \A j \in 1..(i - 1) : u[j] = 0
        BY <2>1, <3>3
      <4>. QED  BY <3>1, <3>2, <4>1
    <3>4. CASE i # 2
      <4>1. i - 1 \in 2..n /\ u[i - 1] = s[(i + d) - 1]
        <5>1. i - 1 \in 2..n /\ (i - 1) + d = (i + d) - 1
          BY <2>3, <3>1, <3>4
        <5>. QED  BY <2>1, <5>1
      <4>2. ASSUME \A j \in 1..((i + d) - 1) : s[j] < s[i + d], NEW j \in 1..(i - 1)
            PROVE  u[j] < u[i]
        <5>1. CASE j = 1
          BY <2>1, <3>2, <5>1
        <5>2. CASE j # 1
          <6>1. j \in 2..n /\ j + d \in 1..((i + d) - 1)
            BY <2>3, <3>1, <5>2
          <6>2. u[j] = s[j + d] /\ s[j + d] < s[i + d]
            BY <2>1, <4>2, <6>1
          <6>. QED  BY <3>2, <6>2
        <5>. QED  BY <5>1, <5>2
      <4>3. s[i + d] = s[(i + d) - 1] + 1 \/ (s[(i + d) - 1] = 0 /\ \A j \in 1..((i + d) - 1) : s[j] < s[i + d])
        BY <2>4, <2>5, <3>1, <3>2
      <4>. QED  BY <3>1, <3>2, <4>1, <4>2, <4>3
    <3>. QED  BY <3>3, <3>4
  <2>6. u # << >> /\ u[Len(u)] = b
    <3>1. n \in 2..n
      OBVIOUS
    <3>. QED  BY <2>1, <2>4, <3>1, EmptySeq
  <2>7. Chain(u, a, b)
    BY <2>1, <2>4, <2>5, <2>6 DEF Chain, Gap
  <2>. QED  BY <2>1, <2>2, <2>7
<1>. QED  BY <1>2, <1>3

(* Nothing in such a piece is the message of a failure.                    *)
LEMMA ChainHasNoFailure ==
  ASSUME NEW a \in Nat, NEW b \in Nat, NEW s, Chain(s, a, b)
  PROVE  Output(s) = s
<1>1. s \in Seq(Int) /\ Len(s) \in Nat
  BY LenProperties DEF Chain
<1>2. s # << >> => s[Len(s)] # -1
  BY <1>1 DEF Chain
<1>. QED  BY <1>1, <1>2 DEF Output, Last, Failure

(* The message of the catch block takes the place of output at most.       *)
LEMMA ReportKeepsOutput ==
  ASSUME NEW b \in Nat, NEW s, Chain(s, 0, b), NEW n \in Nat, n >= 3, Len(s) <= n
  PROVE  LET log == Limited(s \o <<Failure>>, n)
         IN  Chain(Output(log), 0, b) /\ Len(log) <= n /\ log \in Seq(Int)
<1> DEFINE log == Limited(s \o <<Failure>>, n)
           m == Len(s)
           r == s \o <<Failure>>
<1>1. s \in Seq(Int) /\ m \in Nat
  BY LenProperties DEF Chain
<1>2. r \in Seq(Int) /\ Len(r) = m + 1 /\ r[m + 1] = Failure /\ \A i \in 1..m : r[i] = s[i]
  BY <1>1 DEF Failure
<1> HIDE DEF r
<1>3. CASE m + 1 <= n
  <2>1. log = r
    BY <1>1, <1>2, <1>3 DEF Limited, r
  <2>2. Output(r) = SubSeq(r, 1, m)
    BY <1>1, <1>2, EmptySeq DEF Output, Last, Front
  <2>3. SubSeq(r, 1, m) = s
    <3> DEFINE q == SubSeq(r, 1, m)
    <3>1. q \in Seq(Int) /\ Len(q) = m /\ \A i \in 1..m : q[i] = r[i]
      <4> HIDE DEF m
      <4>. QED  BY <1>1, <1>2
    <3>. QED  BY <1>1, <1>2, <3>1, SeqEqual
  <2>. QED  BY <1>1, <1>2, <1>3, <2>1, <2>2, <2>3
<1>4. CASE ~(m + 1 <= n)
  <2>1. m = n
    BY <1>1, <1>4
  <2> DEFINE u == <<Gap>> \o LastOf(r, n - 1)
             v == <<Gap>> \o LastOf(s, n - 2)
  <2>2. log = u
    BY <1>2, <2>1 DEF Limited, r
  <2>3. /\ u \in Seq(Int) /\ Len(u) = n /\ u[1] = Gap
        /\ \A i \in 2..n : u[i] = r[i + 1]
    <3>1. n - 1 \in Nat /\ n - 1 < Len(r) /\ (n - 1) + 1 = n /\ Len(r) - (n - 1) - 1 = 1 /\ r \in Seq(Int)
      BY <1>1, <1>2, <2>1
    <3>2. /\ u \in Seq(Int) /\ Len(u) = (n - 1) + 1 /\ u[1] = Gap
          /\ \A i \in 2..((n - 1) + 1) : u[i] = r[i + (Len(r) - (n - 1) - 1)]
      BY <3>1, NoticeAndLast
    <3>. QED  BY <3>1, <3>2
  <2>4. /\ v \in Seq(Int) /\ Len(v) = n - 1 /\ v[1] = Gap
        /\ \A i \in 2..(n - 1) : v[i] = s[i + 1]
    <3>1. n - 2 \in Nat /\ n - 2 < Len(s) /\ (n - 2) + 1 = n - 1 /\ Len(s) - (n - 2) - 1 = 1
      BY <1>1, <2>1
    <3>2. /\ v \in Seq(Int) /\ Len(v) = (n - 2) + 1 /\ v[1] = Gap
          /\ \A i \in 2..((n - 2) + 1) : v[i] = s[i + (Len(s) - (n - 2) - 1)]
      BY <1>1, <3>1, NoticeAndLast
    <3>. QED  BY <3>1, <3>2
  <2>5. v = Limited(s, n - 1)
    BY <1>1, <2>1 DEF Limited
  <2>6. Chain(v, 0, b)
    <3>1. n - 1 \in Nat /\ n - 1 >= 2
      OBVIOUS
    <3>. QED  BY <2>5, <3>1, ChainLimited
  <2> HIDE DEF u, v, log
  <2>7. u[n] = Failure /\ u # << >> /\ Output(u) = SubSeq(u, 1, n - 1)
    <3>1. n \in 2..n /\ u[n] = Failure
      BY <1>2, <2>1, <2>3
    <3>. QED  BY <2>3, <3>1, EmptySeq DEF Output, Last, Front
  <2>8. SubSeq(u, 1, n - 1) = v
    <3> DEFINE q == SubSeq(u, 1, n - 1)
    <3>1. q \in Seq(Int) /\ Len(q) = n - 1 /\ \A i \in 1..(n - 1) : q[i] = u[i]
      BY <2>3
    <3> HIDE DEF q
    <3>2. ASSUME NEW i \in 1..(n - 1) PROVE q[i] = v[i]
      <4>1. CASE i = 1
        BY <2>3, <2>4, <3>1, <4>1
      <4>2. CASE i # 1
        <5>1. i \in 2..n /\ i \in 2..(n - 1) /\ i + 1 \in 1..m
          BY <2>1, <4>2
        <5>. QED  BY <1>2, <2>3, <2>4, <3>1, <5>1
      <4>. QED  BY <4>1, <4>2
    <3>3. q = v
      BY <2>4, <3>1, <3>2, SeqEqual
    <3>. QED  BY <3>3 DEF q
  <2>. QED  BY <2>2, <2>3, <2>6, <2>7, <2>8 DEF log
<1>. QED  BY <1>3, <1>4

(* What is kept of a sequence, and what is put behind it, is of its type.  *)
LEMMA LimitedFits ==
  ASSUME NEW s \in Seq(Int), NEW n \in Nat, n >= 2
  PROVE  Limited(s, n) \in Seq(Int) /\ Len(Limited(s, n)) <= n
<1>1. Len(s) \in Nat
  BY LenProperties
<1>2. CASE ~(Len(s) > n)
  BY <1>1, <1>2 DEF Limited
<1>3. CASE Len(s) > n
  <2> DEFINE u == <<Gap>> \o LastOf(s, n - 1)
  <2>1. n - 1 \in Nat /\ n - 1 < Len(s) /\ (n - 1) + 1 = n
    BY <1>1, <1>3
  <2>2. u \in Seq(Int) /\ Len(u) = (n - 1) + 1
    BY <2>1, NoticeAndLast
  <2>3. Limited(s, n) = u
    BY <1>3 DEF Limited
  <2> HIDE DEF u
  <2>. QED  BY <2>1, <2>2, <2>3
<1>. QED  BY <1>2, <1>3

(* What waits for the writer is made of notices and items.                 *)
LEMMA LimitedItems ==
  ASSUME NEW k \in Nat, NEW s \in Seq(0..k), NEW n \in Nat, n >= 2
  PROVE  Limited(s, n) \in Seq(0..k)
<1>1. Len(s) \in Nat /\ s \in Seq(Int) /\ \A i \in 1..Len(s) : s[i] \in 0..k
  BY LenProperties, ElementOfSeq
<1>2. CASE ~(Len(s) > n)
  BY <1>1, <1>2 DEF Limited
<1>3. CASE Len(s) > n
  <2> DEFINE u == <<Gap>> \o LastOf(s, n - 1)
  <2>1. n - 1 \in Nat /\ n - 1 < Len(s) /\ (n - 1) + 1 = n
    BY <1>1, <1>3
  <2>2. /\ u \in Seq(Int) /\ Len(u) = (n - 1) + 1 /\ u[1] = Gap
        /\ \A i \in 2..((n - 1) + 1) : u[i] = s[i + (Len(s) - (n - 1) - 1)]
    BY <1>1, <2>1, NoticeAndLast
  <2>3. Limited(s, n) = u
    BY <1>3 DEF Limited
  <2> HIDE DEF u
  <2>4. ASSUME NEW i \in 1..n PROVE u[i] \in 0..k
    <3>1. CASE i = 1
      BY <2>2, <3>1 DEF Gap
    <3>2. CASE i # 1
      <4>1. i \in 2..((n - 1) + 1) /\ i + (Len(s) - (n - 1) - 1) \in 1..Len(s)
        BY <1>1, <1>3, <3>2
      <4>. QED  BY <1>1, <2>2, <4>1
    <3>. QED  BY <3>1, <3>2
  <2>5. u \in [1..n -> 0..k]
    BY <2>1, <2>2, <2>4
  <2>. QED  BY <2>3, <2>5
<1>. QED  BY <1>2, <1>3

(* A stream to which an update is delivered is a stream.                   *)
LEMMA DeliveredFits ==
  ASSUME NEW s \in LogReader, NEW e \in Statuses, NEW slow \in BOOLEAN
  PROVE  Delivered(s, e, slow) \in LogReader
<1>1. s.st \in {"off", "reading", "read", "ready", "ended"} /\ s.full \in BOOLEAN
  BY DEF LogReader
<1>2. CASE s.st \in {"off", "ended"}
  BY <1>2 DEF Delivered
<1>3. CASE s.st \in {"reading", "read"} \/ (s.st = "ready" /\ s.full)
  <2>1. Delivered(s, e, slow) = [s EXCEPT !.pend = e]
    BY <1>1, <1>3 DEF Delivered
  <2>. QED  BY <2>1 DEF LogReader
<1>4. CASE s.st = "ready" /\ ~s.full
  <2>1. Delivered(s, e, slow) = [s EXCEPT !.shown = e, !.full = slow /\ Running(e),
                                          !.pend = IF Running(e) THEN @ ELSE "none",
                                          !.st = IF Running(e) THEN "ready" ELSE "ended"]
    BY <1>1, <1>4 DEF Delivered
  <2>2. (slow /\ Running(e)) \in BOOLEAN
    BY DEF Running
  <2>. QED  BY <2>1, <2>2 DEF LogReader, Statuses
<1>. QED  BY <1>1, <1>2, <1>3, <1>4

(* So is one to which an update that waited is.                            *)
LEMMA FlushedFits ==
  ASSUME NEW s \in LogReader, NEW slow \in BOOLEAN
  PROVE  Flushed(s, slow) \in LogReader
<1>1. CASE s.pend = "none" \/ s.st # "ready"
  BY <1>1 DEF Flushed
<1>2. CASE ~(s.pend = "none" \/ s.st # "ready")
  <2>1. [s EXCEPT !.pend = "none"] \in LogReader /\ s.pend \in Statuses
    BY DEF LogReader, Statuses
  <2>2. Flushed(s, slow) = Delivered([s EXCEPT !.pend = "none"], s.pend, slow)
    BY <1>2 DEF Flushed
  <2>. QED  BY <2>1, <2>2, DeliveredFits
<1>. QED  BY <1>1, <1>2

(* A step of a reader's stream touches nothing but the stream.             *)
LEMMA StreamsFit ==
  ASSUME OutputTypeOK, Streams
  PROVE  rd' \in [Reader -> LogReader] /\ UNCHANGED <<runner, child, buffer, calls, row>>
<1>1. PICK r \in Reader : OpenStream(r) \/ ReadRow(r) \/ SnapshotReady(r) \/ FlushPending(r) \/ StreamEnds(r)
  BY DEF Streams
<1>2. rd \in [Reader -> LogReader] /\ rd[r] \in LogReader /\ row.status \in Statuses /\ "none" \in Statuses
  BY DEF OutputTypeOK, Statuses
<1>3. CASE OpenStream(r)
  <2>1. rd' = [rd EXCEPT ![r] = [rd[r] EXCEPT !.st = "reading"]]
    BY <1>3 DEF OpenStream
  <2>2. [rd[r] EXCEPT !.st = "reading"] \in LogReader
    BY <1>2 DEF LogReader
  <2>. QED  BY <1>2, <1>3, <2>1, <2>2 DEF OpenStream
<1>4. CASE ReadRow(r)
  <2>1. [rd[r] EXCEPT !.st = "read", !.snap = row.status] \in LogReader
    BY <1>2 DEF LogReader
  <2>. QED  BY <1>2, <1>4, <2>1 DEF ReadRow
<1>5. CASE SnapshotReady(r)
  <2> DEFINE t == [rd[r] EXCEPT !.st = "ready", !.snap = "none"]
  <2>1. PICK first \in BOOLEAN, second \in BOOLEAN :
          rd' = [rd EXCEPT ![r] = Flushed(Delivered(t, rd[r].snap, first), second)]
    BY <1>5 DEF SnapshotReady
  <2>2. t \in LogReader /\ rd[r].snap \in Statuses
    BY <1>2 DEF LogReader
  <2>3. Flushed(Delivered(t, rd[r].snap, first), second) \in LogReader
    <3> HIDE DEF t
    <3>. QED  BY <2>2, DeliveredFits, FlushedFits
  <2>. QED  BY <1>2, <1>5, <2>1, <2>3 DEF SnapshotReady
<1>6. CASE FlushPending(r)
  <2> DEFINE t == [rd[r] EXCEPT !.full = FALSE]
  <2>1. PICK slow \in BOOLEAN : rd' = [rd EXCEPT ![r] = Flushed(t, slow)]
    BY <1>6 DEF FlushPending
  <2>2. t \in LogReader
    BY <1>2 DEF LogReader
  <2>3. Flushed(t, slow) \in LogReader
    BY <2>2, FlushedFits
  <2>. QED  BY <1>2, <1>6, <2>1, <2>3 DEF FlushPending
<1>7. CASE StreamEnds(r)
  <2>1. Unsubscribed(rd[r]) \in LogReader
    BY <1>2 DEF Unsubscribed, LogReader
  <2>. QED  BY <1>2, <1>7, <2>1 DEF StreamEnds
<1>. QED  BY <1>1, <1>3, <1>4, <1>5, <1>6, <1>7

(* Items and notices are numbers.                                          *)
LEMMA ItemsAreNumbers ==
  ASSUME OutputAssumption, NEW s
  PROVE  /\ s \in Seq(1..MaxItems) => s \in Seq(0..MaxItems)
         /\ s \in Seq(0..MaxItems) => s \in Seq(Int)
<1>1. MaxItems \in Nat
  BY DEF OutputAssumption
<1>2. ASSUME NEW S, NEW T, S \subseteq T, s \in Seq(S) PROVE s \in Seq(T)
  BY <1>2
<1>. QED  BY <1>1, <1>2

(* A call, however it is made, is one.                                     *)
LEMMA CallingFits ==
  ASSUME NEW by \in {"runner", "writer", "nobody"}, NEW adds \in Seq(Int),
         NEW sets \in {"none", "success", "failed"}
  PROVE  Calling(by, adds, sets) \subseteq LogCall
BY DEF Calling, LogCall, Statuses

(* A line is an item that is within the bound.                             *)
LEMMA LineFits ==
  ASSUME OutputAssumption, OutputTypeOK
  PROVE  /\ Line \in Seq(0..MaxItems) /\ Len(Line) \in {0, 1} /\ printed + Len(Line) \in 0..MaxItems
         /\ Chain(Line, printed, printed + Len(Line))
         /\ printed + Len(Line) >= 1
<1>1. MaxItems \in Nat /\ MaxItems >= 1 /\ printed \in 0..MaxItems /\ printed \in Nat
  BY DEF OutputAssumption, OutputTypeOK
<1>2. CASE printed < MaxItems
  <2>1. Line = <<printed + 1>> /\ printed + 1 \in 0..MaxItems
    BY <1>1, <1>2 DEF Line
  <2>2. Len(Line) = 1 /\ Line \in Seq(0..MaxItems)
    BY <2>1
  <2>. QED  BY <1>1, <2>1, <2>2, ChainStarts
<1>3. CASE ~(printed < MaxItems)
  <2>1. Line = << >> /\ printed >= 1
    BY <1>1, <1>3 DEF Line
  <2>2. Len(Line) = 0 /\ Line \in Seq(0..MaxItems)
    BY <2>1
  <2>3. Chain(<< >>, printed, printed) /\ printed + 0 = printed
    <3>1. \A a \in Nat : Chain(<< >>, a, a)
      BY ChainStarts
    <3>. QED  BY <1>1, <3>1
  <2>. QED  BY <1>1, <2>1, <2>2, <2>3
<1>. QED  BY <1>2, <1>3

(* The settlement of a call keeps the types.                               *)
LEMMA SettleTypes ==
  ASSUME OutputAssumption, OutputTypeOK, place \in Within => step <= Len(Plan),
         NEW c \in calls, NEW ok \in BOOLEAN, NEW others \in SUBSET LogCall,
         c.by = "runner" => place \in Awaiting, c.by # "runner" => drains = 1,
         SettleCall(c, ok, others), UNCHANGED <<remote, signalled, child, row, rd>>
  PROVE  OutputTypeOK'
<1>1. /\ UNCHANGED <<remote, signalled, prog, pipe, printed, row, rd>>
      /\ MaxItems \in Nat /\ pending \in Seq(0..MaxItems)
  BY DEF child, OutputAssumption, OutputTypeOK
<1>2. CASE c.by = "runner"
  <2>1. Continue(ok) /\ calls' = others /\ UNCHANGED <<pending, drains, failure>>
    BY <1>2 DEF SettleCall, buffer
  <2>2. place \in Awaiting
    BY <1>2
  <2>3. place' \in RunnerPlace /\ step' \in 1..(Len(Plan) + 1)
    <3>1. step \in 1..(Len(Plan) + 1) /\ place \in RunnerPlace /\ Len(Plan) = 3
      BY DEF OutputTypeOK, Plan
    <3>2. CASE place = "header"
      BY <2>1, <3>1, <3>2 DEF Continue, Place, RunnerPlace
    <3>3. CASE place = "newline"
      BY <2>1, <3>1, <3>3 DEF Continue, Place, RunnerPlace, NextSteps, Within
    <3>4. CASE place = "finish"
      BY <2>1, <3>1, <3>4 DEF Continue, Place, RunnerPlace
    <3>5. CASE place = "report"
      BY <2>1, <3>1, <3>5 DEF Continue, Place, RunnerPlace
    <3>6. CASE place = "mark"
      BY <2>1, <3>1, <3>6 DEF Continue, Place, RunnerPlace
    <3>. QED  BY <2>2, <3>2, <3>3, <3>4, <3>5, <3>6 DEF Awaiting
  <2>. QED  BY <1>1, <2>1, <2>3 DEF OutputTypeOK
<1>3. CASE c.by # "runner"
  <2>1. DrainEnds(ok, others) /\ UNCHANGED <<step, place>>
    BY <1>3 DEF SettleCall
  <2>2. failure' \in BOOLEAN
    BY <2>1 DEF DrainEnds, OutputTypeOK
  <2>3. CASE ok /\ pending # << >>
    <3>1. pending' = << >> /\ calls' = others \cup Calling("writer", pending, "none") /\ UNCHANGED drains
      BY <2>1, <2>3 DEF DrainEnds
    <3>2. Calling("writer", pending, "none") \subseteq LogCall
      BY <1>1, ItemsAreNumbers, CallingFits
    <3>3. pending' \in Seq(0..MaxItems)
      BY <3>1
    <3>. QED  BY <1>1, <2>1, <2>2, <3>1, <3>2, <3>3 DEF OutputTypeOK
  <2>4. CASE ~(ok /\ pending # << >>)
    <3>1. drains' = drains - 1 /\ calls' = others /\ UNCHANGED pending
      BY <2>1, <2>4 DEF DrainEnds
    <3>2. drains' = 0
      BY <1>3, <3>1
    <3>. QED  BY <1>1, <2>1, <2>2, <3>1, <3>2 DEF OutputTypeOK
  <2>. QED  BY <2>3, <2>4
<1>. QED  BY <1>2, <1>3

(* What is written waits, or is sent in a call.                            *)
LEMMA WriteTypes ==
  ASSUME OutputAssumption, OutputTypeOK, NEW items \in Seq(0..MaxItems), Write(items)
  PROVE  /\ pending' \in Seq(0..MaxItems) /\ drains' \in {0, 1} /\ failure' \in BOOLEAN
         /\ calls' \subseteq LogCall
<1>1. /\ MaxItems \in Nat /\ MaxPending \in Nat /\ MaxPending >= 2 /\ pending \in Seq(0..MaxItems)
      /\ drains \in {0, 1} /\ failure \in BOOLEAN /\ calls \subseteq LogCall
  BY DEF OutputAssumption, OutputTypeOK
<1>2. pending \o items \in Seq(0..MaxItems)
  BY <1>1
<1>3. Limited(pending \o items, MaxPending) \in Seq(0..MaxItems)
  BY <1>1, <1>2, LimitedItems
<1>4. Calling("writer", items, "none") \subseteq LogCall
  BY ItemsAreNumbers, CallingFits
<1>. QED  BY <1>1, <1>3, <1>4 DEF Write, buffer

(* Every step keeps the types.                                             *)
LEMMA OutputTypes ==
  ASSUME OutputAssumption, OutputTypeOK, PipeFits, PlaceFits, CallsFit, OutputNext
  PROVE  OutputTypeOK'
<1>1. /\ MaxItems \in Nat /\ MaxLog \in Nat /\ MaxLog >= 3 /\ step \in 1..(Len(Plan) + 1) /\ Len(Plan) = 3
      /\ place \in RunnerPlace /\ prog \in ChildProcess /\ pipe \in Seq(1..MaxItems) /\ printed \in 0..MaxItems
      /\ pending \in Seq(0..MaxItems) /\ calls \subseteq LogCall
      /\ row \in [status : Statuses \ {"none"}, log : Seq(Int)] /\ rd \in [Reader -> LogReader]
  BY DEF OutputAssumption, OutputTypeOK, Plan
<1>2. Line \in Seq(0..MaxItems) /\ Line \in Seq(Int) /\ printed + Len(Line) \in 0..MaxItems
  BY LineFits, ItemsAreNumbers
<1>3. /\ Calling("runner", Line, "none") \subseteq LogCall
      /\ Calling("runner", << >>, "success") \subseteq LogCall
      /\ Calling("runner", << >>, "failed") \subseteq LogCall
      /\ Calling("runner", <<Failure>>, "none") \subseteq LogCall
  <2>1. << >> \in Seq(Int) /\ <<Failure>> \in Seq(Int)
    BY DEF Failure
  <2>. QED  BY <1>2, <2>1, CallingFits
<1>4. /\ NoProc \in ChildProcess
      /\ \A st \in {"none", "running", "exited"}, ok \in BOOLEAN :
           [prog EXCEPT !.st = st, !.ok = ok] \in ChildProcess
      /\ \A s \in {"none", "term", "kill"} : [NoProc EXCEPT !.st = "running", !.sig = s] \in ChildProcess
      /\ \A ok \in BOOLEAN : [NoProc EXCEPT !.ok = ok] \in ChildProcess
      /\ Term \in {"none", "term", "kill"}
      /\ \A s \in {"none", "term", "kill"} : [prog EXCEPT !.sig = s] \in ChildProcess
      /\ \A s \in {"none", "term", "kill"} : [prog EXCEPT !.late = TRUE, !.sig = s] \in ChildProcess
  BY <1>1 DEF NoProc, ChildProcess, Term
<1>5. CASE Launch
  BY <1>1, <1>5 DEF Launch, Stay, Place, OutputTypeOK, RunnerPlace, child, buffer
<1>6. CASE Streams
  BY <1>6, StreamsFit DEF OutputTypeOK, runner, child, buffer
<1>7. ASSUME NEW c \in calls, Update(c) PROVE OutputTypeOK'
  <2>1. /\ row' = [status |-> IF c.sets = "none" THEN row.status ELSE c.sets,
                   log |-> Limited(row.log \o c.adds, MaxLog)]
        /\ calls' = (calls \ {c}) \cup {[c EXCEPT !.st = "stored", !.snap = row'.status]}
        /\ UNCHANGED <<remote, step, place, signalled, prog, pipe, printed, pending, drains, failure, rd>>
    BY <1>7 DEF Update, runner, child, buffer
  <2>2. c \in LogCall /\ c.adds \in Seq(Int) /\ c.sets \in {"none", "success", "failed"} /\ row.log \in Seq(Int)
        /\ row.status \in Statuses \ {"none"}
    BY <1>1 DEF LogCall
  <2>3. Limited(row.log \o c.adds, MaxLog) \in Seq(Int)
    <3>1. row.log \o c.adds \in Seq(Int)
      BY <2>2
    <3>2. MaxLog >= 2
      BY <1>1
    <3>. QED  BY <1>1, <3>1, <3>2, LimitedFits
  <2>4. row' \in [status : Statuses \ {"none"}, log : Seq(Int)] /\ row'.status \in Statuses
    BY <2>1, <2>2, <2>3 DEF Statuses
  <2>5. [c EXCEPT !.st = "stored", !.snap = row'.status] \in LogCall
    <3> HIDE DEF Statuses
    <3>. QED  BY <2>2, <2>4 DEF LogCall
  <2>. QED  BY <1>1, <2>1, <2>4, <2>5 DEF OutputTypeOK
<1>8. ASSUME NEW c \in calls, PublishUpdate(c) PROVE OutputTypeOK'
  <2> DEFINE event == IF c.sets = "none" THEN c.snap ELSE row.status
  <2>1. PICK slow \in SUBSET Reader : rd' = [r \in Reader |-> Delivered(rd[r], event, r \in slow)]
    BY <1>8 DEF PublishUpdate
  <2>2. c \in LogCall /\ event \in Statuses
    BY <1>1 DEF LogCall
  <2>3. rd' \in [Reader -> LogReader]
    <3> HIDE DEF event
    <3>1. ASSUME NEW r \in Reader PROVE Delivered(rd[r], event, r \in slow) \in LogReader
      <4>1. rd[r] \in LogReader /\ (r \in slow) \in BOOLEAN
        BY <1>1
      <4>. QED  BY <2>2, <4>1, DeliveredFits
    <3>. QED  BY <2>1, <3>1
  <2>4. [c EXCEPT !.st = "published", !.snap = "none"] \in LogCall
    BY <2>2 DEF LogCall, Statuses
  <2>5. /\ calls' = (calls \ {c}) \cup (IF c.by = "nobody" THEN {}
                                        ELSE {[c EXCEPT !.st = "published", !.snap = "none"]})
        /\ UNCHANGED <<remote, step, place, signalled, prog, pipe, printed, pending, drains, failure, row>>
    BY <1>8 DEF PublishUpdate, runner, child, buffer
  <2>. QED  BY <1>1, <2>3, <2>4, <2>5 DEF OutputTypeOK
<1>9. ASSUME NEW c \in calls, Returned(c) \/ Lost(c) \/ GivenUp(c) PROVE OutputTypeOK'
  <2>1. c \in LogCall /\ (calls \ {c}) \in SUBSET LogCall
        /\ (calls \ {c}) \cup {[c EXCEPT !.by = "nobody"]} \in SUBSET LogCall
    BY <1>1 DEF LogCall
  <2>2. (c.by = "runner" => place \in Awaiting) /\ (place \in Within => step <= Len(Plan))
    BY DEF CallsFit, PlaceFits
  <2>4. c.by # "nobody"
    <3>1. c.st = "published" => c.by # "nobody"
      BY DEF CallsFit
    <3>. QED  BY <1>9, <3>1 DEF Returned, Lost, GivenUp
  <2>3. c.by # "runner" => drains = 1
    BY <2>1, <2>4 DEF CallsFit, LogCall
  <2>5. \E ok \in BOOLEAN, others \in SUBSET LogCall :
          SettleCall(c, ok, others) /\ UNCHANGED <<remote, signalled, child, row, rd>>
    BY <1>9, <2>1 DEF Returned, Lost, GivenUp
  <2>. QED  BY <2>2, <2>3, <2>5, SettleTypes
<1>10. CASE Steps
  <2> USE <1>1 DEF Place, RunnerPlace, OutputTypeOK, Stay, Await, Prints, child, buffer
  <2>1. CASE StepFails
    BY <2>1 DEF StepFails
  <2>2. CASE StepSkips
    BY <2>2 DEF StepSkips
  <2>3. CASE RunLogged
    BY <1>2, <1>3, <1>4, <2>3 DEF RunLogged
  <2>4. CASE FinishSuccess
    BY <1>3, <2>4 DEF FinishSuccess
  <2>5. CASE Reconcile
    BY <2>5 DEF Reconcile
  <2>6. CASE ReportFailure
    BY <1>3, <2>6 DEF ReportFailure
  <2>7. CASE MarkFailed
    BY <1>3, <2>7 DEF MarkFailed
  <2>8. CASE ProcessEnds
    <3>1. ASSUME NEW r \in Reader PROVE [rd[r] EXCEPT !.st = "ended", !.pend = "none", !.snap = "none"] \in LogReader
      <4>1. ASSUME NEW s \in LogReader
            PROVE  [s EXCEPT !.st = "ended", !.pend = "none", !.snap = "none"] \in LogReader
        <5>1. "none" \in Statuses
          BY DEF Statuses
        <5>. QED  BY <5>1 DEF LogReader
      <4>2. rd[r] \in LogReader
        OBVIOUS
      <4> HIDE DEF OutputTypeOK, LogReader
      <4>. QED  BY <4>1, <4>2
    <3>2. rd' = [r \in Reader |-> [rd[r] EXCEPT !.st = "ended", !.pend = "none", !.snap = "none"]]
      BY <2>8 DEF ProcessEnds
    <3>3. rd' \in [Reader -> LogReader]
      <4> HIDE DEF LogReader
      <4>. QED  BY <3>1, <3>2
    <3>. QED  BY <2>8, <3>3 DEF ProcessEnds
  <2>. QED  BY <1>10, <2>1, <2>2, <2>3, <2>4, <2>5, <2>6, <2>7, <2>8 DEF Steps
<1>11. CASE Command
  <2> USE <1>1 DEF Place, RunnerPlace, OutputTypeOK, Await, Prints, runner, child, buffer
  <2>1. CASE SpawnCommand
    <3>1. prog' \in ChildProcess
      BY <1>4, <2>1 DEF SpawnCommand
    <3>2. << >> \in Seq(0..MaxItems)
      OBVIOUS
    <3>. QED  BY <2>1, <3>1, <3>2 DEF SpawnCommand
  <2>2. CASE SpawnFails
    <3>1. prog' \in ChildProcess
      BY <1>4, <2>2 DEF SpawnFails
    <3>. QED  BY <1>2, <2>2, <3>1, WriteTypes DEF SpawnFails
  <2>3. CASE ChildPrints
    <3>1. pipe' \in Seq(1..MaxItems)
      BY <2>3 DEF ChildPrints
    <3>. QED  BY <2>3, <3>1 DEF ChildPrints
  <2>4. CASE ChildExits
    <3>1. prog' \in ChildProcess
      BY <1>4, <2>4 DEF ChildExits
    <3>. QED  BY <2>4, <3>1 DEF ChildExits
  <2>5. CASE Collect
    <3>1. pipe' \in Seq(1..MaxItems) /\ Head(pipe) \in 1..MaxItems
      BY <2>5 DEF Collect
    <3>2. <<Head(pipe)>> \in Seq(0..MaxItems)
      BY <3>1
    <3>. QED  BY <2>5, <3>1, <3>2, WriteTypes DEF Collect
  <2>6. CASE CommandEnds
    <3>1. (prog.ok /\ ~prog.late) \in BOOLEAN
      OBVIOUS
    <3>2. prog' \in ChildProcess
      BY <1>4, <2>6, <3>1 DEF CommandEnds
    <3>. QED  BY <2>6, <3>2 DEF CommandEnds
  <2>7. CASE Timeout
    <3>1. prog' \in ChildProcess
      BY <1>4, <2>7 DEF Timeout
    <3>. QED  BY <2>7, <3>1 DEF Timeout
  <2>8. CASE Abort
    <3>1. prog' \in ChildProcess
      BY <1>4, <2>8 DEF Abort
    <3>. QED  BY <2>8, <3>1 DEF Abort
  <2>9. CASE Kill
    <3>1. prog' \in ChildProcess
      BY <1>4, <2>9 DEF Kill
    <3>. QED  BY <2>9, <3>1 DEF Kill
  <2>10. CASE Flush
    BY <1>2, <1>3, <2>10 DEF Flush
  <2>. QED  BY <1>11, <2>1, <2>2, <2>3, <2>4, <2>5, <2>6, <2>7, <2>8, <2>9, <2>10 DEF Command
<1>12. CASE AllQuiet
  BY <1>12 DEF AllQuiet, outputVars, runner, child, buffer, OutputTypeOK
<1>. QED  BY <1>5, <1>6, <1>7, <1>8, <1>9, <1>10, <1>11, <1>12 DEF OutputNext, Calls

(* While nothing has failed, at most one call is under way.                *)
LEMMA OneCall ==
  ASSUME OutputTypeOK, CallsFit, GoingFits, Going
  PROVE  /\ \A c, d \in calls : c = d
         /\ place \notin Awaiting /\ drains = 0 => calls = {}
<1>1. \A c \in calls : c.by = "runner" \/ c.by = "writer"
  BY DEF GoingFits, OutputTypeOK, LogCall
<1>2. drains \in {0, 1}
  BY DEF OutputTypeOK
<1>3. \A c, d \in calls : c.by = d.by
  BY <1>1 DEF CallsFit, Awaiting
<1>. QED  BY <1>1, <1>2, <1>3 DEF CallsFit

(* A call that succeeds is recorded only in these places.                  *)
LEMMA NotSuccessful ==
  ASSUME SuccessFits, place \notin {"finish", "reconcile", "failed"} \cup Reported
  PROVE  ~Successful
BY DEF SuccessFits

(* The settlement of a call.                                               *)
LEMMA SettleFits ==
  ASSUME OutputAssumption, OutputFits, NEW c \in calls, NEW ok \in BOOLEAN,
         NEW gone \in SUBSET {[c EXCEPT !.by = "nobody"]},
         c.by # "nobody", ok => c.st = "published" /\ gone = {}, c.st = "published" => gone = {},
         SettleCall(c, ok, (calls \ {c}) \cup gone), UNCHANGED <<remote, signalled, child, row, rd>>
  PROVE  (PipeFits /\ PlaceFits /\ CallsFit /\ GoingFits /\ SuccessFits)'
<1> DEFINE others == (calls \ {c}) \cup gone
<1>1. /\ OutputTypeOK /\ PipeFits /\ PlaceFits /\ CallsFit /\ GoingFits /\ SuccessFits
      /\ UNCHANGED <<remote, signalled, prog, pipe, printed, row, rd>>
  BY DEF OutputFits, child
<1>2. /\ c \in LogCall /\ calls \subseteq LogCall /\ c.by \in {"runner", "writer"}
      /\ step \in 1..(Len(Plan) + 1) /\ Len(Plan) = 3 /\ printed \in Nat /\ drains \in {0, 1}
      /\ failure \in BOOLEAN
  BY <1>1 DEF OutputTypeOK, LogCall, Plan, OutputAssumption
<1>3. ASSUME NEW g \in gone
      PROVE  g.by = "nobody" /\ g.adds = c.adds /\ g.sets = c.sets /\ g.st = c.st
  <2>1. g = [c EXCEPT !.by = "nobody"]
    OBVIOUS
  <2>. QED  BY <1>2, <2>1 DEF LogCall
<1>4. /\ \A d \in others : d.by # "nobody" => d \in calls /\ d # c
      /\ \A d \in others : \E e \in calls : d.sets = e.sets /\ d.adds = e.adds /\ d.st = e.st
      /\ \A d \in others : d.st = "published" => d.by # "nobody"
  BY <1>1, <1>3 DEF CallsFit
<1>5. CASE c.by = "runner"
  <2>1. /\ Continue(ok) /\ calls' = others /\ UNCHANGED <<pending, drains, failure>>
        /\ place \in Awaiting /\ drains = 0
    BY <1>1, <1>2, <1>5 DEF SettleCall, buffer, CallsFit, Awaiting
  <2> HIDE DEF others
  <2>2. /\ place = "header" => place' \in {"spawn", "failed"} /\ (place' = "spawn" => ok) /\ step' = step
        /\ place = "newline" => /\ place' \in {"step", "failed"} /\ (place' = "step" => ok)
                                /\ place' = "step" => step' \in {step, step + 1}
                                /\ place' = "failed" => step' = step
        /\ place = "finish" => place' \in {"over", "reconcile", "failed"} /\ step' = step
        /\ place = "report" => place' \in {"unmarked", "dying"} /\ step' = step
        /\ place = "mark" => place' \in {"over", "dying"} /\ step' = step
    <3>1. CASE place = "header"
      BY <2>1, <3>1 DEF Continue, Place
    <3>2. CASE place = "newline"
      BY <2>1, <3>2 DEF Continue, Place, NextSteps
    <3>3. CASE place = "finish"
      BY <2>1, <3>3 DEF Continue, Place
    <3>4. CASE place = "report"
      BY <2>1, <3>4 DEF Continue, Place
    <3>5. CASE place = "mark"
      BY <2>1, <3>5 DEF Continue, Place
    <3>. QED  BY <2>1, <3>1, <3>2, <3>3, <3>4, <3>5 DEF Awaiting
  <2>3. PipeFits'
    BY <1>1, <2>1, <2>2 DEF PipeFits, Awaiting
  <2>4. PlaceFits'
    BY <1>1, <1>2, <2>1, <2>2 DEF PlaceFits, Within, Before, Awaiting
  <2>5. CallsFit'
    BY <1>1, <1>4, <1>5, <2>1 DEF CallsFit
  <2>6. GoingFits'
    <3>1. SUFFICES ASSUME Going' PROVE GoingFits'
      BY DEF GoingFits
    <3>2. Going /\ ok /\ place' \in {"spawn", "step"}
      BY <1>1, <2>1, <2>2, <3>1 DEF Going, Within, Before, Awaiting
    <3>3. calls' = {} /\ c.st = "published" /\ \A d \in calls : d = c
      BY <1>1, <2>1, <3>2, OneCall DEF others
    <3>4. PICK p \in 0..printed, q \in 0..printed :
                 /\ Chain(row.log, 0, p) /\ Chain(pending, q, printed - Len(pipe))
                 /\ (\A d \in calls : d.st # "sent") => p = q
      BY <1>1, <3>2 DEF GoingFits
    <3>5. p = q
      BY <3>3, <3>4
    <3>. QED  BY <1>1, <2>1, <3>2, <3>3, <3>4, <3>5 DEF GoingFits
  <2>7. SuccessFits'
    <3>1. SUFFICES ASSUME Successful' PROVE SuccessFits'
      BY DEF SuccessFits
    <3>2. Successful
      BY <1>1, <1>4, <2>1, <3>1 DEF Successful, others
    <3>3. place \in {"finish", "report", "mark"} /\ place' \in {"finish", "reconcile", "failed"} \cup Reported
      BY <1>1, <2>1, <2>2, <3>2 DEF SuccessFits, Awaiting, Reported
    <3>4. /\ place' \notin Reported => place \notin Reported
          /\ \A d \in calls' : \E e \in calls : d.adds = e.adds /\ d.st = e.st
          /\ row' = row /\ printed' = printed
      BY <1>1, <1>4, <2>1, <2>2, <3>3 DEF Reported, others
    <3>5. ASSUME NEW d \in calls', d.st = "sent", d.adds = <<Failure>>
          PROVE  Chain(row.log, 0, printed) /\ \A e \in calls' : e.st = "sent" /\ e.adds = <<Failure>> => e = d
      <4>1. Chain(row.log, 0, printed)
        BY <1>1, <3>2, <3>4, <3>5 DEF SuccessFits
      <4>2. \A e, f \in calls : e.st = "sent" /\ e.adds = <<Failure>> /\ f.st = "sent" /\ f.adds = <<Failure>>
                => e = f
        BY <1>1, <3>2 DEF SuccessFits
      <4>3. ASSUME NEW e \in calls', e.st = "sent", e.adds = <<Failure>> PROVE e = d
        <5>1. d \in calls /\ e \in calls => e = d
          BY <3>5, <4>2, <4>3
        <5>2. d \in gone => e \notin calls \ {c}
          BY <1>3, <3>5, <4>2, <4>3
        <5>3. e \in gone => d \notin calls \ {c}
          BY <1>3, <3>5, <4>2, <4>3
        <5>4. d \in gone /\ e \in gone => e = d
          OBVIOUS
        <5>5. (d \in calls \ {c} \/ d \in gone) /\ (e \in calls \ {c} \/ e \in gone)
          BY <2>1, <3>5, <4>3 DEF others
        <5>. QED  BY <5>1, <5>2, <5>3, <5>4, <5>5
      <4>. QED  BY <4>1, <4>3
    <3>. QED  BY <1>1, <3>2, <3>3, <3>4, <3>5 DEF SuccessFits
  <2>. QED  BY <2>3, <2>4, <2>5, <2>6, <2>7
<1>6. CASE c.by = "writer"
  <2>1. /\ DrainEnds(ok, others) /\ UNCHANGED <<step, place>> /\ drains = 1 /\ place \in {"command", "flush"}
    BY <1>1, <1>2, <1>6 DEF SettleCall, CallsFit
  <2>2. ~Successful
    BY <1>1, <2>1, NotSuccessful DEF Reported
  <2>3. failure' = (failure \/ ~ok)
    BY <2>1 DEF DrainEnds
  <2>4. PipeFits' /\ PlaceFits'
    BY <1>1, <2>1, <2>3 DEF PipeFits, PlaceFits, Within, Before
  <2>5. CASE ok /\ pending # << >>
    <3>1. /\ pending' = << >> /\ UNCHANGED drains
          /\ calls' = others \cup {[by |-> "writer", adds |-> pending, sets |-> "none", st |-> "sent",
               snap |-> "none"]}
          /\ gone = {} /\ c.st = "published"
      BY <2>1, <2>5 DEF DrainEnds, Calling
    <3> DEFINE n == [by |-> "writer", adds |-> pending, sets |-> "none", st |-> "sent", snap |-> "none"]
    <3>2. n.by = "writer" /\ n.adds = pending /\ n.sets = "none" /\ n.st = "sent" /\ calls' = (calls \ {c}) \cup {n}
      BY <3>1
    <3> HIDE DEF n, others
    <3>3. CallsFit'
      BY <1>1, <1>6, <2>1, <3>1, <3>2 DEF CallsFit
    <3>4. GoingFits'
      <4>1. SUFFICES ASSUME Going' PROVE GoingFits'
        BY DEF GoingFits
      <4>2. Going
        BY <1>2, <2>1, <2>3, <4>1 DEF Going
      <4>3. calls' = {n} /\ \A d \in calls : d = c
        BY <1>1, <3>2, <4>2, OneCall
      <4>4. PICK p \in 0..printed, q \in 0..printed :
                 /\ Chain(row.log, 0, p) /\ Chain(pending, q, printed - Len(pipe))
                 /\ (\A d \in calls : d.st # "sent") => p = q
        BY <1>1, <4>2 DEF GoingFits
      <4>5. p = q
        BY <3>1, <4>3, <4>4
      <4>6. printed - Len(pipe) \in 0..printed
        <5>1. Len(pipe) \in Nat /\ Len(pipe) <= printed
          BY <1>1, LenProperties DEF OutputTypeOK, PipeFits
        <5>. QED  BY <1>2, <5>1
      <4>7. Chain(<< >>, printed - Len(pipe), printed - Len(pipe))
        <5>1. \A a \in Nat : Chain(<< >>, a, a)
          BY ChainStarts
        <5>. QED  BY <4>6, <5>1
      <4>. QED  BY <1>1, <2>1, <3>1, <3>2, <4>3, <4>4, <4>5, <4>6, <4>7 DEF GoingFits
    <3>5. ~Successful'
      BY <1>1, <2>2, <3>2 DEF Successful
    <3>. QED  BY <2>4, <3>3, <3>4, <3>5 DEF SuccessFits
  <2>6. CASE ~(ok /\ pending # << >>)
    <3>1. drains' = 0 /\ calls' = others /\ UNCHANGED pending
      BY <2>1, <2>6 DEF DrainEnds
    <3>2. CallsFit'
      BY <1>1, <1>4, <1>6, <2>1, <3>1 DEF CallsFit
    <3>3. GoingFits'
      <4>1. SUFFICES ASSUME Going' PROVE GoingFits'
        BY DEF GoingFits
      <4>2. Going /\ ok /\ pending = << >>
        BY <1>2, <2>1, <2>3, <2>6, <4>1 DEF Going
      <4>3. calls' = {} /\ c.st = "published" /\ \A d \in calls : d = c
        BY <1>1, <3>1, <4>2, OneCall
      <4>4. PICK p \in 0..printed, q \in 0..printed :
                 /\ Chain(row.log, 0, p) /\ Chain(pending, q, printed - Len(pipe))
                 /\ (\A d \in calls : d.st # "sent") => p = q
        BY <1>1, <4>2 DEF GoingFits
      <4>5. p = q
        BY <4>3, <4>4
      <4>. QED  BY <1>1, <3>1, <4>2, <4>3, <4>4, <4>5 DEF GoingFits
    <3>4. ~Successful'
      BY <1>1, <1>4, <2>2, <3>1 DEF Successful
    <3>. QED  BY <2>4, <3>2, <3>3, <3>4 DEF SuccessFits
  <2>. QED  BY <2>5, <2>6
<1>. QED  BY <1>2, <1>5, <1>6

(* The database takes a call.                                              *)
LEMMA UpdateFits ==
  ASSUME OutputAssumption, OutputFits, NEW c \in calls, Update(c)
  PROVE  (PipeFits /\ PlaceFits /\ CallsFit /\ GoingFits /\ SuccessFits)'
<1> DEFINE n == [c EXCEPT !.st = "stored", !.snap = row'.status]
<1>1. /\ OutputTypeOK /\ PipeFits /\ PlaceFits /\ CallsFit /\ GoingFits /\ SuccessFits
      /\ UNCHANGED <<step, place, prog, pipe, printed, pending, drains, failure>>
      /\ c.st = "sent" /\ calls' = (calls \ {c}) \cup {n}
  BY DEF OutputFits, Update, runner, child, buffer
<1>2. /\ row'.log = Limited(row.log \o c.adds, MaxLog)
      /\ row'.status = IF c.sets = "none" THEN row.status ELSE c.sets
  BY DEF Update
<1>3. /\ c \in LogCall /\ row.log \in Seq(Int) /\ c.adds \in Seq(Int) /\ printed \in Nat
      /\ MaxLog \in Nat /\ MaxLog >= 3 /\ MaxLog >= 2 /\ Len(row.log) <= MaxLog
  BY <1>1 DEF OutputTypeOK, OutputAssumption, LogCall, PlaceFits
<1>4. n.by = c.by /\ n.adds = c.adds /\ n.sets = c.sets /\ n.st = "stored"
  BY <1>3 DEF LogCall
<1> HIDE DEF n
<1>5. PipeFits' /\ CallsFit'
  BY <1>1, <1>4 DEF PipeFits, CallsFit
<1>6. PlaceFits'
  <2>1. row.log \o c.adds \in Seq(Int)
    BY <1>3
  <2>2. Len(row'.log) <= MaxLog
    BY <1>2, <1>3, <2>1, LimitedFits
  <2>. QED  BY <1>1, <2>2 DEF PlaceFits
<1>7. GoingFits'
  <2>1. SUFFICES ASSUME Going' PROVE GoingFits'
    BY DEF GoingFits
  <2>2. Going
    BY <1>1, <2>1 DEF Going
  <2>3. calls' = {n} /\ \A d \in calls : d = c
    BY <1>1, <2>2, OneCall
  <2>4. PICK p \in 0..printed, q \in 0..printed :
             Chain(row.log, 0, p) /\ Chain(pending, q, printed - Len(pipe)) /\ Chain(c.adds, p, q)
    BY <1>1, <2>2 DEF GoingFits
  <2>5. Chain(row'.log, 0, q)
    <3>1. Chain(row.log \o c.adds, 0, q)
      BY <1>3, <2>4, ChainJoins
    <3>. QED  BY <1>2, <1>3, <3>1, ChainLimited
  <2>. QED  BY <1>1, <1>4, <2>2, <2>3, <2>4, <2>5 DEF GoingFits
<1>8. SuccessFits'
  <2>1. SUFFICES ASSUME Successful' PROVE SuccessFits'
    BY DEF SuccessFits
  <2>2. Successful
    BY <1>1, <1>2, <1>4, <2>1 DEF Successful
  <2>3. \A d \in calls' : \E e \in calls : d.adds = e.adds
    BY <1>1, <1>4
  <2>4. CASE c.adds = << >>
    <3>1. row'.log = row.log
      BY <1>2, <1>3, <2>4 DEF Limited
    <3>2. \A d \in calls' : d.st = "sent" => d \in calls
      BY <1>1, <1>4
    <3>. QED  BY <1>1, <2>2, <2>3, <3>1, <3>2 DEF SuccessFits
  <2>5. CASE c.adds = <<Failure>>
    <3>1. /\ place \in Reported /\ Chain(row.log, 0, printed)
          /\ \A d \in calls : d.st = "sent" /\ d.adds = <<Failure>> => d = c
      BY <1>1, <2>2, <2>5 DEF SuccessFits
    <3>2. \A d \in calls' : ~(d.st = "sent" /\ d.adds = <<Failure>>)
      BY <1>1, <1>4, <3>1
    <3>3. Chain(Output(row'.log), 0, printed)
      BY <1>2, <1>3, <2>5, <3>1, ReportKeepsOutput
    <3>. QED  BY <1>1, <2>2, <2>3, <3>1, <3>2, <3>3 DEF SuccessFits
  <2>. QED  BY <1>1, <2>2, <2>4, <2>5 DEF SuccessFits
<1>. QED  BY <1>5, <1>6, <1>7, <1>8

(* The handler answers a call.                                             *)
LEMMA PublishFits ==
  ASSUME OutputAssumption, OutputFits, NEW c \in calls, PublishUpdate(c)
  PROVE  (PipeFits /\ PlaceFits /\ CallsFit /\ GoingFits /\ SuccessFits)'
<1> DEFINE n == [c EXCEPT !.st = "published", !.snap = "none"]
<1>1. /\ OutputTypeOK /\ PipeFits /\ PlaceFits /\ CallsFit /\ GoingFits /\ SuccessFits
      /\ UNCHANGED <<step, place, prog, pipe, printed, pending, drains, failure, row>>
      /\ c.st = "stored" /\ calls' = (calls \ {c}) \cup (IF c.by = "nobody" THEN {} ELSE {n})
  BY DEF OutputFits, PublishUpdate, runner, child, buffer
<1>2. c \in LogCall
  BY <1>1 DEF OutputTypeOK
<1>3. n.by = c.by /\ n.adds = c.adds /\ n.sets = c.sets /\ n.st = "published"
  BY <1>2 DEF LogCall
<1> HIDE DEF n
<1>4. /\ \A d \in calls' : d = n \/ d \in calls
      /\ \A d \in calls' : d.st = "sent" => d \in calls
      /\ \A d \in calls' : \E e \in calls : d.adds = e.adds /\ d.sets = e.sets
  BY <1>1, <1>3
<1>5. PipeFits' /\ PlaceFits' /\ CallsFit'
  BY <1>1, <1>3 DEF PipeFits, PlaceFits, CallsFit
<1>6. GoingFits'
  <2>1. SUFFICES ASSUME Going' PROVE GoingFits'
    BY DEF GoingFits
  <2>2. Going
    BY <1>1, <2>1 DEF Going
  <2>3. (\A d \in calls : d = c) /\ c.by # "nobody"
    BY <1>1, <2>2, OneCall DEF GoingFits
  <2>4. calls' = {n}
    BY <1>1, <2>3
  <2>5. PICK p \in 0..printed, q \in 0..printed :
             Chain(row.log, 0, p) /\ Chain(pending, q, printed - Len(pipe)) /\ p = q
    BY <1>1, <2>2, <2>3 DEF GoingFits
  <2>. QED  BY <1>1, <1>3, <2>2, <2>4, <2>5 DEF GoingFits
<1>7. SuccessFits'
  BY <1>1, <1>4 DEF SuccessFits, Successful
<1>. QED  BY <1>5, <1>6, <1>7

(* The steps of the runner.                                                *)
LEMMA StepsFit ==
  ASSUME OutputAssumption, OutputFits, Launch \/ Steps
  PROVE  (PipeFits /\ PlaceFits /\ CallsFit /\ GoingFits /\ SuccessFits)'
<1>1. OutputTypeOK /\ PipeFits /\ PlaceFits /\ CallsFit /\ GoingFits /\ SuccessFits
  BY DEF OutputFits
<1>2. /\ step \in 1..(Len(Plan) + 1) /\ Len(Plan) = 3 /\ printed \in Nat /\ drains \in {0, 1}
      /\ failure \in BOOLEAN /\ calls \subseteq LogCall /\ Len(pipe) \in Nat
  BY <1>1, LenProperties DEF OutputTypeOK, Plan, OutputAssumption
<1>3. CASE Launch \/ StepSkips
  <2>1. /\ place \in Before /\ place' = "step" /\ step' \in {step, step + 1} /\ (step' # step => step < 3)
        /\ UNCHANGED <<prog, pipe, printed, pending, drains, failure, calls, row>>
    BY <1>2, <1>3 DEF Launch, StepSkips, Place, Stay, child, buffer, Before
  <2>2. PipeFits' /\ CallsFit'
    BY <1>1, <2>1 DEF PipeFits, CallsFit, Before, Awaiting
  <2>3. PlaceFits'
    BY <1>1, <1>2, <2>1 DEF PlaceFits, Before, Within
  <2>4. GoingFits'
    BY <1>1, <2>1 DEF GoingFits, Going, Before
  <2>5. ~Successful'
    <3>1. ~Successful
      BY <1>1, <2>1, NotSuccessful DEF Before, Reported
    <3>. QED  BY <2>1, <3>1 DEF Successful
  <2>. QED  BY <2>2, <2>3, <2>4, <2>5 DEF SuccessFits
<1>4. CASE StepFails \/ Reconcile
  <2>1. /\ place \in {"step", "reconcile"} /\ place' \in {"failed", "over"} /\ step' = step
        /\ UNCHANGED <<prog, pipe, printed, pending, drains, failure, calls, row>>
    BY <1>4 DEF StepFails, Reconcile, Place, Stay, child, buffer
  <2>2. PipeFits' /\ CallsFit'
    BY <1>1, <2>1 DEF PipeFits, CallsFit, Awaiting
  <2>3. PlaceFits' /\ GoingFits'
    BY <1>1, <2>1 DEF PlaceFits, GoingFits, Going, Before, Within
  <2>4. SuccessFits'
    BY <1>1, <2>1 DEF SuccessFits, Successful, Reported
  <2>. QED  BY <2>2, <2>3, <2>4
<1>5. CASE RunLogged
  <2> DEFINE n == [by |-> "runner", adds |-> Line, sets |-> "none", st |-> "sent", snap |-> "none"]
  <2>1. /\ place = "step" /\ place' = "header" /\ step' = step /\ step <= 3 /\ calls' = calls \cup {n}
        /\ UNCHANGED <<pipe, pending, drains, failure, row>> /\ prog' = NoProc /\ printed' = printed + Len(Line)
    BY <1>2, <1>5 DEF RunLogged, Await, Place, Prints, Calling, buffer
  <2>2. n.by = "runner" /\ n.adds = Line /\ n.sets = "none" /\ n.st = "sent"
    OBVIOUS
  <2> HIDE DEF n
  <2>3. ~failure /\ Going /\ drains = 0 /\ pending = << >> /\ pipe = << >> /\ calls = {} /\ prog.st = "none"
    <3>1. ~failure /\ Going /\ drains = 0
      BY <1>1, <1>2, <2>1 DEF PlaceFits, Before, Going, CallsFit
    <3>2. calls = {}
      BY <1>1, <2>1, <3>1, OneCall DEF Awaiting
    <3>. QED  BY <1>1, <2>1, <3>1, <3>2 DEF GoingFits, PipeFits
  <2>4. Len(pipe) = 0 /\ Len(Line) \in {0, 1} /\ printed' \in Nat /\ printed' >= 1 /\ printed <= printed'
    BY <1>1, <1>2, <2>1, <2>3, LineFits
  <2>5. PipeFits'
    <3>1. prog'.st = "none"
      BY <2>1 DEF NoProc
    <3>. QED  BY <1>1, <2>1, <2>3, <2>4, <3>1 DEF PipeFits
  <2>6. PlaceFits' /\ CallsFit'
    BY <1>1, <1>2, <2>1, <2>2, <2>3, <2>4 DEF PlaceFits, CallsFit, Within, Before, Awaiting
  <2>7. GoingFits'
    <3>1. PICK p \in 0..printed, q \in 0..printed :
               Chain(row.log, 0, p) /\ Chain(<< >>, q, printed - 0) /\ p = q
      BY <1>1, <2>3, <2>4 DEF GoingFits
    <3>2. q = printed
      BY <1>2, <3>1 DEF Chain
    <3>3. Chain(<< >>, printed', printed') /\ Chain(Line, printed, printed') /\ printed' - 0 = printed'
      <4>1. \A a \in Nat : Chain(<< >>, a, a)
        BY ChainStarts
      <4>. QED  BY <1>1, <2>1, <2>4, <4>1, LineFits
    <3>4. printed \in 0..printed' /\ printed' \in 0..printed'
      BY <1>2, <2>4
    <3>. QED  BY <2>1, <2>2, <2>3, <2>4, <3>1, <3>2, <3>3, <3>4 DEF GoingFits
  <2>8. ~Successful'
    <3>1. ~Successful
      BY <1>1, <2>1, NotSuccessful DEF Reported
    <3>. QED  BY <2>1, <2>2, <3>1 DEF Successful
  <2>. QED  BY <2>5, <2>6, <2>7, <2>8 DEF SuccessFits
<1>6. CASE FinishSuccess
  <2> DEFINE n == [by |-> "runner", adds |-> << >>, sets |-> "success", st |-> "sent", snap |-> "none"]
  <2>1. /\ place = "step" /\ place' = "finish" /\ step' = step /\ step > 3 /\ calls' = calls \cup {n}
        /\ UNCHANGED <<pipe, pending, drains, failure, row, prog, printed>>
    BY <1>2, <1>6 DEF FinishSuccess, Await, Place, Calling, buffer
  <2>2. n.by = "runner" /\ n.adds = << >> /\ n.sets = "success" /\ n.st = "sent"
    OBVIOUS
  <2> HIDE DEF n
  <2>3. ~failure /\ Going /\ drains = 0 /\ pending = << >> /\ pipe = << >> /\ calls = {} /\ printed >= 1
    <3>1. ~failure /\ Going /\ drains = 0 /\ printed >= 1
      BY <1>1, <1>2, <2>1 DEF PlaceFits, Before, Going, CallsFit
    <3>2. calls = {}
      BY <1>1, <2>1, <3>1, OneCall DEF Awaiting
    <3>. QED  BY <1>1, <2>1, <3>1, <3>2 DEF GoingFits, PipeFits
  <2>4. PipeFits' /\ PlaceFits' /\ CallsFit' /\ GoingFits'
    BY <1>1, <1>2, <2>1, <2>2, <2>3 DEF PipeFits, PlaceFits, CallsFit, GoingFits, Going, Within, Before, Awaiting
  <2>5. Chain(row.log, 0, printed)
    <3>1. Len(pipe) = 0
      BY <2>3
    <3>2. PICK p \in 0..printed, q \in 0..printed :
               Chain(row.log, 0, p) /\ Chain(<< >>, q, printed - 0) /\ p = q
      BY <1>1, <2>3, <3>1 DEF GoingFits
    <3>3. q = printed
      BY <1>2, <3>2 DEF Chain
    <3>. QED  BY <3>2, <3>3
  <2>6. Output(row.log) = row.log
    BY <1>2, <2>5, ChainHasNoFailure
  <2>7. SuccessFits'
    <3>1. calls' = {n} /\ << >> # <<Failure>>
      BY <2>1, <2>3
    <3>2. \A d \in calls' : d.adds = << >> /\ d.adds # <<Failure>>
      BY <2>2, <3>1
    <3>. QED  BY <2>1, <2>3, <2>5, <2>6, <3>2 DEF SuccessFits, Reported
  <2>. QED  BY <2>4, <2>7
<1>7. CASE ReportFailure \/ MarkFailed
  <2>1. \E n : /\ place \in {"failed", "unmarked"} /\ place' \in {"report", "mark"} /\ step' = step
               /\ calls' = calls \cup {n}
               /\ n.by = "runner" /\ n.st = "sent" /\ n.sets # "success" /\ n.adds \in {<< >>, <<Failure>>}
               /\ n.adds = <<Failure>> => place = "failed"
    <3>1. CASE ReportFailure
      <4> DEFINE n == [by |-> "runner", adds |-> <<Failure>>, sets |-> "none", st |-> "sent", snap |-> "none"]
      <4>1. /\ place = "failed" /\ place' = "report" /\ step' = step /\ calls' = calls \cup {n}
            /\ n.by = "runner" /\ n.st = "sent" /\ n.sets # "success" /\ n.adds = <<Failure>>
        BY <3>1 DEF ReportFailure, Await, Place, Calling
      <4> HIDE DEF n
      <4>. QED  BY <4>1
    <3>2. CASE MarkFailed
      <4> DEFINE n == [by |-> "runner", adds |-> << >>, sets |-> "failed", st |-> "sent", snap |-> "none"]
      <4>1. /\ place \in {"failed", "unmarked"} /\ place' = "mark" /\ step' = step /\ calls' = calls \cup {n}
            /\ n.by = "runner" /\ n.st = "sent" /\ n.sets # "success" /\ n.adds = << >>
        BY <3>2 DEF MarkFailed, Await, Place, Calling
      <4> HIDE DEF n
      <4>. QED  BY <4>1
    <3>. QED  BY <1>7, <3>1, <3>2
  <2>2. PICK n : /\ place \in {"failed", "unmarked"} /\ place' \in {"report", "mark"} /\ step' = step
                 /\ calls' = calls \cup {n}
                 /\ n.by = "runner" /\ n.st = "sent" /\ n.sets # "success" /\ n.adds \in {<< >>, <<Failure>>}
                 /\ n.adds = <<Failure>> => place = "failed"
    BY <2>1
  <2>3. UNCHANGED <<pipe, pending, drains, failure, row, prog, printed>>
    BY <1>7 DEF ReportFailure, MarkFailed, Await, buffer
  <2>4. PipeFits' /\ PlaceFits' /\ CallsFit' /\ GoingFits'
    BY <1>1, <1>2, <2>2, <2>3 DEF PipeFits, PlaceFits, CallsFit, GoingFits, Going, Within, Before, Awaiting
  <2>5. SuccessFits'
    <3>1. SUFFICES ASSUME Successful' PROVE SuccessFits'
      BY DEF SuccessFits
    <3>2. Successful
      BY <2>2, <2>3, <3>1 DEF Successful
    <3>3. n.adds = <<Failure>> => Chain(row.log, 0, printed) /\ \A d \in calls : d.adds # <<Failure>>
      BY <1>1, <2>2, <3>2 DEF SuccessFits, Reported
    <3>. QED  BY <1>1, <2>2, <2>3, <3>2, <3>3 DEF SuccessFits, Reported
  <2>. QED  BY <2>4, <2>5
<1>8. CASE ProcessEnds
  <2>1. /\ place = "dying" /\ place' = "over" /\ calls' = {} /\ step' = step
        /\ UNCHANGED <<prog, pipe, printed, pending, drains, failure, row>>
    BY <1>8 DEF ProcessEnds, Place, child, buffer
  <2>2. PipeFits' /\ PlaceFits' /\ CallsFit' /\ GoingFits'
    BY <1>1, <2>1 DEF PipeFits, PlaceFits, CallsFit, GoingFits, Going, Within, Before
  <2>3. SuccessFits'
    BY <1>1, <2>1 DEF SuccessFits, Successful, Reported
  <2>. QED  BY <2>2, <2>3
<1>. QED  BY <1>3, <1>4, <1>5, <1>6, <1>7, <1>8 DEF Steps

(* What the writer is given goes on where the output was taken last.       *)
LEMMA WriteFits ==
  ASSUME OutputAssumption, OutputFits, NEW items, NEW b \in 0..MaxItems,
         place = "command", Write(items), Chain(items, printed - Len(pipe), b), items # << >> \/ b = printed,
         place' \in {"command", "flush"}, printed' \in 0..MaxItems, printed <= printed', Len(pipe') \in Nat,
         printed' - Len(pipe') = b, row' = row
  PROVE  CallsFit' /\ GoingFits' /\ SuccessFits'
<1> DEFINE n == [by |-> "writer", adds |-> items, sets |-> "none", st |-> "sent", snap |-> "none"]
           a == printed - Len(pipe)
<1>1. OutputTypeOK /\ PipeFits /\ PlaceFits /\ CallsFit /\ GoingFits /\ SuccessFits
  BY DEF OutputFits
<1>2. /\ drains \in {0, 1} /\ failure \in BOOLEAN /\ printed \in Nat /\ Len(pipe) \in Nat /\ a \in 0..printed
      /\ b \in Nat /\ printed' \in Nat /\ b \in 0..printed' /\ MaxPending \in Nat /\ MaxPending >= 2
      /\ \A k \in 0..printed : k \in 0..printed'
  <2>1. MaxItems \in Nat /\ printed \in 0..MaxItems /\ Len(pipe) \in Nat
    BY <1>1, LenProperties DEF OutputAssumption, OutputTypeOK
  <2>2. b \in 0..printed' /\ a \in 0..printed
    BY <1>1, <2>1 DEF PipeFits
  <2>. QED  BY <1>1, <2>1, <2>2 DEF OutputAssumption, OutputTypeOK
<1>3. n.by = "writer" /\ n.adds = items /\ n.sets = "none" /\ n.st = "sent"
  OBVIOUS
<1> HIDE DEF n, a
<1>4. ~Successful
  BY <1>1, NotSuccessful DEF Reported
<1>5. CASE drains > 0
  <2>1. pending' = Limited(pending \o items, MaxPending) /\ UNCHANGED <<calls, drains, failure>> /\ drains = 1
    BY <1>2, <1>5 DEF Write
  <2>2. CallsFit' /\ ~Successful'
    BY <1>1, <1>4, <2>1 DEF CallsFit, Awaiting, Successful
  <2>3. GoingFits'
    <3>1. SUFFICES ASSUME Going' PROVE GoingFits'
      BY DEF GoingFits
    <3>2. Going
      BY <2>1, <3>1 DEF Going, Within
    <3>3. PICK p \in 0..printed, q \in 0..printed :
               /\ Chain(row.log, 0, p) /\ Chain(pending, q, a)
               /\ \A c \in calls : c.st = "sent" => Chain(c.adds, p, q)
               /\ (\A c \in calls : c.st # "sent") => p = q
      BY <1>1, <3>2 DEF GoingFits, a
    <3>4. Chain(pending', q, b)
      <4>1. Chain(items, a, b) /\ a \in Nat /\ q \in Nat
        BY <1>2 DEF a
      <4>2. Chain(pending \o items, q, b)
        BY <1>2, <3>3, <4>1, ChainJoins
      <4>. QED  BY <1>2, <2>1, <4>1, <4>2, ChainLimited
    <3>. QED  BY <1>1, <1>2, <2>1, <3>2, <3>3, <3>4 DEF GoingFits
  <2>. QED  BY <2>2, <2>3 DEF SuccessFits
<1>6. CASE ~(drains > 0) /\ (failure \/ items = << >>)
  <2>1. UNCHANGED <<calls, pending, drains, failure>> /\ drains = 0
    BY <1>2, <1>6 DEF Write, buffer
  <2>2. CallsFit' /\ ~Successful'
    BY <1>1, <1>4, <2>1 DEF CallsFit, Awaiting, Successful
  <2>3. GoingFits'
    <3>1. SUFFICES ASSUME Going' PROVE GoingFits'
      BY DEF GoingFits
    <3>2. Going /\ items = << >>
      BY <1>6, <2>1, <3>1 DEF Going, Within
    <3>3. a = b
      BY <1>2, <3>2 DEF Chain, a
    <3>. QED  BY <1>1, <1>2, <2>1, <3>2, <3>3 DEF GoingFits, a
  <2>. QED  BY <2>2, <2>3 DEF SuccessFits
<1>7. CASE ~(drains > 0) /\ ~(failure \/ items = << >>)
  <2>1. calls' = calls \cup {n} /\ drains' = 1 /\ UNCHANGED <<pending, failure>> /\ drains = 0 /\ ~failure
    BY <1>2, <1>7 DEF Write, Calling, n
  <2>2. Going /\ calls = {} /\ pending = << >>
    <3>1. Going
      BY <2>1 DEF Going, Within
    <3>2. calls = {}
      BY <1>1, <2>1, <3>1, OneCall DEF Awaiting
    <3>. QED  BY <1>1, <2>1, <3>1, <3>2 DEF GoingFits
  <2>3. CallsFit' /\ ~Successful'
    BY <1>3, <1>4, <2>1, <2>2 DEF CallsFit, Successful
  <2>4. GoingFits'
    <3>1. PICK p \in 0..printed, q \in 0..printed :
               Chain(row.log, 0, p) /\ Chain(<< >>, q, a) /\ p = q
      BY <1>1, <2>2 DEF GoingFits, a
    <3>2. q = a
      BY <1>2, <3>1 DEF Chain
    <3>3. Chain(<< >>, b, b) /\ Chain(items, a, b)
      <4>1. \A k \in Nat : Chain(<< >>, k, k)
        BY ChainStarts
      <4>. QED  BY <1>2, <4>1 DEF a
    <3>. QED  BY <1>2, <1>3, <2>1, <2>2, <3>1, <3>2, <3>3 DEF GoingFits
  <2>. QED  BY <2>3, <2>4 DEF SuccessFits
<1>. QED  BY <1>5, <1>6, <1>7

(* The child process, its output and its signals.                          *)
LEMMA CommandFits ==
  ASSUME OutputAssumption, OutputFits, Command
  PROVE  (PipeFits /\ PlaceFits /\ CallsFit /\ GoingFits /\ SuccessFits)'
<1>1. OutputTypeOK /\ PipeFits /\ PlaceFits /\ CallsFit /\ GoingFits /\ SuccessFits
  BY DEF OutputFits
<1>2. /\ step \in 1..(Len(Plan) + 1) /\ Len(Plan) = 3 /\ printed \in Nat /\ drains \in {0, 1}
      /\ failure \in BOOLEAN /\ calls \subseteq LogCall /\ Len(pipe) \in Nat /\ prog \in ChildProcess
      /\ pipe \in Seq(1..MaxItems) /\ MaxItems \in Nat /\ printed \in 0..MaxItems
  BY <1>1, LenProperties DEF OutputTypeOK, Plan, OutputAssumption
<1>3. CASE SpawnCommand
  <2>1. /\ place = "spawn" /\ place' = "command" /\ pending' = << >> /\ drains' = 0 /\ failure' = FALSE
        /\ prog'.st = "running" /\ UNCHANGED <<step, pipe, printed, calls, row>>
    BY <1>3 DEF SpawnCommand, Place, NoProc
  <2>2. ~failure /\ Going /\ drains = 0 /\ pending = << >> /\ calls = {}
    <3>1. ~failure /\ Going /\ drains = 0
      BY <1>1, <1>2, <2>1 DEF PlaceFits, Before, Within, Going, CallsFit
    <3>2. calls = {}
      BY <1>1, <2>1, <3>1, OneCall DEF Awaiting
    <3>. QED  BY <1>1, <3>1, <3>2 DEF GoingFits
  <2>3. PipeFits' /\ PlaceFits' /\ CallsFit'
    BY <1>1, <2>1, <2>2 DEF PipeFits, PlaceFits, CallsFit, Before, Within
  <2>4. GoingFits'
    BY <1>1, <2>1, <2>2 DEF GoingFits
  <2>5. ~Successful'
    <3>1. ~Successful
      BY <1>1, <2>1, NotSuccessful DEF Reported
    <3>. QED  BY <2>1, <3>1 DEF Successful
  <2>. QED  BY <2>3, <2>4, <2>5 DEF SuccessFits
<1>4. CASE SpawnFails
  <2>1. /\ place = "command" /\ place' = "flush" /\ pipe = << >> /\ Write(Line) /\ prog'.st = "none"
        /\ printed' = printed + Len(Line) /\ UNCHANGED <<step, pipe, row>> /\ drains = 0
        /\ failure' = failure
    BY <1>4 DEF SpawnFails, Place, Prints, NoProc, Write, buffer
  <2>2. Len(pipe) = 0 /\ Len(Line) \in {0, 1} /\ printed' \in 0..MaxItems /\ printed' >= 1 /\ printed <= printed'
    BY <1>1, <1>2, <2>1, LineFits
  <2>3. PipeFits' /\ PlaceFits'
    BY <1>1, <2>1, <2>2 DEF PipeFits, PlaceFits, Before, Within
  <2>4. CallsFit' /\ GoingFits' /\ SuccessFits'
    <3>1. /\ Chain(Line, printed - Len(pipe), printed') /\ (Line # << >> \/ printed' = printed)
          /\ printed' - Len(pipe') = printed' /\ Len(pipe') \in Nat
      <4>1. printed - Len(pipe) = printed /\ Chain(Line, printed, printed') /\ Len(pipe') = 0
        BY <1>1, <1>2, <2>1, <2>2, LineFits
      <4>2. Line = << >> => printed' = printed
        BY <1>2, <2>1
      <4>3. printed' - 0 = printed'
        <5>1. printed' \in Nat
          BY <1>2, <2>2
        <5>2. \A k \in Nat : k - 0 = k
          OBVIOUS
        <5>. QED  BY <5>1, <5>2
      <4>. QED  BY <4>1, <4>2, <4>3
    <3>. QED
      BY <2>1, <2>2, <3>1, WriteFits
  <2>. QED  BY <2>3, <2>4
<1>5. CASE ChildPrints
  <2>1. /\ prog.st = "running" /\ printed < MaxItems /\ printed' = printed + 1 /\ pipe' = Append(pipe, printed + 1)
        /\ UNCHANGED <<step, place, prog, pending, drains, failure, calls, row>>
    BY <1>5 DEF ChildPrints, runner, buffer
  <2>2. place = "command"
    BY <1>1, <2>1 DEF PipeFits
  <2>3. /\ Len(pipe') = Len(pipe) + 1 /\ \A i \in 1..Len(pipe) : pipe'[i] = pipe[i]
        /\ pipe'[Len(pipe) + 1] = printed + 1
    BY <1>2, <2>1, AppendProperties
  <2>4. printed' - Len(pipe') = printed - Len(pipe)
    BY <1>2, <2>1, <2>3
  <2>5. PipeFits'
    <3>1. ASSUME NEW i \in 1..Len(pipe') PROVE pipe'[i] = printed' - Len(pipe') + i
      <4>1. CASE i \in 1..Len(pipe)
        BY <1>1, <1>2, <2>3, <2>4, <4>1 DEF PipeFits
      <4>2. CASE i = Len(pipe) + 1
        BY <1>2, <2>1, <2>3, <4>2
      <4>. QED  BY <1>2, <2>3, <4>1, <4>2
    <3>2. Len(pipe') <= printed'
      BY <1>1, <1>2, <2>1, <2>3 DEF PipeFits
    <3>. QED  BY <2>1, <2>2, <3>1, <3>2 DEF PipeFits
  <2>6. PlaceFits' /\ CallsFit'
    BY <1>1, <1>2, <2>1 DEF PlaceFits, CallsFit
  <2>7. GoingFits'
    <3>1. \A k \in 0..printed : k \in 0..printed'
      BY <1>2, <2>1
    <3>. QED  BY <1>1, <2>1, <2>4, <3>1 DEF GoingFits, Going
  <2>8. ~Successful'
    <3>1. ~Successful
      BY <1>1, <2>2, NotSuccessful DEF Reported
    <3>. QED  BY <2>1, <3>1 DEF Successful
  <2>. QED  BY <2>5, <2>6, <2>7, <2>8 DEF SuccessFits
<1>6. CASE ChildExits \/ Timeout \/ Kill \/ Abort
  <2>1. /\ UNCHANGED <<step, place, pipe, printed, pending, drains, failure, calls, row>>
        /\ place = "command" => prog'.st \in {prog.st, "exited"}
        /\ place # "command" => prog' = prog
    <3>1. prog.st = "running" => place = "command"
      BY <1>1 DEF PipeFits
    <3>2. \A s : [prog EXCEPT !.sig = s].st = prog.st /\ [prog EXCEPT !.late = TRUE, !.sig = s].st = prog.st
      BY <1>2 DEF ChildProcess
    <3>3. \A ok : [prog EXCEPT !.st = "exited", !.ok = ok].st = "exited"
      BY <1>2 DEF ChildProcess
    <3>4. CASE ChildExits
      BY <3>1, <3>3, <3>4 DEF ChildExits, runner, buffer
    <3>5. CASE Timeout \/ Kill \/ Abort
      BY <3>2, <3>5 DEF Timeout, Kill, Abort, runner, buffer
    <3>. QED  BY <1>6, <3>4, <3>5
  <2>2. PipeFits' /\ PlaceFits'
    BY <1>1, <2>1 DEF PipeFits, PlaceFits
  <2>3. CallsFit' /\ GoingFits' /\ SuccessFits'
    BY <1>1, <2>1 DEF CallsFit, GoingFits, Going, SuccessFits, Successful
  <2>. QED  BY <2>2, <2>3
<1>7. CASE Collect
  <2>1. /\ pipe # << >> /\ pipe' = Tail(pipe) /\ Write(<<Head(pipe)>>)
        /\ UNCHANGED <<step, place, prog, printed, row>>
    BY <1>7 DEF Collect, runner
  <2>2. place = "command"
    BY <1>1, <2>1 DEF PipeFits
  <2> DEFINE b == printed - Len(pipe) + 1
  <2>3. /\ Len(pipe) >= 1 /\ Len(pipe') = Len(pipe) - 1 /\ Head(pipe) = pipe[1]
        /\ \A i \in 1..(Len(pipe) - 1) : pipe'[i] = pipe[i + 1]
    BY <1>2, <2>1, EmptySeq
  <2>4. Head(pipe) = b /\ b \in 0..MaxItems /\ printed' - Len(pipe') = b /\ Len(pipe') \in Nat
    BY <1>1, <1>2, <2>1, <2>3 DEF PipeFits
  <2>5. PipeFits'
    <3>1. ASSUME NEW i \in 1..Len(pipe') PROVE pipe'[i] = printed' - Len(pipe') + i
      <4>1. i \in 1..(Len(pipe) - 1) /\ i + 1 \in 1..Len(pipe)
        BY <1>2, <2>3
      <4>2. pipe'[i] = printed - Len(pipe) + (i + 1)
        BY <1>1, <2>3, <4>1 DEF PipeFits
      <4>. QED  BY <1>2, <2>1, <2>3, <4>1, <4>2
    <3>2. Len(pipe') <= printed'
      BY <1>1, <1>2, <2>1, <2>3 DEF PipeFits
    <3>. QED  BY <1>1, <2>1, <2>2, <3>1, <3>2 DEF PipeFits
  <2>6. PlaceFits'
    <3>1. failure' = failure
      BY <2>1 DEF Write, buffer
    <3>. QED  BY <1>1, <2>1, <3>1 DEF PlaceFits
  <2>7. CallsFit' /\ GoingFits' /\ SuccessFits'
    <3>1. Chain(<<Head(pipe)>>, printed - Len(pipe), b) /\ <<Head(pipe)>> # << >>
      <4>1. printed - Len(pipe) \in Nat
        BY <1>1, <1>2 DEF PipeFits
      <4>2. \A a \in Nat : Chain(<<a + 1>>, a, a + 1)
        BY ChainStarts
      <4>3. Chain(<<(printed - Len(pipe)) + 1>>, printed - Len(pipe), (printed - Len(pipe)) + 1)
        BY <4>1, <4>2
      <4>. QED  BY <2>4, <4>3
    <3>2. printed' \in 0..MaxItems /\ printed <= printed' /\ place' = "command" /\ row' = row
      BY <1>2, <2>1, <2>2
    <3> HIDE DEF b
    <3>. QED  BY <2>1, <2>2, <2>4, <3>1, <3>2, WriteFits
  <2>. QED  BY <2>5, <2>6, <2>7
<1>8. CASE CommandEnds
  <2>1. /\ place = "command" /\ place' = "flush" /\ pipe = << >> /\ prog'.st = "none"
        /\ UNCHANGED <<step, pipe, printed, pending, drains, failure, calls, row>>
    BY <1>8 DEF CommandEnds, PipesClosed, Place, NoProc, buffer
  <2>2. PipeFits' /\ PlaceFits'
    BY <1>1, <2>1 DEF PipeFits, PlaceFits, Within, Before
  <2>3. CallsFit' /\ GoingFits'
    BY <1>1, <2>1 DEF CallsFit, Awaiting, GoingFits, Going, Within
  <2>4. ~Successful'
    <3>1. ~Successful
      BY <1>1, <2>1, NotSuccessful DEF Reported
    <3>. QED  BY <2>1, <3>1 DEF Successful
  <2>. QED  BY <2>2, <2>3, <2>4 DEF SuccessFits
<1>9. CASE Flush /\ (failure \/ signalled)
  <2>1. /\ place = "flush" /\ place' = "failed" /\ drains = 0
        /\ UNCHANGED <<step, prog, pipe, printed, pending, drains, failure, calls, row>>
    BY <1>9 DEF Flush, Place, child, buffer
  <2>2. PipeFits' /\ PlaceFits'
    BY <1>1, <2>1 DEF PipeFits, PlaceFits, Within, Before
  <2>3. CallsFit' /\ GoingFits'
    BY <1>1, <2>1 DEF CallsFit, Awaiting, GoingFits, Going, Within, Before
  <2>4. ~Successful'
    <3>1. ~Successful
      BY <1>1, <2>1, NotSuccessful DEF Reported
    <3>. QED  BY <2>1, <3>1 DEF Successful
  <2>. QED  BY <2>2, <2>3, <2>4 DEF SuccessFits
<1>10. CASE Flush /\ ~(failure \/ signalled)
  <2> DEFINE n == [by |-> "runner", adds |-> Line, sets |-> "none", st |-> "sent", snap |-> "none"]
  <2>1. /\ place = "flush" /\ place' = "newline" /\ drains = 0 /\ ~failure /\ calls' = calls \cup {n}
        /\ UNCHANGED <<step, prog, pipe, pending, drains, failure, row>> /\ printed' = printed + Len(Line)
    BY <1>10 DEF Flush, Await, Place, Prints, Calling, child, buffer
  <2>2. n.by = "runner" /\ n.adds = Line /\ n.sets = "none" /\ n.st = "sent"
    OBVIOUS
  <2> HIDE DEF n
  <2>3. Going /\ pending = << >> /\ pipe = << >> /\ calls = {} /\ prog.st = "none"
    <3>1. Going
      BY <2>1 DEF Going, Within
    <3>2. calls = {}
      BY <1>1, <2>1, <3>1, OneCall DEF Awaiting
    <3>. QED  BY <1>1, <2>1, <3>1, <3>2 DEF GoingFits, PipeFits
  <2>4. Len(pipe) = 0 /\ Len(Line) \in {0, 1} /\ printed' \in Nat /\ printed' >= 1 /\ printed <= printed'
    BY <1>1, <1>2, <2>1, <2>3, LineFits
  <2>5. PipeFits'
    BY <1>1, <2>1, <2>3, <2>4 DEF PipeFits
  <2>6. PlaceFits' /\ CallsFit'
    BY <1>1, <1>2, <2>1, <2>2, <2>3, <2>4 DEF PlaceFits, CallsFit, Within, Before, Awaiting
  <2>7. GoingFits'
    <3>1. PICK p \in 0..printed, q \in 0..printed :
               Chain(row.log, 0, p) /\ Chain(<< >>, q, printed - 0) /\ p = q
      BY <1>1, <2>3, <2>4 DEF GoingFits
    <3>2. q = printed
      BY <1>2, <3>1 DEF Chain
    <3>3. Chain(<< >>, printed', printed') /\ Chain(Line, printed, printed') /\ printed' - 0 = printed'
      <4>1. \A a \in Nat : Chain(<< >>, a, a)
        BY ChainStarts
      <4>. QED  BY <1>1, <2>1, <2>4, <4>1, LineFits
    <3>4. printed \in 0..printed' /\ printed' \in 0..printed'
      BY <1>2, <2>4
    <3>. QED  BY <2>1, <2>2, <2>3, <2>4, <3>1, <3>2, <3>3, <3>4 DEF GoingFits
  <2>8. ~Successful'
    <3>1. ~Successful
      BY <1>1, <2>1, NotSuccessful DEF Reported
    <3>. QED  BY <2>1, <2>2, <3>1 DEF Successful
  <2>. QED  BY <2>5, <2>6, <2>7, <2>8 DEF SuccessFits
<1>. QED  BY <1>3, <1>4, <1>5, <1>6, <1>7, <1>8, <1>9, <1>10 DEF Command

(* At first nothing is printed and nothing is stored.                      *)
LEMMA OutputFitsInit ==
  ASSUME OutputAssumption, OutputInit
  PROVE  OutputFits
<1>1. /\ step = 1 /\ place = "off" /\ prog.st = "none" /\ pipe = << >> /\ printed = 0 /\ pending = << >>
      /\ drains = 0 /\ failure = FALSE /\ calls = {} /\ row.status = "running" /\ row.log = << >>
  BY DEF OutputInit, NoProc
<1>2. Len(<< >>) = 0 /\ 0 - 0 = 0 /\ MaxLog \in Nat /\ MaxLog >= 3 /\ MaxItems \in Nat /\ Len(Plan) = 3
  BY DEF OutputAssumption, Plan
<1>3. OutputTypeOK
  <2>1. NoProc \in ChildProcess /\ NoReader \in LogReader
    BY DEF NoProc, ChildProcess, NoReader, LogReader, Statuses
  <2>2. << >> \in Seq(0..MaxItems) /\ << >> \in Seq(1..MaxItems) /\ << >> \in Seq(Int)
    OBVIOUS
  <2>3. rd \in [Reader -> LogReader] /\ row \in [status : Statuses \ {"none"}, log : Seq(Int)]
          /\ prog \in ChildProcess
    <3> HIDE DEF LogReader
    <3>. QED  BY <2>1, <2>2 DEF OutputInit, Statuses
  <2>4. place \in RunnerPlace /\ step \in 1..(Len(Plan) + 1) /\ 0 \in 0..MaxItems
    BY <1>1, <1>2 DEF RunnerPlace
  <2>5. remote \in BOOLEAN /\ signalled \in BOOLEAN
    BY DEF OutputInit
  <2>. QED  BY <1>1, <2>2, <2>3, <2>4, <2>5 DEF OutputTypeOK
<1>4. PipeFits /\ PlaceFits /\ CallsFit
  BY <1>1, <1>2 DEF PipeFits, PlaceFits, CallsFit, Within, Before
<1>5. GoingFits
  <2>1. Chain(<< >>, 0, 0)
    <3>1. \A a \in Nat : Chain(<< >>, a, a)
      BY ChainStarts
    <3>. QED  BY <3>1
  <2>. QED  BY <1>1, <1>2, <2>1 DEF GoingFits
<1>6. SuccessFits
  BY <1>1 DEF SuccessFits, Successful
<1>. QED  BY <1>3, <1>4, <1>5, <1>6 DEF OutputFits

(* Every step keeps the invariant.                                         *)
LEMMA OutputFitsStep ==
  ASSUME OutputAssumption, OutputFits, [OutputNext]_outputVars
  PROVE  OutputFits'
<1>1. CASE UNCHANGED outputVars
  <2>1. UNCHANGED <<remote, step, place, signalled, prog, pipe, printed, pending, drains, failure, calls, row, rd>>
    BY <1>1 DEF outputVars, runner, child, buffer
  <2>2. OutputTypeOK' /\ PipeFits' /\ PlaceFits' /\ CallsFit'
    BY <2>1 DEF OutputFits, OutputTypeOK, PipeFits, PlaceFits, CallsFit
  <2>3. GoingFits' /\ SuccessFits'
    BY <2>1 DEF OutputFits, GoingFits, Going, SuccessFits, Successful
  <2>. QED  BY <2>2, <2>3 DEF OutputFits
<1>2. CASE OutputNext
  <2>1. OutputTypeOK'
    BY <1>2, OutputTypes DEF OutputFits
  <2>2. (PipeFits /\ PlaceFits /\ CallsFit /\ GoingFits /\ SuccessFits)'
    <3>1. CASE Launch \/ Steps
      BY <3>1, StepsFit
    <3>2. CASE Command
      BY <3>2, CommandFits
    <3>3. CASE Streams \/ AllQuiet
      <4>1. UNCHANGED <<step, place, prog, pipe, printed, pending, drains, failure, calls, row>>
        BY <3>3, StreamsFit DEF OutputFits, AllQuiet, outputVars, runner, child, buffer
      <4>. QED
        BY <4>1 DEF OutputFits, PipeFits, PlaceFits, CallsFit, GoingFits, Going, SuccessFits, Successful
    <3>4. ASSUME NEW c \in calls, Returned(c) \/ Lost(c) \/ GivenUp(c)
          PROVE  (PipeFits /\ PlaceFits /\ CallsFit /\ GoingFits /\ SuccessFits)'
      <4>1. c.by # "nobody"
        BY <3>4 DEF OutputFits, CallsFit, Returned, Lost, GivenUp
      <4>2. \E ok \in BOOLEAN, gone \in SUBSET {[c EXCEPT !.by = "nobody"]} :
              /\ ok => c.st = "published" /\ gone = {}
              /\ c.st = "published" => gone = {}
              /\ SettleCall(c, ok, (calls \ {c}) \cup gone)
              /\ UNCHANGED <<remote, signalled, child, row, rd>>
        <5>1. (calls \ {c}) \cup {} = calls \ {c}
          OBVIOUS
        <5>2. CASE Returned(c)
          <6>1. SettleCall(c, TRUE, (calls \ {c}) \cup {}) /\ c.st = "published"
            BY <5>1, <5>2 DEF Returned
          <6>. QED  BY <5>2, <6>1 DEF Returned
        <5>3. CASE Lost(c)
          <6>1. SettleCall(c, FALSE, (calls \ {c}) \cup {})
            BY <5>1, <5>3 DEF Lost
          <6>. QED  BY <5>3, <6>1 DEF Lost
        <5>4. CASE GivenUp(c)
          <6>1. SettleCall(c, FALSE, (calls \ {c}) \cup {[c EXCEPT !.by = "nobody"]}) /\ c.st # "published"
            BY <5>4 DEF GivenUp
          <6>. QED  BY <5>4, <6>1 DEF GivenUp
        <5>. QED  BY <3>4, <5>2, <5>3, <5>4
      <4>. QED  BY <4>1, <4>2, SettleFits
    <3>. QED  BY <1>2, <3>1, <3>2, <3>3, <3>4, UpdateFits, PublishFits DEF OutputNext, Calls
  <2>. QED  BY <2>1, <2>2 DEF OutputFits
<1>. QED  BY <1>1, <1>2

(* What is known of a success is what is promised of it.                   *)
LEMMA SuccessIsWhole ==
  ASSUME OutputFits
  PROVE  SuccessHasWholeLog
<1>1. SUFFICES ASSUME row.status = "success" PROVE SuccessHasWholeLog
  BY DEF SuccessHasWholeLog
<1> DEFINE out == Output(row.log)
<1>2. Chain(out, 0, printed) /\ printed >= 1
  BY <1>1 DEF OutputFits, SuccessFits, Successful
<1> HIDE DEF out
<1>3. out # << >> /\ out[Len(out)] = printed
  BY <1>2 DEF Chain
<1>4. \A i \in 1..Len(out) : out[i] # Gap =>
        IF i = 1 THEN out[i] = 1
        ELSE out[i] = out[i - 1] + 1 \/ (out[i - 1] = Gap /\ \A j \in 1..(i - 1) : out[j] < out[i])
  BY <1>2 DEF Chain
<1>. QED  BY <1>3, <1>4 DEF SuccessHasWholeLog, out

(* The inductive invariant of a deployment's output.                       *)
THEOREM OutputInvariant == OutputSpec => []OutputFits
<1>1. OutputInit => OutputFits
  BY OutputAssumption, OutputFitsInit
<1>2. OutputFits /\ [OutputNext]_outputVars => OutputFits'
  BY OutputAssumption, OutputFitsStep
<1>. QED  BY <1>1, <1>2, PTL DEF OutputSpec

(* A deployment that is recorded as a success has its whole output in its  *)
(* log: what its commands printed, in the order in which it was printed,   *)
(* with a notice wherever something was left out, to the last item.        *)
THEOREM SuccessesHaveWholeLogs == OutputSpec => []SuccessHasWholeLog
<1>1. OutputFits => SuccessHasWholeLog
  BY SuccessIsWhole
<1>. QED  BY <1>1, OutputInvariant, PTL

-----------------------------------------------------------------------------
(* Frp *)

(* The unique index: no two rows have a port of one protocol. *)
RowsApart ==
  \A t, u \in TunnelRows :
    frpTunnels[t].protocol = frpTunnels[u].protocol /\ frpTunnels[t].port = frpTunnels[u].port => t = u

(* What the server serves is in what frpc has loaded; when it does not run it has loaded nothing. *)
ServesLoaded ==
  /\ \A u \in Generated : proxies[u].status = "online" =>
       \E x \in frpcLoaded : x.id = u /\ x.protocol = proxies[u].protocol /\ x.port = proxies[u].port
  /\ \A u \in ProxyId : proxies[u].status = "online" => frpServer
  /\ ~frpcRuns => frpcLoaded = {}

(* A row has a name and a public port of the range. *)
RowsPorted == \A t \in TunnelRows : frpTunnels[t].port \in Port /\ frpTunnels[t].name \in Name

FrpInv == FrpTypeOK /\ RowsApart /\ RowsPorted /\ ServesLoaded

(* The public ports are numbers from a range that is not empty, and 0 is the sample's identifier. *)
LEMMA FrpNumbers ==
  /\ frpPortStart \in Port /\ 0 \in Generated /\ \A t \in TunnelId : t \in Generated
  /\ \A u \in Generated : u \in ProxyId
  /\ \A u \in Name : u \in ProxyId
  /\ \A u \in ProxyId : u \in Generated \/ u \in Name
<1>1. frpPortStart \in Port
  BY FrpAssumption DEF Port
<1>2. /\ 0 \in Generated /\ \A t \in TunnelId : t \in Generated
      /\ \A u \in Generated : u \in ProxyId
      /\ \A u \in Name : u \in ProxyId
      /\ \A u \in ProxyId : u \in Generated \/ u \in Name
  BY FrpAssumption DEF ProxyId, Generated, TunnelId
<1> QED
  BY <1>1, <1>2

(* The file made of the rows holds a proxy of each enabled row, or else the sample alone. *)
LEMMA TomlProxies ==
  ASSUME FrpTypeOK, \A t \in TunnelRows : frpTunnels[t].port \in Port
  PROVE  FrpcToml \subseteq FrpcProxy
<1>1. SampleTunnel \in FrpcProxy
  BY FrpNumbers DEF SampleTunnel, FrpcProxy, Protocol
<1>2. ASSUME NEW t \in EnabledRows PROVE Proxy(t) \in FrpcProxy
  <2>1. t \in TunnelId /\ t \in TunnelRows
    BY <1>2 DEF EnabledRows, TunnelRows
  <2>2. t \in Generated /\ frpTunnels[t].protocol \in Protocol /\ frpTunnels[t].port \in Port
    BY <2>1, FrpNumbers DEF FrpTypeOK, TunnelRow
  <2> QED
    BY <2>2 DEF Proxy, FrpcProxy
<1> QED
  BY <1>1, <1>2 DEF FrpcToml

(* The rows stay: so do the index and the ports. *)
LEMMA RowsStay ==
  ASSUME FrpInv, RowsUnchanged, FrpTypeOK', ServesLoaded'
  PROVE  FrpInv'
<1>1. TunnelRows' = TunnelRows
  BY DEF TunnelRows, RowsUnchanged
<1> QED
  BY <1>1 DEF FrpInv, RowsApart, RowsPorted, RowsUnchanged

(* One row of the table is written, with a port that is free, or taken off. *)
LEMMA RowWritten ==
  ASSUME FrpInv, NEW t \in TunnelId, NEW r \in TunnelRow, MachineUnchanged,
         frpTunnels' = [frpTunnels EXCEPT ![t] = r], publicHost' \in BOOLEAN,
         r.st = "row" => r.port \in Port /\ r.name \in Name /\ PortFree(t, r.protocol, r.port)
  PROVE  FrpInv'
<1>1. frpTunnels' \in [TunnelId -> TunnelRow] /\ \A q \in TunnelId : frpTunnels'[q] = IF q = t THEN r
        ELSE frpTunnels[q]
  BY DEF FrpInv, FrpTypeOK
<1>2. FrpTypeOK'
  BY <1>1 DEF FrpInv, FrpTypeOK, MachineUnchanged
<1>3. ServesLoaded'
  BY DEF FrpInv, ServesLoaded, MachineUnchanged
<1>4. \A q \in TunnelRows' : q \in TunnelId /\ (q # t => q \in TunnelRows /\ frpTunnels'[q] = frpTunnels[q])
                            /\ (q = t => r.st = "row" /\ frpTunnels'[q] = r)
  BY <1>1 DEF TunnelRows
<1>5. RowsPorted'
  BY <1>4 DEF FrpInv, RowsPorted
<1>6. RowsApart'
  <2> SUFFICES ASSUME NEW a \in TunnelRows', NEW b \in TunnelRows', a # b,
                      frpTunnels'[a].protocol = frpTunnels'[b].protocol, frpTunnels'[a].port = frpTunnels'[b].port
               PROVE  FALSE
    BY DEF RowsApart
  <2>1. CASE a # t /\ b # t
    BY <1>4, <2>1 DEF FrpInv, RowsApart
  <2>2. CASE a = t
    BY <1>4, <2>2 DEF PortFree
  <2>3. CASE b = t
    BY <1>4, <2>3 DEF PortFree
  <2> QED
    BY <2>1, <2>2, <2>3
<1> QED
  BY <1>2, <1>3, <1>5, <1>6 DEF FrpInv

(* The starting state is sound. *)
LEMMA FrpInvInit == FrpInit => FrpInv
<1> SUFFICES ASSUME FrpInit PROVE FrpInv
  OBVIOUS
<1>1. NoTunnel \in TunnelRow /\ NoTunnel.st = "unused"
  BY DEF NoTunnel, TunnelRow, Protocol
<1>2. NoProxy \in ServerProxy /\ NoProxy.status = "none"
  BY DEF NoProxy, ServerProxy, Protocol
<1>3. \A t \in TunnelId : frpTunnels[t] = NoTunnel
  BY DEF FrpInit
<1>4. \A t \in ProxyId : proxies[t] = NoProxy
  BY DEF FrpInit
<1>5. FrpTypeOK
  BY <1>1, <1>2 DEF FrpInit, FrpTypeOK
<1>6. TunnelRows = {}
  BY <1>1, <1>3 DEF TunnelRows
<1>7. ServesLoaded
  BY <1>2, <1>4, FrpNumbers DEF ServesLoaded, FrpInit
<1> QED
  BY <1>5, <1>6, <1>7 DEF FrpInv, RowsApart, RowsPorted

(* A proxy that goes offline, or that the server forgets, is not served. *)
LEMMA ProxiesGo ==
  ASSUME FrpInv, RowsUnchanged, {frpcRuns', frpServer'} \subseteq BOOLEAN,
         frpcFile' = frpcFile, frpcLoaded' \subseteq FrpcProxy, frpcRuns' \/ frpcLoaded' = {},
         proxies' \in [ProxyId -> ServerProxy],
         \A u \in ProxyId : proxies'[u].status = "online" =>
           frpServer' /\ proxies'[u] = proxies[u] /\ (u \in Generated => frpcLoaded' = frpcLoaded)
  PROVE  FrpInv'
<1>1. ServesLoaded'
  BY FrpNumbers DEF FrpInv, ServesLoaded
<1>2. FrpTypeOK'
  BY DEF FrpInv, FrpTypeOK, RowsUnchanged
<1> QED
  BY <1>1, <1>2, RowsStay

(* Every step keeps the invariant of the tunnels. *)
LEMMA FrpInvStep == FrpInv /\ [FrpNext]_frpVars => FrpInv'
<1> SUFFICES ASSUME FrpInv, [FrpNext]_frpVars PROVE FrpInv'
  OBVIOUS
<1>0. FrpTypeOK /\ ServesLoaded /\ RowsPorted /\ FrpcToml \subseteq FrpcProxy
  BY TomlProxies DEF FrpInv, RowsPorted
<1>1. CASE SaveFrpSettings
  <2>1. publicHost' \in BOOLEAN /\ UNCHANGED frpTunnels /\ MachineUnchanged
    BY <1>1 DEF SaveFrpSettings
  <2>2. TunnelRows' = TunnelRows
    BY <2>1 DEF TunnelRows
  <2> QED
    BY <2>1, <2>2 DEF FrpInv, FrpTypeOK, RowsApart, RowsPorted, ServesLoaded, MachineUnchanged
<1>2. ASSUME NEW t \in TunnelId, NEW name \in Name, NEW p \in Protocol, NEW n \in Port, NEW e \in BOOLEAN,
               WriteTunnel(t, name, p, n, e)
      PROVE  FrpInv'
  <2> DEFINE r == [st |-> "row", name |-> name, protocol |-> p, port |-> n, enabled |-> e]
  <2>1. r \in TunnelRow /\ r.port = n /\ r.protocol = p /\ r.name = name
    BY DEF TunnelRow
  <2>2. frpTunnels' = [frpTunnels EXCEPT ![t] = r] /\ PortFree(t, p, n) /\ MachineUnchanged
          /\ publicHost' = publicHost
    BY <1>2 DEF WriteTunnel
  <2>3. publicHost' \in BOOLEAN
    BY <1>0, <2>2 DEF FrpTypeOK
  <2> HIDE DEF r
  <2> QED
    BY <2>1, <2>2, <2>3, RowWritten
<1>3. CASE CreateFrpTunnel
  BY <1>2, <1>3 DEF CreateFrpTunnel
<1>4. CASE UpdateFrpTunnel
  BY <1>2, <1>4 DEF UpdateFrpTunnel, TunnelRows
<1>5. CASE DeleteFrpTunnel
  <2> DEFINE r == [NoTunnel EXCEPT !.st = "deleted"]
  <2>1. r \in TunnelRow /\ r.st = "deleted"
    BY DEF TunnelRow, NoTunnel, Protocol
  <2>2. PICK t \in TunnelRows : frpTunnels' = [frpTunnels EXCEPT ![t] = r]
    BY <1>5 DEF DeleteFrpTunnel
  <2>3. t \in TunnelId /\ MachineUnchanged /\ publicHost' \in BOOLEAN
    BY <1>0, <1>5 DEF DeleteFrpTunnel, TunnelRows, FrpTypeOK
  <2> HIDE DEF r
  <2> QED
    BY <2>1, <2>2, <2>3, RowWritten
<1>6. CASE InstallFrpc
  <2>1. frpcFile' = FrpcToml /\ frpcRuns' = TRUE /\ UNCHANGED <<frpServer, proxies>> /\ RowsUnchanged
        /\ frpcLoaded' = IF frpcRuns THEN frpcLoaded ELSE FrpcToml
    BY <1>6 DEF InstallFrpc
  <2>2. frpcLoaded' \subseteq FrpcProxy
    BY <1>0, <2>1 DEF FrpTypeOK
  <2>3. FrpTypeOK'
    BY <1>0, <2>1, <2>2 DEF FrpTypeOK, RowsUnchanged
  <2>4. ServesLoaded'
    BY <1>0, <2>1 DEF ServesLoaded
  <2> QED
    BY <2>1, <2>3, <2>4, RowsStay
<1>7. CASE FrpcRestarts
  <2>1. frpcRuns /\ frpcLoaded' = frpcFile /\ proxies' = Offline(proxies)
        /\ UNCHANGED <<frpcFile, frpcRuns, frpServer>> /\ RowsUnchanged
    BY <1>7 DEF FrpcRestarts
  <2>2. \A u \in ProxyId : /\ proxies[u] \in ServerProxy
                           /\ [proxies[u] EXCEPT !.status = "offline"] \in ServerProxy
                           /\ [proxies[u] EXCEPT !.status = "offline"].status = "offline"
    BY <1>0 DEF FrpTypeOK, ServerProxy
  <2>3. proxies' = [u \in ProxyId |-> IF u \in Generated /\ proxies[u].status = "online"
                                      THEN [proxies[u] EXCEPT !.status = "offline"] ELSE proxies[u]]
    BY <1>0, <2>1 DEF FrpTypeOK, Offline
  <2>4. /\ proxies' \in [ProxyId -> ServerProxy]
        /\ \A u \in ProxyId : proxies'[u].status = "online" => u \notin Generated /\ proxies'[u] = proxies[u]
    BY <2>2, <2>3
  <2>5. \A u \in ProxyId : proxies'[u].status = "online" =>
          frpServer' /\ proxies'[u] = proxies[u] /\ (u \in Generated => frpcLoaded' = frpcLoaded)
    BY <1>0, <2>1, <2>4 DEF ServesLoaded
  <2>6. {frpcRuns', frpServer'} \subseteq BOOLEAN /\ frpcLoaded' \subseteq FrpcProxy /\ frpcRuns'
          /\ frpcFile' = frpcFile
    BY <1>0, <2>1 DEF FrpTypeOK
  <2> QED
    BY <2>1, <2>4, <2>5, <2>6, ProxiesGo
<1>8. CASE Registers
  <2>1. PICK u \in ProxyId, p \in Protocol, n \in Port :
          /\ proxies' = [proxies EXCEPT ![u] = [status |-> "online", protocol |-> p, port |-> n]]
          /\ u \notin Generated \/ \E x \in frpcLoaded : x.id = u /\ x.protocol = p /\ x.port = n
    <3>1. CASE \E x \in frpcLoaded : Register(x.id, x.protocol, x.port)
      <4>1. PICK x \in frpcLoaded : Register(x.id, x.protocol, x.port)
        BY <3>1
      <4>2. x.id \in ProxyId /\ x.protocol \in Protocol /\ x.port \in Port
        BY <1>0, FrpNumbers DEF FrpTypeOK, FrpcProxy
      <4> QED
        BY <4>1, <4>2 DEF Register
    <3>2. CASE \E name \in Name, p \in Protocol, n \in Port : Register(name, p, n)
      <4>1. \A u \in Name : u \in ProxyId /\ u \notin Generated
        BY FrpAssumption, FrpNumbers DEF Generated
      <4> QED
        BY <3>2, <4>1 DEF Register
    <3> QED
      BY <1>8, <3>1, <3>2 DEF Registers
  <2> DEFINE h == [status |-> "online", protocol |-> p, port |-> n]
  <2>3. h \in ServerProxy /\ h.protocol = p /\ h.port = n
    BY DEF ServerProxy
  <2>4. UNCHANGED <<frpcFile, frpcLoaded, frpcRuns, frpServer>> /\ RowsUnchanged /\ frpServer
    BY <1>8 DEF Registers
  <2> HIDE DEF h
  <2>5. proxies' \in [ProxyId -> ServerProxy] /\ \A v \in ProxyId : proxies'[v] = IF v = u THEN h ELSE proxies[v]
    BY <1>0, <2>1, <2>3 DEF FrpTypeOK, h
  <2>6. ServesLoaded'
    BY <1>0, <2>1, <2>3, <2>4, <2>5, FrpNumbers DEF ServesLoaded
  <2>7. FrpTypeOK'
    BY <1>0, <2>4, <2>5 DEF FrpTypeOK, RowsUnchanged
  <2> QED
    BY <2>4, <2>6, <2>7, RowsStay
<1>9. CASE GoesOffline
  <2>1. PICK t \in ProxyId : proxies' = [proxies EXCEPT ![t].status = "offline"]
    BY <1>9 DEF GoesOffline
  <2> DEFINE h == [proxies[t] EXCEPT !.status = "offline"]
  <2>2. h \in ServerProxy /\ h.status = "offline"
    BY <1>0 DEF FrpTypeOK, ServerProxy
  <2>3. proxies' = [proxies EXCEPT ![t] = h]
    BY <2>1
  <2> HIDE DEF h
  <2>4. proxies' \in [ProxyId -> ServerProxy] /\ \A u \in ProxyId : proxies'[u] = IF u = t THEN h ELSE proxies[u]
    BY <1>0, <2>2, <2>3 DEF FrpTypeOK
  <2>5. UNCHANGED <<frpcFile, frpcLoaded, frpcRuns, frpServer>> /\ RowsUnchanged
    BY <1>9 DEF GoesOffline
  <2>6. \A u \in ProxyId : proxies'[u].status = "online" =>
          frpServer' /\ proxies'[u] = proxies[u] /\ (u \in Generated => frpcLoaded' = frpcLoaded)
    BY <1>0, <2>2, <2>4, <2>5 DEF ServesLoaded
  <2>7. {frpcRuns', frpServer'} \subseteq BOOLEAN /\ frpcLoaded' \subseteq FrpcProxy
          /\ (frpcRuns' \/ frpcLoaded' = {})
    BY <1>0, <2>5 DEF FrpTypeOK, ServesLoaded
  <2> QED
    BY <2>4, <2>5, <2>6, <2>7, ProxiesGo
<1>10. CASE ControlFrpServer
  <2>1. frpServer' \in BOOLEAN /\ ((proxies' = proxies /\ frpServer' = frpServer)
          \/ proxies' = [t \in ProxyId |-> NoProxy])
        /\ UNCHANGED <<frpcFile, frpcLoaded, frpcRuns>> /\ RowsUnchanged
    BY <1>0, <1>10 DEF ControlFrpServer, FrpTypeOK
  <2>2. NoProxy \in ServerProxy /\ NoProxy.status = "none"
    BY DEF NoProxy, ServerProxy, Protocol
  <2>3. proxies' \in [ProxyId -> ServerProxy] /\ \A u \in ProxyId : proxies'[u].status = "online"
          => proxies'[u] = proxies[u] /\ frpServer' /\ frpcLoaded' = frpcLoaded
    BY <1>0, <2>1, <2>2 DEF FrpTypeOK, ServesLoaded
  <2>4. {frpcRuns', frpServer'} \subseteq BOOLEAN /\ frpcLoaded' \subseteq FrpcProxy
          /\ (frpcRuns' \/ frpcLoaded' = {})
    BY <1>0, <2>1 DEF FrpTypeOK, ServesLoaded
  <2> QED
    BY <2>1, <2>3, <2>4, ProxiesGo
<1>11. CASE UNCHANGED frpVars
  <2>1. FrpTypeOK' /\ ServesLoaded' /\ RowsUnchanged
    BY <1>0, <1>11 DEF frpVars, FrpTypeOK, ServesLoaded, RowsUnchanged
  <2> QED
    BY <2>1, RowsStay
<1> QED
  BY <1>1, <1>3, <1>4, <1>5, <1>6, <1>7, <1>8, <1>9, <1>10, <1>11 DEF FrpNext

(* The invariant of the tunnels holds in every state. *)
THEOREM FrpInvariant == FrpSpec => []FrpInv
<1> QED
  BY FrpInvInit, FrpInvStep, PTL DEF FrpSpec

(* With the present configuration loaded, a generated proxy of a tunnel's port or identity that is    *)
(* served is the tunnel's own: its row is in the configuration, and the index keeps the port to it.   *)
LEMMA ServedIsOwn ==
  ASSUME FrpInv, frpcLoaded = FrpcToml, NEW t \in EnabledRows, NEW u \in Generated, proxies[u].status = "online",
         proxies[u].protocol = frpTunnels[t].protocol, u = t \/ proxies[u].port = frpTunnels[t].port
  PROVE  u = t /\ proxies[u].port = frpTunnels[t].port
<1>1. PICK x \in FrpcToml : x.id = u /\ x.protocol = proxies[u].protocol /\ x.port = proxies[u].port
  BY DEF FrpInv, ServesLoaded
<1>2. PICK v \in EnabledRows : x = Proxy(v)
  BY <1>1 DEF FrpcToml
<1>3. v = u /\ frpTunnels[v].protocol = proxies[u].protocol /\ frpTunnels[v].port = proxies[u].port
  BY <1>1, <1>2 DEF Proxy
<1>4. v \in TunnelRows /\ t \in TunnelRows
  BY DEF EnabledRows
<1> QED
  BY <1>3, <1>4 DEF FrpInv, RowsApart

(* What the page may show of a tunnel that is enabled, if something that is online is found for it, *)
(* and if nothing is.                                                                                *)
LEMMA OnlineShown ==
  ASSUME NEW t \in EnabledRows, NEW a, \E u \in Found(t, a) : proxies[u].status = "online"
  PROVE  MayShow(t, a) = {"online"}
<1> DEFINE s == Found(t, a)
           r == {u \in s : proxies[u].status = "online"}
<1>1. frpTunnels[t].enabled /\ s # {} /\ Preferred(s) = r
  BY DEF EnabledRows, Preferred
<1>2. MayShow(t, a) = {IF proxies[u].status = "online" THEN "online" ELSE "offline" : u \in r}
  BY <1>1 DEF MayShow
<1>3. r # {} /\ \A u \in r : proxies[u].status = "online"
  OBVIOUS
<1> QED
  BY <1>2, <1>3

(* What is shown as online has been found in the dashboard's lists, online. *)
LEMMA OnlineFound ==
  ASSUME NEW t \in EnabledRows, NEW a, "online" \in MayShow(t, a)
  PROVE  \E u \in Found(t, a) : proxies[u].status = "online"
<1> SUFFICES ASSUME \A u \in Found(t, a) : proxies[u].status # "online" PROVE FALSE
  OBVIOUS
<1>1. frpTunnels[t].enabled /\ Preferred(Found(t, a)) = Found(t, a)
  BY DEF EnabledRows, Preferred
<1>2. \A x \in MayShow(t, a) : x = "offline"
  BY <1>1 DEF MayShow
<1> QED
  BY <1>2

(* Once frpc has loaded the present rows, an enabled tunnel is shown as online only if its own     *)
(* public port is served or a person's proxy is taken for it, and one that is served is shown so   *)
(* unless the dashboard's list of its protocol was not answered (frp.ts:173-187, 327-333).          *)
THEOREM TunnelsAreShownAsServed == FrpSpec => []ShownIsServed
<1>1. ASSUME FrpInv PROVE ShownIsServed
  <2>0. ASSUME NEW t \in EnabledRows PROVE t \in Generated /\ t \in ProxyId
    BY <2>0, FrpNumbers DEF EnabledRows, TunnelRows
  <2>1. ASSUME NEW t \in EnabledRows, NEW a \in SUBSET Protocol, frpcLoaded = FrpcToml, "online" \in MayShow(t, a)
        PROVE  OwnServed(t) \/ ServedByHand(t)
    <3>1. PICK u \in Found(t, a) : proxies[u].status = "online"
      BY <2>1, OnlineFound
    <3>2. u \in ProxyId /\ proxies[u].protocol = frpTunnels[t].protocol /\ IsOf(u, t)
      BY DEF Found, Listed
    <3>3. CASE u \in Name
      BY <3>1, <3>2, <3>3 DEF ServedByHand
    <3>4. CASE u \in Generated
      <4>1. frpTunnels[t].name \in Name /\ \A n \in Name : n \notin Generated
        BY <1>1, FrpAssumption DEF FrpInv, RowsPorted, EnabledRows, Generated
      <4>2. u = t \/ proxies[u].port = frpTunnels[t].port
        BY <3>2, <3>4, <4>1 DEF IsOf
      <4>3. u = t /\ proxies[u].port = frpTunnels[t].port
        BY <1>1, <2>1, <3>1, <3>2, <3>4, <4>2, ServedIsOwn
      <4>4. proxies[u] \in ServerProxy
        BY <1>1, <3>2 DEF FrpInv, FrpTypeOK
      <4>5. proxies[u] = [status |-> "online", protocol |-> frpTunnels[t].protocol, port |-> frpTunnels[t].port]
        BY <3>1, <3>2, <4>3, <4>4 DEF ServerProxy
      <4> QED
        BY <4>3, <4>5 DEF OwnServed, Serves
    <3> QED
      BY <3>2, <3>3, <3>4, FrpNumbers
  <2>2. ASSUME NEW t \in EnabledRows, NEW a \in SUBSET Protocol, OwnServed(t), frpTunnels[t].protocol \in a
        PROVE  MayShow(t, a) = {"online"}
    <3>1. proxies[t].status = "online" /\ proxies[t].protocol = frpTunnels[t].protocol
      BY <2>2 DEF OwnServed, Serves
    <3>2. frpServer
      BY <1>1, <2>0, <2>2, <3>1 DEF FrpInv, ServesLoaded
    <3>3. t \in Found(t, a)
      BY <2>0, <2>2, <3>1, <3>2 DEF Found, Listed, IsOf
    <3> QED
      BY <2>2, <3>1, <3>3, OnlineShown
  <2> QED
    BY <2>1, <2>2 DEF ShownIsServed, Answers
<1> QED
  BY <1>1, FrpInvariant, PTL
=============================================================================
