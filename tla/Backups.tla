------------------------------ MODULE Backups ------------------------------
(***************************************************************************)
(* Postgres dumps and restores: services/backups.ts, routes/backups.ts and *)
(* the upload to R2 of r2.ts.  A dump is the output of a child process,    *)
(* piped through gzip into a file; a restore is an upload into a temporary *)
(* file and then the input of a child process in the container.  A stream  *)
(* moves chunk by chunk; the ends of the child, of the pipe and of the     *)
(* file are events that arrive in any order the streams allow.  The server *)
(* may stop at any time; rows and files survive it.                        *)
(*                                                                         *)
(* A dump has DumpSize chunks.  Which container it is of is left out, and  *)
(* so are downloads, which change a counter only, and a second restore of  *)
(* the same database beside the first.                                     *)
(***************************************************************************)
EXTENDS Naturals, FiniteSets

CONSTANTS Backup,     \* ids of backups
          DumpSize,   \* chunks of a dump
          MaxStops    \* bound: stops of the server

ASSUME BackupsAssumption == DumpSize \in Nat \ {0} /\ MaxStops \in Nat

VARIABLES
  backups,   \* the rows, with the file of each and the call that writes it
  copies,    \* what was uploaded to R2: the chunks of each object
  restore,   \* the request that restores a database
  database,  \* chunks of the uploaded dump it holds, and whether what it held before is there
  stops      \* stops of the server so far

backupsVars == <<backups, copies, restore, database, stops>>

NoFile == DumpSize + 1   \* sizes are 0..DumpSize

NoBackup == [st |-> "none", file |-> NoFile, child |-> "off", out |-> 0, finished |-> FALSE,
             code |-> "none", settled |-> "no", removing |-> FALSE]
NoUpload == [st |-> "idle", temp |-> NoFile, sent |-> 0]

BackupsInit ==
  /\ backups = [b \in Backup |-> NoBackup]
  /\ copies = {}
  /\ restore = NoUpload
  /\ database = [chunks |-> 0, old |-> TRUE]
  /\ stops = 0

SetBackup(b, r) == backups' = [backups EXCEPT ![b] = r]
-----------------------------------------------------------------------------
(* createPostgresBackup: the row; then runGzipStream spawns and opens the file. *)
CreateBackup(b) ==
  /\ backups[b].st = "none"
  /\ SetBackup(b, [NoBackup EXCEPT !.st = "running", !.file = 0, !.child = "on"])
  /\ UNCHANGED <<copies, restore, database, stops>>

Dumping(b) == backups[b].st = "running" /\ backups[b].settled = "no"

(* A chunk from the child *)
DumpChunk(b) ==
  /\ Dumping(b) /\ backups[b].child = "on" /\ backups[b].out < DumpSize
  /\ SetBackup(b, [backups[b] EXCEPT !.out = @ + 1])
  /\ UNCHANGED <<copies, restore, database, stops>>

(* A chunk through gzip into the file *)
FileChunk(b) ==
  /\ Dumping(b) /\ backups[b].file < backups[b].out
  /\ SetBackup(b, [backups[b] EXCEPT !.file = @ + 1])
  /\ UNCHANGED <<copies, restore, database, stops>>

(* The child ends: with 0 once it has written everything, with an error at any time. *)
DumpEnds(b) ==
  /\ Dumping(b) /\ backups[b].child = "on"
  /\ \E k \in {"zero", "error"} :
       /\ k = "zero" => backups[b].out = DumpSize
       /\ SetBackup(b, [backups[b] EXCEPT !.child = k])
  /\ UNCHANGED <<copies, restore, database, stops>>

(* maybeResolve *)
Resolves_OnClose(r) == r.code = "zero"
Resolves(r) == r.finished /\ r.code = "zero"
Settle(r) == [r EXCEPT !.settled = IF Resolves(r) THEN "ok" ELSE "no"]

(* "finish" of the file: the child's output has ended and is written. *)
AfterFinish_Unasked(r) == r
AfterFinish(r) == Settle(r)

FileFinished(b) ==
  /\ Dumping(b) /\ backups[b].child # "on" /\ ~backups[b].finished
  /\ backups[b].file = backups[b].out
  /\ SetBackup(b, AfterFinish([backups[b] EXCEPT !.finished = TRUE]))
  /\ UNCHANGED <<copies, restore, database, stops>>

(* "close" of the child: its output has been read, but need not be written. *)
ChildClosed(b) ==
  /\ Dumping(b) /\ backups[b].child # "on" /\ backups[b].code = "none"
  /\ LET r == [backups[b] EXCEPT !.code = backups[b].child] IN
     SetBackup(b, IF r.code = "error" THEN [r EXCEPT !.settled = "failed"] ELSE Settle(r))
  /\ UNCHANGED <<copies, restore, database, stops>>

(* "error" of the child, of gzip or of the file *)
StreamFails(b) ==
  /\ Dumping(b)
  /\ SetBackup(b, [backups[b] EXCEPT !.settled = "failed"])
  /\ UNCHANGED <<copies, restore, database, stops>>

(* What createPostgresBackup does with the outcome. *)
DumpSucceeds(b) ==
  /\ backups[b].st = "running" /\ backups[b].settled = "ok"
  /\ SetBackup(b, [backups[b] EXCEPT !.st = "success"])
  /\ UNCHANGED <<copies, restore, database, stops>>

(* The catch block, for a dump, a stat or an update that failed: the file  *)
(* is removed and the row written.  Either may fail in its turn, and then  *)
(* the call is over and the row still "running".                           *)
CatchEnds(b, kept) == SetBackup(b, [NoBackup EXCEPT !.st = "running", !.file = kept, !.settled = "stuck"])

DumpFails(b) ==
  /\ backups[b].st = "running" /\ backups[b].settled \in {"ok", "failed"}
  /\ \/ SetBackup(b, [NoBackup EXCEPT !.st = "failed"])
     \/ \E kept \in {NoFile, backups[b].file} : CatchEnds(b, kept)
  /\ UNCHANGED <<copies, restore, database, stops>>

(* deleteBackup: the file, then the row *)
DeleteFile(b) ==
  /\ backups[b].st \in {"success", "failed"} /\ ~backups[b].removing
  /\ SetBackup(b, [backups[b] EXCEPT !.file = NoFile, !.removing = TRUE])
  /\ UNCHANGED <<copies, restore, database, stops>>

DeleteRow(b) ==
  /\ backups[b].removing
  /\ SetBackup(b, [NoBackup EXCEPT !.st = "gone"])
  /\ UNCHANGED <<copies, restore, database, stops>>

(* uploadBackupToR2: a file of the size and the hash that was announced, or nothing *)
UploadToR2(b) ==
  /\ backups[b].st = "success" /\ backups[b].file # NoFile
  /\ copies' = copies \cup {backups[b].file}
  /\ UNCHANGED <<backups, restore, database, stops>>
-----------------------------------------------------------------------------
(* saveRequestBodyToTempFile *)
UploadBegins ==
  /\ restore.st = "idle"
  /\ restore' = [NoUpload EXCEPT !.st = "upload", !.temp = 0]
  /\ UNCHANGED <<backups, copies, database, stops>>

UploadChunk ==
  /\ restore.st = "upload" /\ restore.temp < DumpSize
  /\ restore' = [restore EXCEPT !.temp = @ + 1]
  /\ UNCHANGED <<backups, copies, database, stops>>

(* The whole body has arrived; an empty one is refused. *)
BodyComplete == restore.temp = DumpSize

UploadFinishes ==
  /\ restore.st = "upload" /\ BodyComplete
  /\ restore' = [restore EXCEPT !.st = "checked"]
  /\ UNCHANGED <<backups, copies, database, stops>>

(* "aborted", an error, a body above the limit; later a principal or a     *)
(* container that is gone: the temporary file is removed.                  *)
RestoreRefused ==
  /\ restore.st \in {"upload", "checked"}
  /\ restore' = NoUpload
  /\ UNCHANGED <<backups, copies, database, stops>>

(* runContainerRestore: one shell drops the schema and then runs psql or   *)
(* pg_restore on the file, also when the schema could not be dropped.      *)
RestoreBegins ==
  /\ restore.st = "checked"
  /\ restore' = [restore EXCEPT !.st = "restoring"]
  /\ \E dropped \in BOOLEAN : database' = [chunks |-> 0, old |-> ~dropped]
  /\ UNCHANGED <<backups, copies, stops>>

(* A chunk into the child's input, a chunk into the database. *)
RestoreChunk ==
  /\ restore.st = "restoring" /\ restore.sent < restore.temp
  /\ restore' = [restore EXCEPT !.sent = @ + 1]
  /\ UNCHANGED <<backups, copies, database, stops>>

Restored ==
  /\ restore.st = "restoring" /\ database.chunks < restore.sent
  /\ database' = [database EXCEPT !.chunks = @ + 1]
  /\ UNCHANGED <<backups, copies, restore, stops>>

(* The file cannot be read on or unpacked: pipeline() breaks off and fail() settles the call first. *)
SourceFails ==
  /\ restore.st = "restoring"
  /\ restore' = NoUpload
  /\ UNCHANGED <<backups, copies, database, stops>>

(* "close" of the child: 0 once all of its input is in the database, which  *)
(* what the database held before may prevent                                *)
RestoreEnds ==
  /\ restore.st = "restoring"
  /\ \/ /\ restore.sent = restore.temp /\ database.chunks = restore.sent
        /\ restore' = [NoUpload EXCEPT !.st = "restored"]
     \/ restore' = NoUpload
  /\ UNCHANGED <<backups, copies, database, stops>>

RestoreAnswered ==
  /\ restore.st = "restored"
  /\ restore' = NoUpload
  /\ UNCHANGED <<backups, copies, database, stops>>
-----------------------------------------------------------------------------
(* The server stops: the children lose their pipes. A row left "running" stays so, and no request removes it. *)
ServerStops ==
  /\ stops < MaxStops
  /\ stops' = stops + 1
  /\ backups' = [b \in Backup |->
                  [backups[b] EXCEPT !.child = "off", !.removing = FALSE,
                                     !.settled = IF backups[b].st = "running" THEN "lost" ELSE @]]
  /\ restore' = [NoUpload EXCEPT !.temp = restore.temp]
  /\ UNCHANGED <<copies, database>>

BackupsNext ==
  \/ \E b \in Backup : \/ CreateBackup(b) \/ DumpChunk(b) \/ FileChunk(b) \/ DumpEnds(b) \/ FileFinished(b)
                       \/ ChildClosed(b) \/ StreamFails(b)
                       \/ DumpSucceeds(b) \/ DumpFails(b) \/ DeleteFile(b) \/ DeleteRow(b) \/ UploadToR2(b)
  \/ UploadBegins \/ UploadChunk \/ UploadFinishes \/ RestoreRefused
  \/ RestoreBegins \/ RestoreChunk \/ Restored \/ SourceFails \/ RestoreEnds \/ RestoreAnswered
  \/ ServerStops

BackupsSpec == BackupsInit /\ [][BackupsNext]_backupsVars

(* The streams of the server and its calls go on. A dump has no time limit: *)
(* nothing is asked of its child.                                           *)
BackupsFairness ==
  \A b \in Backup : /\ WF_backupsVars(FileChunk(b)) /\ WF_backupsVars(FileFinished(b))
                    /\ WF_backupsVars(ChildClosed(b)) /\ WF_backupsVars(DumpSucceeds(b) \/ DumpFails(b))
-----------------------------------------------------------------------------
BackupRow ==
  [st : {"none", "running", "success", "failed", "gone"}, file : 0..NoFile, child : {"off", "on", "zero", "error"},
   out : 0..DumpSize, finished : BOOLEAN, code : {"none", "zero", "error"},
   settled : {"no", "ok", "failed", "lost", "stuck"}, removing : BOOLEAN]
RestoreRequest ==
  [st : {"idle", "upload", "checked", "restoring", "restored"}, temp : 0..NoFile, sent : 0..NoFile]

BackupsTypeOK ==
  /\ backups \in [Backup -> BackupRow] /\ copies \subseteq 0..DumpSize
  /\ restore \in RestoreRequest /\ database \in [chunks : 0..DumpSize, old : BOOLEAN] /\ stops \in 0..MaxStops

(* What is kept or restored as a success is whole: the file of a finished  *)
(* backup, if it is still there, every object in R2, and what a database   *)
(* got of the dump when its restore answers success, whatever the order in *)
(* which the processes and the streams ended.  That nothing older is left  *)
(* beside it is not promised: the schema may have refused to be dropped.   *)
DumpsAreWhole ==
  /\ \A b \in Backup : backups[b].st = "success" => backups[b].file \in {DumpSize, NoFile}
  /\ copies \subseteq {DumpSize}
  /\ restore.st = "restored" => database.chunks = DumpSize

(* Once its child has ended, however, a dump ends in a row that says so,   *)
(* whether the file or the child is finished first, unless the server      *)
(* stops or the catch block itself fails.                                  *)
DumpEndsInARow ==
  \A b \in Backup :
    backups[b].st = "running" /\ backups[b].child \in {"zero", "error"}
      ~> backups[b].st # "running" \/ backups[b].settled \in {"lost", "stuck"}
=============================================================================
