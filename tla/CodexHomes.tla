----------------------------- MODULE CodexHomes -----------------------------
(***************************************************************************)
(* The home of a task that runs with the Codex account:                    *)
(* services/codex-account-runner.ts.                                       *)
(*                                                                         *)
(* A run is given a home of its own, with a copy of the account's auth     *)
(* file and of the thread it resumes.  People sign in and out meanwhile,   *)
(* and the Codex process of a run rewrites its copy when it refreshes the  *)
(* credentials.  A file is its time of writing and what it holds;          *)
(* copyFile is one step.                                                   *)
(***************************************************************************)
EXTENDS Naturals, FiniteSets

CONSTANTS HomeTask,       \* tasks; each has one run at a time
          Account,        \* people who sign in to Codex
          MaxTime,        \* bound: auth files written
          MaxTurns        \* bound: turns of a thread

ASSUME HomesAssumption == MaxTime \in Nat \ {0} /\ MaxTurns \in Nat /\ "nobody" \notin Account

VARIABLES
  clock,      \* mtime of the newest auth file
  signedAuth, \* codexHome/auth.json
  signedOut,  \* the sign-out in progress
  homes,      \* task-sessions/<digest>: the auth file and the turns of the thread
  codexRuns   \* the run of each task

homesVars == <<clock, signedAuth, signedOut, homes, codexRuns>>

NoAuth == [who |-> "nobody", time |-> 0]
NoHome == [exists |-> FALSE, auth |-> NoAuth, turns |-> 0, imported |-> FALSE, told |-> 0, crossed |-> FALSE, late |-> FALSE]
NoCodexRun == [at |-> "idle", time |-> 0, uses |-> "nobody", aborted |-> FALSE, allowed |-> {}]

HomesInit ==
  /\ clock = 0 /\ signedAuth = NoAuth
  /\ signedOut = [at |-> "none", left |-> {}]
  /\ homes = [t \in HomeTask |-> NoHome]
  /\ codexRuns = [t \in HomeTask |-> NoCodexRun]

Written(a) == clock < MaxTime /\ clock' = clock + 1 /\ signedAuth' = [who |-> a, time |-> clock + 1]
Preparing(t) == codexRuns[t].at \in {"stat", "compare", "copy", "thread"}
RunGoes(t, r) == codexRuns' = [codexRuns EXCEPT ![t] = r]
-----------------------------------------------------------------------------
(* The device code has been entered: the app server writes the account's file. *)
SignIn(a) ==
  /\ Written(a)
  /\ codexRuns' = [t \in HomeTask |-> [codexRuns[t] EXCEPT !.allowed = IF Preparing(t) THEN @ \cup {a} ELSE @]]
  /\ UNCHANGED <<signedOut, homes>>

(* logoutCodexAccount: the app server removes the account's file, then clearCodexTaskAuthentication *)
(* reads which homes there are and removes the copies one by one; if the answer of the app server  *)
(* is lost, the copies stay.                                                                       *)
SignOut ==
  /\ signedOut.at = "none" /\ signedAuth # NoAuth
  /\ signedAuth' = NoAuth
  /\ signedOut' = [at |-> "list", left |-> {}]
  /\ homes' = [t \in HomeTask |-> [homes[t] EXCEPT !.late = FALSE]]
  /\ UNCHANGED <<clock, codexRuns>>
ReadHomes ==
  /\ signedOut.at = "list"
  /\ signedOut' = [at |-> "clear", left |-> {t \in HomeTask : homes[t].exists}]
  /\ UNCHANGED <<clock, signedAuth, homes, codexRuns>>

WithoutAuth(h) == [h EXCEPT !.auth = NoAuth]

clearCodexTaskAuthentication(t) ==
  /\ signedOut.at = "clear" /\ t \in signedOut.left
  /\ homes' = [homes EXCEPT ![t] = WithoutAuth(@)]
  /\ signedOut' = [signedOut EXCEPT !.left = @ \ {t}]
  /\ UNCHANGED <<clock, signedAuth, codexRuns>>
SignOutLost ==
  /\ signedOut.at = "list"
  /\ signedOut' = [at |-> "none", left |-> {}]
  /\ homes' = [t \in HomeTask |-> [homes[t] EXCEPT !.late = TRUE]]
  /\ UNCHANGED <<clock, signedAuth, codexRuns>>
SignedOut ==
  /\ signedOut.at = "clear" /\ signedOut.left = {}
  /\ signedOut' = [at |-> "none", left |-> {}]
  /\ UNCHANGED <<clock, signedAuth, homes, codexRuns>>
-----------------------------------------------------------------------------
(* runCodexAccount, unless the run was aborted before; prepareCodexTaskHome makes the home *)
MakeHome(t) ==
  /\ codexRuns[t].at = "idle"
  /\ RunGoes(t, [NoCodexRun EXCEPT !.at = "stat", !.allowed = {signedAuth.who}])
  /\ homes' = [homes EXCEPT ![t].exists = TRUE]
  /\ UNCHANGED <<clock, signedAuth, signedOut>>

(* Without the account's file the preparation fails. *)
StatAccount(t) ==
  /\ codexRuns[t].at = "stat"
  /\ RunGoes(t, IF signedAuth = NoAuth THEN NoCodexRun
                ELSE [codexRuns[t] EXCEPT !.at = "compare", !.time = signedAuth.time])
  /\ UNCHANGED <<clock, signedAuth, signedOut, homes>>

NeedsCopy_Missing(time, auth) == auth = NoAuth
NeedsCopy(time, auth) == auth = NoAuth \/ time > auth.time

StatCopy(t) ==
  /\ codexRuns[t].at = "compare"
  /\ RunGoes(t, [codexRuns[t] EXCEPT !.at = IF NeedsCopy(codexRuns[t].time, homes[t].auth) THEN "copy" ELSE "thread"])
  /\ UNCHANGED <<clock, signedAuth, signedOut, homes>>

(* copyFile fails when the account's file has gone; the copy is as new as its writing. *)
CopyAuth(t) ==
  /\ codexRuns[t].at = "copy"
  /\ IF signedAuth = NoAuth THEN RunGoes(t, NoCodexRun) /\ UNCHANGED <<clock, homes>>
     ELSE /\ clock < MaxTime /\ clock' = clock + 1
          /\ homes' = [homes EXCEPT ![t] = [@ EXCEPT !.auth = [who |-> signedAuth.who, time |-> clock + 1], !.crossed = FALSE]]
          /\ RunGoes(t, [codexRuns[t] EXCEPT !.at = "thread"])
  /\ UNCHANGED <<signedAuth, signedOut>>

(* copyLegacyThread: a thread from before there were homes is imported once. *)
Imports(h) == ~h.imported
copyLegacyThread(t) ==
  /\ codexRuns[t].at = "thread"
  /\ homes' = [homes EXCEPT ![t] = IF Imports(@) THEN [@ EXCEPT !.imported = TRUE, !.turns = 0] ELSE @]
  /\ RunGoes(t, IF codexRuns[t].aborted THEN NoCodexRun ELSE [codexRuns[t] EXCEPT !.at = "running", !.uses = homes[t].auth.who])
  /\ UNCHANGED <<clock, signedAuth, signedOut>>

(* stop, or the abort of the run: seen after the preparation, or by the process *)
Abort(t) ==
  /\ codexRuns[t].at # "idle" /\ ~codexRuns[t].aborted
  /\ RunGoes(t, [codexRuns[t] EXCEPT !.aborted = TRUE])
  /\ UNCHANGED <<clock, signedAuth, signedOut, homes>>

(* The Codex process refreshes its credentials; it has them in memory, whatever became of the file. *)
Refresh(t) ==
  /\ codexRuns[t].at = "running" /\ codexRuns[t].uses # "nobody" /\ clock < MaxTime
  /\ clock' = clock + 1
  /\ homes' = [homes EXCEPT ![t] = [@ EXCEPT !.auth = [who |-> codexRuns[t].uses, time |-> clock + 1], !.late = TRUE,
                                          !.crossed = homes[t].crossed \/ signedAuth.who \notin {"nobody", codexRuns[t].uses}]]
  /\ UNCHANGED <<signedAuth, signedOut, codexRuns>>

(* The events end: the turn is in the thread, whole when the run returns. *)
RunEnds(t) ==
  /\ codexRuns[t].at = "running"
  /\ \/ /\ homes[t].turns < MaxTurns /\ ~codexRuns[t].aborted
        /\ homes' = [homes EXCEPT ![t] = [@ EXCEPT !.turns = homes[t].turns + 1, !.told = homes[t].told + 1]]
     \/ UNCHANGED homes
  /\ RunGoes(t, NoCodexRun)
  /\ UNCHANGED <<clock, signedAuth, signedOut>>
-----------------------------------------------------------------------------
HomesNext ==
  \/ \E a \in Account : SignIn(a)
  \/ SignOut \/ ReadHomes \/ SignOutLost \/ SignedOut
  \/ \E t \in HomeTask :
       \/ clearCodexTaskAuthentication(t)
       \/ MakeHome(t) \/ StatAccount(t) \/ StatCopy(t) \/ CopyAuth(t) \/ copyLegacyThread(t)
       \/ Abort(t) \/ Refresh(t) \/ RunEnds(t)

HomesSpec == HomesInit /\ [][HomesNext]_homesVars
-----------------------------------------------------------------------------
AuthFile == [who : Account \cup {"nobody"}, time : 0..MaxTime]
TaskHome == [exists : BOOLEAN, auth : AuthFile, turns : 0..MaxTurns, imported : BOOLEAN, told : 0..MaxTurns,
             crossed : BOOLEAN, late : BOOLEAN]
CodexRun == [at : {"idle", "stat", "compare", "copy", "thread", "running"}, time : 0..MaxTime,
             uses : Account \cup {"nobody"}, aborted : BOOLEAN, allowed : SUBSET (Account \cup {"nobody"})]
HomesTypeOK ==
  /\ clock \in 0..MaxTime /\ signedAuth \in AuthFile
  /\ signedOut \in [at : {"none", "list", "clear"}, left : SUBSET HomeTask]
  /\ homes \in [HomeTask -> TaskHome]
  /\ codexRuns \in [HomeTask -> CodexRun]

(* A run works with an account that was signed in at some moment of its    *)
(* preparation, whoever signed in or out between two runs of the task,     *)
(* unless an earlier run refreshed the credentials it had begun with after *)
(* another account had signed in (codex-account-runner.ts:77-81).          *)
RunUsesAccount ==
  \A t \in HomeTask :
     codexRuns[t].at = "running" => codexRuns[t].uses \in codexRuns[t].allowed \cup {"nobody"} \/ homes[t].crossed

(* Signing out leaves no copy of the credentials in any home, also in one  *)
(* that was being prepared meanwhile; only a process that was running with *)
(* them writes them anew (codex-auth.ts:154-158).                          *)
CopiesForgotten ==
  signedOut.at = "none" /\ signedAuth = NoAuth => \A t \in HomeTask : homes[t].auth = NoAuth \/ homes[t].late

(* What was said in a thread is never replaced by the thread as it was     *)
(* before the task had a home (codex-account-runner.ts:43-52).             *)
TurnsAreKept == \A t \in HomeTask : homes[t].turns = homes[t].told

CodexHomesSound == RunUsesAccount /\ CopiesForgotten /\ TurnsAreKept
=============================================================================
