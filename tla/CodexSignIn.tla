---------------------------- MODULE CodexSignIn ----------------------------
(***************************************************************************)
(* The account Codex runs with: services/codex-auth.ts.                    *)
(*                                                                         *)
(* A child process holds the account.  Requests to it are answered or time *)
(* out, it tells of every change in a notice, and it may exit.  The status *)
(* of the account is kept for a while, and a read in progress is shared by *)
(* the callers that came at the same revision.                             *)
(***************************************************************************)
EXTENDS Naturals, FiniteSets

CONSTANTS Asker,                      \* calls of getCodexAccountStatus at a time
          MaxChanges, MaxAsks, MaxCacheRevision   \* bounds: changes of the account, reads, invalidations

ASSUME CodexAssumption == MaxChanges \in Nat /\ MaxAsks \in Nat /\ MaxCacheRevision \in Nat

VARIABLES
  child,      \* whether the process runs
  account,    \* whether an account is signed in, as the process knows: "yes" or "no"
  changes,    \* how often that has changed
  notices,    \* changes told of and not yet received
  login,      \* whether server.login offers a device code
  codexCache, \* accountCache: "none" or the value kept
  codexRev,   \* accountCacheRevision
  asks,       \* the account/read requests and what became of them
  sharedAsk,  \* accountReadRequest: the id of a read, or 0
  askers,     \* the status calls
  session,    \* the one sign-in or sign-out in progress
  possible    \* what the account has been since this service last knew of every change

codexVars == <<child, account, changes, notices, login, codexCache, codexRev, asks, sharedAsk, askers, session, possible>>

Connected == {"yes", "no"}
NoAsk == [at |-> "unused", rev |-> 0, value |-> "no"]
NoAsker == [at |-> "idle", ask |-> 0, value |-> "no", allowed |-> {}]
AccountAsk == [at : {"unused", "sent", "handled", "done"}, rev : 0..MaxCacheRevision, value : Connected]
StatusCall == [at : {"idle", "waiting", "told"}, ask : 0..MaxAsks, value : Connected, allowed : SUBSET Connected]

CodexInit ==
  /\ child = FALSE /\ account = "no" /\ changes = 0 /\ notices = 0 /\ login = FALSE
  /\ codexCache = "none" /\ codexRev = 0 /\ sharedAsk = 0
  /\ asks = [i \in 1..MaxAsks |-> NoAsk]
  /\ askers = [a \in Asker |-> NoAsker]
  /\ session = "none"
  /\ possible = {"no"}

Pending(i) == {a \in Asker : askers[a].at = "waiting" /\ askers[a].ask = i}
-----------------------------------------------------------------------------
(* invalidateCodexAccountStatusCache.  The service knows of every change again when no notice and *)
(* no sign-out is on its way.                                                                      *)
NextCacheRevision == codexRev + 1
Invalidated == codexRev < MaxCacheRevision /\ codexCache' = "none" /\ codexRev' = NextCacheRevision
Knows(n, s) == possible' = IF n = 0 /\ s # "logout handled" THEN {account} ELSE possible

(* The account changes in the process: those who are waiting may be told either. *)
Changes(v) ==
  /\ changes < MaxChanges /\ changes' = changes + 1
  /\ account' = v /\ possible' = possible \cup {v}
  /\ askers' = [a \in Asker |-> IF askers[a].at = "waiting" THEN [askers[a] EXCEPT !.allowed = @ \cup {v}] ELSE askers[a]]

(* start: the process is spawned for a request; the requests it has not answered are rejected when *)
(* it exits.                                                                                       *)
Spawned == child' = TRUE
ChildExits ==
  /\ child /\ child' = FALSE
  /\ notices' = 0 /\ Invalidated /\ possible' = {account}
  /\ asks' = [i \in 1..MaxAsks |-> IF asks[i].at \in {"sent", "handled"} THEN [asks[i] EXCEPT !.at = "done"] ELSE asks[i]]
  /\ askers' = [a \in Asker |-> IF askers[a].at = "waiting" THEN NoAsker ELSE askers[a]]
  /\ sharedAsk' = 0
  /\ session' = IF session = "clear" THEN session ELSE "none"
  /\ UNCHANGED <<account, changes, login>>

(* receive: account/login/completed or account/updated *)
NoticeArrives ==
  /\ notices > 0 /\ notices' = notices - 1
  /\ login' = FALSE /\ Invalidated /\ Knows(notices', session)
  /\ UNCHANGED <<child, account, changes, asks, sharedAsk, askers, session>>

(* The person enters the device code, or signs out elsewhere. *)
AccountChanges ==
  /\ child /\ (account = "yes" \/ login)
  /\ \E v \in Connected \ {account} : Changes(v)
  /\ notices' = notices + 1
  /\ UNCHANGED <<child, login, codexCache, codexRev, asks, sharedAsk, session>>
-----------------------------------------------------------------------------
(* getCodexAccountStatus *)
FreeAsks == {i \in 1..MaxAsks : asks[i].at = "unused" /\ \A j \in 1..(i - 1) : asks[j].at # "unused"}
MaySend(i) == i # 0 /\ asks[i].rev = codexRev
Told(v, allowed) == [NoAsker EXCEPT !.at = "told", !.value = v, !.allowed = allowed]
AwaitsAsk(i, allowed) == [NoAsker EXCEPT !.at = "waiting", !.ask = i, !.allowed = allowed]
Sent(i) == [asks EXCEPT ![i] = [NoAsk EXCEPT !.at = "sent", !.rev = codexRev]]

AskStatus(a) ==
  /\ askers[a].at # "waiting"
  /\ \/ /\ codexCache # "none"
        /\ askers' = [askers EXCEPT ![a] = Told(codexCache, possible)]
        /\ UNCHANGED <<asks, sharedAsk, child>>
     \/ /\ codexCache = "none" /\ MaySend(sharedAsk)
        /\ askers' = [askers EXCEPT ![a] = AwaitsAsk(sharedAsk, possible)]
        /\ UNCHANGED <<asks, sharedAsk, child>>
     \/ /\ codexCache = "none" /\ ~MaySend(sharedAsk)
        /\ \E i \in FreeAsks : asks' = Sent(i) /\ sharedAsk' = i /\ askers' = [askers EXCEPT ![a] = AwaitsAsk(i, possible)]
        /\ Spawned
  /\ UNCHANGED <<account, changes, notices, login, codexCache, codexRev, session, possible>>

CacheExpires ==
  /\ codexCache # "none" /\ codexCache' = "none"
  /\ UNCHANGED <<child, account, changes, notices, login, codexRev, asks, sharedAsk, askers, session, possible>>

(* The process reads the account; its answer comes later. *)
HandlesAsk(i) ==
  /\ child /\ asks[i].at = "sent"
  /\ asks' = [asks EXCEPT ![i] = [@ EXCEPT !.at = "handled", !.value = account]]
  /\ UNCHANGED <<child, account, changes, notices, login, codexCache, codexRev, sharedAsk, askers, session, possible>>

(* The answer: kept if the revision is still that of the read; otherwise whoever waited asks again. *)
AskOutdated_Never(i) == FALSE
AskOutdated(i) == asks[i].rev # codexRev
ForgetsAsk(i) == IF sharedAsk = i THEN 0 ELSE sharedAsk
AskAnswered(i) ==
  /\ asks[i].at = "handled"
  /\ \/ /\ ~AskOutdated(i)
        /\ codexCache' = asks[i].value
        /\ askers' = [a \in Asker |-> IF a \in Pending(i) THEN Told(asks[i].value, askers[a].allowed) ELSE askers[a]]
        /\ asks' = [asks EXCEPT ![i].at = "done"] /\ sharedAsk' = ForgetsAsk(i)
     \/ /\ AskOutdated(i)
        /\ Pending(i) = {} /\ asks' = [asks EXCEPT ![i].at = "done"] /\ sharedAsk' = ForgetsAsk(i)
        /\ UNCHANGED <<codexCache, askers>>
     \/ /\ AskOutdated(i) /\ Pending(i) # {} /\ codexCache # "none"
        /\ askers' = [a \in Asker |-> IF a \in Pending(i) THEN Told(codexCache, askers[a].allowed) ELSE askers[a]]
        /\ asks' = [asks EXCEPT ![i].at = "done"] /\ sharedAsk' = ForgetsAsk(i)
        /\ UNCHANGED codexCache
     \/ /\ AskOutdated(i) /\ Pending(i) # {} /\ codexCache = "none"
        /\ \E j \in (IF MaySend(sharedAsk) THEN {sharedAsk} ELSE FreeAsks) :
             /\ asks' = [(IF MaySend(sharedAsk) THEN asks ELSE Sent(j)) EXCEPT ![i].at = "done"]
             /\ sharedAsk' = j
             /\ askers' = [a \in Asker |-> IF a \in Pending(i) THEN [askers[a] EXCEPT !.ask = j] ELSE askers[a]]
        /\ UNCHANGED codexCache
  /\ UNCHANGED <<child, account, changes, notices, login, codexRev, session, possible>>

(* A request not answered for 30 s is rejected. *)
AskTimesOut(i) ==
  /\ asks[i].at \in {"sent", "handled"}
  /\ asks' = [asks EXCEPT ![i].at = "done"] /\ sharedAsk' = ForgetsAsk(i)
  /\ askers' = [a \in Asker |-> IF a \in Pending(i) THEN NoAsker ELSE askers[a]]
  /\ UNCHANGED <<child, account, changes, notices, login, codexCache, codexRev, session, possible>>
-----------------------------------------------------------------------------
SessionGoes(s) == session' = s /\ UNCHANGED <<account, changes, notices, asks, sharedAsk, askers>>

(* startCodexLogin, after the login it replaces was cancelled; cancelCodexLogin *)
StartLogin ==
  /\ session = "none"
  /\ SessionGoes("login") /\ Spawned
  /\ UNCHANGED <<login, codexCache, codexRev, possible>>
LoginStarted ==
  /\ session = "login" /\ child
  /\ SessionGoes("none")
  /\ \/ login' = TRUE /\ Invalidated /\ Knows(notices, "none")
     \/ UNCHANGED <<login, codexCache, codexRev, possible>>
  /\ UNCHANGED child
CancelLogin ==
  /\ session = "none" /\ login
  /\ Spawned /\ login' \in BOOLEAN
  /\ UNCHANGED <<account, changes, notices, codexCache, codexRev, asks, sharedAsk, askers, session, possible>>

(* logoutCodexAccount: the cache is emptied before the request and, when the account files of the *)
(* tasks are gone too, again after it.                                                             *)
StartLogout ==
  /\ session = "none"
  /\ SessionGoes("logout") /\ Spawned /\ Invalidated
  /\ UNCHANGED <<login, possible>>
HandlesLogout ==
  /\ session = "logout" /\ child
  /\ IF account = "yes" THEN Changes("no") ELSE UNCHANGED <<account, changes, possible, askers>>
  /\ session' = "logout handled"
  /\ UNCHANGED <<child, notices, login, codexCache, codexRev, asks, sharedAsk>>
LogoutAnswered ==
  /\ session = "logout handled" /\ SessionGoes("clear")
  /\ UNCHANGED <<child, login, codexCache, codexRev, possible>>
LogoutTimesOut ==
  /\ session \in {"logout", "logout handled"} /\ SessionGoes("none")
  /\ UNCHANGED <<child, login, codexCache, codexRev, possible>>
InvalidatedAfter == Invalidated
LogoutEnds ==
  /\ session = "clear" /\ SessionGoes("none")
  /\ login' = FALSE /\ InvalidatedAfter /\ Knows(notices, "none")
  /\ UNCHANGED child
-----------------------------------------------------------------------------
CodexNext ==
  \/ ChildExits \/ NoticeArrives \/ AccountChanges \/ CacheExpires
  \/ \E a \in Asker : AskStatus(a)
  \/ \E i \in 1..MaxAsks : HandlesAsk(i) \/ AskAnswered(i) \/ AskTimesOut(i)
  \/ StartLogin \/ LoginStarted \/ CancelLogin
  \/ StartLogout \/ HandlesLogout \/ LogoutAnswered \/ LogoutTimesOut \/ LogoutEnds

CodexSpec == CodexInit /\ [][CodexNext]_codexVars
-----------------------------------------------------------------------------
CodexTypeOK ==
  /\ child \in BOOLEAN /\ login \in BOOLEAN /\ account \in Connected /\ possible \in SUBSET Connected
  /\ changes \in 0..MaxChanges /\ notices \in 0..MaxChanges /\ codexRev \in 0..MaxCacheRevision
  /\ codexCache \in {"none"} \cup Connected /\ sharedAsk \in 0..MaxAsks
  /\ asks \in [1..MaxAsks -> AccountAsk]
  /\ askers \in [Asker -> StatusCall]
  /\ session \in {"none", "login", "logout", "logout handled", "clear"}

(* Whoever asks is told what the account was at some moment since the call, or since a change of  *)
(* which the service has not heard: a sign-in or sign-out that has been announced is never undone *)
(* by a read that began before it (codex-auth.ts:116-148, 154-160).                               *)
StatusIsCurrent == \A a \in Asker : askers[a].at = "told" => askers[a].value \in askers[a].allowed
=============================================================================
