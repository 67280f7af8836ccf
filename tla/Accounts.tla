------------------------------ MODULE Accounts ------------------------------
(***************************************************************************)
(* Accounts, one-time links, sign-ins and what a session is allowed to     *)
(* follow: services/accounts.ts, auth.ts, the stream guard of              *)
(* authorization.ts, routes/auth.ts, routes/users.ts, cli/owner-reset.ts.  *)
(*                                                                         *)
(* A password is a number, 0 where the column is NULL; hashing keeps       *)
(* passwords apart and takes time.  One project stands for all: a member   *)
(* has access to it or not.  The transactions lock the user's row with     *)
(* SELECT ... FOR UPDATE and commit in a later step; nothing they use is   *)
(* read before the lock.  A request of the owner is one of an owner who    *)
(* was signed in at some time.  Limits on the rate of requests, the        *)
(* Turnstile check and the seven days of a cookie are left out.            *)
(***************************************************************************)
EXTENDS Integers, Sequences, FiniteSets

CONSTANTS User, Tx, Password,   \* ids of users, transactions at a time, passwords
          MaxLink, MaxVersion,  \* bounds: links issued, session versions
          Followed              \* whether an event stream is opened

ASSUME AccountsAssumption == /\ Password \subseteq Nat \ {0}
                             /\ MaxLink \in Nat /\ MaxVersion \in Nat /\ Followed \in BOOLEAN

VARIABLES
  users,     \* users and user_project_access
  links,     \* account_tokens, in the order in which they were issued
  tx,        \* transactions on them
  signin,    \* authenticateUser
  cookies,   \* for each user, the session version its newest cookie carries
  viewer     \* an event stream of the project, and its authorization guard

accountVars == <<users, links, tx, signin, cookies, viewer>>

NoUser == [role |-> "none", status |-> "none", password |-> 0, version |-> 0, access |-> FALSE]
IdleTx == [kind |-> "none", st |-> "idle", user |-> "none", link |-> 0]
NoCookie == -1
NoSignin == [st |-> "idle", user |-> "none", password |-> 0]
NoViewer == [st |-> "off", user |-> "none", version |-> 0, ok |-> FALSE]

AccountsInit ==
  /\ users = [u \in User |-> NoUser]
  /\ links = << >>
  /\ tx = [x \in Tx |-> IdleTx]
  /\ signin = NoSignin
  /\ cookies = [u \in User |-> NoCookie]
  /\ viewer = NoViewer

Known(u) == users[u].status \notin {"none", "deleted"}

(* authenticateRequest and revalidateRequestPrincipal *)
Accepted(u, v) == users[u].status = "active" /\ users[u].version = v

CanAccess(u) == users[u].role = "owner" \/ users[u].access

HasOwner == \E u \in User : users[u].role = "owner"

(* The links of u that may still be used, but for their age. *)
Open(u) == {i \in DOMAIN links : links[i].user = u /\ links[i].st = "open"}
UseLinks(u) == [i \in DOMAIN links |-> IF i \in Open(u) THEN [links[i] EXCEPT !.st = "used"] ELSE links[i]]
NewLink(u) == [user |-> u, st |-> "open", late |-> FALSE, spent |-> 0]
-----------------------------------------------------------------------------
(* Transactions on one row: SELECT ... FOR UPDATE and what is read under the *)
(* lock, COMMIT, the answer.                                                 *)

(* Users with a usable row, and what may be asked for them: by the owner,    *)
(* from the command line (recoverOwnerAccount), with a link.                 *)
Asked(u) ==
  (IF HasOwner THEN {[IdleTx EXCEPT !.kind = k, !.user = u] : k \in {"access", "enable", "disable", "reset", "delete"}}
               ELSE {})
    \cup {[IdleTx EXCEPT !.kind = "setup", !.user = u, !.link = i] : i \in {j \in DOMAIN links : links[j].user = u}}

RowFree_NoLock(u) == TRUE
RowFree(u) == \A y \in Tx : tx[y].st = "locked" => tx[y].user # u

(* The transaction goes on with the row it has locked. *)
Permits(t) ==
  CASE t.kind = "reset" -> TRUE
    [] t.kind = "enable" -> users[t.user].role # "owner" /\ users[t.user].password # 0
    [] t.kind \in {"access", "disable", "delete"} -> users[t.user].role # "owner"
    [] t.kind = "setup" -> users[t.user].status # "disabled" /\ links[t.link].st = "open" /\ ~links[t.link].late

Lock(x) ==
  /\ tx[x].st = "idle"
  /\ \E u \in User : /\ Known(u) /\ RowFree(u)
                     /\ \E t \in Asked(u) : Permits(t) /\ tx' = [tx EXCEPT ![x] = [t EXCEPT !.st = "locked"]]
  /\ UNCHANGED <<users, links, signin, cookies, viewer>>

Rollback(x) ==
  /\ tx[x].st = "locked"
  /\ tx' = [tx EXCEPT ![x] = IdleTx]
  /\ UNCHANGED <<users, links, signin, cookies, viewer>>

SetUser(u, r) == users' = [users EXCEPT ![u] = r]
NextVersion(r) == [r EXCEPT !.version = @ + 1]

(* issueAccountToken *)
CommitReset(t) ==
  /\ Len(links) < MaxLink /\ users[t.user].version < MaxVersion
  /\ SetUser(t.user, [NextVersion(users[t.user]) EXCEPT !.password = 0, !.status = "invited"])
  /\ links' = Append(UseLinks(t.user), NewLink(t.user))

(* setUserStatus *)
CommitEnable(t) ==
  /\ users[t.user].version < MaxVersion
  /\ SetUser(t.user, [NextVersion(users[t.user]) EXCEPT !.status = "active"])
  /\ UNCHANGED links

CommitDisable(t) ==
  /\ users[t.user].version < MaxVersion
  /\ SetUser(t.user, [NextVersion(users[t.user]) EXCEPT !.status = "disabled"])
  /\ links' = UseLinks(t.user)

CommitAccess(t) ==
  /\ \E a \in BOOLEAN : SetUser(t.user, [users[t.user] EXCEPT !.access = a])
  /\ UNCHANGED links

(* The links go with their user. *)
CommitDelete(t) ==
  /\ SetUser(t.user, [NoUser EXCEPT !.status = "deleted"])
  /\ links' = [i \in DOMAIN links |-> IF links[i].user = t.user THEN [links[i] EXCEPT !.st = "gone"] ELSE links[i]]

(* completeAccountSetup *)
CommitSetup(t) ==
  /\ users[t.user].version < MaxVersion
  /\ \E p \in Password :
       SetUser(t.user, [NextVersion(users[t.user]) EXCEPT !.password = p, !.status = "active"])
  /\ links' = [UseLinks(t.user) EXCEPT ![t.link] = [@ EXCEPT !.st = "used", !.spent = links[t.link].spent + 1]]

Commits(t) ==
  CASE t.kind = "reset" -> CommitReset(t)
    [] t.kind = "enable" -> CommitEnable(t)
    [] t.kind = "disable" -> CommitDisable(t)
    [] t.kind = "access" -> CommitAccess(t)
    [] t.kind = "delete" -> CommitDelete(t)
    [] t.kind = "setup" -> CommitSetup(t)

Commit(x) ==
  /\ tx[x].st = "locked" /\ tx[x].kind # "owner"
  /\ Commits(tx[x])
  /\ tx' = [tx EXCEPT ![x] = IF @.kind = "setup" THEN [IdleTx EXCEPT !.st = "answer", !.user = tx[x].user] ELSE IdleTx]
  /\ UNCHANGED <<signin, cookies, viewer>>

(* The cookie carries the version that is read after the commit. *)
GiveCookie(u) == cookies' = IF Known(u) THEN [cookies EXCEPT ![u] = users[u].version] ELSE cookies

Answer(x) ==
  /\ tx[x].st = "answer"
  /\ GiveCookie(tx[x].user)
  /\ tx' = [tx EXCEPT ![x] = IdleTx]
  /\ UNCHANGED <<users, links, signin, viewer>>
-----------------------------------------------------------------------------
(* New users. *)

Fresh == {u \in User : users[u].status = "none" /\ \A y \in Tx : tx[y].user # u}

CreateMember ==
  /\ HasOwner
  /\ Len(links) < MaxLink
  /\ \E u \in Fresh, a \in BOOLEAN :
       /\ SetUser(u, [NoUser EXCEPT !.role = "member", !.status = "invited", !.access = a])
       /\ links' = Append(links, NewLink(u))
  /\ UNCHANGED <<tx, signin, cookies, viewer>>

(* createInitialOwner: the advisory lock, the look at the table, the insert. *)
OwnerFree == \A y \in Tx : ~(tx[y].kind = "owner" /\ tx[y].st = "locked")

LockOwner(x) ==
  /\ tx[x].st = "idle"
  /\ OwnerFree
  /\ \A u \in User : ~Known(u)
  /\ \E u \in Fresh : tx' = [tx EXCEPT ![x] = [IdleTx EXCEPT !.kind = "owner", !.st = "locked", !.user = u]]
  /\ UNCHANGED <<users, links, signin, cookies, viewer>>

(* users_single_owner_idx refuses a second owner. *)
CommitOwner(x) ==
  /\ tx[x].kind = "owner" /\ tx[x].st = "locked"
  /\ IF HasOwner
       THEN UNCHANGED users /\ tx' = [tx EXCEPT ![x] = IdleTx]
       ELSE /\ \E p \in Password :
                 SetUser(tx[x].user, [NoUser EXCEPT !.role = "owner", !.status = "active", !.password = p])
            /\ tx' = [tx EXCEPT ![x] = [IdleTx EXCEPT !.st = "answer", !.user = tx[x].user]]
  /\ UNCHANGED <<links, signin, cookies, viewer>>
-----------------------------------------------------------------------------
(* authenticateUser: the row is read, the password compared with its hash,   *)
(* that hash or a newer form of it is written back, the principal is read.   *)

SigninReads ==
  /\ signin.st = "idle"
  /\ \E u \in User, p \in Password :
       /\ users[u].status = "active" /\ users[u].password = p
       /\ signin' = [st |-> "hashing", user |-> u, password |-> p]
  /\ UNCHANGED <<users, links, tx, cookies, viewer>>

SigninWrites ==
  /\ signin.st = "hashing"
  /\ RowFree(signin.user)
  /\ IF Known(signin.user) THEN SetUser(signin.user, [users[signin.user] EXCEPT !.password = signin.password])
                           ELSE UNCHANGED users
  /\ signin' = [signin EXCEPT !.st = "answer"]
  /\ UNCHANGED <<links, tx, cookies, viewer>>

SigninAnswers ==
  /\ signin.st = "answer"
  /\ GiveCookie(signin.user)
  /\ signin' = NoSignin
  /\ UNCHANGED <<users, links, tx, viewer>>

SigninFails == signin.st # "idle" /\ signin' = NoSignin /\ UNCHANGED <<users, links, tx, cookies, viewer>>

(* Twenty-four hours pass. *)
LinkExpires ==
  /\ \E i \in DOMAIN links : ~links[i].late /\ links' = [links EXCEPT ![i].late = TRUE]
  /\ UNCHANGED <<users, tx, signin, cookies, viewer>>
-----------------------------------------------------------------------------
(* An event stream: requireAuth and assertProjectAccess when it is opened,   *)
(* and startStreamAuthorizationGuard every fifteen seconds.                  *)

OpenViewer ==
  /\ Followed /\ viewer.st = "off"
  /\ \E u \in User :
       /\ Accepted(u, cookies[u]) /\ CanAccess(u)
       /\ viewer' = [st |-> "open", user |-> u, version |-> cookies[u], ok |-> FALSE]
  /\ UNCHANGED <<users, links, tx, signin, cookies>>

MayView(s) == Accepted(s.user, s.version) /\ CanAccess(s.user)

GuardReads ==
  /\ viewer.st = "open"
  /\ viewer' = [viewer EXCEPT !.st = "checking", !.ok = MayView(viewer)]
  /\ UNCHANGED <<users, links, tx, signin, cookies>>

GuardDecides_CheckingForEver ==
  /\ viewer.st = "checking"
  /\ \E ok \in {viewer.ok, FALSE} : viewer' = IF ok THEN [viewer EXCEPT !.st = "busy"] ELSE NoViewer
  /\ UNCHANGED <<users, links, tx, signin, cookies>>

(* The principal has been read; a failed read ends the stream too. *)
GuardDecides ==
  /\ viewer.st = "checking"
  /\ \E ok \in {viewer.ok, FALSE} : viewer' = IF ok THEN [viewer EXCEPT !.st = "open", !.ok = FALSE] ELSE NoViewer
  /\ UNCHANGED <<users, links, tx, signin, cookies>>

CloseViewer == viewer.st # "off" /\ viewer' = NoViewer /\ UNCHANGED <<users, links, tx, signin, cookies>>
-----------------------------------------------------------------------------
Transactions == \E x \in Tx : Lock(x) \/ Commit(x) \/ Rollback(x) \/ Answer(x) \/ LockOwner(x) \/ CommitOwner(x)

AccountsNext ==
  \/ Transactions \/ CreateMember \/ LinkExpires
  \/ SigninReads \/ SigninWrites \/ SigninAnswers \/ SigninFails
  \/ OpenViewer \/ GuardReads \/ GuardDecides \/ CloseViewer

(* The guard's timer fires and its queries end. *)
AccountsFairness == WF_accountVars(GuardReads) /\ WF_accountVars(GuardDecides)

AccountsSpec == AccountsInit /\ [][AccountsNext]_accountVars /\ AccountsFairness
-----------------------------------------------------------------------------
(* The types of the variables. *)
UserRow ==
  [role : {"none", "owner", "member"}, status : {"none", "invited", "active", "disabled", "deleted"},
   password : Password \cup {0}, version : 0..MaxVersion, access : BOOLEAN]
AccountLink == [user : User, st : {"open", "used", "gone"}, late : BOOLEAN, spent : Nat]
AccountTx ==
  [kind : {"none", "access", "enable", "disable", "reset", "delete", "setup", "owner"},
   st : {"idle", "locked", "answer"}, user : User \cup {"none"}, link : 0..MaxLink]

AccountsTypeOK ==
  /\ users \in [User -> UserRow]
  /\ links \in Seq(AccountLink) /\ Len(links) <= MaxLink
  /\ tx \in [Tx -> AccountTx]
  /\ signin \in [st : {"idle", "hashing", "answer"}, user : User \cup {"none"}, password : Password \cup {0}]
  /\ cookies \in [User -> NoCookie..MaxVersion]
  /\ viewer \in [st : {"off", "open", "checking"}, user : User \cup {"none"}, version : 0..MaxVersion, ok : BOOLEAN]

(* Whatever requests, resets, set-ups, sign-ins and deletions overlap: there *)
(* is one owner at most; who is active has a password; a user has one usable *)
(* link at most and a disabled one has none, so a link that was replaced or  *)
(* withdrawn is worthless; and a link sets a password once.                  *)
AccountsSound ==
  /\ Cardinality({u \in User : users[u].role = "owner"}) <= 1
  /\ \A u \in User : /\ users[u].status = "active" => users[u].password # 0
                     /\ Cardinality(Open(u)) <= 1
                     /\ users[u].status \in {"disabled", "deleted"} => Open(u) = {}
  /\ \A i \in DOMAIN links : links[i].spent <= 1

(* A stream whose user is disabled, deleted, reset, or loses the project is  *)
(* ended, unless the access is back before the guard looks again.            *)
RevokedStreamCloses == (viewer.st # "off" /\ ~MayView(viewer)) ~> (viewer.st = "off" \/ MayView(viewer))
=============================================================================
