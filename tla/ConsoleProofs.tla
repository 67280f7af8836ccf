---------------------------- MODULE ConsoleProofs ---------------------------
(***************************************************************************)
(* The safety of what is administered from the console: accounts, MCP      *)
(* tokens, workers, containers and backups, and what the browser shows of  *)
(* them: the loads of a view, the DNS records of the client that is        *)
(* selected, and the editor of a project's files. Each has an invariant,   *)
(* which holds at first and which every action keeps, and the property     *)
(* that follows from it.                                                   *)
(***************************************************************************)
EXTENDS Accounts, Mcp, Nodes, Containers, Backups, ViewLoads, DnsView,
        ProjectEditor, FiniteSetTheorems, SequenceTheorems, TLAPS
-----------------------------------------------------------------------------
(* Accounts *)

(* The row of a user and its links; a user that was never created has none. *)
UserFits(u) ==
  /\ users[u].status = "active" => users[u].password # 0
  /\ \A i \in Open(u) : \A j \in Open(u) : i = j
  /\ users[u].status \in {"none", "disabled", "deleted"} => Open(u) = {}
  /\ users[u].status = "none" => \A i \in DOMAIN links : links[i].user # u

(* A link that is open has set no password, and any other has set one at most. *)
LinkFits(l) == l.spent <= 1 /\ (l.st = "open" => l.spent = 0)

(* A transaction that holds a row still sees what let it go on. *)
TxFits(t) ==
  /\ t.st # "idle" => t.user \in User
  /\ t.st = "locked" =>
       /\ t.kind # "none" /\ (t.kind = "owner" <=> users[t.user].status = "none")
       /\ t.kind # "owner" => Known(t.user)
       /\ t.kind = "enable" => users[t.user].password # 0
       /\ t.kind = "setup" => t.link \in DOMAIN links /\ links[t.link].user = t.user /\ links[t.link].st = "open"

RowsAreLockedOnce == \A x \in Tx, y \in Tx : tx[x].st = "locked" /\ tx[y].st = "locked" /\ tx[x].user = tx[y].user
  => x = y
OneOwner == \A u \in User, v \in User : users[u].role = "owner" /\ users[v].role = "owner" => u = v
SigninFits == signin.st = "hashing" => signin.user \in User /\ signin.password # 0

AccountsInv ==
  /\ AccountsTypeOK
  /\ \A u \in User : UserFits(u)
  /\ \A i \in DOMAIN links : LinkFits(links[i])
  /\ \A x \in Tx : TxFits(tx[x])
  /\ RowsAreLockedOnce /\ OneOwner /\ SigninFits

(* A function on 1..n is a sequence of that length. *)
LEMMA FunctionIsSeq ==
  ASSUME NEW S, NEW n \in Nat, NEW f \in [1..n -> S]
  PROVE  f \in Seq(S) /\ Len(f) = n /\ DOMAIN f = 1..n
OBVIOUS

(* There is nobody, and no link. *)
LEMMA AccountsInvInit == AccountsInit => AccountsInv
<1> SUFFICES ASSUME AccountsInit PROVE AccountsInv
  OBVIOUS
<1>0. 0 \in 0..MaxVersion /\ 0 \in 0..MaxLink /\ NoCookie \in NoCookie..MaxVersion /\ 0 <= MaxLink
  BY AccountsAssumption DEF NoCookie
<1>1. NoUser \in UserRow /\ IdleTx \in AccountTx
  BY <1>0 DEF NoUser, IdleTx, UserRow, AccountTx
<1>2. links \in Seq(AccountLink) /\ Len(links) = 0 /\ DOMAIN links = {}
  BY DEF AccountsInit
<1>3. AccountsTypeOK
  <2>1. /\ signin \in [st : {"idle", "hashing", "answer"}, user : User \cup {"none"}, password : Password \cup {0}]
        /\ viewer \in [st : {"off", "open", "checking"}, user : User \cup {"none"}, version : 0..MaxVersion,
             ok : BOOLEAN]
    BY <1>0 DEF AccountsInit, NoSignin, NoViewer
  <2>2. users \in [User -> UserRow] /\ tx \in [Tx -> AccountTx] /\ cookies \in [User -> NoCookie..MaxVersion]
    BY <1>0, <1>1 DEF AccountsInit
  <2>. QED  BY <1>0, <1>2, <2>1, <2>2 DEF AccountsTypeOK
<1>4. \A u \in User : users[u].status = "none" /\ users[u].role = "none"
  BY DEF AccountsInit, NoUser
<1>5. \A x \in Tx : tx[x].st = "idle"
  BY DEF AccountsInit, IdleTx
<1>6. signin.st = "idle"
  BY DEF AccountsInit, NoSignin
<1>. QED  BY <1>2, <1>3, <1>4, <1>5, <1>6
          DEF AccountsInv, UserFits, TxFits, RowsAreLockedOnce, OneOwner, SigninFits, Open

(* The parts of the state. *)
LEMMA AccountsParts ==
  ASSUME AccountsTypeOK
  PROVE  /\ users \in [User -> UserRow] /\ tx \in [Tx -> AccountTx] /\ links \in Seq(AccountLink)
         /\ Len(links) \in Nat /\ Len(links) <= MaxLink /\ DOMAIN links = 1..Len(links)
         /\ \A i \in DOMAIN links : links[i] \in AccountLink
         /\ cookies \in [User -> NoCookie..MaxVersion] /\ NoCookie = -1
         /\ \A u \in User : users[u] \in UserRow /\ users[u].version \in NoCookie..MaxVersion
         /\ \A x \in Tx : tx[x] \in AccountTx
         /\ NoUser \in UserRow /\ IdleTx \in AccountTx
         /\ MaxVersion \in Nat /\ MaxLink \in Nat
<1>1. links \in Seq(AccountLink) /\ Len(links) <= MaxLink
  BY DEF AccountsTypeOK
<1>2. Len(links) \in Nat /\ DOMAIN links = 1..Len(links) /\ \A i \in DOMAIN links : links[i] \in AccountLink
  BY <1>1, LenProperties, ElementOfSeq
<1>3. NoUser \in UserRow /\ IdleTx \in AccountTx
  <2>1. 0 \in 0..MaxVersion /\ 0 \in 0..MaxLink
    BY AccountsAssumption
  <2>. QED  BY <2>1 DEF NoUser, IdleTx, UserRow, AccountTx
<1>4. \A n \in 0..MaxVersion : n \in NoCookie..MaxVersion
  BY AccountsAssumption DEF NoCookie
<1>5. \A u \in User : users[u] \in UserRow /\ users[u].version \in NoCookie..MaxVersion
  BY <1>4 DEF AccountsTypeOK, UserRow
<1>. QED  BY <1>1, <1>2, <1>3, <1>5, AccountsAssumption DEF AccountsTypeOK, NoCookie

(* Links change by the entry: they stay a sequence, and those of one user may be used up. *)
LEMMA LinksChange ==
  ASSUME AccountsTypeOK, NEW f, DOMAIN f = DOMAIN links, f = [i \in DOMAIN f |-> f[i]],
         \A i \in DOMAIN links : f[i] \in AccountLink
  PROVE  f \in Seq(AccountLink) /\ Len(f) = Len(links) /\ Len(f) <= MaxLink
<1>1. Len(links) \in Nat /\ DOMAIN links = 1..Len(links) /\ Len(links) <= MaxLink
  BY AccountsParts
<1>2. f \in [1..Len(links) -> AccountLink]
  BY <1>1
<1>. QED  BY <1>1, <1>2, FunctionIsSeq

(* To use up the links of a user closes his open ones and leaves everybody else's. *)
LEMMA UseLinksType ==
  ASSUME AccountsTypeOK, NEW u
  PROVE  /\ UseLinks(u) \in Seq(AccountLink) /\ Len(UseLinks(u)) = Len(links) /\ DOMAIN UseLinks(u) = DOMAIN links
         /\ \A i \in DOMAIN links :
              /\ UseLinks(u)[i] \in AccountLink /\ UseLinks(u)[i].user = links[i].user
              /\ UseLinks(u)[i].spent = links[i].spent /\ UseLinks(u)[i].late = links[i].late
              /\ links[i].user # u => UseLinks(u)[i] = links[i]
              /\ links[i].user = u => UseLinks(u)[i].st # "open"
              /\ UseLinks(u)[i].st = "open" => links[i].st = "open"
<1>1. DOMAIN UseLinks(u) = DOMAIN links /\ UseLinks(u) = [i \in DOMAIN UseLinks(u) |-> UseLinks(u)[i]]
  BY DEF UseLinks
<1>2. ASSUME NEW i \in DOMAIN links
      PROVE  /\ UseLinks(u)[i] \in AccountLink /\ UseLinks(u)[i].user = links[i].user
             /\ UseLinks(u)[i].spent = links[i].spent /\ UseLinks(u)[i].late = links[i].late
             /\ links[i].user # u => UseLinks(u)[i] = links[i]
             /\ links[i].user = u => UseLinks(u)[i].st # "open"
             /\ UseLinks(u)[i].st = "open" => links[i].st = "open"
  <2>1. links[i] \in AccountLink
    BY AccountsParts
  <2>2. LET h == [links[i] EXCEPT !.st = "used"]
        IN  h \in AccountLink /\ h.user = links[i].user /\ h.spent = links[i].spent /\ h.late = links[i].late
          /\ h.st = "used"
    BY <2>1 DEF AccountLink
  <2>3. UseLinks(u)[i] = IF links[i].user = u /\ links[i].st = "open" THEN [links[i] EXCEPT !.st = "used"]
          ELSE links[i]
    BY DEF UseLinks, Open
  <2>. QED  BY <2>1, <2>2, <2>3
<1>. QED  BY <1>1, <1>2, LinksChange

(* One row and the links of its user change, held by nobody else. *)
LEMMA RowChanges ==
  ASSUME AccountsInv, AccountsTypeOK', NEW w \in User,
         \A v \in User \ {w} : users'[v] = users[v],
         \A i \in DOMAIN links : i \in DOMAIN links' /\ links'[i].user = links[i].user
           /\ (links[i].user # w => links'[i] = links[i]),
         \A i \in DOMAIN links' : i \in DOMAIN links \/ links'[i].user = w,
         \A i \in DOMAIN links' : LinkFits(links'[i]),
         UserFits(w)',
         \A y \in Tx : tx'[y] = tx[y] \/ (tx'[y].st # "locked" /\ (tx'[y].st # "idle" => tx'[y].user \in User)),
         \A y \in Tx : tx'[y].st = "locked" => tx[y].user # w,
         users'[w].role = "owner" => users[w].role = "owner" \/ ~HasOwner,
         SigninFits'
  PROVE  AccountsInv'
<1>1. ASSUME NEW v \in User PROVE UserFits(v)'
  <2>1. CASE v = w
    BY <2>1
  <2>2. CASE v # w
    <3>1. UserFits(v) /\ users'[v] = users[v]
      BY <2>2 DEF AccountsInv
    <3>2. \A i : i \in Open(v)' <=> i \in Open(v)
      BY <2>2 DEF Open
    <3>3. (\A i \in DOMAIN links : links[i].user # v) => (\A i \in DOMAIN links' : links'[i].user # v)
      BY <2>2
    <3>. QED  BY <3>1, <3>2, <3>3 DEF UserFits
  <2>. QED  BY <2>1, <2>2
<1>2. ASSUME NEW y \in Tx PROVE TxFits(tx[y])'
  <2>1. CASE tx'[y] = tx[y]
    <3>1. TxFits(tx[y])
      BY DEF AccountsInv
    <3>2. tx[y].st = "locked" => tx[y].user \in User /\ tx[y].user # w /\ users'[tx[y].user] = users[tx[y].user]
      BY <2>1, <3>1 DEF TxFits
    <3>. QED  BY <2>1, <3>1, <3>2 DEF TxFits, Known
  <2>2. CASE tx'[y].st # "locked" /\ (tx'[y].st # "idle" => tx'[y].user \in User)
    BY <2>2 DEF TxFits
  <2>. QED  BY <2>1, <2>2
<1>3. RowsAreLockedOnce'
  BY DEF AccountsInv, RowsAreLockedOnce
<1>4. OneOwner'
  BY DEF AccountsInv, OneOwner, HasOwner
<1>. QED  BY <1>1, <1>2, <1>3, <1>4 DEF AccountsInv

(* Neither rows nor links change, and a transaction that takes a row takes a free one. *)
LEMMA TxChanges ==
  ASSUME AccountsInv, AccountsTypeOK', UNCHANGED <<users, links>>, NEW x \in Tx, NEW t, tx' = [tx EXCEPT ![x] = t],
         TxFits(t), t.st = "locked" => \A y \in Tx \ {x} : tx[y].st = "locked" => tx[y].user # t.user, SigninFits'
  PROVE  AccountsInv'
<1>1. \A y \in Tx : tx'[y] = IF y = x THEN t ELSE tx[y]
  BY AccountsParts DEF AccountsInv
<1>2. \A u \in User : UserFits(u)'
  BY DEF AccountsInv, UserFits, Open
<1>3. \A y \in Tx : TxFits(tx[y])'
  <2>1. ASSUME NEW y \in Tx PROVE TxFits(tx[y])'
    <3>1. TxFits(IF y = x THEN t ELSE tx[y])
      BY DEF AccountsInv
    <3>. QED  BY <1>1, <3>1 DEF TxFits, Known
  <2>. QED  BY <2>1
<1>4. RowsAreLockedOnce'
  BY <1>1 DEF AccountsInv, RowsAreLockedOnce
<1>. QED  BY <1>2, <1>3, <1>4 DEF AccountsInv, OneOwner, LinkFits

(* Neither rows, links nor transactions change. *)
LEMMA OthersChange ==
  ASSUME AccountsInv, AccountsTypeOK', UNCHANGED <<users, links, tx>>, SigninFits'
  PROVE  AccountsInv'
BY DEF AccountsInv, UserFits, Open, LinkFits, TxFits, Known, RowsAreLockedOnce, OneOwner

(* The rows of transactions under way are users. *)
LEMMA LockedUser ==
  ASSUME AccountsInv, NEW x \in Tx, tx[x].st = "locked"
  PROVE  /\ tx[x] \in AccountTx /\ TxFits(tx[x]) /\ tx[x].user \in User /\ users[tx[x].user] \in UserRow
         /\ UserFits(tx[x].user) /\ \A y \in Tx \ {x} : tx[y].st = "locked" => tx[y].user # tx[x].user
BY AccountsParts DEF AccountsInv, TxFits, RowsAreLockedOnce

(* A link that is made. *)
LEMMA NewLinkType ==
  ASSUME NEW u \in User
  PROVE  NewLink(u) \in AccountLink /\ LinkFits(NewLink(u)) /\ NewLink(u).user = u /\ NewLink(u).st = "open"
BY DEF NewLink, AccountLink, LinkFits

(* A row with a later version, for a step that is within the bound. *)
LEMMA VersionType ==
  ASSUME NEW r \in UserRow, r.version < MaxVersion
  PROVE  /\ NextVersion(r) \in UserRow /\ NextVersion(r).role = r.role /\ NextVersion(r).password = r.password
         /\ NextVersion(r).status = r.status
<1>1. r.version + 1 \in 0..MaxVersion
  <2>1. r.version \in 0..MaxVersion
    BY DEF UserRow
  <2>. QED  BY <2>1, AccountsAssumption
<1>. QED  BY <1>1 DEF NextVersion, UserRow

(* What the commit of a transaction on the row of w leaves. *)
CommitFits(w) ==
  /\ users' \in [User -> UserRow] /\ links' \in Seq(AccountLink) /\ Len(links') <= MaxLink
  /\ \A v \in User \ {w} : users'[v] = users[v]
  /\ \A i \in DOMAIN links : i \in DOMAIN links' /\ links'[i].user = links[i].user
       /\ (links[i].user # w => links'[i] = links[i])
  /\ \A i \in DOMAIN links' : i \in DOMAIN links \/ links'[i].user = w
  /\ \A i \in DOMAIN links' : LinkFits(links'[i])
  /\ UserFits(w)'
  /\ users'[w].role = "owner" => users[w].role = "owner" \/ ~HasOwner

(* The row is written, and the links are used up, or stay as they are. *)
LEMMA RowWritten ==
  ASSUME AccountsInv, NEW w \in User, NEW r \in UserRow, SetUser(w, r),
         r.role = "owner" => users[w].role = "owner" \/ ~HasOwner,
         r.status = "active" => r.password # 0,
         \/ /\ links' = UseLinks(w) /\ r.status # "none"
         \/ /\ UNCHANGED links /\ r.status # "none"
            /\ r.status = "disabled" \/ r.status = "deleted" => r.status = users[w].status
  PROVE  CommitFits(w)
<1>0. users' \in [User -> UserRow] /\ users'[w] = r /\ \A v \in User \ {w} : users'[v] = users[v]
  BY AccountsParts DEF AccountsInv, SetUser
<1>1. UserFits(w) /\ \A i \in DOMAIN links : LinkFits(links[i])
  BY DEF AccountsInv
<1>2. CASE links' = UseLinks(w) /\ r.status # "none"
  <2>1. /\ links' \in Seq(AccountLink) /\ Len(links') <= MaxLink /\ DOMAIN links' = DOMAIN links
        /\ \A i \in DOMAIN links :
             /\ links'[i].user = links[i].user /\ links'[i].spent = links[i].spent
             /\ links[i].user # w => links'[i] = links[i]
             /\ links[i].user = w => links'[i].st # "open"
             /\ links'[i].st = "open" => links[i].st = "open"
    BY <1>2, UseLinksType, AccountsParts DEF AccountsInv
  <2>2. Open(w)' = {}
    BY <2>1 DEF Open
  <2>3. UserFits(w)'
    BY <1>0, <1>2, <2>2 DEF UserFits
  <2>. QED  BY <1>0, <1>1, <2>1, <2>3 DEF CommitFits, LinkFits
<1>3. CASE /\ UNCHANGED links /\ r.status # "none"
           /\ r.status = "disabled" \/ r.status = "deleted" => r.status = users[w].status
  <2>1. Open(w)' = Open(w)
    BY <1>3 DEF Open
  <2>2. UserFits(w)'
    BY <1>0, <1>1, <1>3, <2>1 DEF UserFits
  <2>. QED  BY <1>0, <1>1, <1>3, <2>2, AccountsParts DEF CommitFits, AccountsInv
<1>. QED  BY <1>2, <1>3

(* The commits, each with what the transaction found under its lock. *)
LEMMA ResetFits ==
  ASSUME AccountsInv, NEW t \in AccountTx, t.user \in User, CommitReset(t)
  PROVE  CommitFits(t.user)
<1> DEFINE w == t.user
           r == [NextVersion(users[w]) EXCEPT !.password = 0, !.status = "invited"]
           u == UseLinks(w)
           l == NewLink(w)
<1>0. users[w] \in UserRow /\ UserFits(w) /\ \A i \in DOMAIN links : LinkFits(links[i])
  BY AccountsParts DEF AccountsInv
<1>1. SetUser(w, r) /\ links' = Append(u, l) /\ Len(links) < MaxLink /\ users[w].version < MaxVersion
  BY DEF CommitReset
<1>2. r \in UserRow /\ r.role = users[w].role /\ r.status = "invited"
  <2>1. NextVersion(users[w]) \in UserRow /\ NextVersion(users[w]).role = users[w].role
    BY <1>0, <1>1, VersionType
  <2>. QED  BY <2>1 DEF UserRow
<1> HIDE DEF r
<1>3. users' \in [User -> UserRow] /\ users'[w] = r /\ \A v \in User \ {w} : users'[v] = users[v]
  BY <1>1, <1>2, AccountsParts DEF AccountsInv, SetUser
<1>4. /\ u \in Seq(AccountLink) /\ Len(u) = Len(links) /\ DOMAIN u = DOMAIN links
      /\ \A i \in DOMAIN links :
           /\ u[i].user = links[i].user /\ u[i].spent = links[i].spent
           /\ links[i].user # w => u[i] = links[i]
           /\ links[i].user = w => u[i].st # "open"
           /\ u[i].st = "open" => links[i].st = "open"
  BY UseLinksType DEF AccountsInv
<1>5. l \in AccountLink /\ LinkFits(l) /\ l.user = w /\ l.st = "open"
  BY NewLinkType
<1> HIDE DEF u, l
<1>6. /\ links' \in Seq(AccountLink) /\ Len(links') = Len(links) + 1
      /\ \A i \in 1..Len(links) : links'[i] = u[i]
      /\ links'[Len(links) + 1] = l
  BY <1>1, <1>4, <1>5, AppendProperties
<1>7. DOMAIN links = 1..Len(links) /\ Len(links) \in Nat /\ DOMAIN links' = 1..(Len(links) + 1)
  BY <1>6, AccountsParts, LenProperties DEF AccountsInv
<1>8. DOMAIN links' = DOMAIN links \cup {Len(links) + 1} /\ Len(links) + 1 \notin DOMAIN links
  BY <1>7
<1>9. Len(links') <= MaxLink
  BY <1>1, <1>6, <1>7, AccountsAssumption
<1>10. Open(w)' = {Len(links) + 1}
  BY <1>4, <1>5, <1>6, <1>7, <1>8 DEF Open
<1>11. UserFits(w)'
  BY <1>2, <1>3, <1>10 DEF UserFits
<1>12. \A i \in DOMAIN links' : LinkFits(links'[i])
  BY <1>0, <1>4, <1>5, <1>6, <1>7, <1>8 DEF LinkFits
<1>13. \A i \in DOMAIN links : i \in DOMAIN links' /\ links'[i].user = links[i].user
         /\ (links[i].user # w => links'[i] = links[i])
  BY <1>4, <1>6, <1>7, <1>8
<1>14. \A i \in DOMAIN links' : i \in DOMAIN links \/ links'[i].user = w
  BY <1>5, <1>6, <1>8
<1>. QED  BY <1>2, <1>3, <1>6, <1>9, <1>11, <1>12, <1>13, <1>14 DEF CommitFits

(* To enable a user with a password keeps what his row and his links must be. *)
LEMMA EnableFits ==
  ASSUME AccountsInv, NEW t \in AccountTx, t.user \in User, CommitEnable(t), users[t.user].password # 0
  PROVE  CommitFits(t.user)
<1> DEFINE r == [NextVersion(users[t.user]) EXCEPT !.status = "active"]
<1>1. users[t.user] \in UserRow /\ users[t.user].version < MaxVersion /\ SetUser(t.user, r) /\ UNCHANGED links
  BY AccountsParts DEF AccountsInv, CommitEnable
<1>2. r \in UserRow /\ r.role = users[t.user].role /\ r.status = "active" /\ r.password = users[t.user].password
  <2>1. /\ NextVersion(users[t.user]) \in UserRow /\ NextVersion(users[t.user]).role = users[t.user].role
        /\ NextVersion(users[t.user]).password = users[t.user].password
    BY <1>1, VersionType
  <2>. QED  BY <2>1 DEF UserRow
<1> HIDE DEF r
<1>. QED  BY <1>1, <1>2, RowWritten

(* To disable a user closes his links. *)
LEMMA DisableFits ==
  ASSUME AccountsInv, NEW t \in AccountTx, t.user \in User, CommitDisable(t)
  PROVE  CommitFits(t.user)
<1> DEFINE r == [NextVersion(users[t.user]) EXCEPT !.status = "disabled"]
<1>1. users[t.user] \in UserRow /\ users[t.user].version < MaxVersion /\ SetUser(t.user, r)
        /\ links' = UseLinks(t.user)
  BY AccountsParts DEF AccountsInv, CommitDisable
<1>2. r \in UserRow /\ r.role = users[t.user].role /\ r.status = "disabled"
  <2>1. NextVersion(users[t.user]) \in UserRow /\ NextVersion(users[t.user]).role = users[t.user].role
    BY <1>1, VersionType
  <2>. QED  BY <2>1 DEF UserRow
<1> HIDE DEF r
<1>. QED  BY <1>1, <1>2, RowWritten

(* To change what a user may see keeps his status. *)
LEMMA AccessFits ==
  ASSUME AccountsInv, NEW t \in AccountTx, t.user \in User, CommitAccess(t), Known(t.user)
  PROVE  CommitFits(t.user)
<1>1. PICK a \in BOOLEAN : SetUser(t.user, [users[t.user] EXCEPT !.access = a])
  BY DEF CommitAccess
<1> DEFINE r == [users[t.user] EXCEPT !.access = a]
<1>2. UserFits(t.user) /\ users[t.user] \in UserRow /\ UNCHANGED links /\ SetUser(t.user, r)
  BY <1>1, AccountsParts DEF AccountsInv, CommitAccess
<1>3. r \in UserRow /\ r.role = users[t.user].role /\ r.status = users[t.user].status
        /\ r.password = users[t.user].password
  BY <1>2 DEF UserRow
<1> HIDE DEF r
<1>. QED  BY <1>2, <1>3, RowWritten DEF UserFits, Known

(* To delete a user closes his links and takes his password. *)
LEMMA DeleteFits ==
  ASSUME AccountsInv, NEW t \in AccountTx, t.user \in User, CommitDelete(t)
  PROVE  CommitFits(t.user)
<1> DEFINE w == t.user
           r == [NoUser EXCEPT !.status = "deleted"]
<1>0. UserFits(w) /\ \A i \in DOMAIN links : LinkFits(links[i]) /\ links[i] \in AccountLink
  BY AccountsParts DEF AccountsInv
<1>1. r \in UserRow /\ r.role = "none" /\ r.status = "deleted"
  <2>1. r \in UserRow
    BY AccountsParts DEF AccountsInv, UserRow
  <2>. QED  BY <2>1 DEF NoUser
<1>2. SetUser(w, r)
  BY DEF CommitDelete
<1> HIDE DEF r
<1>3. users' \in [User -> UserRow] /\ users'[w] = r /\ \A v \in User \ {w} : users'[v] = users[v]
  BY <1>1, <1>2, AccountsParts DEF AccountsInv, SetUser
<1>4. DOMAIN links' = DOMAIN links /\ links' = [i \in DOMAIN links' |-> links'[i]]
  BY DEF CommitDelete
<1>5. ASSUME NEW i \in DOMAIN links
      PROVE  /\ links'[i] \in AccountLink /\ links'[i].user = links[i].user /\ links'[i].spent = links[i].spent
             /\ links[i].user # w => links'[i] = links[i]
             /\ links[i].user = w => links'[i].st = "gone"
  <2>1. links'[i] = IF links[i].user = w THEN [links[i] EXCEPT !.st = "gone"] ELSE links[i]
    BY DEF CommitDelete
  <2>2. LET h == [links[i] EXCEPT !.st = "gone"]
        IN  h \in AccountLink /\ h.user = links[i].user /\ h.spent = links[i].spent /\ h.st = "gone"
    BY <1>0 DEF AccountLink
  <2>. QED  BY <1>0, <2>1, <2>2
<1>6. links' \in Seq(AccountLink) /\ Len(links') <= MaxLink
  BY <1>4, <1>5, LinksChange DEF AccountsInv
<1>7. UserFits(w)'
  <2>1. Open(w)' = {}
    BY <1>4, <1>5 DEF Open
  <2>. QED  BY <1>1, <1>3, <2>1 DEF UserFits
<1>. QED  BY <1>0, <1>1, <1>3, <1>4, <1>5, <1>6, <1>7 DEF CommitFits, LinkFits

(* The setup of a password spends the one link it came with, and all the others are closed. *)
LEMMA SetupFits ==
  ASSUME AccountsInv, NEW t \in AccountTx, t.user \in User, CommitSetup(t),
         t.link \in DOMAIN links, links[t.link].user = t.user, links[t.link].st = "open"
  PROVE  CommitFits(t.user)
<1> DEFINE w == t.user
           u == UseLinks(w)
<1>1. PICK p \in Password : SetUser(w, [NextVersion(users[w]) EXCEPT !.password = p, !.status = "active"])
  BY DEF CommitSetup
<1> DEFINE r == [NextVersion(users[w]) EXCEPT !.password = p, !.status = "active"]
           l == [u[t.link] EXCEPT !.st = "used", !.spent = links[t.link].spent + 1]
<1>0. users[w] \in UserRow /\ users[w].version < MaxVersion /\ (\A i \in DOMAIN links : LinkFits(links[i])) /\ p # 0
  BY AccountsParts, AccountsAssumption DEF AccountsInv, CommitSetup
<1>2. r \in UserRow /\ r.role = users[w].role /\ r.status = "active" /\ r.password = p
  <2>1. NextVersion(users[w]) \in UserRow /\ NextVersion(users[w]).role = users[w].role
    BY <1>0, VersionType
  <2>. QED  BY <2>1 DEF UserRow
<1> HIDE DEF r
<1>3. users' \in [User -> UserRow] /\ users'[w] = r /\ \A v \in User \ {w} : users'[v] = users[v]
  BY <1>1, <1>2, AccountsParts DEF AccountsInv, SetUser, r
<1>4. /\ u \in Seq(AccountLink) /\ Len(u) = Len(links) /\ DOMAIN u = DOMAIN links
      /\ \A i \in DOMAIN links :
           /\ u[i] \in AccountLink /\ u[i].user = links[i].user /\ u[i].spent = links[i].spent
           /\ links[i].user # w => u[i] = links[i]
           /\ links[i].user = w => u[i].st # "open"
           /\ u[i].st = "open" => links[i].st = "open"
  BY UseLinksType DEF AccountsInv
<1>5. links' = [u EXCEPT ![t.link] = l]
  BY DEF CommitSetup
<1> HIDE DEF u
<1>6. l \in AccountLink /\ l.user = w /\ l.st = "used" /\ l.spent = 1
  <2>1. links[t.link].spent + 1 = 1
    BY <1>0 DEF LinkFits
  <2>2. u[t.link] \in AccountLink /\ u[t.link].user = w
    BY <1>4
  <2>3. \A x \in AccountLink : LET h == [x EXCEPT !.st = "used", !.spent = 1]
                              IN  h \in AccountLink /\ h.user = x.user /\ h.st = "used" /\ h.spent = 1
    BY DEF AccountLink
  <2>. QED  BY <2>1, <2>2, <2>3
<1> HIDE DEF l
<1>7. DOMAIN links = 1..Len(links) /\ Len(links) \in Nat /\ Len(links) <= MaxLink
  BY AccountsParts DEF AccountsInv
<1>8. /\ links' \in Seq(AccountLink) /\ Len(links') = Len(links) /\ DOMAIN links' = DOMAIN links
      /\ \A i \in DOMAIN links : links'[i] = IF i = t.link THEN l ELSE u[i]
  BY <1>4, <1>5, <1>6, <1>7, ExceptSeq, LenProperties
<1>9. UserFits(w)'
  <2>1. Open(w)' = {}
    BY <1>4, <1>6, <1>8 DEF Open
  <2>. QED  BY <1>0, <1>2, <1>3, <2>1 DEF UserFits
<1>10. \A i \in DOMAIN links' : LinkFits(links'[i])
  BY <1>0, <1>4, <1>6, <1>8 DEF LinkFits
<1>. QED  BY <1>2, <1>3, <1>4, <1>6, <1>7, <1>8, <1>9, <1>10 DEF CommitFits

(* What a transaction leaves is of its type. *)
LEMMA TxTypes ==
  ASSUME AccountsTypeOK, NEW u \in User, NEW t \in Asked(u)
  PROVE  LET l == [t EXCEPT !.st = "locked"]
         IN  /\ l \in AccountTx /\ l.st = "locked" /\ l.user = u /\ l.kind = t.kind /\ l.link = t.link /\ t.user = u
                  /\ t.kind \notin {"none", "owner"}
             /\ t.kind = "setup" => t.link \in DOMAIN links /\ links[t.link].user = u
<1>1. \A i \in DOMAIN links : i \in 0..MaxLink
  BY AccountsParts
<1>2. CASE t \in {[IdleTx EXCEPT !.kind = k, !.user = u] : k \in {"access", "enable", "disable", "reset", "delete"}}
  <2>1. PICK k \in {"access", "enable", "disable", "reset", "delete"} : t = [IdleTx EXCEPT !.kind = k, !.user = u]
    BY <1>2
  <2>2. t \in AccountTx /\ t.kind = k /\ t.user = u
    BY <2>1, AccountsParts DEF AccountTx
  <2>. QED  BY <2>2 DEF AccountTx
<1>3. CASE t \in {[IdleTx EXCEPT !.kind = "setup", !.user = u,
                   !.link = i] : i \in {j \in DOMAIN links : links[j].user = u}}
  <2>1. PICK i \in {j \in DOMAIN links : links[j].user = u} : t = [IdleTx EXCEPT !.kind = "setup", !.user = u,
                                                                   !.link = i]
    BY <1>3
  <2>2. t \in AccountTx /\ t.kind = "setup" /\ t.user = u /\ t.link = i
    BY <1>1, <2>1, AccountsParts DEF AccountTx
  <2>. QED  BY <2>2 DEF AccountTx
<1>. QED  BY <1>2, <1>3 DEF Asked

(* An answered set-up goes on with its user. *)
LEMMA AnswerType ==
  ASSUME AccountsTypeOK, NEW u \in User
  PROVE  LET a == [IdleTx EXCEPT !.st = "answer", !.user = u] IN a \in AccountTx /\ a.st = "answer" /\ a.user = u
BY AccountsParts DEF AccountTx

(* A step keeps the invariant: first those of transactions. *)
LEMMA LockStep ==
  ASSUME AccountsInv, NEW x \in Tx, Lock(x) \/ LockOwner(x) \/ Rollback(x) \/ Answer(x)
  PROVE  AccountsInv'
<1>0. /\ AccountsTypeOK /\ tx \in [Tx -> AccountTx] /\ IdleTx \in AccountTx /\ SigninFits
      /\ UNCHANGED <<users, links, signin, viewer>>
  BY AccountsParts DEF AccountsInv, Lock, LockOwner, Rollback, Answer
<1>a. ASSUME NEW t \in AccountTx, tx' = [tx EXCEPT ![x] = t], cookies' \in [User -> NoCookie..MaxVersion], TxFits(t),
             t.st = "locked" => \A y \in Tx \ {x} : tx[y].st = "locked" => tx[y].user # t.user
      PROVE  AccountsInv'
  <2>1. AccountsTypeOK'
    BY <1>0, <1>a DEF AccountsTypeOK
  <2>2. SigninFits'
    BY <1>0 DEF SigninFits
  <2>. QED  BY <1>0, <1>a, <2>1, <2>2, TxChanges
<1>b. TxFits(IdleTx) /\ IdleTx.st = "idle" /\ cookies \in [User -> NoCookie..MaxVersion]
  BY <1>0, AccountsParts DEF TxFits, IdleTx
<1>1. CASE Lock(x)
  <2>1. PICK u \in User : /\ Known(u) /\ RowFree(u)
                          /\ \E t \in Asked(u) : Permits(t) /\ tx' = [tx EXCEPT ![x] = [t EXCEPT !.st = "locked"]]
    BY <1>1 DEF Lock
  <2>2. PICK t \in Asked(u) : Permits(t) /\ tx' = [tx EXCEPT ![x] = [t EXCEPT !.st = "locked"]]
    BY <2>1
  <2> DEFINE l == [t EXCEPT !.st = "locked"]
  <2>3. /\ l \in AccountTx /\ l.st = "locked" /\ l.user = u /\ l.kind = t.kind /\ l.link = t.link /\ t.user = u
             /\ t.kind \notin {"none", "owner"}
        /\ t.kind = "setup" => t.link \in DOMAIN links /\ links[t.link].user = u
    BY <1>0, TxTypes
  <2>4. tx' = [tx EXCEPT ![x] = l] /\ UNCHANGED cookies
    BY <1>1, <2>2 DEF Lock
  <2> HIDE DEF l
  <2>5. /\ t.kind = "enable" => users[u].password # 0
        /\ t.kind = "setup" => links[t.link].st = "open"
    BY <2>2, <2>3 DEF Permits
  <2>6. TxFits(l)
    BY <2>1, <2>3, <2>5 DEF TxFits, Known
  <2>7. \A y \in Tx \ {x} : tx[y].st = "locked" => tx[y].user # l.user
    BY <2>1, <2>3 DEF RowFree
  <2>. QED  BY <1>a, <1>b, <2>3, <2>4, <2>6, <2>7
<1>2. CASE LockOwner(x)
  <2>1. PICK u \in Fresh : tx' = [tx EXCEPT ![x] = [IdleTx EXCEPT !.kind = "owner", !.st = "locked", !.user = u]]
    BY <1>2 DEF LockOwner
  <2> DEFINE l == [IdleTx EXCEPT !.kind = "owner", !.st = "locked", !.user = u]
  <2>2. u \in User /\ users[u].status = "none" /\ \A y \in Tx : tx[y].user # u
    BY DEF Fresh
  <2>3. l \in AccountTx /\ l.st = "locked" /\ l.kind = "owner" /\ l.user = u
    BY <1>0, <2>2 DEF AccountTx
  <2>4. tx' = [tx EXCEPT ![x] = l] /\ UNCHANGED cookies
    BY <1>2, <2>1 DEF LockOwner
  <2> HIDE DEF l
  <2>5. TxFits(l)
    BY <2>2, <2>3 DEF TxFits
  <2>. QED  BY <1>a, <1>b, <2>2, <2>3, <2>4, <2>5
<1>3. CASE Rollback(x)
  <2>1. tx' = [tx EXCEPT ![x] = IdleTx] /\ UNCHANGED cookies
    BY <1>3 DEF Rollback
  <2>. QED  BY <1>0, <1>a, <1>b, <2>1
<1>4. CASE Answer(x)
  <2>1. tx' = [tx EXCEPT ![x] = IdleTx]
    BY <1>4 DEF Answer
  <2>2. cookies' \in [User -> NoCookie..MaxVersion]
    BY <1>0, <1>4, AccountsParts DEF Answer, GiveCookie
  <2>. QED  BY <1>0, <1>a, <1>b, <2>1, <2>2
<1>. QED  BY <1>1, <1>2, <1>3, <1>4

(* The commit of a transaction on a locked row keeps the invariant. *)
LEMMA CommitStep ==
  ASSUME AccountsInv, NEW x \in Tx, Commit(x) \/ CommitOwner(x)
  PROVE  AccountsInv'
<1>t. PICK t : t = tx[x]
  OBVIOUS
<1>w. PICK w : w = t.user
  OBVIOUS
<1>0. /\ AccountsTypeOK /\ tx \in [Tx -> AccountTx] /\ IdleTx \in AccountTx /\ IdleTx.st = "idle"
      /\ UNCHANGED <<signin, cookies, viewer>> /\ t.st = "locked" /\ SigninFits'
  BY <1>t, AccountsParts DEF AccountsInv, Commit, CommitOwner, IdleTx, SigninFits
<1>1. /\ t \in AccountTx /\ TxFits(t) /\ w \in User /\ users[w] \in UserRow /\ UserFits(w)
      /\ \A y \in Tx \ {x} : tx[y].st = "locked" => tx[y].user # w
  BY <1>t, <1>w, <1>0, LockedUser
<1> DEFINE a == [IdleTx EXCEPT !.st = "answer", !.user = w]
<1>2. a \in AccountTx /\ a.st = "answer" /\ a.user = w
  BY <1>0, <1>1, AnswerType
<1> HIDE DEF a
<1>3. ASSUME CommitFits(w), tx' = [tx EXCEPT ![x] = IdleTx] \/ tx' = [tx EXCEPT ![x] = a] PROVE AccountsInv'
  <2>1. tx' \in [Tx -> AccountTx]
    BY <1>0, <1>2, <1>3
  <2>2. AccountsTypeOK'
    BY <1>0, <1>3, <2>1 DEF AccountsTypeOK, CommitFits
  <2>3. \A y \in Tx : tx'[y] = tx[y] \/ (tx'[y].st # "locked" /\ (tx'[y].st # "idle" => tx'[y].user \in User))
    BY <1>0, <1>1, <1>2, <1>3
  <2>4. \A y \in Tx : tx'[y].st = "locked" => tx[y].user # w
    BY <1>t, <1>w, <1>0, <1>1, <1>2, <1>3
  <2>. QED  BY <1>0, <1>1, <1>3, <2>2, <2>3, <2>4, RowChanges DEF CommitFits
<1>4. CASE Commit(x)
  <2>1. CommitFits(w)
    <3>1. t.kind \in {"reset", "enable", "disable", "access", "delete", "setup"}
      BY <1>0, <1>1, <1>t, <1>4 DEF Commit, AccountTx, TxFits
    <3>2. Commits(t)
      BY <1>t, <1>4 DEF Commit
    <3>3. CASE t.kind = "reset"
      BY <1>1, <1>w, <3>2, <3>3, ResetFits DEF Commits
    <3>4. CASE t.kind = "enable"
      BY <1>0, <1>1, <1>w, <3>2, <3>4, EnableFits DEF Commits, TxFits
    <3>5. CASE t.kind = "disable"
      BY <1>1, <1>w, <3>2, <3>5, DisableFits DEF Commits
    <3>6. CASE t.kind = "access"
      BY <1>0, <1>1, <1>w, <3>2, <3>6, AccessFits DEF Commits, TxFits
    <3>7. CASE t.kind = "delete"
      BY <1>1, <1>w, <3>2, <3>7, DeleteFits DEF Commits
    <3>8. CASE t.kind = "setup"
      BY <1>0, <1>1, <1>w, <3>2, <3>8, SetupFits DEF Commits, TxFits
    <3>. QED  BY <3>1, <3>3, <3>4, <3>5, <3>6, <3>7, <3>8
  <2>2. tx' = [tx EXCEPT ![x] = IdleTx] \/ tx' = [tx EXCEPT ![x] = a]
    BY <1>t, <1>w, <1>4 DEF Commit, a
  <2>. QED  BY <1>3, <2>1, <2>2
<1>5. CASE CommitOwner(x)
  <2>1. CASE HasOwner
    <3>1. UNCHANGED <<users, links>> /\ tx' = [tx EXCEPT ![x] = IdleTx]
      BY <1>5, <2>1 DEF CommitOwner
    <3>2. AccountsTypeOK' /\ TxFits(IdleTx)
      BY <1>0, <3>1 DEF AccountsTypeOK, TxFits
    <3>. QED  BY <1>0, <3>1, <3>2, TxChanges
  <2>2. CASE ~HasOwner
    <3>1. PICK p \in Password : SetUser(w, [NoUser EXCEPT !.role = "owner", !.status = "active", !.password = p])
      BY <1>t, <1>w, <1>5, <2>2 DEF CommitOwner
    <3> DEFINE r == [NoUser EXCEPT !.role = "owner", !.status = "active", !.password = p]
    <3>2. r \in UserRow /\ r.status = "active" /\ r.password = p /\ p # 0
      BY <1>0, AccountsParts, AccountsAssumption DEF UserRow
    <3>3. UNCHANGED links /\ tx' = [tx EXCEPT ![x] = a]
      BY <1>t, <1>w, <1>5, <2>2 DEF CommitOwner, a
    <3> HIDE DEF r
    <3>4. CommitFits(w)
      BY <1>1, <2>2, <3>1, <1>w, <3>2, <3>3, RowWritten DEF r
    <3>. QED  BY <1>3, <3>3, <3>4
  <2>. QED  BY <2>1, <2>2
<1>. QED  BY <1>4, <1>5

(* A new member gets a row nobody used and one open link. *)
LEMMA MemberStep ==
  ASSUME AccountsInv, CreateMember
  PROVE  AccountsInv'
<1>1. PICK u \in Fresh, a \in BOOLEAN :
        /\ SetUser(u, [NoUser EXCEPT !.role = "member", !.status = "invited", !.access = a])
        /\ links' = Append(links, NewLink(u))
  BY DEF CreateMember
<1> DEFINE r == [NoUser EXCEPT !.role = "member", !.status = "invited", !.access = a]
           l == NewLink(u)
<1>2. /\ u \in User /\ users[u].status = "none" /\ (\A y \in Tx : tx[y].user # u) /\ UserFits(u)
      /\ \A i \in DOMAIN links : LinkFits(links[i]) /\ links[i].user # u
  BY DEF Fresh, AccountsInv, UserFits
<1>3. r \in UserRow /\ r.role = "member" /\ r.status = "invited"
  BY AccountsParts DEF AccountsInv, UserRow
<1>4. l \in AccountLink /\ LinkFits(l) /\ l.user = u /\ l.st = "open"
  BY <1>2, NewLinkType
<1>5. SetUser(u, r) /\ links' = Append(links, l) /\ Len(links) < MaxLink /\ UNCHANGED <<tx, signin, cookies, viewer>>
  BY <1>1 DEF CreateMember
<1> HIDE DEF r, l
<1>6. /\ links \in Seq(AccountLink) /\ DOMAIN links = 1..Len(links) /\ Len(links) \in Nat
           /\ users \in [User -> UserRow]
  BY AccountsParts DEF AccountsInv
<1>7. users' \in [User -> UserRow] /\ users'[u] = r /\ \A v \in User \ {u} : users'[v] = users[v]
  BY <1>2, <1>3, <1>5, <1>6 DEF SetUser
<1>8. /\ links' \in Seq(AccountLink) /\ Len(links') = Len(links) + 1
      /\ (\A i \in 1..Len(links) : links'[i] = links[i]) /\ links'[Len(links) + 1] = l
  BY <1>4, <1>5, <1>6, AppendProperties
<1>9. DOMAIN links' = 1..(Len(links) + 1)
  BY <1>8, LenProperties
<1>10. DOMAIN links' = DOMAIN links \cup {Len(links) + 1} /\ Len(links') <= MaxLink
  BY <1>5, <1>6, <1>8, <1>9, AccountsAssumption
<1>11. Open(u)' = {Len(links) + 1}
  BY <1>2, <1>4, <1>6, <1>8, <1>10 DEF Open
<1>12. UserFits(u)'
  BY <1>3, <1>7, <1>11 DEF UserFits
<1>13. AccountsTypeOK'
  BY <1>5, <1>7, <1>8, <1>10 DEF AccountsInv, AccountsTypeOK
<1>14. \A i \in DOMAIN links' : LinkFits(links'[i]) /\ (i \in DOMAIN links \/ links'[i].user = u)
  BY <1>2, <1>4, <1>6, <1>8, <1>10
<1>15. \A i \in DOMAIN links : i \in DOMAIN links' /\ links'[i] = links[i]
  BY <1>6, <1>8, <1>10
<1>16. SigninFits'
  BY <1>5 DEF AccountsInv, SigninFits
<1>. QED  BY <1>2, <1>3, <1>5, <1>7, <1>12, <1>13, <1>14, <1>15, <1>16, RowChanges

(* A link that runs out is still one of its user's. *)
LEMMA ExpiryStep ==
  ASSUME AccountsInv, LinkExpires
  PROVE  AccountsInv'
<1>1. PICK k \in DOMAIN links : links' = [links EXCEPT ![k].late = TRUE]
  BY DEF LinkExpires
<1>2. UNCHANGED <<users, tx, signin, cookies, viewer>> /\ AccountsTypeOK
        /\ \A i \in DOMAIN links : links[i] \in AccountLink
  BY AccountsParts DEF LinkExpires, AccountsInv
<1>3. DOMAIN links' = DOMAIN links /\ links' = [i \in DOMAIN links' |-> links'[i]]
  BY <1>1
<1>4. ASSUME NEW i \in DOMAIN links
      PROVE  /\ links'[i] \in AccountLink /\ links'[i].user = links[i].user /\ links'[i].st = links[i].st
             /\ links'[i].spent = links[i].spent
  <2>1. links'[i] = links[i] \/ links'[i] = [links[i] EXCEPT !.late = TRUE]
    BY <1>1
  <2>2. LET h == [links[i] EXCEPT !.late = TRUE]
        IN  h \in AccountLink /\ h.user = links[i].user /\ h.st = links[i].st /\ h.spent = links[i].spent
    BY <1>2 DEF AccountLink
  <2>. QED  BY <1>2, <2>1, <2>2
<1>5. AccountsTypeOK'
  <2>1. links' \in Seq(AccountLink) /\ Len(links') <= MaxLink
    BY <1>2, <1>3, <1>4, LinksChange
  <2>. QED  BY <1>2, <2>1 DEF AccountsTypeOK
<1>6. ASSUME NEW u \in User PROVE UserFits(u)'
  <2>1. Open(u)' = Open(u)
    BY <1>3, <1>4 DEF Open
  <2>. QED  BY <1>2, <1>3, <1>4, <2>1 DEF AccountsInv, UserFits
<1>7. ASSUME NEW x \in Tx PROVE TxFits(tx[x])'
  <2>1. TxFits(tx[x])
    BY DEF AccountsInv
  <2>. QED  BY <1>2, <1>3, <1>4, <2>1 DEF TxFits, Known
<1>8. \A i \in DOMAIN links' : LinkFits(links'[i])
  BY <1>3, <1>4 DEF AccountsInv, LinkFits
<1>9. (RowsAreLockedOnce /\ OneOwner /\ SigninFits)'
  BY <1>2 DEF AccountsInv, RowsAreLockedOnce, OneOwner, SigninFits
<1>. QED  BY <1>5, <1>6, <1>7, <1>8, <1>9 DEF AccountsInv

(* A sign-in, which locks nothing, keeps the invariant. *)
LEMMA SigninStep ==
  ASSUME AccountsInv, SigninReads \/ SigninWrites \/ SigninAnswers \/ SigninFails
  PROVE  AccountsInv'
<1> DEFINE SigninType == [st : {"idle", "hashing", "answer"}, user : User \cup {"none"}, password : Password \cup {0}]
<1>0. AccountsTypeOK /\ signin \in SigninType /\ NoSignin \in SigninType /\ NoSignin.st = "idle" /\ SigninFits
  BY DEF AccountsInv, AccountsTypeOK, NoSignin
<1>1. CASE SigninReads
  <2>1. PICK u \in User, p \in Password : signin' = [st |-> "hashing", user |-> u, password |-> p]
    BY <1>1 DEF SigninReads
  <2>2. signin' \in SigninType /\ SigninFits'
    BY <2>1, AccountsAssumption DEF SigninFits
  <2>3. AccountsTypeOK'
    BY <1>0, <1>1, <2>2 DEF SigninReads, AccountsTypeOK
  <2>. QED  BY <1>1, <2>2, <2>3, OthersChange DEF SigninReads
<1>2. CASE SigninWrites
  <2>1. PICK w : w = signin.user
    OBVIOUS
  <2>2. /\ w \in User /\ signin.password # 0 /\ signin.password \in Password \cup {0} /\ RowFree(w)
        /\ UNCHANGED <<links, tx, cookies, viewer>>
    BY <1>0, <1>2, <2>1 DEF SigninWrites, SigninFits
  <2>3. signin' \in SigninType /\ SigninFits'
    <3>1. LET h == [signin EXCEPT !.st = "answer"] IN h \in SigninType /\ h.st = "answer"
      BY <1>0
    <3>. QED  BY <1>2, <3>1 DEF SigninWrites, SigninFits
  <2>4. CASE Known(w)
    <3> DEFINE r == [users[w] EXCEPT !.password = signin.password]
    <3>1. users[w] \in UserRow /\ UserFits(w)
      BY <2>2, AccountsParts DEF AccountsInv
    <3>2. r \in UserRow /\ r.role = users[w].role /\ r.status = users[w].status /\ r.password # 0
      BY <2>2, <3>1 DEF UserRow
    <3>3. SetUser(w, r)
      BY <1>2, <2>1, <2>4 DEF SigninWrites
    <3> HIDE DEF r
    <3>4. CommitFits(w)
      BY <2>2, <2>4, <3>2, <3>3, RowWritten DEF Known
    <3>5. AccountsTypeOK'
      BY <1>0, <2>2, <2>3, <3>4 DEF AccountsTypeOK, CommitFits
    <3>6. \A y \in Tx : tx'[y].st = "locked" => tx[y].user # w
      BY <2>2 DEF RowFree
    <3>. QED  BY <2>2, <2>3, <3>4, <3>5, <3>6, RowChanges DEF CommitFits
  <2>5. CASE ~Known(w)
    <3>1. UNCHANGED users
      BY <1>2, <2>1, <2>5 DEF SigninWrites
    <3>2. AccountsTypeOK'
      BY <1>0, <2>2, <2>3, <3>1 DEF AccountsTypeOK
    <3>. QED  BY <2>2, <2>3, <3>1, <3>2, OthersChange
  <2>. QED  BY <2>4, <2>5
<1>3. CASE SigninAnswers
  <2>1. cookies' \in [User -> NoCookie..MaxVersion]
    BY <1>0, <1>3, AccountsParts DEF SigninAnswers, GiveCookie
  <2>2. AccountsTypeOK' /\ SigninFits'
    BY <1>0, <1>3, <2>1 DEF SigninAnswers, AccountsTypeOK, SigninFits
  <2>. QED  BY <1>3, <2>2, OthersChange DEF SigninAnswers
<1>4. CASE SigninFails
  <2>1. AccountsTypeOK' /\ SigninFits'
    BY <1>0, <1>4 DEF SigninFails, AccountsTypeOK, SigninFits
  <2>. QED  BY <1>4, <2>1, OthersChange DEF SigninFails
<1>. QED  BY <1>1, <1>2, <1>3, <1>4

(* A viewer of a stream, and the guard that looks after it, keeps the invariant. *)
LEMMA ViewerStep ==
  ASSUME AccountsInv, OpenViewer \/ GuardReads \/ GuardDecides \/ CloseViewer
  PROVE  AccountsInv'
<1> DEFINE ViewerType == [st : {"off", "open", "checking"}, user : User \cup {"none"}, version : 0..MaxVersion,
  ok : BOOLEAN]
<1>0. AccountsTypeOK /\ viewer \in ViewerType /\ NoViewer \in ViewerType
  <2>1. 0 \in 0..MaxVersion
    BY AccountsAssumption
  <2>. QED  BY <2>1 DEF AccountsInv, AccountsTypeOK, NoViewer
<1>1. viewer' \in ViewerType
  <2>1. CASE OpenViewer
    <3>1. PICK u \in User : Accepted(u, cookies[u])
                 /\ viewer' = [st |-> "open", user |-> u, version |-> cookies[u], ok |-> FALSE]
      BY <2>1 DEF OpenViewer
    <3>2. cookies[u] \in 0..MaxVersion
      BY <1>0, <3>1, AccountsParts DEF Accepted, UserRow
    <3>. QED  BY <3>1, <3>2
  <2>2. CASE GuardReads
    <3>1. MayView(viewer) \in BOOLEAN
      BY DEF MayView, Accepted, CanAccess
    <3>2. \A ok \in BOOLEAN : [viewer EXCEPT !.st = "checking", !.ok = ok] \in ViewerType
      BY <1>0
    <3>3. viewer' = [viewer EXCEPT !.st = "checking", !.ok = MayView(viewer)]
      BY <2>2 DEF GuardReads
    <3> HIDE DEF ViewerType
    <3>. QED  BY <3>1, <3>2, <3>3, Zenon
  <2>3. CASE GuardDecides
    <3>1. viewer' = [viewer EXCEPT !.st = "open", !.ok = FALSE] \/ viewer' = NoViewer
      BY <2>3 DEF GuardDecides
    <3>. QED  BY <1>0, <3>1
  <2>4. CASE CloseViewer
    BY <1>0, <2>4 DEF CloseViewer
  <2>. QED  BY <2>1, <2>2, <2>3, <2>4
<1>2. UNCHANGED <<users, links, tx, signin, cookies>>
  BY DEF OpenViewer, GuardReads, GuardDecides, CloseViewer
<1>3. AccountsTypeOK' /\ SigninFits'
  BY <1>0, <1>1, <1>2 DEF AccountsTypeOK, AccountsInv, SigninFits
<1>. QED  BY <1>2, <1>3, OthersChange

(* A step keeps the invariant. *)
LEMMA AccountsInvStep == AccountsInv /\ [AccountsNext]_accountVars => AccountsInv'
<1> SUFFICES ASSUME AccountsInv, [AccountsNext]_accountVars PROVE AccountsInv'
  OBVIOUS
<1>1. CASE UNCHANGED accountVars
  <2>1. AccountsTypeOK' /\ SigninFits'
    BY <1>1 DEF accountVars, AccountsInv, AccountsTypeOK, SigninFits
  <2>. QED  BY <1>1, <2>1, OthersChange DEF accountVars
<1>. QED  BY <1>1, LockStep, CommitStep, MemberStep, ExpiryStep, SigninStep, ViewerStep DEF AccountsNext, Transactions

(* The invariant holds in every state. *)
THEOREM AccountsInvariant == AccountsSpec => []AccountsInv
<1>. QED  BY AccountsInvInit, AccountsInvStep, PTL DEF AccountsSpec

(* A set in which any two are the same has one member at most. *)
LEMMA OneAtMost ==
  ASSUME NEW S, \A x \in S : \A y \in S : x = y
  PROVE  Cardinality(S) <= 1
<1>1. CASE S = {}
  BY <1>1, FS_EmptySet
<1>2. CASE S # {}
  <2>1. PICK x \in S : S = {x}
    BY <1>2
  <2>. QED  BY <2>1, FS_Singleton
<1>. QED  BY <1>1, <1>2

(* There is one owner at most, who is active has a password, links that were replaced or withdrawn cannot *)
(* be used, and a link sets a password once.                                                              *)
THEOREM AccountsStaySound == AccountsSpec => []AccountsSound
<1>1. AccountsInv => AccountsSound
  <2> SUFFICES ASSUME AccountsInv PROVE AccountsSound
    OBVIOUS
  <2>1. Cardinality({u \in User : users[u].role = "owner"}) <= 1
    BY OneAtMost DEF AccountsInv, OneOwner
  <2>2. \A u \in User : UserFits(u) /\ Cardinality(Open(u)) <= 1
    BY OneAtMost DEF AccountsInv, UserFits
  <2>. QED  BY <2>1, <2>2 DEF AccountsInv, UserFits, LinkFits, AccountsSound
<1>. QED  BY <1>1, AccountsInvariant, PTL

-----------------------------------------------------------------------------
(* Mcp *)

(* What a call has done is what it may do: work that wants confirm: true was confirmed, and nothing is *)
(* audited that was not done.                                                                          *)
CallFits(k) == (k.done /\ k.tool.level = "admin" => k.confirm) /\ (k.audited => k.done)

(* A client that has come in did so with a row that was not revoked, has the tools of its level, and *)
(* calls one of them; one that is coming in with a revoked token can still be found out.             *)
ClientFits(c) ==
  LET m == mcpClients[c] IN
  /\ m.at # "off" => m.token \in McpToken
  /\ m.at = "connecting" => m.call = {} /\ (m.revokedFirst => m.token \in revokedAt)
  /\ m.at \in {"worked", "audited"} => \A k \in m.call : k.done
  /\ m.at \in {"open", "serving", "worked", "audited"} =>
       /\ ~m.revokedFirst
       /\ issued_to[m.token] \in Level
       /\ m.tools \subseteq Registered(issued_to[m.token])
       /\ \A k \in m.call : k.tool \in m.tools /\ CallFits(k)

McpInv == McpTypeOK /\ \A c \in Client : ClientFits(c)

(* A tool wants confirm: true exactly when it destroys or reveals something. *)
LEMMA ToolsConfirm == \A t \in Tools : t.confirm = (t.level = "admin")
BY DEF Tools, Tool, Looks, Alters, Destroys, Reveals, SystemTools, ProjectTools, RuntimeTools, SettingsTools,
  CloudflareTools, RouteTools, FrpTools,
   Resources

(* No client is connected: the invariant of the MCP tokens holds at first. *)
LEMMA McpInvInit == McpInit => McpInv
<1> SUFFICES ASSUME McpInit PROVE McpInv
  OBVIOUS
<1>1. Off \in McpClient
  BY DEF Off, McpClient
<1>2. McpTypeOK
  BY <1>1 DEF McpInit, McpTypeOK
<1>3. \A c \in Client : ClientFits(c)
  BY DEF McpInit, ClientFits, Off
<1>. QED  BY <1>2, <1>3 DEF McpInv

(* What one client does concerns nobody else. *)
LEMMA McpClientGoes ==
  ASSUME McpInv, NEW c \in Client, NEW r \in McpClient, ClientGoes(c, r), ClientFits(c)'
  PROVE  McpInv'
<1>1. mcpClients \in [Client -> McpClient]
  BY DEF McpInv, McpTypeOK
<1>2. McpTypeOK'
  BY <1>1 DEF ClientGoes, McpInv, McpTypeOK
<1>3. ASSUME NEW d \in Client, d # c PROVE ClientFits(d)'
  <2>1. mcpClients'[d] = mcpClients[d] /\ UNCHANGED <<issued_to, revokedAt>>
    BY <1>1, <1>3 DEF ClientGoes
  <2>. QED  BY <2>1 DEF McpInv, ClientFits
<1>. QED  BY <1>2, <1>3 DEF McpInv

(* Every step of a client and every operation on a token keeps the invariant. *)
LEMMA McpInvStep == McpInv /\ [McpNext]_mcpVars => McpInv'
<1> SUFFICES ASSUME McpInv, [McpNext]_mcpVars PROVE McpInv'
  OBVIOUS
<1>0. /\ issued_to \in [McpToken -> Level \cup {"none"}] /\ revokedAt \subseteq McpToken
      /\ mcpClients \in [Client -> McpClient]
      /\ \A c \in Client : mcpClients[c] \in McpClient /\ ClientFits(c)
      /\ Off \in McpClient
  BY DEF McpInv, McpTypeOK, Off, McpClient
<1>o. ASSUME NEW c \in Client, ClientGoes(c, Off) PROVE McpInv'
  <2>1. ClientFits(c)'
    BY <1>0, <1>o DEF ClientGoes, ClientFits, Off
  <2>. QED  BY <1>0, <1>o, <2>1, McpClientGoes
<1>r. ASSUME NEW c \in Client, ClientGoes(c, Answered(c)), mcpClients[c].at \notin {"off", "connecting"}
      PROVE  McpInv'
  <2>1. CASE ClientGoes(c, Off)
    BY <2>1, <1>o
  <2>2. CASE ClientGoes(c, [mcpClients[c] EXCEPT !.at = "open", !.call = {}])
    <3> DEFINE r == [mcpClients[c] EXCEPT !.at = "open", !.call = {}]
    <3>1. r \in McpClient
      BY <1>0 DEF McpClient
    <3>2. /\ r.at = "open" /\ r.token = mcpClients[c].token /\ r.revokedFirst = mcpClients[c].revokedFirst
          /\ r.tools = mcpClients[c].tools /\ r.call = {}
      BY <1>0 DEF McpClient
    <3>3. mcpClients'[c] = r /\ UNCHANGED <<issued_to, revokedAt>>
      BY <1>0, <2>2 DEF ClientGoes
    <3>4. mcpClients[c].at \in {"open", "serving", "worked", "audited"}
      BY <1>0, <1>r DEF McpClient
    <3>5. ClientFits(c)'
      BY <1>0, <3>2, <3>3, <3>4 DEF ClientFits
    <3>. QED  BY <2>2, <3>1, <3>5, McpClientGoes
  <2>. QED  BY <1>r, <2>1, <2>2 DEF Answered
<1>k. ASSUME NEW c \in Client, NEW k \in ToolCall, NEW at \in {"serving", "worked", "audited"},
             mcpClients[c].at \in {"open", "serving", "worked", "audited"}, k.tool \in mcpClients[c].tools,
               CallFits(k),
             at \in {"worked", "audited"} => k.done,
             ClientGoes(c, [mcpClients[c] EXCEPT !.at = at, !.call = {k}])
      PROVE  McpInv'
  <2> DEFINE r == [mcpClients[c] EXCEPT !.at = at, !.call = {k}]
  <2>1. r \in McpClient
    <3>1. {k} \in SUBSET ToolCall
      OBVIOUS
    <3>. QED  BY <1>0, <3>1 DEF McpClient
  <2>2. /\ r.at = at /\ r.token = mcpClients[c].token /\ r.revokedFirst = mcpClients[c].revokedFirst
        /\ r.tools = mcpClients[c].tools /\ r.call = {k}
    BY <1>0 DEF McpClient
  <2>3. mcpClients'[c] = r /\ UNCHANGED <<issued_to, revokedAt>>
    BY <1>0, <1>k DEF ClientGoes
  <2> HIDE DEF r
  <2>4. ClientFits(c)'
    BY <1>0, <1>k, <2>2, <2>3 DEF ClientFits
  <2>. QED  BY <1>k, <2>1, <2>4, McpClientGoes DEF r
<1>1. ASSUME NEW t \in McpToken, CreateMcpToken(t) PROVE McpInv'
  <2>1. McpTypeOK'
    BY <1>0, <1>1 DEF CreateMcpToken, McpTypeOK
  <2>2. \A u \in McpToken : issued_to[u] \in Level => issued_to'[u] = issued_to[u]
    BY <1>0, <1>1 DEF CreateMcpToken, Level
  <2>3. ASSUME NEW c \in Client PROVE ClientFits(c)'
    BY <1>0, <1>1, <2>2 DEF CreateMcpToken, ClientFits
  <2>. QED  BY <2>1, <2>3 DEF McpInv
<1>2. ASSUME NEW t \in McpToken, RevokeMcpToken(t) PROVE McpInv'
  <2>1. McpTypeOK'
    BY <1>0, <1>2 DEF RevokeMcpToken, McpTypeOK
  <2>2. ASSUME NEW c \in Client PROVE ClientFits(c)'
    BY <1>0, <1>2 DEF RevokeMcpToken, ClientFits
  <2>. QED  BY <2>1, <2>2 DEF McpInv
<1>3. ASSUME NEW c \in Client, Connects(c) PROVE McpInv'
  <2>1. PICK t \in McpToken : ClientGoes(c, [Off EXCEPT !.at = "connecting", !.token = t,
                                             !.revokedFirst = t \in revokedAt])
    BY <1>3 DEF Connects
  <2> DEFINE r == [Off EXCEPT !.at = "connecting", !.token = t, !.revokedFirst = t \in revokedAt]
  <2>2. r \in McpClient
    <3>1. \A b \in BOOLEAN : [Off EXCEPT !.at = "connecting", !.token = t, !.revokedFirst = b] \in McpClient
      BY <1>0 DEF McpClient
    <3>2. CASE t \in revokedAt
      <4>1. r = [Off EXCEPT !.at = "connecting", !.token = t, !.revokedFirst = TRUE]
        BY <3>2
      <4>. QED  BY <3>1, <4>1
    <3>3. CASE t \notin revokedAt
      <4>1. r = [Off EXCEPT !.at = "connecting", !.token = t, !.revokedFirst = FALSE]
        <5>1. (t \in revokedAt) = FALSE
          BY <3>3, SMT
        <5>. QED  BY <5>1, Zenon
      <4>. QED  BY <3>1, <4>1
    <3>. QED  BY <3>2, <3>3
  <2>3. r.at = "connecting" /\ r.token = t /\ (r.revokedFirst => t \in revokedAt) /\ r.call = {}
    BY DEF Off
  <2>4. mcpClients'[c] = r /\ UNCHANGED <<issued_to, revokedAt>>
    BY <1>0, <2>1 DEF ClientGoes
  <2>5. ClientFits(c)'
    BY <2>3, <2>4 DEF ClientFits
  <2>. QED  BY <2>1, <2>2, <2>5, McpClientGoes
<1>4. ASSUME NEW c \in Client, Authenticates(c) PROVE McpInv'
  <2>1. CASE ClientGoes(c, Off)
    BY <2>1, <1>o
  <2>2. CASE /\ Authentic(mcpClients[c].token)
             /\ ClientGoes(c, [mcpClients[c] EXCEPT !.at = "open",
                               !.tools = Registered(issued_to[mcpClients[c].token])])
    <3> DEFINE r == [mcpClients[c] EXCEPT !.at = "open", !.tools = Registered(issued_to[mcpClients[c].token])]
    <3>1. r \in McpClient
      BY <1>0 DEF McpClient, Registered
    <3>2. /\ r.at = "open" /\ r.token = mcpClients[c].token /\ r.revokedFirst = mcpClients[c].revokedFirst
          /\ r.tools = Registered(issued_to[mcpClients[c].token]) /\ r.call = mcpClients[c].call
      BY <1>0 DEF McpClient
    <3>3. mcpClients'[c] = r /\ UNCHANGED <<issued_to, revokedAt>>
      BY <1>0, <2>2 DEF ClientGoes
    <3>4. mcpClients[c].at = "connecting" /\ mcpClients[c].call = {}
      BY <1>0, <1>4 DEF Authenticates, ClientFits
    <3>5. ClientFits(c)'
      BY <1>0, <2>2, <3>2, <3>3, <3>4 DEF ClientFits, Authentic
    <3>. QED  BY <2>2, <3>1, <3>5, McpClientGoes
  <2>. QED  BY <1>4, <2>1, <2>2 DEF Authenticates
<1>5. ASSUME NEW c \in Client, CallsTool(c) PROVE McpInv'
  <2>1. PICK t \in mcpClients[c].tools, confirm \in BOOLEAN :
          ClientGoes(c, [mcpClients[c] EXCEPT !.at = "serving",
                         !.call = {[tool |-> t, confirm |-> confirm, done |-> FALSE, audited |-> FALSE]}])
    BY <1>5 DEF CallsTool
  <2> DEFINE k == [tool |-> t, confirm |-> confirm, done |-> FALSE, audited |-> FALSE]
  <2>2. k \in ToolCall /\ k.tool = t /\ CallFits(k)
    BY <1>0 DEF McpClient, ToolCall, CallFits
  <2>3. mcpClients[c].at = "open"
    BY <1>5 DEF CallsTool
  <2>4. ClientGoes(c, [mcpClients[c] EXCEPT !.at = "serving", !.call = {k}])
    BY <2>1
  <2> HIDE DEF k
  <2>. QED  BY <2>1, <2>2, <2>3, <2>4, <1>k
<1>6. ASSUME NEW c \in Client, Works(c) \/ Audits(c) PROVE McpInv'
  <2>1. PICK k \in mcpClients[c].call :
          \/ /\ mcpClients[c].at = "serving" /\ Confirmed(k)
             /\ ClientGoes(c, [mcpClients[c] EXCEPT !.at = "worked", !.call = {[k EXCEPT !.done = TRUE]}])
          \/ /\ mcpClients[c].at = "worked"
             /\ \E kept \in BOOLEAN :
                  ClientGoes(c, [mcpClients[c] EXCEPT !.at = "audited", !.call = {[k EXCEPT !.audited = kept]}])
    BY <1>6 DEF Works, Audits
  <2>2. k \in ToolCall /\ k.tool \in mcpClients[c].tools /\ k.tool \in Tools /\ CallFits(k)
        /\ (mcpClients[c].at = "worked" => k.done)
    BY <1>0, <2>1 DEF McpClient, ToolCall, ClientFits
  <2>3. CASE /\ mcpClients[c].at = "serving" /\ Confirmed(k)
             /\ ClientGoes(c, [mcpClients[c] EXCEPT !.at = "worked", !.call = {[k EXCEPT !.done = TRUE]}])
    <3> DEFINE h == [k EXCEPT !.done = TRUE]
    <3>1. h \in ToolCall /\ h.tool = k.tool /\ h.done /\ h.confirm = k.confirm /\ h.audited = k.audited
      BY <2>2 DEF ToolCall
    <3>2. k.tool.level = "admin" => k.confirm
      BY <2>2, <2>3, ToolsConfirm DEF Confirmed
    <3> HIDE DEF h
    <3>3. CallFits(h)
      BY <3>1, <3>2 DEF CallFits
    <3>4. ClientGoes(c, [mcpClients[c] EXCEPT !.at = "worked", !.call = {h}])
      BY <2>3 DEF h
    <3>. QED  BY <2>2, <2>3, <3>1, <3>3, <3>4, <1>k
  <2>4. ASSUME mcpClients[c].at = "worked", NEW kept \in BOOLEAN,
               ClientGoes(c, [mcpClients[c] EXCEPT !.at = "audited", !.call = {[k EXCEPT !.audited = kept]}])
        PROVE  McpInv'
    <3> DEFINE h == [k EXCEPT !.audited = kept]
    <3>1. h \in ToolCall /\ h.tool = k.tool /\ h.done = k.done /\ h.confirm = k.confirm
      BY <2>2 DEF ToolCall
    <3> HIDE DEF h
    <3>2. CallFits(h) /\ h.done
      BY <2>2, <2>4, <3>1 DEF CallFits
    <3>3. ClientGoes(c, [mcpClients[c] EXCEPT !.at = "audited", !.call = {h}])
      BY <2>4 DEF h
    <3>. QED  BY <2>2, <2>4, <3>1, <3>2, <3>3, <1>k
  <2>. QED  BY <2>1, <2>3, <2>4
<1>b. ASSUME NEW c \in Client, Returns(c) \/ Throws(c) PROVE McpInv'
  BY <1>b, <1>r DEF Returns, Throws
<1>7. ASSUME NEW c \in Client, Leaves(c) PROVE McpInv'
  BY <1>7, <1>o DEF Leaves
<1>8. CASE UNCHANGED mcpVars
  BY <1>8 DEF mcpVars, McpInv, McpTypeOK, ClientFits
<1>. QED  BY <1>1, <1>2, <1>3, <1>4, <1>5, <1>6, <1>b, <1>7, <1>8 DEF McpNext

(* The invariant of the MCP tokens holds in every state of Mcp. *)
THEOREM McpInvariant == McpSpec => []McpInv
BY McpInvInit, McpInvStep, PTL DEF McpSpec

(* Nobody is served with a token that was revoked before, beyond its level or unconfirmed. *)
THEOREM McpIsSound == McpSpec => []McpSound
<1>1. McpInv => McpSound
  <2> SUFFICES ASSUME McpInv, NEW c \in Client, mcpClients[c].at \notin {"off", "connecting"}
               PROVE  /\ ~mcpClients[c].revokedFirst
                      /\ \A k \in mcpClients[c].call :
                           /\ HasMcpAccess(issued_to[mcpClients[c].token], k.tool.level)
                           /\ k.done /\ k.tool.level = "admin" => k.confirm
                           /\ k.audited => k.done
    BY DEF McpSound
  <2>1. mcpClients[c].at \in {"open", "serving", "worked", "audited"} /\ ClientFits(c)
    BY DEF McpInv, McpTypeOK, McpClient
  <2>. QED  BY <2>1 DEF ClientFits, CallFits, Registered
<1>. QED  BY <1>1, McpInvariant, PTL

-----------------------------------------------------------------------------
(* Nodes *)

(* Nobody has been shown a token while there is none. *)
JoinFits == handed \subseteq {joinToken} /\ (joinToken = 0 => handed = {})
RevealFits(r) == reveals[r].at = "insert" => reveals[r].token # 0

(* The node a machine keeps is in its file, or, until it is written there, with the process; *)
(* one that could not read its file may have run as others before.                           *)
Holds(m) == ({machines[m].file, machines[m].token} \ {0}) \cup ranAs[m]
NodeKept(m) ==
  /\ ranAs[m] \subseteq {machines[m].file}
  /\ machines[m].file = 0 => ranAs[m] = {}
  /\ machines[m].at \in {"register", "truncate"} => machines[m].file = 0
MachineFits(m) ==
  /\ Holds(m) \subseteq 1..Len(nodes)
  /\ ~machines[m].unread => NodeKept(m)
  /\ machines[m].at \in {"off", "register"} => machines[m].token = 0
  /\ machines[m].at \in {"truncate", "write", "loops"} => machines[m].token # 0
  /\ machines[m].at = "loops" => machines[m].file = machines[m].token
  /\ machines[m].at = "write" /\ machines[m].file # 0 => machines[m].file = machines[m].token
NobodyElseHolds(m, k) == m # k => Holds(m) \cap Holds(k) = {}

NodesInv ==
  /\ NodesTypeOK
  /\ JoinFits
  /\ \A r \in Reveal : RevealFits(r)
  /\ \A m \in Machine : MachineFits(m)
  /\ \A m, k \in Machine : NobodyElseHolds(m, k)

(* No worker has joined: the invariant of the join token and its machines holds at first. *)
LEMMA NodesInvInit == NodesInit => NodesInv
<1> SUFFICES ASSUME NodesInit PROVE NodesInv
  OBVIOUS
<1>1. NodesTypeOK
  <2>1. AtRest \in RevealState /\ NewMachine \in WorkerMachine
    BY NodesAssumption DEF AtRest, RevealState, NewMachine, WorkerMachine
  <2>. QED  BY <2>1, NodesAssumption DEF NodesInit, NodesTypeOK
<1>. QED
  BY <1>1 DEF NodesInit, NodesInv, JoinFits, RevealFits, MachineFits, NodeKept, NobodyElseHolds, Holds, AtRest,
    NewMachine

(* The requests for the join token: one token comes of them, whoever inserts first. *)
LEMMA NodesReveal ==
  ASSUME NodesInv, NEW r \in Reveal, ReadJoinToken(r) \/ InsertJoinToken(r)
  PROVE  NodesInv'
<1>0. /\ joinToken \in {0} \cup Reveal /\ handed \subseteq Reveal /\ reveals \in [Reveal -> RevealState]
      /\ JoinFits /\ reveals[r] \in RevealState
      /\ \A q \in Reveal : RevealFits(q)
      /\ r # 0 /\ AtRest \in RevealState /\ AtRest.at = "idle"
  BY NodesAssumption DEF NodesInv, NodesTypeOK, AtRest, RevealState
<1>1. UNCHANGED <<nodes, machines, ranAs>>
  BY DEF ReadJoinToken, InsertJoinToken
<1>2. /\ joinToken' \in {0} \cup Reveal /\ handed' \subseteq Reveal /\ reveals' \in [Reveal -> RevealState]
      /\ JoinFits' /\ \A q \in Reveal : RevealFits(q)'
  <2>1. CASE ReadJoinToken(r) /\ joinToken = 0
    <3>1. [at |-> "insert", token |-> r] \in RevealState
      BY DEF RevealState
    <3>2. reveals' = [reveals EXCEPT ![r] = [at |-> "insert", token |-> r]] /\ UNCHANGED <<joinToken, handed>>
      BY <2>1 DEF ReadJoinToken
    <3>3. [at |-> "insert", token |-> r].token # 0
      BY <1>0
    <3>. QED  BY <1>0, <3>1, <3>2, <3>3 DEF JoinFits, RevealFits
  <2>2. CASE ReadJoinToken(r) /\ joinToken # 0
    BY <1>0, <2>2 DEF ReadJoinToken, Shown, JoinFits, RevealFits
  <2>3. CASE InsertJoinToken(r)
    <3>1. reveals[r].token \in Reveal
      BY <1>0, <2>3 DEF InsertJoinToken, RevealFits, RevealState
    <3>2. joinToken' # 0 /\ joinToken' \in Reveal /\ (joinToken # 0 => joinToken' = joinToken)
      BY <1>0, <2>3, <3>1, NodesAssumption DEF InsertJoinToken, Upserted
    <3>3. handed' = handed \cup {joinToken'} /\ reveals' = [reveals EXCEPT ![r] = AtRest]
      BY <2>3 DEF InsertJoinToken, Shown
    <3>. QED  BY <1>0, <3>2, <3>3 DEF JoinFits, RevealFits
  <2>. QED  BY <2>1, <2>2, <2>3
<1>. QED  BY <1>1, <1>2 DEF NodesInv, NodesTypeOK, MachineFits, NodeKept, NobodyElseHolds, Holds

(* What one machine does concerns no other, as long as it holds nothing the others hold. *)
LEMMA NodesMachineGoes ==
  ASSUME NodesInv, NEW m \in Machine, NEW r \in WorkerMachine, MachineGoes(m, r), JoinUnchanged,
         \/ UNCHANGED nodes
         \/ nodes' = Append(nodes, TRUE) /\ Len(nodes) < MaxNodes,
         UNCHANGED ranAs \/ (r.token \in 1..MaxNodes /\ RunsAs(m, r.token)),
         MachineFits(m)',
         {r.file, r.token} \subseteq {machines[m].file, machines[m].token, 0} \cup {Len(nodes) + 1}
  PROVE  NodesInv'
<1>0. /\ machines \in [Machine -> WorkerMachine] /\ ranAs \in [Machine -> SUBSET (1..MaxNodes)]
      /\ nodes \in Seq(BOOLEAN) /\ Len(nodes) <= MaxNodes
      /\ \A k \in Machine : MachineFits(k)
      /\ \A k, l \in Machine : NobodyElseHolds(k, l)
  BY DEF NodesInv, NodesTypeOK
<1>1. /\ nodes' \in Seq(BOOLEAN) /\ Len(nodes') <= MaxNodes /\ Len(nodes') \in {Len(nodes), Len(nodes) + 1}
  <2>1. Append(nodes, TRUE) \in Seq(BOOLEAN) /\ Len(Append(nodes, TRUE)) = Len(nodes) + 1
    BY <1>0, AppendProperties
  <2>2. nodes' = Append(nodes, TRUE) => nodes' \in Seq(BOOLEAN) /\ Len(nodes') = Len(nodes) + 1
    BY <2>1, Zenon
  <2>3. UNCHANGED nodes \/ (nodes' \in Seq(BOOLEAN) /\ Len(nodes') = Len(nodes) + 1 /\ Len(nodes) < MaxNodes)
    BY <2>2, Zenon
  <2>. QED  BY <1>0, <2>3, NodesAssumption
<1>2. machines'[m] = r /\ \A k \in Machine : k # m => machines'[k] = machines[k]
  BY <1>0 DEF MachineGoes
<1>3. machines' \in [Machine -> WorkerMachine]
  BY <1>0 DEF MachineGoes
<1>4. /\ ranAs' \in [Machine -> SUBSET (1..MaxNodes)] /\ \A k \in Machine : k # m => ranAs'[k] = ranAs[k]
      /\ ranAs'[m] \subseteq ranAs[m] \cup ({r.token} \ {0})
  BY <1>0 DEF RunsAs
<1>5. NodesTypeOK' /\ JoinFits' /\ \A q \in Reveal : RevealFits(q)'
  BY <1>1, <1>3, <1>4 DEF NodesInv, NodesTypeOK, JoinUnchanged, JoinFits, RevealFits
<1>6. ASSUME NEW k \in Machine PROVE MachineFits(k)'
  <2>1. CASE k = m
    BY <2>1
  <2>2. CASE k # m
    <3>1. MachineFits(k) /\ machines'[k] = machines[k] /\ ranAs'[k] = ranAs[k]
      BY <1>0, <1>2, <1>4, <2>2
    <3>2. 1..Len(nodes) \subseteq 1..Len(nodes')
      BY <1>0, <1>1
    <3>. QED  BY <3>1, <3>2 DEF MachineFits, NodeKept, Holds
  <2>. QED  BY <2>1, <2>2
<1>7. ASSUME NEW k \in Machine, k # m PROVE Holds(m)' \cap Holds(k)' = {}
  <2>1. Holds(m)' \subseteq Holds(m) \cup {Len(nodes) + 1}
    BY <1>2, <1>4 DEF Holds
  <2>2. Holds(k)' = Holds(k) /\ Holds(k) \subseteq 1..Len(nodes)
    BY <1>0, <1>2, <1>4, <1>7 DEF Holds, MachineFits
  <2>3. Len(nodes) + 1 \notin 1..Len(nodes)
    BY <1>0
  <2>4. Holds(m) \cap Holds(k) = {}
    BY <1>0, <1>7 DEF NobodyElseHolds
  <2>. QED  BY <2>1, <2>2, <2>3, <2>4
<1>8. ASSUME NEW k \in Machine, NEW l \in Machine PROVE NobodyElseHolds(k, l)'
  <2>1. CASE k # m /\ l # m
    BY <1>0, <1>2, <1>4, <2>1 DEF NobodyElseHolds, Holds
  <2>2. CASE k = m \/ l = m
    BY <1>7, <2>2 DEF NobodyElseHolds
  <2>. QED  BY <2>1, <2>2
<1>. QED  BY <1>5, <1>6, <1>8 DEF NodesInv

(* Every reveal or rotation of the token, every join and every deletion of a worker keeps the *)
(* invariant.                                                                                 *)
LEMMA NodesInvStep == NodesInv /\ [NodesNext]_nodesVars => NodesInv'
<1> SUFFICES ASSUME NodesInv, [NodesNext]_nodesVars PROVE NodesInv'
  OBVIOUS
<1>0. /\ machines \in [Machine -> WorkerMachine] /\ ranAs \in [Machine -> SUBSET (1..MaxNodes)]
      /\ nodes \in Seq(BOOLEAN) /\ Len(nodes) \in Nat /\ Len(nodes) <= MaxNodes /\ handed \subseteq Reveal
      /\ \A k \in Machine : MachineFits(k) /\ machines[k] \in WorkerMachine
  BY DEF NodesInv, NodesTypeOK
<1>1. ASSUME NEW m \in Machine, NEW r \in WorkerMachine, MachineGoes(m, r)
      PROVE  machines'[m] = r
  BY <1>0, <1>1 DEF MachineGoes
<1>2. ASSUME NEW m \in Machine, Install(m) PROVE NodesInv'
  <2>1. PICK t \in handed : MachineGoes(m, [machines[m] EXCEPT !.join = t])
    BY <1>2 DEF Install
  <2> DEFINE r == [machines[m] EXCEPT !.join = t]
  <2>2. r \in WorkerMachine
    BY <1>0 DEF WorkerMachine
  <2>3. /\ r.at = machines[m].at /\ r.file = machines[m].file /\ r.token = machines[m].token
        /\ r.unread = machines[m].unread
    BY <1>0 DEF WorkerMachine
  <2>4. UNCHANGED <<nodes, ranAs>> /\ JoinUnchanged
    BY <1>2 DEF Install
  <2>5. MachineFits(m)'
    BY <1>0, <1>1, <2>1, <2>2, <2>3, <2>4 DEF MachineFits, NodeKept, Holds
  <2>. QED  BY <2>1, <2>2, <2>3, <2>4, <2>5, NodesMachineGoes
<1>3. ASSUME NEW m \in Machine, StartWorker(m) PROVE NodesInv'
  <2> DEFINE r == [machines[m] EXCEPT !.at = "loops", !.token = machines[m].file]
             s == [machines[m] EXCEPT !.at = "register"]
             u == [machines[m] EXCEPT !.at = "register", !.unread = TRUE]
  <2>1. r \in WorkerMachine /\ s \in WorkerMachine /\ u \in WorkerMachine
    BY <1>0 DEF WorkerMachine
  <2>2. /\ r.at = "loops" /\ r.file = machines[m].file /\ r.token = machines[m].file
        /\ s.at = "register" /\ s.file = machines[m].file /\ s.token = machines[m].token
        /\ u.at = "register" /\ u.file = machines[m].file /\ u.token = machines[m].token
        /\ r.unread = machines[m].unread /\ s.unread = machines[m].unread /\ u.unread
    BY <1>0 DEF WorkerMachine
  <2>3. UNCHANGED nodes /\ JoinUnchanged /\ machines[m].at = "off" /\ machines[m].file \in 0..MaxNodes
    BY <1>0, <1>3 DEF StartWorker, WorkerMachine
  <2> HIDE DEF r, s, u
  <2>4. CASE machines[m].file # 0 /\ MachineGoes(m, r) /\ RunsAs(m, machines[m].file)
    <3>1. MachineGoes(m, r) /\ RunsAs(m, r.token)
      BY <2>2, <2>4
    <3>2. ranAs'[m] = ranAs[m] \cup {r.token}
      BY <1>0, <3>1 DEF RunsAs
    <3>3. MachineFits(m)'
      BY <1>0, <1>1, <2>1, <2>2, <2>3, <2>4, <3>1, <3>2 DEF MachineFits, NodeKept, Holds
    <3>4. r.token \in 1..MaxNodes
      BY <2>2, <2>3, <2>4
    <3>. QED  BY <2>1, <2>2, <2>3, <3>1, <3>3, <3>4, NodesMachineGoes
  <2>5. CASE machines[m].file = 0
    <3>1. MachineGoes(m, s) /\ UNCHANGED ranAs
      BY <1>3, <2>5 DEF StartWorker, s
    <3>2. MachineFits(m)'
      BY <1>0, <1>1, <2>1, <2>2, <2>3, <2>5, <3>1 DEF MachineFits, NodeKept, Holds
    <3>. QED  BY <2>1, <2>2, <2>3, <3>1, <3>2, NodesMachineGoes
  <2>6. CASE MachineGoes(m, u) /\ UNCHANGED ranAs
    <3>1. MachineFits(m)'
      BY <1>0, <1>1, <2>1, <2>2, <2>3, <2>6 DEF MachineFits, NodeKept, Holds
    <3>. QED  BY <2>1, <2>2, <2>3, <2>6, <3>1, NodesMachineGoes
  <2>. QED  BY <1>3, <2>4, <2>5, <2>6 DEF StartWorker, r, u
<1>4. ASSUME NEW m \in Machine, RegisterWorker(m) PROVE NodesInv'
  <2> DEFINE r == [machines[m] EXCEPT !.at = "truncate", !.token = Len(nodes) + 1]
             s == [machines[m] EXCEPT !.at = "off"]
  <2>1. /\ s \in WorkerMachine /\ s.at = "off" /\ s.file = machines[m].file /\ s.token = machines[m].token
        /\ s.unread = machines[m].unread
    BY <1>0 DEF WorkerMachine
  <2>2. UNCHANGED ranAs /\ JoinUnchanged /\ machines[m].at = "register"
    BY <1>4 DEF RegisterWorker
  <2>3. CASE MachineGoes(m, s) /\ (UNCHANGED nodes \/ (nodes' = Append(nodes, TRUE) /\ Len(nodes) < MaxNodes))
    <3>1. Len(nodes') \in {Len(nodes), Len(nodes) + 1}
      <4>1. Len(Append(nodes, TRUE)) = Len(nodes) + 1
        BY <1>0, AppendProperties
      <4>2. Len(nodes') = Len(nodes) \/ Len(nodes') = Len(nodes) + 1
        BY <2>3, <4>1, Zenon
      <4>. QED  BY <4>2
    <3>2. 1..Len(nodes) \subseteq 1..Len(nodes')
      BY <1>0, <3>1
    <3>3. machines'[m] = s
      BY <1>1, <2>1, <2>3
    <3> HIDE DEF s
    <3>4. MachineFits(m)'
      BY <1>0, <2>1, <2>2, <3>2, <3>3 DEF MachineFits, NodeKept, Holds
    <3>. QED  BY <2>1, <2>2, <2>3, <3>4, NodesMachineGoes
  <2>4. CASE MachineGoes(m, r) /\ nodes' = Append(nodes, TRUE) /\ Len(nodes) < MaxNodes
    <3>1. r \in WorkerMachine
      <4>1. Len(nodes) + 1 \in 0..MaxNodes
        BY <1>0, <2>4, NodesAssumption
      <4>. QED  BY <1>0, <4>1 DEF WorkerMachine
    <3>2. /\ r.at = "truncate" /\ r.file = machines[m].file /\ r.token = Len(nodes) + 1
          /\ r.unread = machines[m].unread
      BY <1>0 DEF WorkerMachine
    <3>3. Len(nodes') = Len(nodes) + 1
      BY <1>0, <2>4
    <3>4. machines'[m] = r
      BY <1>1, <2>4, <3>1
    <3> HIDE DEF r
    <3>5. Len(nodes) + 1 # 0 /\ Len(nodes) + 1 \in 1..Len(nodes')
      BY <1>0, <3>3
    <3>6. MachineFits(m)'
      BY <1>0, <2>2, <3>2, <3>4, <3>5 DEF MachineFits, NodeKept, Holds
    <3>. QED  BY <2>2, <2>4, <3>1, <3>2, <3>6, NodesMachineGoes
  <2>. QED  BY <1>4, <2>3, <2>4 DEF RegisterWorker
<1>5. ASSUME NEW m \in Machine, TruncateFile(m) PROVE NodesInv'
  <2> DEFINE r == [machines[m] EXCEPT !.at = "write", !.file = 0]
  <2>1. r \in WorkerMachine
    <3>1. 0 \in 0..MaxNodes
      BY NodesAssumption
    <3>. QED  BY <1>0, <3>1 DEF WorkerMachine
  <2>2. r.at = "write" /\ r.file = 0 /\ r.token = machines[m].token /\ r.unread = machines[m].unread
    BY <1>0 DEF WorkerMachine
  <2>3. MachineGoes(m, r) /\ UNCHANGED <<nodes, ranAs>> /\ JoinUnchanged /\ machines[m].at = "truncate"
    BY <1>5 DEF TruncateFile
  <2>4. machines'[m] = r
    BY <1>1, <2>1, <2>3
  <2> HIDE DEF r
  <2>5. MachineFits(m)'
    BY <1>0, <2>2, <2>3, <2>4 DEF MachineFits, NodeKept, Holds
  <2>. QED  BY <2>1, <2>2, <2>3, <2>5, NodesMachineGoes
<1>6. ASSUME NEW m \in Machine, WriteFile(m) PROVE NodesInv'
  <2> DEFINE r == [machines[m] EXCEPT !.file = machines[m].token]
  <2>1. r \in WorkerMachine
    BY <1>0 DEF WorkerMachine
  <2>2. /\ r.at = machines[m].at /\ r.file = machines[m].token /\ r.token = machines[m].token
        /\ r.unread = machines[m].unread
    BY <1>0 DEF WorkerMachine
  <2>3. MachineGoes(m, r) /\ UNCHANGED <<nodes, ranAs>> /\ JoinUnchanged /\ machines[m].at = "write"
          /\ machines[m].file = 0
    BY <1>6 DEF WriteFile
  <2>4. machines'[m] = r
    BY <1>1, <2>1, <2>3
  <2> HIDE DEF r
  <2>5. MachineFits(m)'
    BY <1>0, <2>2, <2>3, <2>4 DEF MachineFits, NodeKept, Holds
  <2>. QED  BY <2>1, <2>2, <2>3, <2>5, NodesMachineGoes
<1>7. ASSUME NEW m \in Machine, BeginLoops(m) PROVE NodesInv'
  <2> DEFINE r == [machines[m] EXCEPT !.at = "loops"]
  <2>1. r \in WorkerMachine
    BY <1>0 DEF WorkerMachine
  <2>2. /\ r.at = "loops" /\ r.file = machines[m].file /\ r.token = machines[m].token
        /\ r.unread = machines[m].unread
    BY <1>0 DEF WorkerMachine
  <2>3. /\ MachineGoes(m, r) /\ UNCHANGED nodes /\ RunsAs(m, machines[m].token) /\ JoinUnchanged
        /\ machines[m].at = "write" /\ machines[m].file = machines[m].token
    BY <1>7 DEF BeginLoops, FileWritten
  <2>4. machines'[m] = r /\ ranAs'[m] = ranAs[m] \cup {machines[m].token}
    BY <1>0, <1>1, <2>1, <2>3 DEF RunsAs
  <2>5. r.token \in 1..MaxNodes
    BY <1>0, <2>2, <2>3 DEF MachineFits, WorkerMachine
  <2> HIDE DEF r
  <2>6. MachineFits(m)'
    BY <1>0, <2>2, <2>3, <2>4 DEF MachineFits, NodeKept, Holds
  <2>. QED  BY <2>1, <2>2, <2>3, <2>5, <2>6, NodesMachineGoes
<1>8. ASSUME NEW m \in Machine, WorkerDies(m) PROVE NodesInv'
  <2> DEFINE r == [machines[m] EXCEPT !.at = "off", !.token = 0]
  <2>1. r \in WorkerMachine
    <3>1. 0 \in 0..MaxNodes
      BY NodesAssumption
    <3>. QED  BY <1>0, <3>1 DEF WorkerMachine
  <2>2. r.at = "off" /\ r.file = machines[m].file /\ r.token = 0 /\ r.unread = machines[m].unread
    BY <1>0 DEF WorkerMachine
  <2>3. MachineGoes(m, r) /\ UNCHANGED <<nodes, ranAs>> /\ JoinUnchanged
    BY <1>8 DEF WorkerDies
  <2>4. machines'[m] = r
    BY <1>1, <2>1, <2>3
  <2> HIDE DEF r
  <2>5. MachineFits(m)'
    BY <1>0, <2>2, <2>3, <2>4 DEF MachineFits, NodeKept, Holds
  <2>. QED  BY <2>1, <2>2, <2>3, <2>5, NodesMachineGoes
<1>9. ASSUME NEW n \in DOMAIN nodes, NEW b \in BOOLEAN, nodes' = [nodes EXCEPT ![n] = b],
             UNCHANGED <<machines, ranAs>> /\ JoinUnchanged
      PROVE  NodesInv'
  <2>1. nodes' \in Seq(BOOLEAN) /\ Len(nodes') = Len(nodes)
    BY <1>0, <1>9
  <2>. QED  BY <1>9, <2>1 DEF NodesInv, NodesTypeOK, JoinUnchanged, JoinFits, RevealFits, MachineFits, NodeKept,
               NobodyElseHolds, Holds
<1>10. CASE UNCHANGED nodesVars
  BY <1>10 DEF nodesVars, NodesInv, NodesTypeOK, JoinFits, RevealFits, MachineFits, NodeKept, NobodyElseHolds, Holds
<1>. QED
  BY <1>2, <1>3, <1>4, <1>5, <1>6, <1>7, <1>8, <1>9, <1>10, NodesReveal DEF NodesNext, MarkNodeSeen, NotSeen

(* The invariant of the join token and of the workers holds in every state of Nodes. *)
THEOREM NodesInvariant == NodesSpec => []NodesInv
BY NodesInvInit, NodesInvStep, PTL DEF NodesSpec

(* One join token is agreed on, and a machine is one node for good. *)
THEOREM NodesAreSound == NodesSpec => []NodesSound
<1>1. ASSUME NodesInv PROVE NodesSound
  <2>1. JoinTokenAgreed
    BY <1>1 DEF NodesInv, JoinFits, JoinTokenAgreed
  <2>2. ASSUME NEW m \in Machine, ~machines[m].unread PROVE Cardinality(ranAs[m]) <= 1
    <3>1. ranAs[m] = {} \/ ranAs[m] = {machines[m].file}
      BY <1>1, <2>2 DEF NodesInv, MachineFits, NodeKept
    <3>2. Cardinality({}) = 0 /\ Cardinality({machines[m].file}) = 1
      BY FS_EmptySet, FS_Singleton
    <3>. QED  BY <3>1, <3>2
  <2>3. ASSUME NEW m \in Machine, NEW k \in Machine, m # k PROVE ranAs[m] \cap ranAs[k] = {}
    BY <1>1, <2>3 DEF NodesInv, NobodyElseHolds, Holds
  <2>. QED  BY <2>1, <2>2, <2>3 DEF NodesSound, MachineKeepsNode
<1>. QED  BY <1>1, NodesInvariant, PTL

-----------------------------------------------------------------------------
(* Containers *)

(* An action that succeeded was one of the world's; what is cached, and    *)
(* what a read of the present revision has seen, is as new as the newest   *)
(* action that has succeeded: the revision is raised when one succeeds.    *)
ReturnedAreDone == returned <= world /\ \A a \in Action : actions[a] <= world
CacheIsNew == cached # 0 => cached - 1 >= returned
ReadsAreNew ==
  \A i \in 1..MaxReads : /\ reads[i].rev <= revision
                         /\ reads[i].st = "stats" /\ reads[i].rev = revision => reads[i].value >= returned
LogFits == logs.left + logs.held <= MaxChunks

CacheInv == ContainersTypeOK /\ ReturnedAreDone /\ CacheIsNew /\ ReadsAreNew /\ ListIsCurrent /\ LogFits

(* The records of calls that have not begun. *)
LEMMA AtRestTypes == NoRead \in ReadState /\ NoLister \in ListerState /\ NoLogs \in LogState
BY ContainersAssumption DEF NoRead, ReadState, NoLister, ListerState, NoLogs, LogState

(* Nothing has been read: the invariant of the container cache holds at first. *)
LEMMA CacheInit == ContainersInit => CacheInv
<1> SUFFICES ASSUME ContainersInit PROVE CacheInv
  OBVIOUS
<1>1. ContainersTypeOK
  <2>1. 0 \in 0..MaxWorld /\ 0 \in 0..(MaxWorld + 1) /\ 0 \in 0..MaxRevision /\ 0 \in 0..MaxReads
    BY ContainersAssumption
  <2>. QED  BY <2>1, AtRestTypes DEF ContainersInit, ContainersTypeOK
<1>. QED
  BY <1>1, ContainersAssumption DEF ContainersInit, CacheInv, ReturnedAreDone, CacheIsNew, ReadsAreNew, LogFits,
     ListIsCurrent, NoRead, NoLister, NoLogs

(* The log stream does not touch the cache, nor the calls of the list the log stream. *)
LEMMA LogStep ==
  ASSUME CacheInv,
         OpenLogs \/ LogChunk \/ LogRead \/ LogChildExits \/ LogEnds \/ LogCleanup \/ LogOver
  PROVE  CacheInv'
<1> USE ContainersAssumption DEF cacheVars
<1>0. logs \in LogState /\ logs.left + logs.held <= MaxChunks
  BY DEF CacheInv, ReturnedAreDone, CacheIsNew, ReadsAreNew, LogFits, ContainersTypeOK
<1>a. /\ logs.left \in 0..MaxChunks /\ logs.held \in 0..MaxChunks
      /\ logs.left > 0 => logs.left - 1 \in 0..MaxChunks /\ logs.held + 1 \in 0..MaxChunks
      /\ logs.held > 0 => logs.held - 1 \in 0..MaxChunks
  BY <1>0 DEF LogState
<1>1. UNCHANGED cacheVars
  BY DEF OpenLogs, LogChunk, LogRead, LogChildExits, LogEnds, LogCleanup, LogOver
<1>2. logs' \in LogState /\ logs'.left + logs'.held <= MaxChunks
  <2>1. CASE OpenLogs
    <3>1. logs' \in LogState
      <4>1. MaxChunks \in 0..MaxChunks
        OBVIOUS
      <4>. QED  BY <2>1, <4>1, AtRestTypes DEF OpenLogs, LogState
    <3>. QED  BY <2>1, <3>1 DEF OpenLogs, NoLogs
  <2>2. CASE LogChunk
    <3>1. PICK full \in BOOLEAN : logs' = [logs EXCEPT !.left = @ - 1, !.held = @ + 1, !.paused = full]
      BY <2>2 DEF LogChunk
    <3>2. logs.left > 0
      BY <2>2 DEF LogChunk
    <3>3. logs' \in LogState
      BY <1>0, <1>a, <3>1, <3>2 DEF LogState
    <3>4. logs'.left = logs.left - 1 /\ logs'.held = logs.held + 1
      BY <1>0, <3>1 DEF LogState
    <3>. QED  BY <1>0, <1>a, <3>3, <3>4
  <2>3. CASE LogRead
    <3>1. PICK p \in BOOLEAN : logs' = [logs EXCEPT !.held = @ - 1, !.paused = p]
      BY <1>0, <2>3 DEF LogRead, Resumed, LogState
    <3>2. logs.held > 0
      BY <2>3 DEF LogRead
    <3>3. logs' \in LogState
      BY <1>0, <1>a, <3>1, <3>2 DEF LogState
    <3>4. logs'.left = logs.left /\ logs'.held = logs.held - 1
      BY <1>0, <3>1 DEF LogState
    <3>. QED  BY <1>0, <1>a, <3>3, <3>4
  <2>4. CASE LogChildExits
    BY <1>0, <2>4 DEF LogChildExits, LogState
  <2>5. CASE LogEnds
    BY <1>0, <2>5 DEF LogEnds, LogState
  <2>6. CASE LogCleanup
    BY <1>0, <2>6 DEF LogCleanup, KillsChild, LogState
  <2>7. CASE LogOver
    BY <2>7, AtRestTypes DEF LogOver, NoLogs
  <2>. QED  BY <2>1, <2>2, <2>3, <2>4, <2>5, <2>6, <2>7
<1>. QED  BY <1>1, <1>2 DEF CacheInv, ReturnedAreDone, CacheIsNew, ReadsAreNew, LogFits, ContainersTypeOK,
             ListIsCurrent

(* Every call of the list, every step of its read of Docker and every action on a container keeps the *)
(* invariant.                                                                                         *)
LEMMA CacheStep == CacheInv /\ [ContainersNext]_containersVars => CacheInv'
<1> SUFFICES ASSUME CacheInv, [ContainersNext]_containersVars PROVE CacheInv'
  OBVIOUS
<1> USE ContainersAssumption
<1>0. /\ world \in 0..MaxWorld /\ returned \in 0..MaxWorld /\ revision \in 0..MaxRevision
      /\ reads \in [1..MaxReads -> ReadState] /\ listers \in [Lister -> ListerState]
      /\ NoRead \in ReadState /\ NoLister \in ListerState
  BY AtRestTypes DEF CacheInv, ReturnedAreDone, CacheIsNew, ReadsAreNew, LogFits, ContainersTypeOK
<1>1. ASSUME NEW a \in Action, Act(a) PROVE CacheInv'
  BY <1>1 DEF Act, CacheInv, ReturnedAreDone, CacheIsNew, ReadsAreNew, LogFits, ContainersTypeOK, ListIsCurrent
<1>2. ASSUME NEW a \in Action, ActReturns(a) PROVE CacheInv'
  <2>1. /\ returned' \in 0..MaxWorld /\ returned' <= world
        /\ actions' \in [Action -> 0..MaxWorld] /\ \A b \in Action : actions'[b] <= world
    BY <1>2 DEF ActReturns, Newer, CacheInv, ReturnedAreDone, CacheIsNew, ReadsAreNew, LogFits, ContainersTypeOK
  <2>2. \A i \in 1..MaxReads : reads[i].rev <= revision /\ reads[i].rev \in Nat
    BY <1>0 DEF CacheInv, ReturnedAreDone, CacheIsNew, ReadsAreNew, LogFits, ReadState
  <2>3. \A i \in 1..MaxReads : reads[i].rev <= revision' /\ reads[i].rev # revision'
    BY <1>0, <1>2, <2>2 DEF ActReturns, Invalidate
  <2>4. ContainersTypeOK'
    <3>1. revision' \in 0..MaxRevision /\ cached' = 0 /\ fresh' = FALSE
      BY <1>0, <1>2 DEF ActReturns, Invalidate
    <3>2. UNCHANGED <<world, shared, reads, listers, logs>>
      BY <1>2 DEF ActReturns
    <3>3. 0 \in 0..(MaxWorld + 1)
      OBVIOUS
    <3>. QED  BY <2>1, <3>1, <3>2, <3>3 DEF CacheInv, ReturnedAreDone, CacheIsNew, ReadsAreNew, LogFits,
                 ContainersTypeOK
  <2>. QED  BY <1>2, <2>1, <2>3, <2>4 DEF ActReturns, Invalidate, CacheInv, ReturnedAreDone, CacheIsNew, ReadsAreNew,
               LogFits, ListIsCurrent
<1>8. ASSUME NEW a \in Action, ActFails(a) PROVE CacheInv'
  BY <1>8 DEF ActFails, CacheInv, ReturnedAreDone, CacheIsNew, ReadsAreNew, LogFits, ContainersTypeOK, ListIsCurrent
<1>3. ASSUME NEW l \in Lister, CallList(l) PROVE CacheInv'
  <2>1. CASE Current /\ AnswerLister(l, cached - 1) /\ UNCHANGED <<shared, reads>>
    <3>1. listers' \in [Lister -> ListerState]
      <4>1. cached - 1 \in 0..MaxWorld
        BY <2>1 DEF Current, CacheInv, ReturnedAreDone, CacheIsNew, ReadsAreNew, LogFits, ContainersTypeOK
      <4>. QED  BY <1>0, <2>1, <4>1 DEF AnswerLister, ListerState
    <3>2. ListIsCurrent'
      BY <2>1 DEF AnswerLister, Current, CacheInv, ReturnedAreDone, CacheIsNew, ReadsAreNew, LogFits,
         ContainersTypeOK, NoLister, ListIsCurrent
    <3>. QED  BY <1>3, <2>1, <3>1, <3>2 DEF CallList, CacheInv, ReturnedAreDone, CacheIsNew, ReadsAreNew, LogFits,
                 ContainersTypeOK
  <2>2. CASE /\ listers' = [listers EXCEPT ![l] = [NoLister EXCEPT !.st = "waiting", !.read = shared]]
             /\ UNCHANGED <<shared, reads>>
    <3>1. listers' \in [Lister -> ListerState]
      BY <1>0, <2>2 DEF CacheInv, ReturnedAreDone, CacheIsNew, ReadsAreNew, LogFits, ContainersTypeOK, ListerState
    <3>2. ListIsCurrent'
      BY <2>2 DEF CacheInv, ReturnedAreDone, CacheIsNew, ReadsAreNew, LogFits, ContainersTypeOK, NoLister,
         ListIsCurrent
    <3>. QED  BY <1>3, <2>2, <3>1, <3>2 DEF CallList, CacheInv, ReturnedAreDone, CacheIsNew, ReadsAreNew, LogFits,
                 ContainersTypeOK
  <2>3. ASSUME NEW i \in NewReads,
               reads' = [reads EXCEPT ![i] = StartRead(i)],
               shared' = i,
               listers' = [listers EXCEPT ![l] = [NoLister EXCEPT !.st = "waiting", !.read = i]]
        PROVE  CacheInv'
    <3>0. i \in 1..MaxReads
      BY DEF NewReads
    <3>1. listers' \in [Lister -> ListerState]
      <4>1. i \in 0..MaxReads
        BY <3>0
      <4>. QED  BY <1>0, <2>3, <4>1 DEF ListerState
    <3>2. ListIsCurrent'
      BY <2>3 DEF CacheInv, ReturnedAreDone, CacheIsNew, ReadsAreNew, LogFits, ContainersTypeOK, NoLister,
         ListIsCurrent
    <3>3. reads' \in [1..MaxReads -> ReadState]
      BY <1>0, <2>3, <3>0 DEF StartRead, ReadState
    <3>4. \A k \in 1..MaxReads : (reads'[k].rev <= revision)
            /\ (reads'[k].st = "stats" /\ reads'[k].rev = revision => reads'[k].value >= returned)
      BY <1>0, <2>3, <3>0 DEF StartRead, NoRead, CacheInv, ReturnedAreDone, CacheIsNew, ReadsAreNew, LogFits
    <3>5. UNCHANGED <<world, returned, cached, fresh, revision, actions, logs>>
      BY <1>3 DEF CallList
    <3>6. ContainersTypeOK'
      BY <2>3, <3>0, <3>1, <3>3, <3>5 DEF CacheInv, ReturnedAreDone, CacheIsNew, ReadsAreNew, LogFits,
         ContainersTypeOK
    <3>7. ReadsAreNew'
      BY <3>4, <3>5 DEF ReadsAreNew
    <3>8. (ReturnedAreDone /\ CacheIsNew /\ LogFits)'
      BY <3>5 DEF CacheInv, ReturnedAreDone, CacheIsNew, LogFits
    <3>. QED  BY <3>2, <3>4, <3>5, <3>6, <3>7, <3>8 DEF CacheInv
  <2>. QED  BY <1>3, <2>1, <2>2, <2>3 DEF CallList
<1>4. ASSUME NEW i \in 1..MaxReads, Ps(i) PROVE CacheInv'
  <2>1. reads' \in [1..MaxReads -> ReadState]
    <3>1. [reads EXCEPT ![i] = [@ EXCEPT !.st = "stats", !.value = world]] \in [1..MaxReads -> ReadState]
      BY <1>0 DEF ReadState
    <3>2. [reads EXCEPT ![i].st = "done"] \in [1..MaxReads -> ReadState]
      BY <1>0 DEF ReadState
    <3>. QED  BY <1>4, <3>1, <3>2 DEF Ps
  <2>2. listers' \in [Lister -> ListerState] /\ shared' \in 0..MaxReads
    <3>1. listers' \in [Lister -> ListerState]
      BY <1>0, <1>4 DEF Ps
    <3>2. shared' \in 0..MaxReads
      BY <1>4 DEF Ps, Forget, CacheInv, ReturnedAreDone, CacheIsNew, ReadsAreNew, LogFits, ContainersTypeOK
    <3>. QED  BY <3>1, <3>2
  <2>3. ListIsCurrent'
    <3>1. \A l \in Lister : listers'[l] \in {listers[l], NoLister}
      BY <1>0, <1>4 DEF Ps
    <3>. QED  BY <3>1 DEF NoLister, CacheInv, ReturnedAreDone, CacheIsNew, ReadsAreNew, LogFits, ListIsCurrent
  <2>4. \A k \in 1..MaxReads : (reads'[k].rev <= revision)
          /\ (reads'[k].st = "stats" /\ reads'[k].rev = revision => reads'[k].value >= returned)
    <3>1. reads' \in {[reads EXCEPT ![i] = [@ EXCEPT !.st = "stats",
                                            !.value = world]], [reads EXCEPT ![i].st = "done"]}
      BY <1>4 DEF Ps
    <3>2. reads[i] \in ReadState
      BY <1>0
    <3>3. LET v == [reads[i] EXCEPT !.st = "stats", !.value = world]
              d == [reads[i] EXCEPT !.st = "done"]
          IN  v.rev = reads[i].rev /\ v.value = world /\ d.rev = reads[i].rev /\ d.st = "done"
      BY <3>2 DEF ReadState
    <3>4. \A k \in 1..MaxReads : /\ reads'[k].rev = reads[k].rev
                                 /\ reads'[k] = reads[k] \/ reads'[k].st = "done" \/ reads'[k].value = world
      BY <1>0, <3>1, <3>3
    <3>. QED  BY <1>0, <3>4 DEF CacheInv, ReadsAreNew, ReturnedAreDone
  <2>5. UNCHANGED <<world, returned, cached, fresh, revision, actions, logs>>
    BY <1>4 DEF Ps
  <2>6. ContainersTypeOK'
    BY <2>1, <2>2, <2>5 DEF CacheInv, ReturnedAreDone, CacheIsNew, ReadsAreNew, LogFits, ContainersTypeOK
  <2>7. ReadsAreNew'
    BY <2>4, <2>5 DEF ReadsAreNew
  <2>8. (ReturnedAreDone /\ CacheIsNew /\ LogFits)'
    BY <2>5 DEF CacheInv, ReturnedAreDone, CacheIsNew, LogFits
  <2>. QED  BY <2>3, <2>4, <2>5, <2>6, <2>7, <2>8 DEF CacheInv
<1>5. ASSUME NEW i \in 1..MaxReads, Stats(i) PROVE CacheInv'
  <2>0. Done(i) \in [1..MaxReads -> ReadState]
    BY DEF Done, CacheInv, ReturnedAreDone, CacheIsNew, ReadsAreNew, LogFits, ContainersTypeOK, ReadState
  <2>1. ASSUME NEW v \in 0..MaxWorld, v >= returned, Resolve(i, v)
        PROVE  listers' \in [Lister -> ListerState] /\ ListIsCurrent' /\ shared' \in 0..MaxReads
    <3>1. listers' \in [Lister -> ListerState]
      <4>1. [NoLister EXCEPT !.st = "answered", !.value = v, !.floor = returned] \in ListerState
        BY <1>0, <2>1 DEF ListerState
      <4>. QED  BY <1>0, <2>1, <4>1 DEF Resolve
    <3>2. ListIsCurrent'
      BY <2>1 DEF Resolve, CacheInv, ReturnedAreDone, CacheIsNew, ReadsAreNew, LogFits, ContainersTypeOK, NoLister,
         ListIsCurrent
    <3>3. shared' \in 0..MaxReads
      BY <2>1 DEF Resolve, Forget, CacheInv, ReturnedAreDone, CacheIsNew, ReadsAreNew, LogFits, ContainersTypeOK
    <3>. QED  BY <3>1, <3>2, <3>3
  <2>2. ASSUME NEW j \in 1..MaxReads, Waits(i, j)
        PROVE  listers' \in [Lister -> ListerState] /\ ListIsCurrent'
    <3>1. listers' \in [Lister -> ListerState]
      <4>1. \A l \in Lister : [listers[l] EXCEPT !.read = j] \in ListerState
        <5>1. j \in 0..MaxReads
          OBVIOUS
        <5>. QED  BY <1>0, <5>1 DEF ListerState
      <4>. QED  BY <1>0, <2>2, <4>1 DEF Waits
    <3>2. ListIsCurrent'
      BY <2>2 DEF Waits, CacheInv, ReturnedAreDone, CacheIsNew, ReadsAreNew, LogFits, ContainersTypeOK, ListerState,
         ListIsCurrent
    <3>. QED  BY <3>1, <3>2
  <2>3. CASE ~Outdated(i) /\ cached' = reads[i].value + 1 /\ fresh' = TRUE /\ reads' = Done(i)
               /\ Resolve(i, reads[i].value)
    <3>1. reads[i].value \in 0..MaxWorld /\ reads[i].value >= returned
      BY <1>5, <2>3 DEF Stats, Outdated, CacheInv, ReturnedAreDone, CacheIsNew, ReadsAreNew, LogFits,
         ContainersTypeOK, ReadState
    <3>. QED  BY <1>5, <2>0, <2>1, <2>3, <3>1 DEF Stats, Done, CacheInv, ReturnedAreDone, CacheIsNew, ReadsAreNew,
                 LogFits, ContainersTypeOK, ReadState
  <2>4. CASE Current /\ reads' = Done(i) /\ Resolve(i, cached - 1) /\ UNCHANGED <<cached, fresh>>
    <3>1. cached - 1 \in 0..MaxWorld /\ cached - 1 >= returned
      BY <2>4 DEF Current, CacheInv, ReturnedAreDone, CacheIsNew, ReadsAreNew, LogFits, ContainersTypeOK
    <3>. QED  BY <1>5, <2>0, <2>1, <2>4, <3>1 DEF Stats, Done, CacheInv, ReturnedAreDone, CacheIsNew, ReadsAreNew,
                 LogFits, ContainersTypeOK, ReadState
  <2>5. CASE Shares(shared) /\ reads' = Done(i) /\ Waits(i, shared) /\ UNCHANGED <<cached, fresh, shared>>
    <3>1. shared \in 1..MaxReads
      BY <2>5 DEF Shares, CacheInv, ReturnedAreDone, CacheIsNew, ReadsAreNew, LogFits, ContainersTypeOK
    <3>. QED  BY <1>5, <2>0, <2>2, <2>5, <3>1 DEF Stats, Done, CacheInv, ReturnedAreDone, CacheIsNew, ReadsAreNew,
                 LogFits, ContainersTypeOK, ReadState
  <2>6. ASSUME NEW j \in NewReads, reads' = [Done(i) EXCEPT ![j] = StartRead(j)], Waits(i, j), shared' = j,
               UNCHANGED <<cached, fresh>>
        PROVE  CacheInv'
    <3>1. j \in 1..MaxReads
      BY DEF NewReads
    <3>2. reads' \in [1..MaxReads -> ReadState]
      BY <1>0, <2>0, <2>6, <3>1 DEF StartRead, ReadState
    <3>3. \A k \in 1..MaxReads : (reads'[k].rev <= revision)
            /\ (reads'[k].st = "stats" /\ reads'[k].rev = revision => reads'[k].value >= returned)
      <4>1. StartRead(j).st = "ps" /\ StartRead(j).rev = revision
        BY DEF StartRead, NoRead
      <4>2. \A k \in 1..MaxReads : Done(i)[k].rev = reads[k].rev /\ Done(i)[k].value = reads[k].value
                                     /\ Done(i)[k].st \in {reads[k].st, "done"}
        BY <1>0 DEF Done, ReadState
      <4>3. \A k \in 1..MaxReads : reads'[k] = IF k = j THEN StartRead(j) ELSE Done(i)[k]
        BY <2>0, <2>6, <3>1
      <4>. QED  BY <1>0, <4>1, <4>2, <4>3 DEF CacheInv, ReturnedAreDone, CacheIsNew, ReadsAreNew, LogFits
    <3>4. UNCHANGED <<world, returned, cached, fresh, revision, actions, logs>>
      BY <1>5, <2>6 DEF Stats
    <3>5. ContainersTypeOK'
      BY <2>2, <2>6, <3>1, <3>2, <3>4 DEF CacheInv, ReturnedAreDone, CacheIsNew, ReadsAreNew, LogFits,
         ContainersTypeOK
    <3>7. ReadsAreNew'
      BY <3>3, <3>4 DEF ReadsAreNew
    <3>8. (ReturnedAreDone /\ CacheIsNew /\ LogFits)'
      BY <3>4 DEF CacheInv, ReturnedAreDone, CacheIsNew, LogFits
    <3>. QED  BY <2>2, <2>6, <3>1, <3>3, <3>4, <3>5, <3>7, <3>8 DEF CacheInv
  <2>. QED  BY <1>5, <2>3, <2>4, <2>5, <2>6 DEF Stats
<1>6. CASE Expire
  BY <1>6 DEF Expire, CacheInv, ReturnedAreDone, CacheIsNew, ReadsAreNew, LogFits, ContainersTypeOK, ListIsCurrent
<1>7. CASE UNCHANGED containersVars
  BY <1>7 DEF containersVars, CacheInv, ReturnedAreDone, CacheIsNew, ReadsAreNew, LogFits, ContainersTypeOK,
     ListIsCurrent
<1>. QED  BY <1>1, <1>2, <1>3, <1>4, <1>5, <1>6, <1>7, <1>8, LogStep DEF ContainersNext

(* A list of containers that is answered is at least as new as every action that had answered success *)
(* by then (docker.ts:84-150: the revision such an action raises outdates what is cached and what is  *)
(* being read).                                                                                       *)
THEOREM ListsAreCurrent == ContainersSpec => []ListIsCurrent
<1>1. CacheInv => ListIsCurrent
  BY DEF CacheInv, ReturnedAreDone, CacheIsNew, ReadsAreNew, LogFits
<1>. QED  BY <1>1, CacheInit, CacheStep, PTL DEF ContainersSpec

-----------------------------------------------------------------------------
(* Backups *)

(* While a dump runs in this server, its file has what the child wrote and no more, the child has written *)
(* everything when it ended well, and the call is settled as a success when both ends have been seen.      *)
DumpFits(r) ==
  /\ r.st = "running" /\ r.settled \notin {"lost", "stuck"} =>
       /\ r.file <= r.out /\ r.child # "off"
       /\ r.child = "zero" => r.out = DumpSize
       /\ r.finished => r.file = r.out /\ r.child # "on"
       /\ r.code # "none" => r.code = r.child
       /\ r.settled = "ok" => r.finished /\ r.code = "zero"
  /\ r.st = "success" => r.file \in {DumpSize, NoFile}

(* What is restored is a whole upload, and the database has no more of it than was sent. *)
RestoreFits ==
  /\ restore.sent <= DumpSize
  /\ restore.st \in {"checked", "restoring"} => restore.temp = DumpSize
  /\ restore.st = "restored" => database.chunks = DumpSize

Database == [chunks : 0..DumpSize, old : BOOLEAN]

BackupsInv == BackupsTypeOK /\ (\A b \in Backup : DumpFits(backups[b])) /\ copies \subseteq {DumpSize} /\ RestoreFits

(* The records of a backup and of a restore that have not begun. *)
LEMMA NoBackupTypes ==
  /\ NoBackup \in BackupRow /\ NoUpload \in RestoreRequest
  /\ 0 \in 0..NoFile /\ NoFile \in 0..NoFile /\ DumpSize \in 0..NoFile /\ 0 \in 0..DumpSize
       /\ DumpSize \in 0..DumpSize
  /\ NoFile = DumpSize + 1
<1>1. /\ 0 \in 0..NoFile /\ NoFile \in 0..NoFile /\ DumpSize \in 0..NoFile /\ 0 \in 0..DumpSize
           /\ DumpSize \in 0..DumpSize
      /\ NoFile = DumpSize + 1
  BY BackupsAssumption DEF NoFile
<1>. QED  BY <1>1 DEF NoBackup, NoUpload, BackupRow, RestoreRequest

(* Nothing has been dumped, copied or restored. *)
LEMMA BackupsInvInit == BackupsInit => BackupsInv
<1> SUFFICES ASSUME BackupsInit PROVE BackupsInv
  OBVIOUS
<1>1. BackupsTypeOK
  <2>1. 0 \in 0..MaxStops
    BY BackupsAssumption
  <2>. QED  BY <2>1, NoBackupTypes DEF BackupsInit, BackupsTypeOK
<1>2. \A b \in Backup : DumpFits(backups[b])
  BY DEF BackupsInit, DumpFits, NoBackup
<1>3. RestoreFits
  BY BackupsAssumption DEF BackupsInit, RestoreFits, NoUpload
<1>. QED  BY <1>1, <1>2, <1>3 DEF BackupsInv, BackupsInit

(* One backup goes on, and nothing else. *)
LEMMA BackupGoes ==
  ASSUME BackupsInv, NEW b \in Backup, NEW r \in BackupRow, SetBackup(b, r), DumpFits(r),
         UNCHANGED <<copies, restore, database, stops>>
  PROVE  BackupsInv'
<1>1. backups' \in [Backup -> BackupRow]
  BY DEF BackupsInv, BackupsTypeOK, SetBackup
<1>2. \A c \in Backup : backups'[c] = IF c = b THEN r ELSE backups[c]
  BY DEF BackupsInv, BackupsTypeOK, SetBackup
<1>3. \A c \in Backup : DumpFits(backups'[c])
  BY <1>2 DEF BackupsInv
<1>4. RestoreFits'
  BY DEF BackupsInv, RestoreFits
<1>. QED  BY <1>1, <1>3, <1>4 DEF BackupsInv, BackupsTypeOK

(* The restore goes on, and nothing else. *)
LEMMA RestoreGoes ==
  ASSUME BackupsInv, restore' \in RestoreRequest, database' \in Database, RestoreFits',
           UNCHANGED <<backups, copies, stops>>
  PROVE  BackupsInv'
BY DEF BackupsInv, BackupsTypeOK, Database

(* A step of a dump keeps the invariant. *)
LEMMA DumpStep ==
  ASSUME BackupsInv, NEW b \in Backup,
         \/ CreateBackup(b) \/ DumpChunk(b) \/ FileChunk(b) \/ DumpEnds(b) \/ FileFinished(b) \/ ChildClosed(b)
              \/ StreamFails(b)
         \/ DumpSucceeds(b) \/ DumpFails(b) \/ DeleteFile(b) \/ DeleteRow(b)
  PROVE  BackupsInv'
<1> DEFINE r == backups[b]
<1>0. r \in BackupRow /\ DumpFits(r) /\ r.out \in Nat /\ r.out <= DumpSize /\ r.file \in Nat /\ DumpSize \in Nat
  <2>1. r \in BackupRow /\ DumpFits(r)
    BY DEF BackupsInv, BackupsTypeOK
  <2>2. \A n \in 0..DumpSize : n \in Nat /\ n <= DumpSize
    BY BackupsAssumption
  <2>3. \A n \in 0..NoFile : n \in Nat
    BY NoBackupTypes, BackupsAssumption
  <2>. QED  BY <2>1, <2>2, <2>3, BackupsAssumption DEF BackupRow
<1>1. CASE CreateBackup(b)
  <2> DEFINE h == [NoBackup EXCEPT !.st = "running", !.file = 0, !.child = "on"]
  <2>1. h \in BackupRow
    BY NoBackupTypes DEF BackupRow
  <2>2. DumpFits(h)
    BY DEF NoBackup, DumpFits
  <2>. QED  BY <1>1, <2>1, <2>2, BackupGoes DEF CreateBackup
<1>2. CASE DumpChunk(b)
  <2> DEFINE h == [r EXCEPT !.out = @ + 1]
  <2>1. r.out + 1 \in 0..DumpSize
    BY <1>0, <1>2 DEF DumpChunk
  <2>2. /\ h \in BackupRow /\ h.out = r.out + 1 /\ h.st = r.st /\ h.settled = r.settled /\ h.file = r.file
             /\ h.child = r.child
        /\ h.finished = r.finished /\ h.code = r.code
    BY <1>0, <2>1 DEF BackupRow
  <2> HIDE DEF h
  <2>3. DumpFits(h)
    BY <1>0, <1>2, <2>2 DEF DumpFits, DumpChunk, Dumping
  <2>. QED  BY <1>2, <2>2, <2>3, BackupGoes DEF DumpChunk, h
<1>b. CASE FileChunk(b)
  <2> DEFINE h == [r EXCEPT !.file = @ + 1]
  <2>1. r.file + 1 \in 0..NoFile
    BY <1>0, <1>b, NoBackupTypes DEF FileChunk
  <2>2. /\ h \in BackupRow /\ h.file = r.file + 1 /\ h.st = r.st /\ h.settled = r.settled /\ h.out = r.out
             /\ h.child = r.child
        /\ h.finished = r.finished /\ h.code = r.code
    BY <1>0, <2>1 DEF BackupRow
  <2> HIDE DEF h
  <2>3. DumpFits(h)
    BY <1>0, <1>b, <2>2 DEF DumpFits, FileChunk, Dumping
  <2>. QED  BY <1>b, <2>2, <2>3, BackupGoes DEF FileChunk, h
<1>3. CASE DumpEnds(b)
  <2>1. PICK k \in {"zero", "error"} : (k = "zero" => r.out = DumpSize) /\ SetBackup(b, [r EXCEPT !.child = k])
    BY <1>3 DEF DumpEnds
  <2> DEFINE h == [r EXCEPT !.child = k]
  <2>2. /\ h \in BackupRow /\ h.child = k /\ h.st = r.st /\ h.settled = r.settled /\ h.out = r.out /\ h.file = r.file
        /\ h.finished = r.finished /\ h.code = r.code
    BY <1>0 DEF BackupRow
  <2> HIDE DEF h
  <2>3. DumpFits(h)
    BY <1>0, <1>3, <2>1, <2>2 DEF DumpFits, DumpEnds, Dumping, BackupRow
  <2>. QED  BY <1>3, <2>1, <2>2, <2>3, BackupGoes DEF DumpEnds, h
<1>4. CASE FileFinished(b)
  <2> DEFINE h == [r EXCEPT !.finished = TRUE]
             g == [h EXCEPT !.settled = IF Resolves(h) THEN "ok" ELSE "no"]
  <2>1. /\ h \in BackupRow /\ h.finished = TRUE /\ h.st = r.st /\ h.settled = r.settled /\ h.out = r.out
             /\ h.file = r.file
        /\ h.child = r.child /\ h.code = r.code
    BY <1>0 DEF BackupRow
  <2>2. SetBackup(b, g)
    BY <1>4 DEF FileFinished, AfterFinish, Settle
  <2> HIDE DEF h
  <2>3. /\ g \in BackupRow /\ g.finished = h.finished /\ g.st = h.st /\ g.out = h.out /\ g.file = h.file
             /\ g.child = h.child
        /\ g.code = h.code /\ g.settled = IF Resolves(h) THEN "ok" ELSE "no"
    BY <2>1 DEF BackupRow
  <2> HIDE DEF g
  <2>4. DumpFits(g)
    BY <1>0, <1>4, <2>1, <2>3 DEF DumpFits, FileFinished, Dumping, Resolves
  <2>. QED  BY <1>4, <2>2, <2>3, <2>4, BackupGoes DEF FileFinished
<1>5. CASE ChildClosed(b)
  <2> DEFINE h == [r EXCEPT !.code = r.child]
             g == IF h.code = "error" THEN [h EXCEPT !.settled = "failed"]
               ELSE [h EXCEPT !.settled = IF Resolves(h) THEN "ok" ELSE "no"]
  <2>1. r.child \in {"zero", "error"} /\ r.st = "running" /\ r.settled = "no"
    BY <1>0, <1>5 DEF ChildClosed, BackupRow, DumpFits, Dumping
  <2>2. /\ h \in BackupRow /\ h.code = r.child /\ h.st = r.st /\ h.settled = r.settled /\ h.out = r.out
             /\ h.file = r.file
        /\ h.child = r.child /\ h.finished = r.finished
    BY <1>0, <2>1 DEF BackupRow
  <2>3. SetBackup(b, g)
    BY <1>5 DEF ChildClosed, Settle
  <2> HIDE DEF h
  <2>4. /\ g \in BackupRow /\ g.finished = h.finished /\ g.st = h.st /\ g.out = h.out /\ g.file = h.file
             /\ g.child = h.child
        /\ g.code = h.code /\ g.settled = IF h.code = "error" THEN "failed" ELSE IF Resolves(h) THEN "ok" ELSE "no"
    BY <2>2 DEF BackupRow
  <2> HIDE DEF g
  <2>5. DumpFits(g)
    BY <1>0, <2>1, <2>2, <2>4 DEF DumpFits, Resolves
  <2>. QED  BY <1>5, <2>3, <2>4, <2>5, BackupGoes DEF ChildClosed
<1>6. CASE StreamFails(b)
  <2> DEFINE h == [r EXCEPT !.settled = "failed"]
  <2>1. /\ h \in BackupRow /\ h.settled = "failed" /\ h.st = r.st /\ h.out = r.out /\ h.file = r.file
        /\ h.child = r.child /\ h.finished = r.finished /\ h.code = r.code
    BY <1>0 DEF BackupRow
  <2>2. SetBackup(b, h)
    BY <1>6 DEF StreamFails
  <2> HIDE DEF h
  <2>3. DumpFits(h)
    BY <1>0, <1>6, <2>1 DEF DumpFits, StreamFails, Dumping
  <2>. QED  BY <1>6, <2>1, <2>2, <2>3, BackupGoes DEF StreamFails
<1>7. CASE DumpSucceeds(b)
  <2> DEFINE h == [r EXCEPT !.st = "success"]
  <2>1. h \in BackupRow /\ h.st = "success" /\ h.file = r.file
    BY <1>0 DEF BackupRow
  <2>2. SetBackup(b, h) /\ r.st = "running" /\ r.settled = "ok"
    BY <1>7 DEF DumpSucceeds
  <2> HIDE DEF h
  <2>3. r.file = DumpSize
    BY <1>0, <2>2 DEF DumpFits
  <2>4. DumpFits(h)
    BY <2>1, <2>3 DEF DumpFits
  <2>. QED  BY <1>7, <2>1, <2>2, <2>4, BackupGoes DEF DumpSucceeds
<1>8. CASE DumpFails(b) \/ DeleteRow(b)
  <2>0. UNCHANGED <<copies, restore, database, stops>>
    BY <1>8 DEF DumpFails, DeleteRow
  <2>1. CASE \E s \in {"failed", "gone"} : SetBackup(b, [NoBackup EXCEPT !.st = s])
    <3>1. PICK s \in {"failed", "gone"} : SetBackup(b, [NoBackup EXCEPT !.st = s])
      BY <2>1
    <3> DEFINE h == [NoBackup EXCEPT !.st = s]
    <3>2. h \in BackupRow
      BY NoBackupTypes DEF BackupRow
    <3>3. DumpFits(h)
      BY DEF NoBackup, DumpFits
    <3>. QED  BY <2>0, <3>1, <3>2, <3>3, BackupGoes
  <2>2. CASE \E kept \in {NoFile, r.file} : CatchEnds(b, kept)
    <3>1. PICK kept \in {NoFile, r.file} : CatchEnds(b, kept)
      BY <2>2
    <3> DEFINE h == [NoBackup EXCEPT !.st = "running", !.file = kept, !.settled = "stuck"]
    <3>2. kept \in 0..NoFile
      BY <1>0, NoBackupTypes DEF BackupRow
    <3>3. h \in BackupRow /\ h.st = "running" /\ h.settled = "stuck"
      BY <3>2, NoBackupTypes DEF BackupRow
    <3>4. SetBackup(b, h)
      BY <3>1 DEF CatchEnds
    <3> HIDE DEF h
    <3>5. DumpFits(h)
      BY <3>3 DEF DumpFits
    <3>. QED  BY <2>0, <3>3, <3>4, <3>5, BackupGoes
  <2>. QED  BY <1>8, <2>1, <2>2 DEF DumpFails, DeleteRow
<1>9. CASE DeleteFile(b)
  <2> DEFINE h == [r EXCEPT !.file = NoFile, !.removing = TRUE]
  <2>1. h \in BackupRow /\ h.st = r.st /\ h.file = NoFile
    BY <1>0, NoBackupTypes DEF BackupRow
  <2>2. SetBackup(b, h) /\ r.st # "running"
    BY <1>9 DEF DeleteFile
  <2> HIDE DEF h
  <2>3. DumpFits(h)
    BY <2>1, <2>2 DEF DumpFits
  <2>. QED  BY <1>9, <2>1, <2>2, <2>3, BackupGoes DEF DeleteFile
<1>. QED  BY <1>1, <1>2, <1>b, <1>3, <1>4, <1>5, <1>6, <1>7, <1>8, <1>9

(* A step of a restore keeps the invariant. *)
LEMMA RestoreStep ==
  ASSUME BackupsInv,
         \/ UploadBegins \/ UploadChunk \/ UploadFinishes \/ RestoreRefused
         \/ RestoreBegins \/ RestoreChunk \/ Restored \/ SourceFails \/ RestoreEnds \/ RestoreAnswered
  PROVE  BackupsInv'
<1> DEFINE r == restore
<1>0. /\ r \in RestoreRequest /\ RestoreFits /\ database \in Database /\ DumpSize \in Nat
      /\ r.temp \in Nat /\ r.sent \in Nat /\ database.chunks \in Nat
  <2>1. \A n \in 0..NoFile : n \in Nat
    BY NoBackupTypes, BackupsAssumption
  <2>2. \A n \in 0..DumpSize : n \in Nat
    BY BackupsAssumption
  <2>. QED  BY <2>1, <2>2, BackupsAssumption DEF BackupsInv, BackupsTypeOK, RestoreRequest, Database
<1>a. ASSUME restore' = NoUpload, UNCHANGED <<backups, copies, database, stops>> PROVE BackupsInv'
  <2>1. RestoreFits'
    BY <1>0, <1>a DEF RestoreFits, NoUpload
  <2>. QED  BY <1>0, <1>a, <2>1, NoBackupTypes, RestoreGoes
<1>1. CASE UploadBegins
  <2>1. [NoUpload EXCEPT !.st = "upload", !.temp = 0] \in RestoreRequest
    BY NoBackupTypes DEF RestoreRequest
  <2>2. RestoreFits'
    BY <1>0, <1>1 DEF UploadBegins, RestoreFits, NoUpload
  <2>. QED  BY <1>0, <1>1, <2>1, <2>2, RestoreGoes DEF UploadBegins
<1>2. CASE UploadChunk
  <2> DEFINE h == [r EXCEPT !.temp = @ + 1]
  <2>1. r.temp + 1 \in 0..NoFile
    BY <1>0, <1>2, NoBackupTypes DEF UploadChunk
  <2>2. h \in RestoreRequest /\ h.st = r.st /\ h.sent = r.sent
    BY <1>0, <2>1 DEF RestoreRequest
  <2>3. restore' = h /\ UNCHANGED <<backups, copies, database, stops>> /\ r.st = "upload"
    BY <1>2 DEF UploadChunk
  <2> HIDE DEF h
  <2>4. RestoreFits'
    BY <1>0, <2>2, <2>3 DEF RestoreFits
  <2>. QED  BY <1>0, <2>2, <2>3, <2>4, RestoreGoes
<1>3. CASE UploadFinishes
  <2> DEFINE h == [r EXCEPT !.st = "checked"]
  <2>1. h \in RestoreRequest /\ h.st = "checked" /\ h.temp = r.temp /\ h.sent = r.sent
    BY <1>0 DEF RestoreRequest
  <2>2. restore' = h /\ UNCHANGED <<backups, copies, database, stops>> /\ r.temp = DumpSize
    BY <1>3 DEF UploadFinishes, BodyComplete
  <2> HIDE DEF h
  <2>3. RestoreFits'
    BY <1>0, <2>1, <2>2 DEF RestoreFits
  <2>. QED  BY <1>0, <2>1, <2>2, <2>3, RestoreGoes
<1>4. CASE RestoreRefused \/ SourceFails \/ RestoreAnswered
  BY <1>4, <1>a DEF RestoreRefused, SourceFails, RestoreAnswered
<1>5. CASE RestoreBegins
  <2> DEFINE h == [r EXCEPT !.st = "restoring"]
  <2>1. h \in RestoreRequest /\ h.st = "restoring" /\ h.temp = r.temp /\ h.sent = r.sent
    BY <1>0 DEF RestoreRequest
  <2>2. restore' = h /\ UNCHANGED <<backups, copies, stops>> /\ r.st = "checked" /\ database' \in Database
    BY <1>5, NoBackupTypes DEF RestoreBegins, Database
  <2> HIDE DEF h
  <2>3. RestoreFits'
    BY <1>0, <2>1, <2>2 DEF RestoreFits
  <2>. QED  BY <2>1, <2>2, <2>3, RestoreGoes
<1>6. CASE RestoreChunk
  <2>1. r.st = "restoring" /\ UNCHANGED <<backups, copies, database, stops>> /\ r.temp = DumpSize
    BY <1>0, <1>6 DEF RestoreChunk, RestoreFits
  <2> DEFINE h == [r EXCEPT !.sent = @ + 1]
  <2>2. r.sent + 1 \in 0..NoFile /\ r.sent + 1 <= DumpSize
    BY <1>0, <1>6, <2>1, NoBackupTypes DEF RestoreChunk
  <2>3. h \in RestoreRequest /\ h.st = r.st /\ h.temp = r.temp /\ h.sent = r.sent + 1
    BY <1>0, <2>2 DEF RestoreRequest
  <2>4. restore' = h
    BY <1>6 DEF RestoreChunk
  <2> HIDE DEF h
  <2>5. RestoreFits'
    BY <1>0, <2>1, <2>2, <2>3, <2>4 DEF RestoreFits
  <2>. QED  BY <1>0, <2>1, <2>3, <2>4, <2>5, RestoreGoes
<1>b. CASE Restored
  <2>1. /\ r.st = "restoring" /\ UNCHANGED <<backups, copies, restore, stops>> /\ database.chunks < r.sent
        /\ database' = [database EXCEPT !.chunks = @ + 1] /\ r.sent <= DumpSize
    BY <1>0, <1>b DEF Restored, RestoreFits
  <2>2. database.chunks + 1 \in 0..DumpSize
    BY <1>0, <2>1
  <2>3. database' \in Database
    BY <1>0, <2>1, <2>2 DEF Database
  <2>4. RestoreFits'
    BY <1>0, <2>1 DEF RestoreFits
  <2>. QED  BY <1>0, <2>1, <2>3, <2>4, RestoreGoes
<1>7. CASE RestoreEnds
  <2>1. CASE restore' = NoUpload
    BY <1>7, <1>a, <2>1 DEF RestoreEnds
  <2>2. CASE restore' # NoUpload
    <3> DEFINE h == [NoUpload EXCEPT !.st = "restored"]
    <3>1. h \in RestoreRequest /\ h.st = "restored" /\ h.sent = 0
      <4>1. h \in RestoreRequest
        BY NoBackupTypes DEF RestoreRequest
      <4>. QED  BY <4>1 DEF NoUpload
    <3>2. restore' = h /\ database.chunks = r.sent /\ r.sent = r.temp /\ r.st = "restoring"
      BY <1>0, <1>7, <2>2 DEF RestoreEnds, RestoreFits
    <3> HIDE DEF h
    <3>3. RestoreFits'
      BY <1>0, <1>7, <3>1, <3>2 DEF RestoreEnds, RestoreFits
    <3>. QED  BY <1>0, <1>7, <3>1, <3>2, <3>3, RestoreGoes DEF RestoreEnds
  <2>. QED  BY <2>1, <2>2
<1>. QED  BY <1>1, <1>2, <1>3, <1>4, <1>5, <1>6, <1>b, <1>7

(* A step keeps the invariant: what is uploaded to R2 is a whole dump, and a stop of the server leaves no *)
(* call that could go on.                                                                                 *)
LEMMA BackupsInvStep == BackupsInv /\ [BackupsNext]_backupsVars => BackupsInv'
<1> SUFFICES ASSUME BackupsInv, [BackupsNext]_backupsVars PROVE BackupsInv'
  OBVIOUS
<1>1. ASSUME NEW b \in Backup, UploadToR2(b) PROVE BackupsInv'
  <2>1. backups[b].file \in {DumpSize, NoFile}
    BY <1>1 DEF UploadToR2, BackupsInv, DumpFits
  <2>2. copies' \subseteq {DumpSize} /\ copies' \subseteq 0..DumpSize
          /\ UNCHANGED <<backups, restore, database, stops>>
    BY <1>1, <2>1, NoBackupTypes DEF UploadToR2, BackupsInv
  <2>. QED  BY <2>2 DEF BackupsInv, BackupsTypeOK, RestoreFits
<1>2. CASE ServerStops
  <2>1. stops' \in 0..MaxStops
    <3>1. stops \in 0..MaxStops /\ stops < MaxStops /\ stops' = stops + 1
      BY <1>2 DEF ServerStops, BackupsInv, BackupsTypeOK
    <3>. QED  BY <3>1, BackupsAssumption
  <2>2. ASSUME NEW b \in Backup PROVE backups'[b] \in BackupRow /\ DumpFits(backups'[b])
    <3> DEFINE r == backups[b]
               h == [r EXCEPT !.child = "off", !.removing = FALSE,
                     !.settled = IF r.st = "running" THEN "lost" ELSE r.settled]
    <3>1. r \in BackupRow /\ DumpFits(r)
      BY DEF BackupsInv, BackupsTypeOK
    <3>2. h \in BackupRow /\ h.st = r.st /\ h.file = r.file /\ h.settled = IF r.st = "running" THEN "lost"
            ELSE r.settled
      BY <3>1 DEF BackupRow
    <3>3. backups'[b] = h
      BY <1>2 DEF ServerStops
    <3> HIDE DEF h
    <3>4. DumpFits(h)
      BY <3>1, <3>2 DEF DumpFits
    <3>. QED  BY <3>2, <3>3, <3>4
  <2>3. restore' \in RestoreRequest /\ RestoreFits'
    <3>1. [NoUpload EXCEPT !.temp = restore.temp] \in RestoreRequest
      BY NoBackupTypes DEF BackupsInv, BackupsTypeOK, RestoreRequest
    <3> DEFINE h == [NoUpload EXCEPT !.temp = restore.temp]
    <3>2. h.st = "idle" /\ h.sent = 0
      BY DEF NoUpload
    <3>3. restore' = h
      BY <1>2 DEF ServerStops
    <3> HIDE DEF h
    <3>4. RestoreFits'
      BY <3>2, <3>3, BackupsAssumption DEF RestoreFits
    <3>. QED  BY <3>1, <3>3, <3>4 DEF h
  <2>4. backups' \in [Backup -> BackupRow] /\ UNCHANGED <<copies, database>>
    BY <1>2, <2>2 DEF ServerStops
  <2>. QED  BY <2>1, <2>2, <2>3, <2>4 DEF BackupsInv, BackupsTypeOK
<1>3. CASE UNCHANGED backupsVars
  BY <1>3 DEF backupsVars, BackupsInv, BackupsTypeOK, RestoreFits
<1>. QED  BY <1>1, <1>2, <1>3, DumpStep, RestoreStep DEF BackupsNext

(* The invariant holds in every state. *)
THEOREM BackupsInvariant == BackupsSpec => []BackupsInv
<1>. QED  BY BackupsInvInit, BackupsInvStep, PTL DEF BackupsSpec

(* What is kept, uploaded or restored as a success is whole. *)
THEOREM DumpsStayWhole == BackupsSpec => []DumpsAreWhole
<1>1. BackupsInv => DumpsAreWhole
  BY DEF BackupsInv, DumpFits, RestoreFits, DumpsAreWhole
<1>. QED  BY <1>1, BackupsInvariant, PTL

-----------------------------------------------------------------------------
(* ViewLoads *)

(* A read under way that is shared has been sent; what was read is no newer than the resource. *)
ReadsFit ==
  /\ inFlight # 0 => requests[inFlight].at # "none"
  /\ \A i \in Slot : requests[i].value <= served

(* Reads were shared anew when the mutation was sent, so that a read shared since has seen at least what *)
(* was there then; the read that the refresh awaits is under way and has seen as much as it should.      *)
Due(m) == IF m.joined THEN m.sent ELSE m.applied
MutationFits ==
  /\ mutation.at \in {"sent", "done", "refresh"} => mutation.sent <= served
  /\ mutation.at \in {"sent", "done"} /\ inFlight # 0 /\ requests[inFlight].at = "read"
       => mutation.sent <= requests[inFlight].value
  /\ mutation.at \in {"done", "refresh"} => mutation.applied <= served
  /\ mutation.at = "refresh" => mutation.read \in Slot /\ requests[mutation.read].at # "none"
  /\ mutation.at = "refresh" /\ requests[mutation.read].at = "read" => Due(mutation) <= requests[mutation.read].value
  /\ mutation.at = "shown" => Due(mutation) <= mutation.value

ViewsInv == ViewsTypeOK /\ ReadsFit /\ MutationFits

(* Nothing is read, loaded or changed yet. *)
LEMMA ViewsInvInit == ViewsInit => ViewsInv
<1> SUFFICES ASSUME ViewsInit PROVE ViewsInv
  OBVIOUS
<1>1. NoRequest \in ReadRequest /\ NoMutation \in FollowedMutation /\ 0 \in 0..MaxServed /\ 0 \in 0..0
  BY ViewsAssumption DEF NoRequest, NoMutation, ReadRequest, FollowedMutation
<1>2. ViewsTypeOK
  <2>1. [view |-> FirstView, user |-> FALSE, visible |-> TRUE]
          \in [view : View \cup {Elsewhere}, user : BOOLEAN, visible : BOOLEAN]
    BY ViewsAssumption
  <2>2. viewLoads \in [View -> {0} \cup Slot] /\ age \in [View -> {"fresh", "recent", "old"}]
          /\ requests \in [Slot -> ReadRequest]
    BY <1>1 DEF ViewsInit
  <2>. QED  BY <1>1, <2>1, <2>2 DEF ViewsInit, ViewsTypeOK
<1>3. \A i \in Slot : requests[i].value = 0
  BY DEF ViewsInit, NoRequest
<1>4. ReadsFit /\ MutationFits
  BY <1>3 DEF ViewsInit, ReadsFit, MutationFits, NoMutation
<1>. QED  BY <1>2, <1>4 DEF ViewsInv

(* The parts of the state, and the numbers among them. *)
LEMMA ViewsParts ==
  ASSUME ViewsTypeOK
  PROVE  /\ served \in Nat /\ served <= MaxServed /\ shownRows \in Nat /\ shownRows <= served
         /\ inFlight \in {0} \cup Slot /\ 0 \notin Slot
         /\ requests \in [Slot -> ReadRequest] /\ mutation \in FollowedMutation
         /\ \A i \in Slot : requests[i] \in ReadRequest /\ requests[i].value \in Nat
         /\ mutation.sent \in Nat /\ mutation.applied \in Nat /\ mutation.value \in Nat
         /\ mutation.sent \in 0..MaxServed /\ mutation.applied \in 0..MaxServed
         /\ NoRequest \in ReadRequest /\ NoMutation \in FollowedMutation
<1>1. served \in Nat /\ served <= MaxServed /\ shownRows \in Nat /\ shownRows <= served
  BY ViewsAssumption DEF ViewsTypeOK
<1>2. \A n \in 0..MaxServed : n \in Nat
  BY ViewsAssumption
<1>3. mutation \in FollowedMutation /\ requests \in [Slot -> ReadRequest] /\ inFlight \in {0} \cup Slot
  BY DEF ViewsTypeOK
<1>4. NoRequest \in ReadRequest /\ NoMutation \in FollowedMutation
  BY ViewsAssumption DEF NoRequest, NoMutation, ReadRequest, FollowedMutation
<1>5. 0 \notin Slot
  BY DEF Slot
<1>. QED  BY <1>1, <1>2, <1>3, <1>4, <1>5 DEF ReadRequest, FollowedMutation

(* A read is shared or sent: whatever is shared has been sent, and what was read stays. *)
LEMMA ReadsGo ==
  ASSUME ViewsTypeOK, ReadsFit, NEW i \in Slot, Reads(i)
  PROVE  /\ inFlight' = i /\ requests' \in [Slot -> ReadRequest] /\ requests'[i].at # "none"
         /\ \A j \in Slot : requests'[j].value \in {0, requests[j].value}
         /\ \A j \in Slot : requests[j].at # "none" => requests'[j] = requests[j]
         /\ inFlight # 0 => inFlight = i /\ UNCHANGED requests
         /\ inFlight = 0 => requests'[i].at = "sent"
<1>1. CASE inFlight # 0
  BY <1>1, ViewsParts DEF Reads, ReadsFit
<1>2. CASE inFlight = 0
  <2>1. requests[i] = NoRequest /\ requests' = [requests EXCEPT ![i] = [NoRequest EXCEPT !.at = "sent"]]
          /\ inFlight' = i
    BY <1>2 DEF Reads
  <2>2. LET h == [NoRequest EXCEPT !.at = "sent"]
          IN h \in ReadRequest /\ h.at = "sent" /\ h.value = 0 /\ NoRequest.at = "none"
    BY ViewsParts DEF NoRequest, ReadRequest
  <2>. QED  BY <1>2, <2>1, <2>2, ViewsParts
<1>. QED  BY <1>1, <1>2

(* A load of a view that is shared or sent, or not begun, changes nothing that the mutation is about. *)
LEMMA LoadsFit ==
  ASSUME ViewsInv, NEW v \in View \cup {Elsewhere}, NEW enough,
         LoadsView(v, enough) \/ UNCHANGED <<viewLoads, requests, inFlight>>,
         UNCHANGED <<served, age, mutation, shownRows>>,
         page' \in [view : View \cup {Elsewhere}, user : BOOLEAN, visible : BOOLEAN]
  PROVE  ViewsInv'
<1>1. CASE UNCHANGED <<viewLoads, requests, inFlight>>
  BY <1>1 DEF ViewsInv, ViewsTypeOK, ReadsFit, MutationFits, Due
<1>2. ASSUME NEW i \in Slot, Reads(i), viewLoads' = [viewLoads EXCEPT ![v] = i] PROVE ViewsInv'
  <2>1. /\ inFlight' = i /\ requests' \in [Slot -> ReadRequest] /\ requests'[i].at # "none"
        /\ \A j \in Slot : requests'[j].value \in {0, requests[j].value}
        /\ \A j \in Slot : requests[j].at # "none" => requests'[j] = requests[j]
        /\ inFlight # 0 => inFlight = i /\ UNCHANGED requests
        /\ inFlight = 0 => requests'[i].at = "sent"
    BY <1>2, ReadsGo DEF ViewsInv
  <2>2. viewLoads' \in [View -> {0} \cup Slot]
    BY <1>2 DEF ViewsInv, ViewsTypeOK
  <2>3. ViewsTypeOK'
    BY <2>1, <2>2 DEF ViewsInv, ViewsTypeOK
  <2>4. ReadsFit'
    BY <2>1, ViewsParts DEF ViewsInv, ReadsFit
  <2>5. MutationFits'
    BY <2>1 DEF ViewsInv, MutationFits, Due
  <2>. QED  BY <2>3, <2>4, <2>5 DEF ViewsInv
<1>. QED  BY <1>1, <1>2 DEF LoadsView

(* A read is over: what the mutation is about stays, unless it awaited that read. *)
LEMMA OverFits ==
  ASSUME ViewsInv, NEW i \in Slot, requests[i].at = "read", Over(i), viewLoads' = LoadOver(i), UNCHANGED served,
         shownRows' \in {shownRows, requests[i].value},
         age' \in [View -> {"fresh", "recent", "old"}],
         page' \in [view : View \cup {Elsewhere}, user : BOOLEAN, visible : BOOLEAN],
         \/ ~Awaited(i) /\ UNCHANGED mutation
         \/ mutation' = NoMutation
         \/ Awaited(i) /\ mutation' = [mutation EXCEPT !.at = "shown", !.value = requests[i].value]
  PROVE  ViewsInv'
<1>1. /\ ReadsFit /\ MutationFits /\ requests' = [requests EXCEPT ![i] = NoRequest]
      /\ inFlight' = (IF inFlight = i THEN 0 ELSE inFlight) /\ NoRequest.at = "none" /\ NoRequest.value = 0
  BY DEF ViewsInv, Over, NoRequest
<1>2. /\ requests' \in [Slot -> ReadRequest] /\ inFlight' \in {0} \cup Slot
      /\ \A j \in Slot : requests'[j] = IF j = i THEN NoRequest ELSE requests[j]
  BY <1>1, ViewsParts DEF ViewsInv
<1>3. viewLoads' \in [View -> {0} \cup Slot]
  BY DEF ViewsInv, ViewsTypeOK, LoadOver
<1>4. ReadsFit'
  BY <1>1, <1>2, ViewsParts DEF ViewsInv, ReadsFit
<1>5. mutation' \in FollowedMutation
  BY ViewsParts DEF ViewsInv, FollowedMutation, ReadRequest
<1>6. MutationFits'
  <2>1. CASE ~Awaited(i) /\ UNCHANGED mutation
    BY <1>1, <1>2, <2>1, ViewsParts DEF ViewsInv, MutationFits, Due, Awaited
  <2>2. CASE mutation' = NoMutation
    BY <2>2 DEF MutationFits, NoMutation
  <2>3. CASE Awaited(i) /\ mutation' = [mutation EXCEPT !.at = "shown", !.value = requests[i].value]
    <3>1. /\ mutation'.at = "shown" /\ mutation'.value = requests[i].value /\ mutation'.sent = mutation.sent
          /\ mutation'.applied = mutation.applied /\ mutation'.joined = mutation.joined
      BY <2>3, ViewsParts DEF ViewsInv, FollowedMutation
    <3>2. Due(mutation) <= requests[i].value
      BY <1>1, <2>3 DEF MutationFits, Awaited
    <3>. QED  BY <3>1, <3>2 DEF MutationFits, Due
  <2>. QED  BY <2>1, <2>2, <2>3
<1>7. shownRows' \in 0..served
  BY <1>1, ViewsParts DEF ViewsInv, ReadsFit
<1>8. ViewsTypeOK'
  BY <1>2, <1>3, <1>5, <1>7 DEF ViewsInv, ViewsTypeOK
<1>. QED  BY <1>4, <1>6, <1>8 DEF ViewsInv

(* The resource changes, and nothing that was read does. *)
LEMMA ServedTypes ==
  ASSUME ViewsTypeOK, Changes
  PROVE  served' = served + 1 /\ served' \in 0..MaxServed /\ shownRows \in 0..served'
BY ViewsParts, ViewsAssumption DEF Changes

(* A step keeps the invariant. *)
LEMMA ViewsInvStep == ViewsInv /\ [ViewsNext]_viewVars => ViewsInv'
<1> SUFFICES ASSUME ViewsInv, [ViewsNext]_viewVars PROVE ViewsInv'
  OBVIOUS
<1> DEFINE PageType == [view : View \cup {Elsewhere}, user : BOOLEAN, visible : BOOLEAN]
<1>0. /\ ViewsTypeOK /\ ReadsFit /\ MutationFits /\ page \in PageType /\ page.view \in View \cup {Elsewhere}
      /\ viewLoads \in [View -> {0} \cup Slot] /\ age \in [View -> {"fresh", "recent", "old"}]
  BY DEF ViewsInv, ViewsTypeOK
<1>a. \A b \in BOOLEAN : [page EXCEPT !.user = b] \in PageType /\ [page EXCEPT !.visible = b] \in PageType
  BY <1>0
<1>1. CASE SignIn
  <2>1. page' \in PageType
    BY <1>1, <1>a DEF SignIn
  <2>. QED  BY <1>0, <1>1, <2>1, LoadsFit DEF SignIn, Begins
<1>2. CASE SignOut
  <2>1. page' \in PageType
    BY <1>2, <1>a DEF SignOut
  <2>2. ViewsTypeOK'
    BY <1>0, <1>2, <2>1 DEF SignOut, Begins, ViewsTypeOK
  <2>. QED  BY <1>0, <1>2, <2>2 DEF SignOut, Begins, ViewsInv, ReadsFit, MutationFits, Due
<1>3. ASSUME NEW v \in View \cup {Elsewhere}, OpenView(v) PROVE ViewsInv'
  <2>1. page' \in PageType
    BY <1>0, <1>3 DEF OpenView
  <2>. QED  BY <1>3, <2>1, LoadsFit DEF OpenView, Begins
<1>4. CASE HideWindow
  <2>1. page' \in PageType
    BY <1>4, <1>a DEF HideWindow
  <2>. QED  BY <1>0, <1>4, <2>1, LoadsFit DEF HideWindow, Begins
<1>5. CASE ShowWindow
  <2>1. page' \in PageType
    BY <1>5, <1>a DEF ShowWindow
  <2>. QED  BY <1>0, <1>5, <2>1, LoadsFit DEF ShowWindow, Begins
<1>6. CASE Tick \/ refreshCurrentView
  <2>1. LoadsView(page.view, NoAge) /\ UNCHANGED page /\ Begins
    BY <1>6 DEF Tick, refreshCurrentView
  <2>. QED  BY <1>0, <2>1, LoadsFit DEF Begins
<1>7. ASSUME NEW v \in View, TimeGoesBy(v) PROVE ViewsInv'
  <2>1. age' \in [View -> {"fresh", "recent", "old"}]
    BY <1>0, <1>7 DEF TimeGoesBy
  <2>. QED  BY <1>0, <1>7, <2>1 DEF TimeGoesBy, ViewsInv, ViewsTypeOK, ReadsFit, MutationFits, Due
<1>8. ASSUME NEW i \in Slot, ServerReads(i) PROVE ViewsInv'
  <2>1. /\ requests' = [requests EXCEPT ![i] = [at |-> "read", value |-> served]]
        /\ UNCHANGED <<served, inFlight, viewLoads, age, page, mutation, shownRows>>
    BY <1>8 DEF ServerReads
  <2>2. [at |-> "read", value |-> served] \in ReadRequest
    BY <1>0 DEF ViewsTypeOK, ReadRequest
  <2>3. /\ requests' \in [Slot -> ReadRequest]
        /\ \A j \in Slot : requests'[j] = IF j = i THEN [at |-> "read", value |-> served] ELSE requests[j]
    BY <1>0, <2>1, <2>2, ViewsParts
  <2>4. ReadsFit'
    BY <1>0, <2>1, <2>3, ViewsParts DEF ReadsFit
  <2>5. MutationFits'
    BY <1>0, <2>1, <2>3, ViewsParts DEF MutationFits, Due
  <2>6. ViewsTypeOK'
    BY <1>0, <2>1, <2>3 DEF ViewsTypeOK
  <2>. QED  BY <2>4, <2>5, <2>6 DEF ViewsInv
<1>9. ASSUME NEW i \in Slot, RowsArrive(i) PROVE ViewsInv'
  <2>1. age' \in [View -> {"fresh", "recent", "old"}]
    BY <1>0, <1>9 DEF RowsArrive
  <2>2. shownRows' \in {shownRows, requests[i].value}
    BY <1>9 DEF RowsArrive
  <2>. QED  BY <1>0, <1>9, <2>1, <2>2, OverFits DEF RowsArrive
<1>10. ASSUME NEW i \in Slot, Fails(i) PROVE ViewsInv'
  <2>1. PICK refused \in BOOLEAN : page' = [page EXCEPT !.user = page.user /\ ~refused]
    BY <1>10 DEF Fails
  <2>2. (page.user /\ ~refused) \in BOOLEAN
    OBVIOUS
  <2>3. page' \in PageType
    BY <1>a, <2>1, <2>2
  <2>. QED  BY <1>0, <1>10, <2>3, OverFits DEF Fails
<1>11. CASE SomebodyChanges
  <2>1. ViewsTypeOK'
    BY <1>0, <1>11, ServedTypes DEF SomebodyChanges, ViewsTypeOK
  <2>2. ReadsFit'
    BY <1>0, <1>11, ServedTypes, ViewsParts DEF SomebodyChanges, ReadsFit
  <2>3. MutationFits'
    BY <1>0, <1>11, ServedTypes, ViewsParts DEF SomebodyChanges, MutationFits, Due
  <2>. QED  BY <2>1, <2>2, <2>3 DEF ViewsInv
<1>12. CASE Mutate
  <2> DEFINE m == [NoMutation EXCEPT !.at = "sent", !.sent = served]
  <2>1. m \in FollowedMutation /\ m.at = "sent" /\ m.sent = served
    BY <1>0, ViewsParts DEF FollowedMutation, ViewsTypeOK
  <2>2. mutation' = m /\ inFlight' = 0 /\ UNCHANGED <<served, requests, viewLoads, age, page, shownRows>>
    BY <1>12 DEF Mutate, SharedAfter
  <2> HIDE DEF m
  <2>3. ViewsTypeOK'
    BY <1>0, <2>1, <2>2 DEF ViewsTypeOK
  <2>4. MutationFits'
    BY <1>0, <2>1, <2>2, ViewsParts DEF MutationFits
  <2>. QED  BY <1>0, <2>2, <2>3, <2>4 DEF ViewsInv, ReadsFit
<1>13. CASE OtherMutation
  <2>1. inFlight' = 0 /\ UNCHANGED <<served, requests, viewLoads, age, page, mutation, shownRows>>
    BY <1>13 DEF OtherMutation, SharedAfter
  <2>. QED  BY <1>0, <2>1 DEF ViewsInv, ViewsTypeOK, ReadsFit, MutationFits, Due
<1>14. CASE ServerMutates
  <2> DEFINE m == [mutation EXCEPT !.at = "done", !.applied = served + 1]
  <2>1. /\ mutation' = m /\ Changes /\ mutation.at = "sent"
        /\ UNCHANGED <<inFlight, requests, viewLoads, age, page, shownRows>>
    BY <1>14 DEF ServerMutates
  <2>2. served' = served + 1 /\ served' \in 0..MaxServed /\ shownRows \in 0..served'
    BY <1>0, <2>1, ServedTypes
  <2>3. m \in FollowedMutation /\ m.at = "done" /\ m.applied = served + 1 /\ m.sent = mutation.sent
    BY <1>0, <2>2, ViewsParts DEF FollowedMutation
  <2> HIDE DEF m
  <2>4. ViewsTypeOK'
    BY <1>0, <2>1, <2>2, <2>3 DEF ViewsTypeOK
  <2>5. MutationFits'
    BY <1>0, <2>1, <2>2, <2>3, ViewsParts DEF MutationFits
  <2>6. ReadsFit'
    BY <1>0, <2>1, <2>2, ViewsParts DEF ReadsFit
  <2>. QED  BY <2>4, <2>5, <2>6 DEF ViewsInv
<1>15. CASE MutationFails
  <2>1. mutation' = NoMutation /\ UNCHANGED <<served, inFlight, requests, viewLoads, age, page, shownRows>>
    BY <1>15 DEF MutationFails
  <2>2. MutationFits'
    BY <2>1 DEF MutationFits, NoMutation
  <2>. QED  BY <1>0, <2>1, <2>2, ViewsParts DEF ViewsInv, ViewsTypeOK, ReadsFit
<1>16. CASE RefreshAfterMutation
  <2>1. PICK i \in Slot : Reads(i) /\ mutation' = [mutation EXCEPT !.at = "refresh", !.read = i,
                                                   !.joined = inFlight # 0]
    BY <1>16 DEF RefreshAfterMutation
  <2>2. mutation.at = "done" /\ UNCHANGED <<served, viewLoads, age, page, shownRows>>
    BY <1>16 DEF RefreshAfterMutation
  <2>3. PICK b \in BOOLEAN : (b = TRUE <=> inFlight # 0) /\ mutation' = [mutation EXCEPT !.at = "refresh",
                                                                         !.read = i, !.joined = b]
    <3>1. (inFlight # 0) \in BOOLEAN /\ ((inFlight # 0) = TRUE <=> inFlight # 0)
      OBVIOUS
    <3>. QED  BY <2>1, <3>1, Zenon
  <2> DEFINE m == [mutation EXCEPT !.at = "refresh", !.read = i, !.joined = b]
  <2>4. m \in FollowedMutation /\ m.at = "refresh" /\ m.read = i /\ m.joined = b /\ m.sent = mutation.sent
          /\ m.applied = mutation.applied
    BY <1>0, ViewsParts DEF FollowedMutation
  <2> HIDE DEF m
  <2>5. mutation' = m
    BY <2>3 DEF m
  <2>6. /\ inFlight' = i /\ requests' \in [Slot -> ReadRequest] /\ requests'[i].at # "none"
        /\ \A j \in Slot : requests'[j].value \in {0, requests[j].value}
        /\ inFlight # 0 => inFlight = i /\ UNCHANGED requests
        /\ inFlight = 0 => requests'[i].at = "sent"
    BY <1>0, <2>1, ReadsGo
  <2>7. ViewsTypeOK'
    BY <1>0, <2>2, <2>4, <2>5, <2>6 DEF ViewsTypeOK
  <2>8. ReadsFit'
    BY <1>0, <2>2, <2>6, ViewsParts DEF ReadsFit
  <2>9. MutationFits'
    BY <1>0, <2>2, <2>3, <2>4, <2>5, <2>6 DEF MutationFits, Due
  <2>. QED  BY <2>7, <2>8, <2>9 DEF ViewsInv
<1>17. CASE UNCHANGED viewVars
  BY <1>17 DEF viewVars, ViewsInv, ViewsTypeOK, ReadsFit, MutationFits, Due
<1>. QED  BY <1>1, <1>2, <1>3, <1>4, <1>5, <1>6, <1>7, <1>8, <1>9, <1>10, <1>11, <1>12, <1>13, <1>14, <1>15, <1>16,
             <1>17 DEF ViewsNext

(* The invariant holds in every state. *)
THEOREM ViewsInvariant == ViewsSpec => []ViewsInv
<1>. QED  BY ViewsInvInit, ViewsInvStep, PTL DEF ViewsSpec

(* The refresh after a mutation shows what the mutation did, or, joining a read begun meanwhile, nothing *)
(* from before it was sent.                                                                              *)
THEOREM RefreshesFollow == ViewsSpec => []RefreshFollowsMutation
<1>1. ViewsInv => RefreshFollowsMutation
  <2> SUFFICES ASSUME ViewsInv, mutation.at = "shown"
               PROVE  mutation.value >= IF mutation.joined THEN mutation.sent ELSE mutation.applied
    BY DEF RefreshFollowsMutation
  <2>1. mutation.value \in Nat /\ mutation.sent \in Nat /\ mutation.applied \in Nat /\ Due(mutation) <= mutation.value
    BY ViewsParts DEF ViewsInv, MutationFits
  <2>. QED  BY <2>1 DEF Due
<1>. QED  BY <1>1, ViewsInvariant, PTL

-----------------------------------------------------------------------------
(* DnsView *)

(* What is on its way was asked for the client that is shown, as long as nothing was asked since; *)
(* and of a load and a fetch one was asked before the other.                                       *)
AskedForTab ==
  /\ load.at = "records" /\ load.id = latest => load.client = tab
  /\ \A r \in fetches : r.id = latest => r.client = tab
  /\ load.at # "none" => \A r \in fetches : r.id # load.id

(* An edit goes on with the rows of its client only. *)
RowsAreOwn ==
  /\ leftover \/ shown \subseteq {tab}
  /\ \A k \in DnsClient : dnsCache[k].rows \subseteq {k}
  /\ edit.base \subseteq {edit.client}

DnsInv == DnsTypeOK /\ AskedForTab /\ (crossed \/ RowsAreOwn)

(* The bound on requests is a number. *)
LEMMA FetchBound == MaxFetch \in Nat /\ 0 \in 0..MaxFetch /\ 0 <= 0
<1>1. MaxFetch \in Nat
  BY DnsAssumption
<1> QED
  BY <1>1

(* The starting state is sound. *)
LEMMA DnsInvInit == DnsInit => DnsInv
<1> SUFFICES ASSUME DnsInit PROVE DnsInv
  OBVIOUS
<1>1. DnsTypeOK
  <2>1. dnsCache \in [DnsClient -> [kept : BOOLEAN, rows : SUBSET DnsClient]]
    BY DEF DnsInit, NotKept
  <2>2. load \in PageLoad /\ load.id = 0
    <3>1. 0 \in 0..MaxFetch
      BY FetchBound
    <3> QED
      BY <3>1 DEF DnsInit, NoLoad, PageLoad
  <2>3. edit \in {NoEdit} \cup [client : DnsClient, base : SUBSET DnsClient]
    BY DEF DnsInit, NoEdit
  <2> QED
    <3>1. 0 \in 0..MaxFetch
      BY FetchBound
    <3>2. latest = 0 /\ load.id <= latest
      BY <2>2, FetchBound DEF DnsInit
    <3> QED
      BY <2>1, <2>2, <2>3, <3>1, <3>2 DEF DnsInit, DnsTypeOK
<1>2. AskedForTab
  BY DEF DnsInit, NoLoad, AskedForTab
<1>3. RowsAreOwn
  BY DEF DnsInit, NotKept, NoEdit, RowsAreOwn
<1> QED
  BY <1>1, <1>2, <1>3 DEF DnsInv

(* Requests are numbered in the order they were asked. *)
LEMMA RequestNumbers ==
  ASSUME DnsTypeOK
  PROVE  /\ latest \in Nat /\ 0 <= latest /\ latest <= MaxFetch /\ load.id \in Nat /\ load.id <= latest
         /\ \A r \in fetches : r.id \in Nat /\ r.id <= latest
         /\ latest < MaxFetch => latest + 1 \in 0..MaxFetch /\ latest + 1 \in 1..MaxFetch
<1>1. latest \in 0..MaxFetch /\ load.id \in 0..MaxFetch /\ load.id <= latest
  BY DEF DnsTypeOK, PageLoad
<1>2. \A r \in fetches : r.id \in 1..MaxFetch /\ r.id <= latest
  BY DEF DnsTypeOK, RecordFetch
<1> QED
  BY <1>1, <1>2, FetchBound

(* A load of the page starts: no fetch on its way has the number it asks with. *)
LEMMA LoadStarts ==
  ASSUME DnsTypeOK, AskedForTab, StartLoad, fetches' = fetches, load.at = "none"
  PROVE  /\ latest' \in 0..MaxFetch /\ load' \in PageLoad /\ load'.id <= latest'
         /\ \A r \in fetches' : r.id <= latest'
         /\ load'.at = "lists"
         /\ \A r \in fetches' : r.id # latest' /\ r.id # load'.id
<1>1. latest + 1 \in 0..MaxFetch
  BY RequestNumbers DEF StartLoad
<1> DEFINE h == [NoLoad EXCEPT !.at = "lists", !.id = latest + 1]
<1>2. h \in PageLoad /\ h.id = latest + 1 /\ h.at = "lists"
  BY <1>1 DEF NoLoad, PageLoad
<1>3. load' = h
  BY DEF StartLoad
<1> HIDE DEF h
<1>4. \A r \in fetches : r.id \in Nat /\ r.id <= latest
  BY RequestNumbers
<1>5. latest \in Nat /\ latest' = latest + 1
  BY RequestNumbers DEF StartLoad
<1> QED
  BY <1>1, <1>2, <1>3, <1>4, <1>5

(* What is kept for a client is replaced by rows of that client. *)
LEMMA KeepsOwn ==
  ASSUME DnsTypeOK, NEW k \in DnsClient, NEW rows \in SUBSET DnsClient, Keep(k, rows)
  PROVE  /\ dnsCache' \in [DnsClient -> [kept : BOOLEAN, rows : SUBSET DnsClient]]
         /\ (rows \subseteq {k} /\ \A q \in DnsClient : dnsCache[q].rows \subseteq {q})
              => \A q \in DnsClient : dnsCache'[q].rows \subseteq {q}
<1> DEFINE h == [kept |-> TRUE, rows |-> rows]
<1>1. h \in [kept : BOOLEAN, rows : SUBSET DnsClient] /\ h.rows = rows
  OBVIOUS
<1>2. dnsCache' = [dnsCache EXCEPT ![k] = h]
  BY DEF Keep
<1> HIDE DEF h
<1>3. dnsCache' \in [DnsClient -> [kept : BOOLEAN, rows : SUBSET DnsClient]]
  BY <1>1, <1>2 DEF DnsTypeOK
<1>4. \A q \in DnsClient : dnsCache'[q] = IF q = k THEN h ELSE dnsCache[q]
  BY <1>2 DEF DnsTypeOK
<1> QED
  BY <1>1, <1>3, <1>4

ShownFits ==
  /\ shown \subseteq DnsClient /\ leftover \in BOOLEAN
  /\ dnsCache \in [DnsClient -> [kept : BOOLEAN, rows : SUBSET DnsClient]]

(* The load of the page ends: its record is gone, and the rest is as typed as what is shown. *)
LEMMA LoadGone ==
  ASSUME DnsTypeOK, NEW ok \in BOOLEAN, LoadEnds(ok), Stays, UNCHANGED <<latest, fetches>>,
         {picked', tab'} \subseteq DnsClient \cup {""}, ShownFits'
  PROVE  DnsTypeOK'
<1>1. latest \in Nat /\ 0 \in 0..MaxFetch /\ 0 <= latest
  BY RequestNumbers, FetchBound
<1>2. load' \in PageLoad /\ load'.id <= latest'
  BY <1>1 DEF LoadEnds, NoLoad, PageLoad
<1>3. recent' \in BOOLEAN
  BY DEF LoadEnds
<1> QED
  BY <1>2, <1>3 DEF DnsTypeOK, Stays, ShownFits

(* Every step keeps the invariant of the DNS page. *)
LEMMA DnsInvStep == DnsInv /\ [DnsNext]_dnsVars => DnsInv'
<1> SUFFICES ASSUME DnsInv, [DnsNext]_dnsVars PROVE DnsInv'
  OBVIOUS
<1> USE DEF DnsInv
<1>1. CASE EnterPage
  <2>1. ShowsOn /\ UNCHANGED <<existing, tab, dnsCache, fetches, edit, crossed>>
    BY <1>1 DEF EnterPage
  <2>2. RowsAreOwn => RowsAreOwn'
    BY <2>1 DEF RowsAreOwn, ShowsOn
  <2>3. CASE UNCHANGED <<latest, load>>
    <3>1. AskedForTab'
      BY <2>1, <2>3 DEF AskedForTab
    <3>2. DnsTypeOK'
      BY <1>1, <2>1, <2>3 DEF DnsTypeOK, EnterPage, ShowsOn
    <3> QED
      BY <2>1, <2>2, <3>1, <3>2
  <2>4. CASE load.at = "none" /\ StartLoad
    <3>1. AskedForTab'
      BY <2>1, <2>4, LoadStarts DEF AskedForTab
    <3>2. DnsTypeOK'
      BY <1>1, <2>1, <2>4, LoadStarts DEF DnsTypeOK, EnterPage, ShowsOn
    <3> QED
      BY <2>1, <2>2, <3>1, <3>2
  <2> QED
    BY <1>1, <2>3, <2>4 DEF EnterPage
<1>2. CASE LeavePage
  <2>1. ShowsOn /\ UNCHANGED <<existing, picked, tab, dnsCache, latest, load, fetches, edit, recent, crossed>>
    BY <1>2 DEF LeavePage
  <2>2. AskedForTab' /\ (RowsAreOwn => RowsAreOwn')
    BY <2>1 DEF RowsAreOwn, ShowsOn, AskedForTab
  <2>3. DnsTypeOK'
    BY <1>2, <2>1 DEF DnsTypeOK, LeavePage, ShowsOn
  <2> QED
    BY <2>1, <2>2, <2>3
<1>3. CASE RefreshPage
  <2>1. ShowsOn /\ Stays /\ UNCHANGED <<picked, tab, dnsCache, fetches, recent>> /\ load.at = "none" /\ StartLoad
    BY <1>3 DEF RefreshPage
  <2>2. AskedForTab' /\ (RowsAreOwn => RowsAreOwn')
    BY <2>1, LoadStarts DEF RowsAreOwn, ShowsOn, Stays, AskedForTab
  <2>3. DnsTypeOK'
    BY <2>1, LoadStarts DEF DnsTypeOK, Stays, ShowsOn
  <2> QED
    BY <2>1, <2>2, <2>3 DEF Stays
<1>4. CASE ListsArrive
  <2>1. Stays /\ load.at = "lists" /\ UNCHANGED <<dnsCache, latest, fetches>>
    BY <1>4 DEF ListsArrive
  <2>2. CASE load.id # latest
    <3>1. LoadEnds(TRUE) /\ ShowsOn /\ UNCHANGED <<picked, tab>>
      BY <1>4, <2>2 DEF ListsArrive, IsLatest
    <3>2. AskedForTab' /\ (RowsAreOwn => RowsAreOwn')
      BY <2>1, <3>1 DEF RowsAreOwn, ShowsOn, Stays, AskedForTab, LoadEnds, NoLoad
    <3>3. DnsTypeOK'
      <4>1. {picked', tab'} \subseteq DnsClient \cup {""} /\ ShownFits'
        BY <2>1, <3>1 DEF DnsTypeOK, ShowsOn, ShownFits
      <4> QED
        BY <2>1, <3>1, <4>1, LoadGone
    <3> QED
      BY <2>1, <3>2, <3>3 DEF Stays
  <2>3. CASE load.id = latest
    <3>1. PICK k \in DnsClient \cup {""} :
            /\ picked' = k /\ tab' = k
            /\ IF k # "" /\ dnsCache[k].kept
               THEN LoadEnds(TRUE) /\ Show(dnsCache[k].rows)
               ELSE /\ load' = [load EXCEPT !.at = "records", !.client = k]
                    /\ UNCHANGED <<recent, shown>> /\ leftover' = ~(shown \subseteq RecordsOf(k))
      <4>1. existing \subseteq DnsClient /\ picked \in DnsClient \cup {""} /\ DefaultClient \in DnsClient
        BY DnsAssumption DEF DnsTypeOK
      <4> QED
        BY <1>4, <2>3, <4>1 DEF ListsArrive, IsLatest
    <3>2. \A r \in fetches : r.id # latest
      BY <2>1, <2>3 DEF AskedForTab
    <3>3. CASE k # "" /\ dnsCache[k].kept
      <4>1. k \in DnsClient /\ LoadEnds(TRUE) /\ Show(dnsCache[k].rows)
        BY <3>1, <3>3
      <4>2. dnsCache[k].rows \subseteq DnsClient
        BY <4>1 DEF DnsTypeOK
      <4>3. load'.at = "none"
        BY <4>1 DEF LoadEnds, NoLoad
      <4>4. AskedForTab'
        BY <2>1, <3>2, <4>3 DEF AskedForTab
      <4>5. RowsAreOwn => RowsAreOwn'
        BY <2>1, <3>1, <4>1 DEF RowsAreOwn, Show, Stays
      <4>6. DnsTypeOK'
        <5>1. {picked', tab'} \subseteq DnsClient \cup {""} /\ ShownFits'
          BY <2>1, <3>1, <4>1, <4>2 DEF DnsTypeOK, Show, ShownFits
        <5> QED
          BY <2>1, <4>1, <5>1, LoadGone
      <4> QED
        BY <2>1, <4>4, <4>5, <4>6 DEF Stays
    <3>4. CASE ~(k # "" /\ dnsCache[k].kept)
      <4> DEFINE h == [load EXCEPT !.at = "records", !.client = k]
      <4>1. h \in PageLoad /\ h.client = k /\ h.at = "records" /\ h.id = load.id
        BY <3>1 DEF PageLoad, DnsTypeOK
      <4>2. load' = h /\ UNCHANGED <<recent, shown>> /\ leftover' = ~(shown \subseteq RecordsOf(k))
        BY <3>1, <3>4
      <4> HIDE DEF h
      <4>3. AskedForTab'
        BY <2>1, <2>3, <3>1, <3>2, <4>1, <4>2 DEF AskedForTab
      <4>4. RowsAreOwn => RowsAreOwn'
        BY <2>1, <3>1, <4>2 DEF RowsAreOwn, RecordsOf, Stays
      <4>5. leftover' \in BOOLEAN
        BY <4>2
      <4>6. DnsTypeOK'
        BY <2>1, <2>3, <3>1, <4>1, <4>2, <4>5 DEF DnsTypeOK, Stays
      <4> QED
        BY <2>1, <4>3, <4>4, <4>6 DEF Stays
    <3> QED
      BY <3>3, <3>4
  <2> QED
    BY <2>2, <2>3
<1>5. CASE RecordsArrive
  <2>1. Stays /\ load.at = "records" /\ LoadEnds(TRUE) /\ UNCHANGED <<picked, tab, latest, fetches>>
    BY <1>5 DEF RecordsArrive
  <2>2. AskedForTab'
    BY <2>1 DEF AskedForTab, LoadEnds, NoLoad
  <2> DEFINE k == load.client
  <2>3. k \in DnsClient \cup {""} /\ RecordsOf(k) \subseteq DnsClient /\ RecordsOf(k) \subseteq {k}
    BY DEF DnsTypeOK, PageLoad, RecordsOf
  <2>4. CASE load.id # latest
    <3>1. ShowsOn /\ UNCHANGED dnsCache
      BY <1>5, <2>4 DEF RecordsArrive, IsLatest
    <3>2. RowsAreOwn => RowsAreOwn'
      BY <2>1, <3>1 DEF RowsAreOwn, ShowsOn, Stays
    <3>3. DnsTypeOK'
      <4>1. {picked', tab'} \subseteq DnsClient \cup {""} /\ ShownFits'
        BY <2>1, <3>1 DEF DnsTypeOK, ShowsOn, ShownFits
      <4> QED
        BY <2>1, <4>1, LoadGone
    <3> QED
      BY <2>1, <2>2, <3>2, <3>3 DEF Stays
  <2>5. CASE load.id = latest
    <3>1. Show(RecordsOf(k)) /\ tab = k
      BY <1>5, <2>1, <2>5 DEF RecordsArrive, IsLatest, AskedForTab
    <3>2. CASE k = ""
      <4>1. UNCHANGED dnsCache
        BY <1>5, <2>5, <3>2 DEF RecordsArrive, IsLatest
      <4>2. RowsAreOwn => RowsAreOwn'
        BY <2>1, <2>3, <3>1, <4>1 DEF RowsAreOwn, Show, Stays
      <4>3. DnsTypeOK'
        <5>1. {picked', tab'} \subseteq DnsClient \cup {""} /\ ShownFits'
          BY <2>1, <2>3, <3>1, <4>1 DEF DnsTypeOK, Show, ShownFits
        <5> QED
          BY <2>1, <5>1, LoadGone
      <4> QED
        BY <2>1, <2>2, <4>2, <4>3 DEF Stays
    <3>3. CASE k # ""
      <4>1. k \in DnsClient /\ Keep(k, RecordsOf(k))
        BY <1>5, <2>3, <2>5, <3>3 DEF RecordsArrive, IsLatest
      <4>2. /\ dnsCache' \in [DnsClient -> [kept : BOOLEAN, rows : SUBSET DnsClient]]
            /\ RowsAreOwn => \A q \in DnsClient : dnsCache'[q].rows \subseteq {q}
        BY <2>3, <4>1, KeepsOwn DEF RowsAreOwn
      <4>3. RowsAreOwn => RowsAreOwn'
        BY <2>1, <2>3, <3>1, <4>2 DEF RowsAreOwn, Show, Stays
      <4>4. DnsTypeOK'
        <5>1. {picked', tab'} \subseteq DnsClient \cup {""} /\ ShownFits'
          BY <2>1, <2>3, <3>1, <4>2 DEF DnsTypeOK, Show, ShownFits
        <5> QED
          BY <2>1, <5>1, LoadGone
      <4> QED
        BY <2>1, <2>2, <4>3, <4>4 DEF Stays
    <3> QED
      BY <3>2, <3>3
  <2> QED
    BY <2>4, <2>5
<1>6. CASE LoadFails
  <2>1. LoadEnds(FALSE) /\ ShowsOn /\ Stays /\ UNCHANGED <<picked, tab, dnsCache, latest, fetches>>
    BY <1>6 DEF LoadFails
  <2>2. AskedForTab' /\ (RowsAreOwn => RowsAreOwn')
    BY <2>1 DEF RowsAreOwn, ShowsOn, Stays, AskedForTab, LoadEnds, NoLoad
  <2>3. DnsTypeOK'
    <3>1. {picked', tab'} \subseteq DnsClient \cup {""} /\ ShownFits'
      BY <2>1 DEF DnsTypeOK, ShowsOn, ShownFits
    <3> QED
      BY <2>1, <3>1, LoadGone
  <2> QED
    BY <2>1, <2>2, <2>3 DEF Stays
<1>7. ASSUME NEW k \in DnsClient, SelectDnsClient(k) PROVE DnsInv'
  <2>1. /\ Stays /\ UNCHANGED <<dnsCache, load, recent>> /\ picked' = k /\ tab' = k
        /\ latest < MaxFetch /\ latest' = latest + 1
    BY <1>7 DEF SelectDnsClient
  <2>2. latest \in Nat /\ latest + 1 \in 1..MaxFetch /\ load.id \in Nat /\ load.id <= latest
    BY <2>1, RequestNumbers
  <2>3. \A r \in fetches : r.id \in Nat /\ r.id <= latest
    BY RequestNumbers
  <2>4. CASE dnsCache[k].kept
    <3>1. Show(dnsCache[k].rows) /\ fetches' = fetches
      BY <1>7, <2>4 DEF SelectDnsClient
    <3>2. AskedForTab'
      BY <2>1, <2>2, <2>3, <3>1 DEF AskedForTab
    <3>3. RowsAreOwn => RowsAreOwn'
      BY <2>1, <3>1 DEF RowsAreOwn, Show, Stays
    <3>4. DnsTypeOK'
      <4>1. latest' \in 0..MaxFetch /\ load.id <= latest' /\ \A r \in fetches : r.id <= latest'
        BY <2>1, <2>2, <2>3, RequestNumbers
      <4> QED
        BY <2>1, <3>1, <4>1 DEF DnsTypeOK, Show, Stays
    <3> QED
      BY <2>1, <3>2, <3>3, <3>4 DEF Stays
  <2>5. CASE ~dnsCache[k].kept
    <3> DEFINE n == [id |-> latest + 1, client |-> k]
    <3>1. n \in RecordFetch /\ n.id = latest + 1 /\ n.client = k
      BY <2>2 DEF RecordFetch
    <3>2. Show({}) /\ fetches' = fetches \cup {n}
      BY <1>7, <2>5 DEF SelectDnsClient
    <3> HIDE DEF n
    <3>3. AskedForTab'
      BY <2>1, <2>2, <2>3, <3>1, <3>2 DEF AskedForTab
    <3>4. RowsAreOwn => RowsAreOwn'
      BY <2>1, <3>2 DEF RowsAreOwn, Show, Stays
    <3>5. fetches' \subseteq RecordFetch /\ \A r \in fetches' : r.id <= latest'
      <4>1. n.id <= latest' /\ \A r \in fetches : r.id <= latest'
        BY <2>1, <2>2, <2>3, <3>1
      <4> QED
        BY <3>1, <3>2, <4>1 DEF DnsTypeOK
    <3>6. DnsTypeOK'
      <4>1. latest' \in 0..MaxFetch /\ load.id <= latest'
        BY <2>1, <2>2, RequestNumbers
      <4> QED
        BY <2>1, <3>2, <3>5, <4>1 DEF DnsTypeOK, Show, Stays
    <3> QED
      BY <2>1, <3>3, <3>4, <3>6 DEF Stays
  <2> QED
    BY <2>4, <2>5
<1>8. ASSUME NEW r \in fetches, FetchEnds(r) PROVE DnsInv'
  <2>1. Stays /\ UNCHANGED <<picked, tab, latest, load, recent>> /\ fetches' \subseteq fetches
    BY <1>8 DEF FetchEnds
  <2>2. AskedForTab'
    BY <2>1 DEF AskedForTab
  <2>3. r.client \in DnsClient /\ r.client # ""
    BY DnsAssumption DEF DnsTypeOK, RecordFetch
  <2>4. CASE r.id = latest /\ Keep(r.client, RecordsOf(r.client)) /\ Show(RecordsOf(r.client))
    <3> DEFINE k == r.client
    <3>1. tab = k /\ RecordsOf(k) = {k}
      BY <2>3, <2>4 DEF AskedForTab, RecordsOf
    <3>2. Keep(k, {k}) /\ Show({k})
      BY <2>4, <3>1
    <3>3. /\ dnsCache' \in [DnsClient -> [kept : BOOLEAN, rows : SUBSET DnsClient]]
          /\ RowsAreOwn => \A q \in DnsClient : dnsCache'[q].rows \subseteq {q}
      <4>1. k \in DnsClient /\ {k} \in SUBSET DnsClient
        BY <2>3
      <4> HIDE DEF k
      <4> QED
        BY <3>2, <4>1, KeepsOwn DEF RowsAreOwn
    <3>4. RowsAreOwn => RowsAreOwn'
      BY <2>1, <3>1, <3>2, <3>3 DEF RowsAreOwn, Show, Stays
    <3>5. DnsTypeOK'
      BY <2>1, <2>3, <3>2, <3>3 DEF DnsTypeOK, Show, Stays
    <3> QED
      BY <2>1, <2>2, <3>4, <3>5 DEF Stays
  <2>5. CASE ShowsOn /\ UNCHANGED dnsCache
    <3>1. RowsAreOwn => RowsAreOwn'
      BY <2>1, <2>5 DEF RowsAreOwn, ShowsOn, Stays
    <3>2. DnsTypeOK'
      BY <2>1, <2>5 DEF DnsTypeOK, ShowsOn, Stays
    <3> QED
      BY <2>1, <2>2, <3>1, <3>2 DEF Stays
  <2> QED
    BY <1>8, <2>4, <2>5 DEF FetchEnds, IsLatest
<1>9. CASE SubmitEdit
  <2>1. /\ ShowsOn /\ UNCHANGED <<existing, picked, tab, dnsCache, latest, load, fetches, recent, onPage>>
        /\ edit' = [client |-> tab, base |-> shown] /\ crossed' = (crossed \/ ~(shown \subseteq {tab}))
    BY <1>9 DEF SubmitEdit
  <2>2. AskedForTab'
    BY <2>1 DEF AskedForTab
  <2>3. edit'.client = tab /\ edit'.base = shown
          /\ edit' \in {NoEdit} \cup [client : DnsClient, base : SUBSET DnsClient]
    <3>1. tab \in DnsClient /\ shown \in SUBSET DnsClient
      BY <1>9 DEF SubmitEdit, DnsTypeOK
    <3> QED
      BY <2>1, <3>1
  <2>4. crossed' \/ RowsAreOwn'
    BY <2>1, <2>3 DEF RowsAreOwn, ShowsOn
  <2>5. crossed' \in BOOLEAN
    BY <2>1
  <2>6. DnsTypeOK'
    BY <2>1, <2>3, <2>5 DEF DnsTypeOK, ShowsOn
  <2> QED
    BY <2>2, <2>4, <2>6
<1>10. CASE EditEnds
  <2>1. edit' = NoEdit /\ UNCHANGED <<existing, picked, tab, latest, load, fetches, recent, onPage>> /\ edit # NoEdit
    BY <1>10 DEF EditEnds
  <2>2. AskedForTab'
    BY <2>1 DEF AskedForTab
  <2>3. edit'.base = {} /\ edit' \in {NoEdit} \cup [client : DnsClient, base : SUBSET DnsClient]
    BY <2>1 DEF NoEdit
  <2> DEFINE k == edit.client
             rows == edit.base \cup {edit.client}
  <2>4. CASE Show(rows) /\ Keep(k, rows) /\ crossed' = (crossed \/ tab # k)
    <3>1. k \in DnsClient /\ rows \in SUBSET DnsClient
      BY <2>1 DEF DnsTypeOK
    <3>2. /\ dnsCache' \in [DnsClient -> [kept : BOOLEAN, rows : SUBSET DnsClient]]
          /\ RowsAreOwn => \A q \in DnsClient : dnsCache'[q].rows \subseteq {q}
      <4>1. RowsAreOwn => rows \subseteq {k} /\ \A q \in DnsClient : dnsCache[q].rows \subseteq {q}
        BY DEF RowsAreOwn
      <4> HIDE DEF rows, k
      <4> QED
        BY <2>4, <3>1, <4>1, KeepsOwn
    <3>3. crossed' \/ RowsAreOwn'
      BY <2>1, <2>3, <2>4, <3>2 DEF RowsAreOwn, Show
    <3>4. crossed' \in BOOLEAN
      BY <2>4
    <3>5. DnsTypeOK'
      BY <2>1, <2>3, <2>4, <3>1, <3>2, <3>4 DEF DnsTypeOK, Show
    <3> QED
      BY <2>2, <3>3, <3>5
  <2>5. CASE ShowsOn /\ UNCHANGED <<dnsCache, crossed>>
    <3>1. RowsAreOwn => RowsAreOwn'
      BY <2>1, <2>3, <2>5 DEF RowsAreOwn, ShowsOn
    <3>2. DnsTypeOK'
      BY <2>1, <2>3, <2>5 DEF DnsTypeOK, ShowsOn
    <3> QED
      BY <2>2, <2>5, <3>1, <3>2
  <2> QED
    BY <1>10, <2>4, <2>5 DEF EditEnds
<1>11. CASE CacheAges
  <2>1. ShowsOn /\ UNCHANGED <<picked, tab, latest, load, fetches, edit, onPage, crossed>>
    BY <1>11 DEF CacheAges
  <2>2. AskedForTab'
    BY <2>1 DEF AskedForTab
  <2>3. /\ existing' \subseteq DnsClient /\ recent' \in BOOLEAN
        /\ dnsCache' \in [DnsClient -> [kept : BOOLEAN, rows : SUBSET DnsClient]]
        /\ (\A q \in DnsClient : dnsCache[q].rows \subseteq {q})
             => \A q \in DnsClient : dnsCache'[q].rows \subseteq {q}
    <3>1. CASE recent' = FALSE /\ UNCHANGED <<dnsCache, existing>>
      BY <3>1 DEF DnsTypeOK
    <3>2. ASSUME NEW k \in DnsClient, dnsCache' = [dnsCache EXCEPT ![k] = NotKept], UNCHANGED <<recent, existing>>
          PROVE  /\ existing' \subseteq DnsClient /\ recent' \in BOOLEAN
                 /\ dnsCache' \in [DnsClient -> [kept : BOOLEAN, rows : SUBSET DnsClient]]
                 /\ (\A q \in DnsClient : dnsCache[q].rows \subseteq {q})
                      => \A q \in DnsClient : dnsCache'[q].rows \subseteq {q}
      <4>1. NotKept \in [kept : BOOLEAN, rows : SUBSET DnsClient] /\ NotKept.rows = {}
        BY DEF NotKept
      <4>2. dnsCache' \in [DnsClient -> [kept : BOOLEAN, rows : SUBSET DnsClient]]
        BY <3>2, <4>1 DEF DnsTypeOK
      <4>3. \A q \in DnsClient : dnsCache'[q] = IF q = k THEN NotKept ELSE dnsCache[q]
        BY <3>2 DEF DnsTypeOK
      <4> QED
        BY <3>2, <4>1, <4>2, <4>3 DEF DnsTypeOK
    <3>3. CASE existing' \subseteq existing /\ UNCHANGED <<recent, dnsCache>>
      BY <3>3 DEF DnsTypeOK
    <3> QED
      BY <1>11, <3>1, <3>2, <3>3 DEF CacheAges
  <2>4. RowsAreOwn => RowsAreOwn'
    BY <2>1, <2>3 DEF RowsAreOwn, ShowsOn
  <2>5. DnsTypeOK'
    BY <2>1, <2>3 DEF DnsTypeOK, ShowsOn
  <2> QED
    BY <2>1, <2>2, <2>4, <2>5
<1>12. CASE UNCHANGED dnsVars
  <2>1. AskedForTab' /\ (RowsAreOwn => RowsAreOwn')
    BY <1>12 DEF dnsVars, AskedForTab, RowsAreOwn
  <2>2. DnsTypeOK'
    BY <1>12 DEF dnsVars, DnsTypeOK
  <2> QED
    BY <1>12, <2>1, <2>2 DEF dnsVars
<1> QED
  BY <1>1, <1>2, <1>3, <1>4, <1>5, <1>6, <1>7, <1>8, <1>9, <1>10, <1>11, <1>12 DEF DnsNext

(* The invariant of the DNS page holds in every state. *)
THEOREM DnsInvariant == DnsSpec => []DnsInv
<1> QED
  BY DnsInvInit, DnsInvStep, PTL DEF DnsSpec

(* Under the tab of a client there are records of that client only, and so in what is kept for it,  *)
(* however late the answers come, but for an edit answered under another tab (App.tsx:1544-1620).   *)
THEOREM DnsStaysSelected == DnsSpec => []DnsShowsSelected
<1>1. DnsInv => DnsShowsSelected
  BY DEF DnsInv, RowsAreOwn, DnsShowsSelected
<1> QED
  BY <1>1, DnsInvariant, PTL

-----------------------------------------------------------------------------
(* ProjectEditor *)

(* What the open editor of a project shows is that project's, and what is being fetched for it     *)
(* is, too; a text that was only opened is known to come from the file.                            *)
FormFits ==
  /\ text \in {NoText, Typed(modal), InRepository(modal)}
  /\ text = InRepository(modal) => compose.open /\ compose.source = "file"
  /\ compose.loading => text = NoText /\ ~compose.open
  /\ envForm.opened /\ envForm.available /\ ~envForm.loading => envForm.rows = modal
  /\ \A l \in loads : ~l.late => /\ l.of = modal
                                 /\ l.what = "compose" => compose.loading
                                 /\ l.what = "env" => envForm.loading

SaveFits ==
  /\ saving.sends => saving.text \in {NoText, Typed(saving.project)}
  /\ saving.env => saving.rows = saving.project

ProjectsOwn == \A p \in Edited : override[p] \in {NoText, Typed(p)} /\ envOf[p] = p

EditorInv ==
  /\ EditorTypeOK
  /\ saving.step = "env" => saving.env
  /\ mixed \/ (ProjectsOwn /\ SaveFits /\ (modal # "" => FormFits))

(* What the editor's texts, forms and saves are. *)
LEMMA EditorTexts ==
  /\ NoText \in EditorText /\ NoText.of = "" /\ NoText.typed = FALSE
  /\ \A p \in MaybeEdited : /\ Typed(p) \in EditorText /\ Typed(p).of = p
                            /\ InRepository(p) \in EditorText /\ InRepository(p).of = p
  /\ EmptyCompose \in ComposeForm /\ EmptyEnv \in EnvForm /\ NoSave \in EditorSave
  /\ ~EmptyCompose.loading /\ ~EmptyCompose.open /\ ~EmptyEnv.opened
  /\ ~NoSave.sends /\ ~NoSave.env /\ NoSave.step = "none"
<1>1. "" \in MaybeEdited
  BY DEF MaybeEdited
<1>2. NoText \in EditorText /\ NoText.of = "" /\ NoText.typed = FALSE
  BY <1>1 DEF NoText, EditorText
<1>3. NoSave \in EditorSave /\ ~NoSave.sends /\ ~NoSave.env /\ NoSave.step = "none"
  BY <1>1, <1>2 DEF NoSave, EditorSave
<1>4. EmptyCompose \in ComposeForm /\ ~EmptyCompose.loading /\ ~EmptyCompose.open
  BY DEF EmptyCompose, ComposeForm
<1>5. EmptyEnv \in EnvForm /\ ~EmptyEnv.opened
  BY <1>1 DEF EmptyEnv, EnvForm
<1>6. \A p \in MaybeEdited : /\ Typed(p) \in EditorText /\ Typed(p).of = p
                             /\ InRepository(p) \in EditorText /\ InRepository(p).of = p
  BY DEF Typed, InRepository, EditorText
<1> QED
  BY <1>2, <1>3, <1>4, <1>5, <1>6

(* A fetch that starts is one of the project in the editor. *)
LEMMA FetchStarts ==
  ASSUME NEW what \in {"compose", "env"}, Fetch(what), modal \in Edited, loads \subseteq EditorLoad
  PROVE  /\ loads' \subseteq EditorLoad
         /\ \A l \in loads' : l \in loads \/ (l.of = modal /\ l.what = what)
<1> DEFINE n == [what |-> what, of |-> modal, late |-> FALSE]
<1>1. n \in EditorLoad /\ n.of = modal /\ n.what = what
  BY DEF EditorLoad
<1>2. loads' = loads \cup {n}
  BY DEF Fetch
<1> HIDE DEF n
<1> QED
  BY <1>1, <1>2

(* When the editor is opened anew every fetch on its way is late. *)
LEMMA AllLate ==
  ASSUME loads \subseteq EditorLoad
  PROVE  Late(loads) \subseteq EditorLoad /\ \A l \in Late(loads) : l.late
<1>1. ASSUME NEW l \in EditorLoad
      PROVE  [l EXCEPT !.late = TRUE] \in EditorLoad /\ [l EXCEPT !.late = TRUE].late
  BY DEF EditorLoad
<1> QED
  BY <1>1 DEF Late

(* Every step keeps the types. *)
LEMMA EditorTypesStep ==
  ASSUME EditorTypeOK, [EditorNext]_editorVars
  PROVE  EditorTypeOK'
<1> USE EditorTexts
<1>0. modal # "" => modal \in Edited
  BY DEF EditorTypeOK, MaybeEdited
<1>1. ASSUME NEW p \in Edited, OpenProject(p) PROVE EditorTypeOK'
  <2>1. p \in MaybeEdited /\ override[p] \in EditorText
    BY DEF MaybeEdited, EditorTypeOK
  <2> QED
    BY <1>1, <2>1, AllLate DEF OpenProject, EditorTypeOK, ServerUnchanged
<1>2. CASE CloseEditor
  <2>1. "" \in MaybeEdited
    BY DEF MaybeEdited
  <2> QED
    BY <1>2, <2>1 DEF CloseEditor, EditorTypeOK, ServerUnchanged
<1>3. CASE OpenComposeEditor
  <2>1. modal \in Edited /\ UNCHANGED <<modal, text, envForm, saving, mixed>> /\ ServerUnchanged
    BY <1>0, <1>3 DEF OpenComposeEditor
  <2>2. compose' \in ComposeForm
    <3>1. [open |-> TRUE, loading |-> FALSE, source |-> "saved"] \in ComposeForm
      BY DEF ComposeForm
    <3>2. [EmptyCompose EXCEPT !.loading = TRUE] \in ComposeForm
      BY DEF ComposeForm, EmptyCompose
    <3> QED
      BY <1>3, <3>1, <3>2 DEF OpenComposeEditor
  <2>3. loads' \subseteq EditorLoad
    BY <1>3, <2>1, FetchStarts DEF OpenComposeEditor, EditorTypeOK
  <2> QED
    BY <2>1, <2>2, <2>3 DEF EditorTypeOK, ServerUnchanged
<1>4. CASE OpenEnvEditor
  <2>1. modal \in Edited /\ UNCHANGED <<modal, text, compose, saving, mixed>> /\ ServerUnchanged
    BY <1>0, <1>4 DEF OpenEnvEditor
  <2>2. envForm' \in EnvForm
    BY <1>4 DEF OpenEnvEditor, EnvForm, EmptyEnv
  <2>3. loads' \subseteq EditorLoad
    BY <1>4, <2>1, FetchStarts DEF OpenEnvEditor, EditorTypeOK
  <2> QED
    BY <2>1, <2>2, <2>3 DEF EditorTypeOK, ServerUnchanged
<1>5. CASE EditCompose
  <2>1. text.of \in MaybeEdited
    BY DEF EditorTypeOK, EditorText
  <2>2. text' \in EditorText
    BY <1>5, <2>1 DEF EditCompose, EditorTypeOK
  <2>3. compose' \in ComposeForm
    BY <1>5 DEF EditCompose, EditorTypeOK, ComposeForm
  <2> QED
    BY <1>5, <2>2, <2>3 DEF EditCompose, EditorTypeOK, ServerUnchanged
<1>6. ASSUME NEW l \in loads, ComposeArrives(l) PROVE EditorTypeOK'
  <2>1. l.of \in MaybeEdited /\ l.late \in BOOLEAN
    BY DEF EditorTypeOK, EditorLoad, MaybeEdited
  <2>2. text' \in EditorText /\ compose' \in ComposeForm
    <3>1. /\ [open |-> TRUE, loading |-> FALSE, source |-> "file"] \in ComposeForm
          /\ [open |-> TRUE, loading |-> FALSE, source |-> "empty"] \in ComposeForm
      BY DEF ComposeForm
    <3> QED
      BY <1>6, <2>1, <3>1 DEF ComposeArrives, EditorTypeOK
  <2>3. loads' \subseteq loads /\ mixed' \in BOOLEAN
    BY <1>6 DEF ComposeArrives, Arrived
  <2> QED
    BY <1>6, <2>2, <2>3 DEF ComposeArrives, EditorTypeOK, ServerUnchanged
<1>7. ASSUME NEW l \in loads, EnvArrives(l) PROVE EditorTypeOK'
  <2>1. envOf[l.of] \in MaybeEdited
    BY DEF EditorTypeOK, EditorLoad
  <2>2. [opened |-> TRUE, loading |-> FALSE, available |-> TRUE, rows |-> envOf[l.of]] \in EnvForm
    BY <2>1 DEF EnvForm
  <2>3. [EmptyEnv EXCEPT !.opened = TRUE, !.available = FALSE] \in EnvForm
    BY DEF EnvForm
  <2>4. loads' \subseteq loads /\ mixed' \in BOOLEAN
    BY <1>7 DEF EnvArrives, Arrived
  <2> QED
    BY <1>7, <2>2, <2>3, <2>4 DEF EnvArrives, EditorTypeOK, ServerUnchanged
<1>8. CASE Save
  <2> DEFINE h == [step |-> "update", project |-> modal, sends |-> SendsCompose, text |-> text,
                   env |-> SendsEnv, rows |-> envForm.rows]
  <2>1. SendsCompose \in BOOLEAN /\ SendsEnv \in BOOLEAN
    BY DEF SendsCompose, SendsEnv, EditorTypeOK, EnvForm
  <2>2. envForm.rows \in MaybeEdited /\ modal \in MaybeEdited /\ text \in EditorText
    BY DEF EditorTypeOK, EnvForm
  <2>3. h \in EditorSave
    BY <2>1, <2>2 DEF EditorSave
  <2> QED
    BY <1>8, <2>3 DEF Save, MaySave, EditorTypeOK, ServerUnchanged
<1>9. CASE SaveUpdates
  <2>1. saving' \in EditorSave
    BY <1>9 DEF SaveUpdates, EditorTypeOK, EditorSave
  <2>2. saving.text \in EditorText
    BY DEF EditorTypeOK, EditorSave
  <2>3. override' \in [Edited -> EditorText]
    BY <1>9, <2>2 DEF SaveUpdates, EditorTypeOK
  <2> QED
    BY <1>9, <2>1, <2>3 DEF SaveUpdates, EditorTypeOK
<1>10. CASE SaveWritesEnv
  <2>1. saving' \in EditorSave
    BY <1>10 DEF SaveWritesEnv, EditorTypeOK, EditorSave
  <2>2. saving.rows \in MaybeEdited
    BY DEF EditorTypeOK, EditorSave
  <2>3. envOf' \in [Edited -> MaybeEdited]
    BY <1>10, <2>2 DEF SaveWritesEnv, EditorTypeOK
  <2> QED
    BY <1>10, <2>1, <2>3 DEF SaveWritesEnv, EditorTypeOK
<1>11. CASE SaveEnds
  <2>1. "" \in MaybeEdited
    BY DEF MaybeEdited
  <2> QED
    BY <1>11, <2>1 DEF SaveEnds, EditorTypeOK, ServerUnchanged
<1>12. CASE SaveFails
  BY <1>12 DEF SaveFails, EditorTypeOK, ServerUnchanged
<1>13. CASE UNCHANGED editorVars
  BY <1>13 DEF editorVars, EditorTypeOK
<1> QED
  BY <1>1, <1>2, <1>3, <1>4, <1>5, <1>6, <1>7, <1>8, <1>9, <1>10, <1>11, <1>12, <1>13 DEF EditorNext

(* The starting state fits. *)
LEMMA EditorInvInit == EditorInit => EditorInv
<1> SUFFICES ASSUME EditorInit PROVE EditorInv
  OBVIOUS
<1> USE EditorTexts
<1>1. EditorTypeOK
  <2>1. "" \in MaybeEdited /\ \A p \in Edited : p \in MaybeEdited
    BY DEF MaybeEdited
  <2>2. override \in [Edited -> EditorText]
    BY <2>1 DEF EditorInit
  <2>3. envOf \in [Edited -> MaybeEdited]
    BY <2>1 DEF EditorInit
  <2> QED
    BY <2>1, <2>2, <2>3 DEF EditorInit, EditorTypeOK
<1>2. ProjectsOwn /\ SaveFits /\ modal = "" /\ saving.step # "env"
  BY DEF EditorInit, ProjectsOwn, SaveFits
<1> QED
  BY <1>1, <1>2 DEF EditorInv

(* Nothing of what the server keeps, and nothing of the save, changes: the form is what matters. *)
LEMMA OnlyFormChanges ==
  ASSUME EditorInv, EditorTypeOK', mixed' \/ ~mixed, UNCHANGED saving, ServerUnchanged,
         ~mixed' /\ modal' # "" => FormFits'
  PROVE  EditorInv'
<1>1. ProjectsOwn /\ SaveFits => ProjectsOwn' /\ SaveFits'
  BY DEF ProjectsOwn, SaveFits, ServerUnchanged
<1> QED
  BY <1>1 DEF EditorInv

(* The form stays: what the server keeps and what is sent are what matters. *)
LEMMA FormStays ==
  ASSUME EditorInv, EditorTypeOK', UNCHANGED <<text, compose, envForm, loads, mixed>>, modal' \in {modal, ""},
         saving'.step = "env" => saving'.env,
         ~mixed /\ ProjectsOwn /\ SaveFits => ProjectsOwn' /\ SaveFits'
  PROVE  EditorInv'
<1>1. modal' = modal /\ FormFits => FormFits'
  BY DEF FormFits
<1> QED
  BY <1>1 DEF EditorInv

(* Every step keeps the invariant of the editor. *)
LEMMA EditorInvStep == EditorInv /\ [EditorNext]_editorVars => EditorInv'
<1> SUFFICES ASSUME EditorInv, [EditorNext]_editorVars PROVE EditorInv'
  OBVIOUS
<1> USE EditorTexts
<1>0. EditorTypeOK /\ EditorTypeOK'
  BY EditorTypesStep DEF EditorInv
<1>1. ASSUME NEW p \in Edited, OpenProject(p) PROVE EditorInv'
  <2>1. /\ UNCHANGED saving /\ UNCHANGED mixed /\ ServerUnchanged /\ modal' = p /\ text' = override[p]
        /\ compose' = EmptyCompose /\ envForm' = EmptyEnv /\ loads' = Late(loads)
    BY <1>1 DEF OpenProject
  <2>2. ~mixed => override[p] \in {NoText, Typed(p)}
    BY DEF EditorInv, ProjectsOwn
  <2>3. \A l \in loads' : l.late
    BY <1>0, <2>1, AllLate DEF EditorTypeOK
  <2>4. Typed(p) # InRepository(p)
    BY DEF Typed, InRepository
  <2>5. p # "" => NoText # InRepository(p)
    BY DEF NoText, InRepository
  <2>6. ~mixed' /\ modal' # "" => FormFits'
    BY <2>1, <2>2, <2>3, <2>4, <2>5 DEF FormFits
  <2> QED
    BY <1>0, <2>1, <2>6, OnlyFormChanges
<1>2. CASE CloseEditor
  BY <1>0, <1>2, OnlyFormChanges DEF CloseEditor
<1>3. CASE OpenComposeEditor
  <2>1. modal \in Edited /\ modal # "" /\ ~compose.loading /\ ~compose.open
        /\ UNCHANGED <<modal, text, envForm, saving, mixed>> /\ ServerUnchanged
    BY <1>0, <1>3 DEF OpenComposeEditor, EditorTypeOK, MaybeEdited
  <2>2. ASSUME ~mixed PROVE FormFits'
    <3>1. FormFits
      BY <2>1, <2>2 DEF EditorInv
    <3>2. CASE text # NoText
      <4>1. compose' = [open |-> TRUE, loading |-> FALSE, source |-> "saved"] /\ loads' = loads
        BY <1>3, <3>2 DEF OpenComposeEditor
      <4> QED
        BY <2>1, <3>1, <4>1 DEF FormFits
    <3>3. CASE text = NoText
      <4>1. compose' = [EmptyCompose EXCEPT !.loading = TRUE] /\ Fetch("compose")
        BY <1>3, <3>3 DEF OpenComposeEditor
      <4>2. \A l \in loads' : l \in loads \/ (l.of = modal /\ l.what = "compose")
        BY <1>0, <2>1, <4>1, FetchStarts DEF EditorTypeOK
      <4>3. compose'.loading /\ ~compose'.open
        BY <4>1 DEF EmptyCompose
      <4>4. NoText # InRepository(modal)
        BY <2>1 DEF NoText, InRepository
      <4> QED
        BY <2>1, <3>1, <3>3, <4>2, <4>3, <4>4 DEF FormFits
    <3> QED
      BY <3>2, <3>3
  <2> QED
    BY <1>0, <2>1, <2>2, OnlyFormChanges
<1>4. CASE OpenEnvEditor
  <2>1. modal \in Edited /\ modal # "" /\ UNCHANGED <<modal, text, compose, saving, mixed>> /\ ServerUnchanged
        /\ envForm' = [EmptyEnv EXCEPT !.opened = TRUE, !.loading = TRUE] /\ Fetch("env")
    BY <1>0, <1>4 DEF OpenEnvEditor, EditorTypeOK, MaybeEdited
  <2>2. ASSUME ~mixed PROVE FormFits'
    <3>1. FormFits
      BY <2>1, <2>2 DEF EditorInv
    <3>2. \A l \in loads' : l \in loads \/ (l.of = modal /\ l.what = "env")
      BY <1>0, <2>1, FetchStarts DEF EditorTypeOK
    <3>3. envForm'.loading
      BY <2>1 DEF EmptyEnv
    <3> QED
      BY <2>1, <3>1, <3>2, <3>3 DEF FormFits
  <2> QED
    BY <1>0, <2>1, <2>2, OnlyFormChanges
<1>5. CASE EditCompose
  <2>1. modal # "" /\ compose.open /\ UNCHANGED <<modal, envForm, loads, saving, mixed>> /\ ServerUnchanged
        /\ text' = (IF text = NoText THEN Typed(modal) ELSE Typed(text.of))
        /\ compose' = [compose EXCEPT !.source = "saved"]
    BY <1>5 DEF EditCompose
  <2>2. ASSUME ~mixed PROVE FormFits'
    <3>1. FormFits
      BY <2>1, <2>2 DEF EditorInv
    <3>2. text' = Typed(modal)
      BY <1>0, <2>1, <3>1 DEF FormFits, EditorTypeOK
    <3>3. Typed(modal) # InRepository(modal)
      BY DEF Typed, InRepository
    <3>4. compose'.loading = compose.loading /\ compose'.open = compose.open
      BY <1>0, <2>1 DEF EditorTypeOK, ComposeForm
    <3>5. ~compose.loading
      BY <2>1, <3>1 DEF FormFits
    <3> QED
      BY <2>1, <3>1, <3>2, <3>3, <3>4, <3>5 DEF FormFits
  <2> QED
    BY <1>0, <2>1, <2>2, OnlyFormChanges
<1>6. ASSUME NEW l \in loads, ComposeArrives(l) PROVE EditorInv'
  <2>1. l.what = "compose" /\ loads' = loads \ {l} /\ mixed' = (mixed \/ (l.late /\ modal # ""))
        /\ UNCHANGED <<modal, envForm, saving>> /\ ServerUnchanged
    BY <1>6 DEF ComposeArrives, Arrived
  <2>2. ASSUME ~mixed', modal # "" PROVE FormFits'
    <3>1. ~mixed /\ ~l.late
      BY <2>1, <2>2
    <3>2. FormFits /\ l.of = modal /\ compose.loading /\ text = NoText
      BY <2>1, <2>2, <3>1 DEF EditorInv, FormFits
    <3>3. \/ text' = InRepository(modal) /\ compose' = [open |-> TRUE, loading |-> FALSE, source |-> "file"]
          \/ text' = NoText /\ ~compose'.loading
      <4>1. ~[open |-> TRUE, loading |-> FALSE, source |-> "empty"].loading
        OBVIOUS
      <4> QED
        BY <1>6, <3>2, <4>1 DEF ComposeArrives
    <3>4. NoText # InRepository(modal)
      BY <2>2 DEF NoText, InRepository
    <3>5. \A m \in loads' : ~m.late => m.of = modal /\ m.what = "env" /\ envForm.loading
      <4> SUFFICES ASSUME NEW m \in loads', ~m.late PROVE m.of = modal /\ m.what = "env" /\ envForm.loading
        OBVIOUS
      <4>1. m \in EditorLoad /\ l \in EditorLoad /\ m # l
        BY <1>0, <2>1 DEF EditorTypeOK
      <4>2. m.of = modal /\ (m.what = "env" => envForm.loading)
        BY <2>1, <3>2 DEF FormFits
      <4>3. m = [what |-> m.what, of |-> m.of, late |-> FALSE] /\ l = [what |-> l.what, of |-> l.of, late |-> FALSE]
        BY <3>1, <4>1 DEF EditorLoad
      <4>4. m.what # "compose"
        BY <2>1, <3>2, <4>1, <4>2, <4>3
      <4>5. m.what \in {"compose", "env"}
        BY <4>1 DEF EditorLoad
      <4> QED
        BY <4>2, <4>4, <4>5
    <3> QED
      <4>1. ~[open |-> TRUE, loading |-> FALSE, source |-> "file"].loading
            /\ [open |-> TRUE, loading |-> FALSE, source |-> "file"].open
            /\ [open |-> TRUE, loading |-> FALSE, source |-> "file"].source = "file"
        OBVIOUS
      <4> QED
        BY <2>1, <3>2, <3>3, <3>4, <3>5, <4>1 DEF FormFits
  <2> QED
    BY <1>0, <2>1, <2>2, OnlyFormChanges
<1>7. ASSUME NEW l \in loads, EnvArrives(l) PROVE EditorInv'
  <2>1. l.what = "env" /\ loads' = loads \ {l} /\ mixed' = (mixed \/ (l.late /\ modal # ""))
        /\ UNCHANGED <<modal, text, compose, saving>> /\ ServerUnchanged
    BY <1>7 DEF EnvArrives, Arrived
  <2>2. ASSUME ~mixed', modal # "" PROVE FormFits'
    <3>1. ~mixed /\ ~l.late
      BY <2>1, <2>2
    <3>2. FormFits /\ l.of = modal /\ modal \in Edited
      BY <1>0, <2>1, <2>2, <3>1 DEF EditorInv, FormFits, EditorTypeOK, MaybeEdited
    <3>3. envOf[l.of] = modal
      BY <3>1, <3>2 DEF EditorInv, ProjectsOwn
    <3>4. envForm'.rows = modal \/ ~envForm'.available
      <4>1. [opened |-> TRUE, loading |-> FALSE, available |-> TRUE, rows |-> envOf[l.of]].rows = envOf[l.of]
        OBVIOUS
      <4>2. ~[EmptyEnv EXCEPT !.opened = TRUE, !.available = FALSE].available
        BY DEF EmptyEnv
      <4> QED
        BY <1>7, <3>3, <4>1, <4>2 DEF EnvArrives
    <3>5. \A m \in loads' : ~m.late => m.of = modal /\ m.what = "compose" /\ compose.loading
      <4> SUFFICES ASSUME NEW m \in loads', ~m.late PROVE m.of = modal /\ m.what = "compose" /\ compose.loading
        OBVIOUS
      <4>1. m \in EditorLoad /\ l \in EditorLoad /\ m # l
        BY <1>0, <2>1 DEF EditorTypeOK
      <4>2. m.of = modal /\ (m.what = "compose" => compose.loading)
        BY <2>1, <3>2 DEF FormFits
      <4>3. m = [what |-> m.what, of |-> m.of, late |-> FALSE] /\ l = [what |-> l.what, of |-> l.of, late |-> FALSE]
        BY <3>1, <4>1 DEF EditorLoad
      <4>4. m.what # "env"
        BY <2>1, <3>2, <4>1, <4>2, <4>3
      <4>5. m.what \in {"compose", "env"}
        BY <4>1 DEF EditorLoad
      <4> QED
        BY <4>2, <4>4, <4>5
    <3> QED
      BY <2>1, <3>2, <3>4, <3>5 DEF FormFits
  <2> QED
    BY <1>0, <2>1, <2>2, OnlyFormChanges
<1>8. CASE Save
  <2> DEFINE h == [step |-> "update", project |-> modal, sends |-> SendsCompose, text |-> text,
                   env |-> SendsEnv, rows |-> envForm.rows]
  <2>1. saving' = h /\ modal # "" /\ UNCHANGED <<modal, text, compose, envForm, loads, mixed>> /\ ServerUnchanged
    BY <1>8 DEF Save, MaySave
  <2>2. h.step = "update" /\ h.project = modal /\ h.sends = SendsCompose /\ h.text = text
        /\ h.env = SendsEnv /\ h.rows = envForm.rows
    OBVIOUS
  <2> HIDE DEF h
  <2>3. ASSUME ~mixed, ProjectsOwn, SaveFits PROVE ProjectsOwn' /\ SaveFits'
    <3>1. FormFits
      BY <2>1, <2>3 DEF EditorInv
    <3>2. SendsCompose => text \in {NoText, Typed(modal)}
      BY <3>1 DEF FormFits, SendsCompose
    <3>3. SendsEnv => envForm.rows = modal
      BY <3>1 DEF FormFits, SendsEnv
    <3>4. ProjectsOwn'
      BY <2>1, <2>3 DEF ProjectsOwn, ServerUnchanged
    <3> QED
      BY <2>1, <2>2, <3>2, <3>3, <3>4 DEF SaveFits
  <2> QED
    BY <1>0, <2>1, <2>2, <2>3, FormStays
<1>9. CASE SaveUpdates
  <2> DEFINE h == [saving EXCEPT !.step = IF saving.env THEN "env" ELSE "end"]
  <2>1. saving' = h /\ UNCHANGED <<envOf, modal, text, compose, envForm, loads, mixed>>
        /\ override' = IF saving.sends THEN [override EXCEPT ![saving.project] = saving.text] ELSE override
    BY <1>9 DEF SaveUpdates
  <2>2. h.project = saving.project /\ h.sends = saving.sends /\ h.text = saving.text
        /\ h.env = saving.env /\ h.rows = saving.rows /\ (h.step = "env" => saving.env)
    BY <1>0 DEF EditorTypeOK, EditorSave
  <2> HIDE DEF h
  <2>3. ASSUME ~mixed, ProjectsOwn, SaveFits PROVE ProjectsOwn' /\ SaveFits'
    <3>1. \A p \in Edited : \/ override'[p] = override[p]
                            \/ p = saving.project /\ saving.sends /\ override'[p] = saving.text
      BY <1>0, <2>1 DEF EditorTypeOK
    <3>2. \A p \in Edited : override'[p] \in {NoText, Typed(p)}
      BY <2>3, <3>1 DEF ProjectsOwn, SaveFits
    <3>3. ProjectsOwn'
      BY <2>1, <2>3, <3>2 DEF ProjectsOwn
    <3> QED
      BY <2>1, <2>2, <2>3, <3>3 DEF SaveFits
  <2> QED
    BY <1>0, <2>1, <2>2, <2>3, FormStays
<1>10. CASE SaveWritesEnv
  <2> DEFINE h == [saving EXCEPT !.step = "end"]
  <2>1. saving' = h /\ UNCHANGED <<override, modal, text, compose, envForm, loads, mixed>>
        /\ envOf' = [envOf EXCEPT ![saving.project] = saving.rows] /\ saving.env
    BY <1>10 DEF SaveWritesEnv, EditorInv
  <2>2. h.project = saving.project /\ h.sends = saving.sends /\ h.text = saving.text
        /\ h.env = saving.env /\ h.rows = saving.rows /\ h.step = "end"
    BY <1>0 DEF EditorTypeOK, EditorSave
  <2> HIDE DEF h
  <2>3. ASSUME ~mixed, ProjectsOwn, SaveFits PROVE ProjectsOwn' /\ SaveFits'
    <3>1. \A p \in Edited : envOf'[p] = IF p = saving.project THEN saving.rows ELSE envOf[p]
      BY <1>0, <2>1 DEF EditorTypeOK
    <3>2. saving.rows = saving.project
      BY <2>1, <2>3 DEF SaveFits
    <3>3. \A p \in Edited : envOf'[p] = p
      BY <2>3, <3>1, <3>2 DEF ProjectsOwn
    <3>4. ProjectsOwn'
      BY <2>1, <2>3, <3>3 DEF ProjectsOwn
    <3> QED
      BY <2>1, <2>2, <2>3, <3>4 DEF SaveFits
  <2> QED
    BY <1>0, <2>1, <2>2, <2>3, FormStays
<1>11. CASE SaveEnds
  <2>1. saving' = NoSave /\ modal' = "" /\ UNCHANGED <<text, compose, envForm, loads, mixed>> /\ ServerUnchanged
    BY <1>11 DEF SaveEnds
  <2>2. ProjectsOwn => ProjectsOwn' /\ SaveFits'
    BY <2>1 DEF ProjectsOwn, SaveFits, ServerUnchanged
  <2> QED
    BY <1>0, <2>1, <2>2, FormStays
<1>12. CASE SaveFails
  <2>1. saving' = NoSave /\ UNCHANGED <<modal, text, compose, envForm, loads, mixed>> /\ ServerUnchanged
    BY <1>12 DEF SaveFails
  <2>2. ProjectsOwn => ProjectsOwn' /\ SaveFits'
    BY <2>1 DEF ProjectsOwn, SaveFits, ServerUnchanged
  <2> QED
    BY <1>0, <2>1, <2>2, FormStays
<1>13. CASE UNCHANGED editorVars
  <2>1. FormFits => FormFits'
    BY <1>13 DEF editorVars, FormFits
  <2> QED
    BY <1>0, <1>13, <2>1, OnlyFormChanges DEF editorVars, EditorInv, ServerUnchanged
<1> QED
  BY <1>1, <1>2, <1>3, <1>4, <1>5, <1>6, <1>7, <1>8, <1>9, <1>10, <1>11, <1>12, <1>13 DEF EditorNext

(* The invariant of the editor holds in every state. *)
THEOREM EditorInvariant == EditorSpec => []EditorInv
<1> QED
  BY EditorInvInit, EditorInvStep, PTL DEF EditorSpec

(* A save writes the text and the env of its own project, and no text that was only opened, unless *)
(* a late answer was put in the editor (App.tsx:956-980, 1208-1216).                                *)
THEOREM SavesStayOwn == EditorSpec => []EditorSavesItsOwn
<1>1. EditorInv => EditorSavesItsOwn
  BY DEF EditorInv, ProjectsOwn, EditorSavesItsOwn
<1> QED
  BY <1>1, EditorInvariant, PTL
=============================================================================
