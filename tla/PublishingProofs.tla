-------------------------- MODULE PublishingProofs --------------------------
(***************************************************************************)
(* A request that nothing overlapped and that answered success leaves what *)
(* it promised: Publishing keeps SuccessIsKept.  The promise is about      *)
(* rows, ingresses, DNS records and connectors together, which a request   *)
(* changes one call at a time; the invariant says, for each number of      *)
(* tasks left, which of them already agree.                                *)
(*                                                                         *)
(* RowsFit and JobsFit hold whoever else is at work.  OnTrack is about the *)
(* one request that is alone: the ingresses it has written are the rows of *)
(* their tunnels (ConfigIsOfRows), it is on the way to serve a hostname    *)
(* (Serving) or to be rid of one (Removing), and a request of another kind *)
(* changes no row or writes no ingress (Ordered).  A step of anybody else  *)
(* ends that it is alone, and nothing is asked of it then.                 *)
(***************************************************************************)
EXTENDS Publishing, SequenceTheorems, FiniteSetTheorems, TLAPS

(* The task of a request from which n are left. *)
Left(todo, n) == todo[Len(todo) + 1 - n]

(* A container is looked at before it is replaced, a record before it is removed. *)
TasksFit(j) ==
  \A i \in 1..Len(j.todo) :
    /\ Left(j.todo, i).do = "check" => i > 2
    /\ j.kind = "delete" /\ Left(j.todo, i).do = "look" => i > 1

(* A request in progress has something left to do, and one that is alone has seen no other. *)
JobFits(j) ==
  /\ j.st = "running" <=> j.todo # << >>
  /\ j.st = "ok" => j.alone /\ ~Fails(j)
  /\ j.alone => j.st # "idle"
  /\ TasksFit(j)
  /\ j.kind \in {"create", "retry"} => j.was.host \in Host /\ j.was.tunnel \in Tunnel
JobsFit ==
  /\ \A c \in Caller : JobFits(jobs[c])
  /\ \A c \in Caller : jobs[c].alone => \A d \in Caller \ {c} : jobs[d].st # "running"

(* The tunnel of a row has a row too. *)
RowsFit ==
  /\ \A r \in Rows : routes[r].host \in Host /\ routes[r].tunnel \in Tunnel /\ tunnels[routes[r].tunnel].row
  /\ \A h \in Host : dns[h].id = 0 => dns[h] = NoCname

PublishingFits == PublishingTypeOK /\ RowsFit /\ JobsFit

(* What a request that is alone writes to an ingress are the rows of the tunnel, and it changes no *)
(* row after it has written one.                                                                    *)
ConfigIsOfRows(j) ==
  /\ \A i \in 1..Len(j.todo) : Left(j.todo, i).do = "put" =>
       IF i = Len(j.todo) THEN j.rows = RowsFor(Left(j.todo, i).tunnel)
       ELSE Left(j.todo, i + 1).do = "rows" /\ Left(j.todo, i + 1).tunnel = Left(j.todo, i).tunnel
  /\ \A t \in j.put : tunnels[t].ingress = RowsFor(t)
  /\ \A i \in 1..Len(j.todo) : Left(j.todo, i).do \in {"assign", "erase", "unrow", "unmake"} => j.put = {}
  /\ \A i \in 1..Len(j.todo) : Left(j.todo, i).do \notin {"spoil", "undo"}

(* The tasks of a request that serves hostname h by tunnel t: the row is written with a tasks left, *)
(* its DNS record is saved with s and its tunnel written with u left.                               *)
ServingTasks(j, a, s, u, h, t) ==
  /\ s + 2 < a /\ u < a /\ (j.kind \in {"publish", "serve", "enable"} => a > 3 /\ u > 3 /\ s > 3)
  /\ \A i \in 1..Len(j.todo) : LET now == Left(j.todo, i) IN
       /\ i = a => now.do = "assign" /\ now.host = h /\ now.tunnel = t
       /\ i > a => now.do \in {"look", "drop"}
       /\ i < a => now.do \in {"rows", "put", "look", "point", "save", "check", "rm", "run"}
       /\ j.kind # "enable" =>
            /\ i = s => now.do = "save" /\ now.host = h /\ now.tunnel = t
            /\ i = s + 1 => now.do = "point" /\ now.host = h /\ now.tunnel = t
            /\ i = s + 2 => now.do = "look" /\ now.host = h
            /\ i = u => now.do = "put" /\ now.tunnel = t
       /\ now.do = "save" => i = s /\ j.kind # "enable"
       /\ now.do = "point" => i = s + 1 /\ j.kind # "enable"
       /\ j.kind \in {"publish", "serve", "enable"} =>
            (i = 1 => now.do = "run" /\ now.tunnel = t) /\ (i = 2 => now.do = "rm")
              /\ (i = 3 => now.do = "check" /\ now.tunnel = t)
       /\ now.do \in {"check", "rm", "run"} => i <= 3 /\ j.kind \in {"publish", "serve", "enable"}

(* Only a publication without a zone leaves the record of its hostname alone. *)
Records(kind) == kind \notin {"enable", "serve"}

(* What it has done by the time. *)
RowIs(r, h, t) == r \in Rows /\ routes[r].host = h /\ routes[r].tunnel = t
ServingState(j, a, s, u, h, t) ==
  LET n == Len(j.todo)
      r == j.route
  IN  /\ n < a => RowIs(r, h, t) /\ (j.kind # "enable" => routes[r].enabled)
      /\ n >= a /\ j.was.st = "live" => r \in Rows
      /\ j.kind # "enable" /\ n < u => t \in j.put
      /\ Records(j.kind) =>
           /\ n = s + 1 => j.seen = dns[h]
           /\ n = s => dns[h] = [id |-> j.seen.id, target |-> t]
           /\ n < s => dns[h] = [id |-> routes[r].record, target |-> t]
      /\ j.kind \in {"publish", "serve", "enable"} /\ n = 0 => tunnels[t].connector
Serving(j) ==
  \E a, s, u \in 1..11, h \in Host, t \in Tunnel : ServingTasks(j, a, s, u, h, t) /\ ServingState(j, a, s, u, h, t)

(* A removal has its zone and was refused nothing: the record goes. *)
Cleans(j) == ~j.warned /\ ~Zoneless(j) /\ Zoned(j)

(* The tasks of a request that removes a row, and what it has done by the time. *)
Removing(j) ==
  LET n == Len(j.todo)
      h == j.was.host
      t == j.was.tunnel
  IN  /\ n <= 5 /\ h \in Host /\ t \in Tunnel
      /\ \A i \in 1..n : LET now == Left(j.todo, i) IN
           /\ i = 5 => now.do = "look" /\ now.host = h
           /\ i = 4 => now.do = "drop" /\ now.host = h /\ now.tunnel = t
           /\ i = 3 => now.do = "erase"
           /\ i = 2 => now.do = "rows"
           /\ i = 1 => now.do = "put"
      /\ n >= 3 => j.route \in Rows /\ routes[j.route].host = h
      /\ n = 4 /\ j.kind # "withdraw" /\ (j.kind = "remove" \/ j.was.record = 0) => j.seen = dns[h]
      /\ n <= 3 /\ Cleans(j) => /\ j.was.record # 0 => dns[h].id # j.was.record
                                /\ j.was.record = 0 => dns[h].target # t
      /\ n <= 2 => j.route \notin Rows

(* The other requests change no row or write no ingress, and look at no container. *)
Avoids(q, dos) == \A i \in 1..Len(q) : Left(q, i).do \notin dos
Changes == {"assign", "erase", "unrow", "unmake", "check"}
Puts == {"put", "check"}
Ordered(j) ==
  j.kind \notin {"publish", "serve", "delete", "remove", "withdraw", "enable"} => Avoids(j.todo, Changes)
    \/ Avoids(j.todo, Puts)

OnTrack(j) ==
  j.alone /\ ~Fails(j) =>
    /\ ConfigIsOfRows(j) /\ Ordered(j)
    /\ j.kind \in {"create", "retry", "publish", "serve", "enable"} => Serving(j)
    /\ j.kind \in {"delete", "remove", "withdraw"} => Removing(j)

PublishingInv == PublishingFits /\ \A c \in Caller : OnTrack(jobs[c])

-----------------------------------------------------------------------------
(* Lemmas on what a request has left to do. *)

(* A sequence of tasks is empty when it has no length. *)
LEMMA TodoLen ==
  ASSUME NEW q \in Seq(TaskRow)
  PROVE  Len(q) \in Nat /\ (q # << >> <=> Len(q) > 0)
BY EmptySeq, LenProperties

(* The first of the tasks is the one with all of them left; the others are the same ones without it. *)
LEMMA TailLeft ==
  ASSUME NEW q \in Seq(TaskRow), q # << >>
  PROVE  /\ Len(q) \in Nat /\ Len(q) > 0
         /\ Head(q) \in TaskRow /\ Head(q) = Left(q, Len(q))
         /\ Tail(q) \in Seq(TaskRow) /\ Len(Tail(q)) = Len(q) - 1
         /\ \A i \in 1..Len(Tail(q)) : Left(Tail(q), i) = Left(q, i)
<1>1. /\ Len(q) \in Nat /\ Len(q) > 0 /\ Head(q) \in TaskRow /\ Tail(q) \in Seq(TaskRow) /\ Len(Tail(q)) = Len(q) - 1
      /\ \A i \in 1..Len(Tail(q)) : Tail(q)[i] = q[i + 1]
  BY HeadTailProperties, EmptySeq
<1>2. Head(q) = Left(q, Len(q))
  BY <1>1 DEF Left
<1>3. ASSUME NEW i \in 1..Len(Tail(q)) PROVE Left(Tail(q), i) = Left(q, i)
  <2>1. Len(Tail(q)) + 1 - i \in 1..Len(Tail(q))
    BY <1>1
  <2>2. Tail(q)[Len(Tail(q)) + 1 - i] = q[Len(Tail(q)) + 1 - i + 1]
    BY <1>1, <2>1
  <2>3. Len(Tail(q)) + 1 - i + 1 = Len(q) + 1 - i
    BY <1>1
  <2>. QED  BY <2>2, <2>3 DEF Left
<1>. QED  BY <1>1, <1>2, <1>3

(* What is left of a request are tasks. *)
LEMMA LeftIsTask ==
  ASSUME NEW q \in Seq(TaskRow), NEW i \in 1..Len(q)
  PROVE  Left(q, i) \in TaskRow
<1>1. Len(q) \in Nat /\ Len(q) + 1 - i \in 1..Len(q)
  BY LenProperties
<1>. QED  BY <1>1, ElementOfSeq DEF Left

(* The records of a row, a CNAME and a request that are not there. *)
LEMMA NoneTypes ==
  /\ NoRoute \in RouteRow /\ NoCname \in Cname /\ NoJob \in Job
  /\ NoJob.st = "idle" /\ NoJob.todo = << >> /\ NoJob.kind = "none" /\ ~NoJob.alone /\ Len(NoJob.todo) = 0
  /\ NoJob.put = {} /\ ~NoJob.warned
  /\ NoCname.id = 0 /\ NoCname.target = "none"
<1>1. NoRoute \in RouteRow
  BY PublishingAssumption DEF NoRoute, RouteRow
<1>2. NoCname \in Cname
  BY PublishingAssumption DEF NoCname, Cname
<1>3. << >> \in Seq(TaskRow) /\ Len(<< >>) = 0
  BY EmptySeq
<1>4. NoJob \in Job
  BY <1>1, <1>2, <1>3, PublishingAssumption DEF NoJob, Job
<1>. QED  BY <1>1, <1>2, <1>3, <1>4 DEF NoJob, NoCname

(* The request nobody makes fits. *)
LEMMA NoJobFits == JobFits(NoJob)
<1>1. TasksFit(NoJob)
  BY NoneTypes DEF TasksFit
<1>. QED  BY <1>1, NoneTypes DEF JobFits

(* A request that has no task left is over: it has succeeded, or nothing is known of it. *)
LEMMA EndedKeeps ==
  ASSUME NEW m \in Job, m.st = "running"
  PROVE  LET k == Ended(m) IN
         /\ k \in Job
         /\ k.st = "running" <=> k.todo # << >>
         /\ k.st = "ok" => k.alone /\ ~Fails(k)
         /\ k.alone => k.st # "idle"
         /\ \/ k = NoJob
            \/ /\ k.todo = m.todo /\ k.kind = m.kind /\ k.route = m.route /\ k.was = m.was /\ k.put = m.put
               /\ k.warned = m.warned /\ k.alone = m.alone
               /\ Len(m.todo) > 0 => k.rows = m.rows /\ k.seen = m.seen
<1> DEFINE k == Ended(m)
<1>l. m.todo \in Seq(TaskRow) /\ (m.todo # << >> <=> Len(m.todo) > 0)
  <2>1. m.todo \in Seq(TaskRow)
    BY DEF Job
  <2>. QED  BY <2>1, EmptySeq, LenProperties
<1>1. CASE m.todo # << >>
  BY <1>1, NoneTypes DEF Ended
<1>2. CASE m.todo = << >> /\ (Fails(m) \/ ~m.alone)
  BY <1>2, NoneTypes DEF Ended
<1>3. CASE m.todo = << >> /\ ~Fails(m) /\ m.alone
  <2>1. k = [m EXCEPT !.st = "ok", !.rows = {}, !.seen = NoCname]
    BY <1>3 DEF Ended
  <2>2. k \in Job
    BY <2>1, NoneTypes DEF Job
  <2>3. /\ k.todo = m.todo /\ k.kind = m.kind /\ k.route = m.route /\ k.was = m.was /\ k.put = m.put
        /\ k.warned = m.warned /\ k.alone = m.alone /\ k.st = "ok"
    BY <2>1 DEF Job
  <2>. QED  BY <1>3, <1>l, <2>2, <2>3 DEF Fails
<1>. QED  BY <1>1, <1>2, <1>3

(* The request k is what has become of j, if it is still alone and nothing has failed that it hides. *)
Went(j, k) ==
  k.alone /\ ~Fails(k) =>
    /\ j.alone /\ ~Fails(j) /\ k.kind = j.kind /\ k.route = j.route /\ k.was = j.was /\ k.put = j.put
    /\ Len(k.todo) < Len(j.todo) /\ \A i \in 1..Len(k.todo) : Left(k.todo, i) = Left(j.todo, i)
    /\ Len(k.todo) > 0 => k.rows = j.rows /\ k.seen = j.seen

(* The order of the checks and looks stays when the first tasks are done. *)
LEMMA FewerFit ==
  ASSUME NEW j, NEW k, TasksFit(j), k.kind = j.kind, Len(k.todo) \in Nat, Len(j.todo) \in Nat,
           Len(k.todo) <= Len(j.todo),
         \A i \in 1..Len(k.todo) : Left(k.todo, i) = Left(j.todo, i)
  PROVE  TasksFit(k)
<1> SUFFICES ASSUME NEW i \in 1..Len(k.todo)
             PROVE  /\ Left(k.todo, i).do = "check" => i > 2
                    /\ k.kind = "delete" /\ Left(k.todo, i).do = "look" => i > 1
  BY DEF TasksFit
<1>1. i \in 1..Len(j.todo)
  OBVIOUS
<1>. QED  BY <1>1 DEF TasksFit

(* A request whose tasks are the last of those it had goes on, or is over. *)
LEMMA EndedWent ==
  ASSUME NEW j \in Job, JobFits(j), j.st = "running", NEW m \in Job,
         m.st = "running", m.kind = j.kind, m.route = j.route, m.was = j.was, m.put = j.put, m.alone = j.alone,
         m.rows = j.rows, m.seen = j.seen, j.warned => m.warned,
         Len(m.todo) < Len(j.todo), \A i \in 1..Len(m.todo) : Left(m.todo, i) = Left(j.todo, i)
  PROVE  LET k == Ended(m) IN
         /\ k \in Job /\ JobFits(k) /\ Went(j, k) /\ (k.alone => j.alone)
         /\ k.alone => Len(k.todo) = Len(m.todo) /\ k.warned = m.warned
<1> SUFFICES ASSUME NEW k, k = Ended(m)
             PROVE  /\ k \in Job /\ JobFits(k) /\ Went(j, k) /\ (k.alone => j.alone)
                    /\ k.alone => Len(k.todo) = Len(m.todo) /\ k.warned = m.warned
  OBVIOUS
<1>1. /\ k \in Job
      /\ k.st = "running" <=> k.todo # << >>
      /\ k.st = "ok" => k.alone /\ ~Fails(k)
      /\ k.alone => k.st # "idle"
      /\ \/ k = NoJob
         \/ /\ k.todo = m.todo /\ k.kind = m.kind /\ k.route = m.route /\ k.was = m.was /\ k.put = m.put
            /\ k.warned = m.warned /\ k.alone = m.alone
            /\ Len(m.todo) > 0 => k.rows = m.rows /\ k.seen = m.seen
  BY EndedKeeps
<1>2. CASE k = NoJob
  BY <1>1, <1>2, NoJobFits, NoneTypes DEF Went
<1>3. CASE k # NoJob
  <2>1. m.todo \in Seq(TaskRow) /\ j.todo \in Seq(TaskRow)
    BY DEF Job
  <2>2. Len(m.todo) \in Nat /\ Len(j.todo) \in Nat
    BY <2>1, LenProperties
  <2>3. TasksFit(k)
    BY <1>1, <1>3, <2>2, FewerFit DEF JobFits
  <2>4. JobFits(k)
    BY <1>1, <1>3, <2>3 DEF JobFits
  <2>5. Went(j, k)
    BY <1>1, <1>3, <2>2 DEF Went, Fails
  <2>. QED  BY <1>1, <1>3, <2>4, <2>5
<1>. QED  BY <1>2, <1>3

(* A call that succeeds leaves the request with one task less. *)
LEMMA GoesOn ==
  ASSUME NEW i \in Job, JobFits(i), i.st = "running"
  PROVE  LET k == Ended([i EXCEPT !.todo = Tail(@)]) IN
         /\ k \in Job /\ JobFits(k) /\ Went(i, k)
         /\ k.alone => i.alone /\ Len(k.todo) = Len(i.todo) - 1 /\ k.warned = i.warned
<1> SUFFICES ASSUME NEW m, m = [i EXCEPT !.todo = Tail(@)]
             PROVE  LET k == Ended(m) IN
                    /\ k \in Job /\ JobFits(k) /\ Went(i, k)
                    /\ k.alone => i.alone /\ Len(k.todo) = Len(i.todo) - 1 /\ k.warned = i.warned
  OBVIOUS
<1>1. /\ i.todo \in Seq(TaskRow) /\ Len(i.todo) \in Nat /\ Len(i.todo) > 0
      /\ Tail(i.todo) \in Seq(TaskRow) /\ Len(Tail(i.todo)) = Len(i.todo) - 1
      /\ \A n \in 1..Len(Tail(i.todo)) : Left(Tail(i.todo), n) = Left(i.todo, n)
  BY TailLeft DEF JobFits, Job
<1>2. /\ m \in Job /\ m.todo = Tail(i.todo) /\ m.st = "running" /\ m.kind = i.kind /\ m.route = i.route
           /\ m.was = i.was
      /\ m.put = i.put /\ m.alone = i.alone /\ m.rows = i.rows /\ m.seen = i.seen /\ m.warned = i.warned
  BY <1>1 DEF Job
<1>4. /\ i.warned => m.warned
      /\ Len(m.todo) < Len(i.todo) /\ \A n \in 1..Len(m.todo) : Left(m.todo, n) = Left(i.todo, n)
  BY <1>1, <1>2
<1>3. LET k == Ended(m) IN
      /\ k \in Job /\ JobFits(k) /\ Went(i, k) /\ (k.alone => i.alone)
      /\ k.alone => Len(k.todo) = Len(m.todo) /\ k.warned = m.warned
  BY <1>2, <1>4, EndedWent
<1>. QED  BY <1>1, <1>2, <1>3

(* The tasks of an error path. *)
LEMMA ErrorTasks ==
  ASSUME NEW t \in Tunnel
  PROVE  /\ \A h \in Host : LET q == <<Task("spoil", h, t)>> \o PutConfig(t) IN
              q \in Seq(TaskRow) /\ q # << >> /\ \A i \in 1..Len(q) : q[i].do \notin {"check", "look"}
         /\ \A do \in {"undo", "unlist"} : LET q == <<Task(do, "none", t)>> IN
              q \in Seq(TaskRow) /\ q # << >> /\ \A i \in 1..Len(q) : q[i].do \notin {"check", "look"}
<1>1. ASSUME NEW h \in Host PROVE LET q == <<Task("spoil", h, t)>> \o PutConfig(t) IN
              q \in Seq(TaskRow) /\ q # << >> /\ \A i \in 1..Len(q) : q[i].do \notin {"check", "look"}
  <2>1. Task("spoil", h, t) \in TaskRow /\ Task("rows", "none", t) \in TaskRow /\ Task("put", "none", t) \in TaskRow
    BY PublishingAssumption DEF Task, TaskRow, OnHost, OnTunnel
  <2>2. \A x, y, z \in TaskRow : LET q == <<x>> \o <<y, z>> IN
          q \in Seq(TaskRow) /\ Len(q) = 3 /\ q[1] = x /\ q[2] = y /\ q[3] = z
    OBVIOUS
  <2>3. Task("spoil", h, t).do = "spoil" /\ Task("rows", "none", t).do = "rows" /\ Task("put", "none", t).do = "put"
    BY DEF Task
  <2> DEFINE q == <<Task("spoil", h, t)>> \o <<Task("rows", "none", t), Task("put", "none", t)>>
  <2>4. q \in Seq(TaskRow) /\ Len(q) = 3 /\ q[1] = Task("spoil", h, t) /\ q[2] = Task("rows", "none", t)
        /\ q[3] = Task("put", "none", t)
    BY <2>1, <2>2
  <2> HIDE DEF q
  <2>5. q # << >> /\ \A i \in 1..Len(q) : q[i].do \notin {"check", "look"}
    BY <2>3, <2>4, EmptySeq
  <2>. QED  BY <2>4, <2>5 DEF q, PutConfig
<1>2. ASSUME NEW do \in {"undo", "unlist"} PROVE LET q == <<Task(do, "none", t)>> IN
              q \in Seq(TaskRow) /\ q # << >> /\ \A i \in 1..Len(q) : q[i].do \notin {"check", "look"}
  <2>1. Task(do, "none", t) \in TaskRow /\ Task(do, "none", t).do = do
    BY PublishingAssumption DEF Task, TaskRow, OnHost, OnTunnel
  <2>. QED  BY <2>1
<1>. QED  BY <1>1, <1>2

(* Nor is there an order to keep where nothing is checked or looked up. *)
LEMMA NoLookFits ==
  ASSUME NEW j, j.todo \in Seq(TaskRow), \A i \in 1..Len(j.todo) : j.todo[i].do \notin {"check", "look"}
  PROVE  TasksFit(j)
<1> SUFFICES ASSUME NEW i \in 1..Len(j.todo) PROVE Left(j.todo, i).do \notin {"check", "look"}
  BY DEF TasksFit
<1>1. Len(j.todo) + 1 - i \in 1..Len(j.todo)
  BY LenProperties
<1>. QED  BY <1>1 DEF Left

(* A call that throws: the request is over, goes on after it, or takes its error path. *)
LEMMA CaughtWent ==
  ASSUME NEW j \in Job, JobFits(j), j.st = "running"
  PROVE  LET k == Caught(j) IN
         /\ k \in Job /\ JobFits(k) /\ Went(j, k) /\ (k.alone => j.alone)
         /\ k.alone /\ ~Fails(k) =>
              \/ /\ j.kind = "delete" /\ k.warned
                 /\ Len(k.todo) = Len(j.todo) - (IF Head(j.todo).do = "look" THEN 2 ELSE 1)
              \/ j.kind = "untunnel" /\ Head(j.todo).do = "forget" /\ Len(k.todo) = Len(j.todo) - 1
<1> SUFFICES ASSUME NEW k, k = Caught(j)
             PROVE  /\ k \in Job /\ JobFits(k) /\ Went(j, k) /\ (k.alone => j.alone)
                    /\ k.alone /\ ~Fails(k) =>
                         \/ /\ j.kind = "delete" /\ k.warned
                            /\ Len(k.todo) = Len(j.todo) - (IF Head(j.todo).do = "look" THEN 2 ELSE 1)
                         \/ j.kind = "untunnel" /\ Head(j.todo).do = "forget" /\ Len(k.todo) = Len(j.todo) - 1
  OBVIOUS
<1>0. /\ j.todo \in Seq(TaskRow) /\ j.todo # << >> /\ Len(j.todo) \in Nat /\ Len(j.todo) > 0
      /\ Head(j.todo) \in TaskRow /\ Head(j.todo) = Left(j.todo, Len(j.todo))
      /\ Tail(j.todo) \in Seq(TaskRow) /\ Len(Tail(j.todo)) = Len(j.todo) - 1
      /\ \A n \in 1..Len(Tail(j.todo)) : Left(Tail(j.todo), n) = Left(j.todo, n)
  BY TailLeft DEF JobFits, Job
<1>t. Head(j.todo).tunnel \in Tunnel
  BY <1>0 DEF TaskRow
<1>1. CASE k = NoJob
  BY <1>1, NoJobFits, NoneTypes DEF Went
<1>2. CASE /\ Fails(j) \/ (j.kind = "untunnel" /\ Head(j.todo).do = "forget")
           /\ k = Ended([j EXCEPT !.todo = Tail(@)])
  <2>1. /\ k \in Job /\ JobFits(k) /\ Went(j, k)
        /\ k.alone => j.alone /\ Len(k.todo) = Len(j.todo) - 1 /\ k.warned = j.warned
    BY <1>2, GoesOn
  <2>. QED  BY <1>2, <2>1 DEF Went
<1>3. ASSUME NEW q \in Seq(TaskRow), q # << >>, \A i \in 1..Len(q) : q[i].do \notin {"check", "look"},
             k = [j EXCEPT !.warned = TRUE, !.todo = q], j.kind \in {"create", "retry", "tunnel", "ensure", "link"}
      PROVE  k \in Job /\ JobFits(k) /\ Fails(k) /\ k.alone = j.alone
  <2>1. /\ k \in Job /\ k.st = "running" /\ k.todo = q /\ k.warned /\ k.kind = j.kind /\ k.was = j.was
             /\ k.alone = j.alone
    BY <1>3 DEF Job
  <2>2. TasksFit(k)
    BY <1>3, <2>1, NoLookFits
  <2>. QED  BY <1>3, <2>1, <2>2 DEF JobFits, Fails
<1>4. CASE j.kind \in {"create", "retry"} /\ ~j.warned
  <2>1. k = [j EXCEPT !.warned = TRUE,
          !.todo = <<Task("spoil", j.was.host, j.was.tunnel)>> \o PutConfig(j.was.tunnel)]
    BY <1>4 DEF Caught, Fails
  <2>2. j.was.host \in Host /\ j.was.tunnel \in Tunnel
    BY <1>4 DEF JobFits
  <2>3. k \in Job /\ JobFits(k) /\ Fails(k) /\ k.alone = j.alone
    BY <1>3, <1>4, <2>1, <2>2, ErrorTasks
  <2>. QED  BY <2>3 DEF Went
<1>5. CASE j.kind \in {"tunnel", "ensure"} /\ ~j.warned /\ Head(j.todo).do \notin {"make", "token"}
  <2>1. k = [j EXCEPT !.warned = TRUE, !.todo = <<Task("undo", "none", Head(j.todo).tunnel)>>]
    BY <1>5 DEF Caught, Fails
  <2>2. k \in Job /\ JobFits(k) /\ Fails(k) /\ k.alone = j.alone
    BY <1>3, <1>5, <1>t, <2>1, ErrorTasks
  <2>. QED  BY <2>2 DEF Went
<1>6. CASE j.kind = "link" /\ ~j.warned
  <2>1. k = [j EXCEPT !.warned = TRUE, !.todo = <<Task("unlist", "none", Head(j.todo).tunnel)>>]
    BY <1>6 DEF Caught, Fails
  <2>2. k \in Job /\ JobFits(k) /\ Fails(k) /\ k.alone = j.alone
    BY <1>3, <1>6, <1>t, <2>1, ErrorTasks
  <2>. QED  BY <2>2 DEF Went
<1>7. CASE j.kind = "delete"
  <2> DEFINE q == IF Head(j.todo).do = "look" THEN Tail(Tail(j.todo)) ELSE Tail(j.todo)
             m == [j EXCEPT !.warned = TRUE, !.todo = q]
  <2>1. k = Ended(m)
    BY <1>7 DEF Caught, Fails
  <2>2. /\ q \in Seq(TaskRow) /\ Len(q) = Len(j.todo) - (IF Head(j.todo).do = "look" THEN 2 ELSE 1)
        /\ \A i \in 1..Len(q) : Left(q, i) = Left(j.todo, i)
    <3>1. CASE Head(j.todo).do # "look"
      BY <1>0, <3>1
    <3>2. CASE Head(j.todo).do = "look"
      <4>1. Len(j.todo) > 1
        BY <1>0, <1>7, <3>2 DEF JobFits, TasksFit
      <4>6. Tail(j.todo) \in Seq(TaskRow) /\ Len(Tail(j.todo)) > 0
        BY <1>0, <4>1
      <4>2. Tail(j.todo) # << >>
        BY <4>6, TodoLen
      <4>3. /\ Tail(Tail(j.todo)) \in Seq(TaskRow) /\ Len(Tail(Tail(j.todo))) = Len(Tail(j.todo)) - 1
            /\ \A i \in 1..Len(Tail(Tail(j.todo))) : Left(Tail(Tail(j.todo)), i) = Left(Tail(j.todo), i)
        BY <1>0, <4>2, TailLeft
      <4>4. q = Tail(Tail(j.todo)) /\ Len(q) = Len(j.todo) - 2
        BY <1>0, <3>2, <4>3
      <4>5. ASSUME NEW i \in 1..Len(q) PROVE Left(q, i) = Left(j.todo, i)
        <5>1. i \in 1..Len(Tail(j.todo))
          BY <1>0, <4>4
        <5>. QED  BY <1>0, <4>3, <4>4, <5>1
      <4>. QED  BY <3>2, <4>3, <4>4, <4>5
    <3>. QED  BY <3>1, <3>2
  <2> HIDE DEF q
  <2>3. /\ m \in Job /\ m.todo = q /\ m.st = "running" /\ m.kind = j.kind /\ m.route = j.route /\ m.was = j.was
        /\ m.put = j.put /\ m.alone = j.alone /\ m.rows = j.rows /\ m.seen = j.seen /\ m.warned
    BY <2>2 DEF Job
  <2> HIDE DEF m
  <2>4. Len(m.todo) < Len(j.todo) /\ \A i \in 1..Len(m.todo) : Left(m.todo, i) = Left(j.todo, i)
    BY <1>0, <2>2, <2>3
  <2>5. LET e == Ended(m) IN
        /\ e \in Job /\ JobFits(e) /\ Went(j, e) /\ (e.alone => j.alone)
        /\ e.alone => Len(e.todo) = Len(m.todo) /\ e.warned = m.warned
    BY <2>3, <2>4, EndedWent
  <2>. QED  BY <1>7, <2>1, <2>2, <2>3, <2>5
<1>. QED
  BY <1>1, <1>2, <1>4, <1>5, <1>6, <1>7 DEF Caught, Fails

(* A request goes from its tasks to k: the others are as they were, and none of them is alone. *)
LEMMA JobGoes ==
  ASSUME PublishingFits, NEW c \in Caller, jobs[c].st = "running", NEW k \in Job, JobFits(k), k.alone
           => jobs[c].alone,
         jobs' = [jobs EXCEPT ![c] = k]
  PROVE  /\ jobs' \in [Caller -> Job] /\ JobsFit'
         /\ jobs'[c] = k /\ \A d \in Caller \ {c} : jobs'[d] = jobs[d] /\ ~jobs'[d].alone
<1>0. jobs \in [Caller -> Job] /\ JobsFit
  BY DEF PublishingFits, PublishingTypeOK
<1>1. jobs' \in [Caller -> Job] /\ jobs'[c] = k /\ \A d \in Caller \ {c} : jobs'[d] = jobs[d]
  BY <1>0
<1>2. \A d \in Caller \ {c} : ~jobs[d].alone
  BY <1>0 DEF JobsFit
<1>3. \A d \in Caller : JobFits(jobs'[d])
  BY <1>0, <1>1 DEF JobsFit
<1>4. ASSUME NEW d \in Caller, jobs'[d].alone, NEW e \in Caller \ {d} PROVE jobs'[e].st # "running"
  <2>1. d = c /\ jobs[c].alone
    BY <1>1, <1>2, <1>4
  <2>. QED  BY <1>0, <1>1, <2>1 DEF JobsFit
<1>. QED  BY <1>1, <1>2, <1>3, <1>4 DEF JobsFit

(* Somebody begins, or changes something else: nobody who had begun is alone any more. *)
LEMMA DisturbedFits ==
  ASSUME PublishingFits, NEW d \in Caller
  PROVE  /\ Disturbed[d] \in Job /\ JobFits(Disturbed[d]) /\ ~Disturbed[d].alone
         /\ Disturbed[d].st = "running" <=> jobs[d].st = "running"
<1>0. jobs[d] \in Job /\ JobFits(jobs[d])
  BY DEF PublishingFits, PublishingTypeOK, JobsFit
<1>1. CASE jobs[d].st = "running"
  <2>1. Disturbed[d] = [jobs[d] EXCEPT !.alone = FALSE]
    BY <1>1 DEF Disturbed
  <2>2. /\ Disturbed[d] \in Job /\ Disturbed[d].st = "running" /\ ~Disturbed[d].alone
             /\ Disturbed[d].todo = jobs[d].todo
        /\ Disturbed[d].kind = jobs[d].kind /\ Disturbed[d].was = jobs[d].was
    BY <1>0, <1>1, <2>1 DEF Job
  <2>. QED  BY <1>0, <1>1, <2>2 DEF JobFits, TasksFit
<1>2. CASE jobs[d].st # "running"
  BY <1>2, NoneTypes, NoJobFits DEF Disturbed
<1>. QED  BY <1>1, <1>2

(* After a disturbance the requests fit, and none is alone. *)
LEMMA DisturbedKeeps ==
  ASSUME PublishingFits, jobs' = Disturbed
  PROVE  jobs' \in [Caller -> Job] /\ JobsFit' /\ \A d \in Caller : ~jobs'[d].alone
<1>1. \A d \in Caller : jobs'[d] \in Job /\ JobFits(jobs'[d]) /\ ~jobs'[d].alone
  BY DisturbedFits
<1>2. jobs' = [d \in Caller |-> jobs'[d]]
  BY DEF Disturbed
<1>. QED  BY <1>1, <1>2 DEF JobsFit

(* A request that begins fits, and so do the others. *)
LEMMA BeginFits ==
  ASSUME PublishingFits, NEW c \in Caller, NEW kind, NEW r \in 0..MaxRoute, NEW was \in RouteRow,
           NEW todo \in Seq(TaskRow),
         kind \in Kinds,
         todo # << >>, kind \in {"create", "retry"} => was.host \in Host /\ was.tunnel \in Tunnel,
         \A i \in 1..Len(todo) : /\ Left(todo, i).do = "check" => i > 2
                                 /\ kind = "delete" /\ Left(todo, i).do = "look" => i > 1,
         Begin(c, kind, r, was, todo)
  PROVE  /\ jobs' \in [Caller -> Job] /\ JobsFit'
         /\ \A d \in Caller \ {c} : ~jobs'[d].alone
         /\ jobs'[c].kind = kind /\ jobs'[c].route = r /\ jobs'[c].was = was /\ jobs'[c].todo = todo
         /\ jobs'[c].put = {} /\ ~jobs'[c].warned
<1> DEFINE lone == \A d \in Caller \ {c} : jobs[d].st # "running"
           k == [NoJob EXCEPT !.kind = kind, !.st = "running", !.route = r, !.was = was, !.todo = todo,
             !.alone = lone]
<1>1. /\ jobs' = [Disturbed EXCEPT ![c] = k]
      /\ Disturbed = [d \in Caller |-> Disturbed[d]]
  BY DEF Begin, Disturbed
<1>2. lone \in BOOLEAN
  OBVIOUS
<1>3. lone => \A d \in Caller \ {c} : jobs[d].st # "running"
  OBVIOUS
<1> HIDE DEF lone
<1>4. /\ k \in Job /\ k.kind = kind /\ k.st = "running" /\ k.route = r /\ k.was = was /\ k.todo = todo
           /\ k.alone = lone
      /\ k.put = {} /\ ~k.warned
  BY <1>2, NoneTypes DEF Job
<1> HIDE DEF k
<1>5. TasksFit(k)
  BY <1>4 DEF TasksFit
<1>6. JobFits(k)
  BY <1>4, <1>5 DEF JobFits
<1>7. jobs'[c] = k /\ \A d \in Caller \ {c} : jobs'[d] = Disturbed[d]
  BY <1>1
<1>8. \A d \in Caller \ {c} : /\ jobs'[d] \in Job /\ JobFits(jobs'[d]) /\ ~jobs'[d].alone
                              /\ jobs'[d].st = "running" <=> jobs[d].st = "running"
  BY <1>7, DisturbedFits
<1>9. jobs' \in [Caller -> Job]
  BY <1>1, <1>4, <1>7, <1>8
<1>10. JobsFit'
  <2>1. \A d \in Caller : JobFits(jobs'[d])
    BY <1>6, <1>7, <1>8
  <2>2. ASSUME NEW d \in Caller, jobs'[d].alone, NEW e \in Caller \ {d} PROVE jobs'[e].st # "running"
    <3>1. d = c /\ lone
      BY <1>4, <1>7, <1>8, <2>2
    <3>. QED  BY <1>3, <1>8, <3>1
  <2>. QED  BY <2>1, <2>2 DEF JobsFit
<1>. QED  BY <1>4, <1>7, <1>8, <1>9, <1>10

-----------------------------------------------------------------------------
(* What the tasks of each request are. *)

(* The tasks left of two plans, one after the other. *)
LEMMA LeftOfConcat ==
  ASSUME NEW p \in Seq(TaskRow), NEW q \in Seq(TaskRow)
  PROVE  /\ p \o q \in Seq(TaskRow) /\ Len(p) \in Nat /\ Len(q) \in Nat /\ Len(p \o q) = Len(p) + Len(q)
         /\ \A i \in 1..Len(p) + Len(q) : Left(p \o q, i) = IF i <= Len(q) THEN Left(q, i) ELSE Left(p, i - Len(q))
<1>1. /\ p \o q \in Seq(TaskRow) /\ Len(p) \in Nat /\ Len(q) \in Nat /\ Len(p \o q) = Len(p) + Len(q)
      /\ \A i \in 1..Len(p) + Len(q) : (p \o q)[i] = IF i <= Len(p) THEN p[i] ELSE q[i - Len(p)]
  BY ConcatProperties, LenProperties
<1>2. ASSUME NEW i \in 1..Len(p) + Len(q)
      PROVE  Left(p \o q, i) = IF i <= Len(q) THEN Left(q, i) ELSE Left(p, i - Len(q))
  <2> DEFINE k == Len(p) + Len(q) + 1 - i
  <2>1. k \in 1..Len(p) + Len(q) /\ Left(p \o q, i) = (p \o q)[k]
    BY <1>1 DEF Left
  <2>2. CASE i <= Len(q)
    <3>1. ~(k <= Len(p)) /\ k - Len(p) = Len(q) + 1 - i
      BY <1>1, <2>2
    <3>2. (p \o q)[k] = q[k - Len(p)]
      BY <1>1, <2>1, <3>1
    <3>. QED  BY <2>1, <2>2, <3>1, <3>2 DEF Left
  <2>3. CASE ~(i <= Len(q))
    <3>1. k <= Len(p) /\ k = Len(p) + 1 - (i - Len(q))
      BY <1>1, <2>3
    <3>2. (p \o q)[k] = p[k]
      BY <1>1, <2>1, <3>1
    <3>. QED  BY <2>1, <2>3, <3>1, <3>2 DEF Left
  <2>. QED  BY <2>2, <2>3
<1>. QED  BY <1>1, <1>2

(* Task gives the task it is asked for. *)
LEMMA TaskIs ==
  ASSUME NEW t \in Tunnel
  PROVE  /\ \A do \in OnTunnel : LET x == Task(do, "none", t) IN
              x \in TaskRow /\ x.do = do /\ x.tunnel = t /\ x.host = "none"
         /\ \A do \in OnHost, h \in Host : LET x == Task(do, h, t) IN
              x \in TaskRow /\ x.do = do /\ x.tunnel = t /\ x.host = h
BY PublishingAssumption DEF Task, TaskRow

(* One, two and three tasks in a row. *)
LEMMA OneLeft ==
  ASSUME NEW x \in TaskRow
  PROVE  <<x>> \in Seq(TaskRow) /\ Len(<<x>>) = 1 /\ Left(<<x>>, 1) = x
BY DEF Left

(* The tasks of a plan of two, *)
LEMMA TwoLeft ==
  ASSUME NEW x \in TaskRow, NEW y \in TaskRow, NEW q, q = <<x, y>>
  PROVE  q \in Seq(TaskRow) /\ Len(q) = 2 /\ Left(q, 2) = x /\ Left(q, 1) = y
<1>1. q \in Seq(TaskRow) /\ Len(q) = 2 /\ q[1] = x /\ q[2] = y
  OBVIOUS
<1>. QED  BY <1>1 DEF Left

(* and of a plan of three. *)
LEMMA ThreeLeft ==
  ASSUME NEW x \in TaskRow, NEW y \in TaskRow, NEW z \in TaskRow, NEW q, q = <<x, y, z>>
  PROVE  q \in Seq(TaskRow) /\ Len(q) = 3 /\ Left(q, 3) = x /\ Left(q, 2) = y /\ Left(q, 1) = z
<1>1. q \in Seq(TaskRow) /\ Len(q) = 3 /\ q[1] = x /\ q[2] = y /\ q[3] = z
  OBVIOUS
<1>. QED  BY <1>1 DEF Left

(* A plan without its first task. *)
LEMMA WithoutFirst ==
  ASSUME NEW q \in Seq(TaskRow), NEW n \in Nat, Len(q) = n + 1
  PROVE  Tail(q) \in Seq(TaskRow) /\ Len(Tail(q)) = n /\ \A i \in 1..n : Left(Tail(q), i) = Left(q, i)
<1>1. q # << >>
  BY TodoLen
<1>2. /\ Tail(q) \in Seq(TaskRow) /\ Len(Tail(q)) = Len(q) - 1
      /\ \A i \in 1..Len(Tail(q)) : Left(Tail(q), i) = Left(q, i)
  BY <1>1, TailLeft
<1>3. Len(Tail(q)) = n
  BY <1>2
<1>. QED  BY <1>2, <1>3

(* What PutConfig, UpsertCname, DropCname and RunConnector have left. *)
LEMMA PutConfigTasks ==
  ASSUME NEW t \in Tunnel, NEW q, q = PutConfig(t)
  PROVE  q \in Seq(TaskRow) /\ Len(q) = 2 /\ Left(q, 2) = Task("rows", "none", t)
           /\ Left(q, 1) = Task("put", "none", t)
<1>1. Task("rows", "none", t) \in TaskRow /\ Task("put", "none", t) \in TaskRow
  BY TaskIs DEF OnTunnel
<1>. QED  BY <1>1, TwoLeft DEF PutConfig

(* The tasks of UpsertCname, from the last, *)
LEMMA UpsertTasks ==
  ASSUME NEW t \in Tunnel, NEW h \in Host, NEW q, q = UpsertCname(h, t)
  PROVE  /\ q \in Seq(TaskRow) /\ Len(q) = 3
         /\ Left(q, 3) = Task("look", h, t) /\ Left(q, 2) = Task("point", h, t) /\ Left(q, 1) = Task("save", h, t)
<1>1. Task("look", h, t) \in TaskRow /\ Task("point", h, t) \in TaskRow /\ Task("save", h, t) \in TaskRow
  BY TaskIs DEF OnHost
<1>. QED  BY <1>1, ThreeLeft DEF UpsertCname

(* of DropCname, whole and without its look, *)
LEMMA DropTasks ==
  ASSUME NEW t \in Tunnel, NEW h \in Host, NEW q, q = DropCname(h, t)
  PROVE  /\ q \in Seq(TaskRow) /\ Len(q) = 2 /\ Left(q, 2) = Task("look", h, t) /\ Left(q, 1) = Task("drop", h, t)
         /\ Tail(q) \in Seq(TaskRow) /\ Len(Tail(q)) = 1 /\ Left(Tail(q), 1) = Task("drop", h, t)
<1>1. Task("look", h, t) \in TaskRow /\ Task("drop", h, t) \in TaskRow
  BY TaskIs DEF OnHost
<1>2. q \in Seq(TaskRow) /\ Len(q) = 2 /\ Left(q, 2) = Task("look", h, t) /\ Left(q, 1) = Task("drop", h, t)
  BY <1>1, TwoLeft DEF DropCname
<1>3. Len(q) = 1 + 1
  BY <1>2
<1>4. Tail(q) \in Seq(TaskRow) /\ Len(Tail(q)) = 1 /\ \A i \in 1..1 : Left(Tail(q), i) = Left(q, i)
  BY <1>2, <1>3, WithoutFirst
<1>. QED  BY <1>2, <1>4

(* and of RunConnector, whole and without its check. *)
LEMMA ConnectorTasks ==
  ASSUME NEW t \in Tunnel, NEW q, q = RunConnector(t)
  PROVE  /\ q \in Seq(TaskRow) /\ Len(q) = 3
         /\ Left(q, 3) = Task("check", "none", t) /\ Left(q, 2) = Task("rm", "none", t)
              /\ Left(q, 1) = Task("run", "none", t)
         /\ Tail(q) \in Seq(TaskRow) /\ Len(Tail(q)) = 2
         /\ Left(Tail(q), 2) = Task("rm", "none", t) /\ Left(Tail(q), 1) = Task("run", "none", t)
<1>1. Task("check", "none", t) \in TaskRow /\ Task("rm", "none", t) \in TaskRow /\ Task("run", "none", t) \in TaskRow
  BY TaskIs DEF OnTunnel
<1>2. /\ q \in Seq(TaskRow) /\ Len(q) = 3
      /\ Left(q, 3) = Task("check", "none", t) /\ Left(q, 2) = Task("rm", "none", t)
           /\ Left(q, 1) = Task("run", "none", t)
  BY <1>1, ThreeLeft DEF RunConnector
<1>3. Len(q) = 2 + 1
  BY <1>2
<1>4. Tail(q) \in Seq(TaskRow) /\ Len(Tail(q)) = 2 /\ \A i \in 1..2 : Left(Tail(q), i) = Left(q, i)
  BY <1>2, <1>3, WithoutFirst
<1>. QED  BY <1>2, <1>4

(* The tasks of createManagedHostname and retryManagedHostname. *)
LEMMA CreateTasks ==
  ASSUME NEW t \in Tunnel, NEW h \in Host, NEW q, q = PutConfig(t) \o UpsertCname(h, t)
  PROVE  /\ q \in Seq(TaskRow) /\ Len(q) = 5
         /\ Left(q, 5) = Task("rows", "none", t) /\ Left(q, 4) = Task("put", "none", t)
         /\ Left(q, 3) = Task("look", h, t) /\ Left(q, 2) = Task("point", h, t) /\ Left(q, 1) = Task("save", h, t)
<1> DEFINE a == PutConfig(t)
           b == UpsertCname(h, t)
<1>1. /\ a \in Seq(TaskRow) /\ Len(a) = 2 /\ Left(a, 2) = Task("rows", "none", t)
           /\ Left(a, 1) = Task("put", "none", t)
      /\ b \in Seq(TaskRow) /\ Len(b) = 3
      /\ Left(b, 3) = Task("look", h, t) /\ Left(b, 2) = Task("point", h, t) /\ Left(b, 1) = Task("save", h, t)
  BY PutConfigTasks, UpsertTasks
<1> HIDE DEF a, b
<1>2. /\ a \o b \in Seq(TaskRow) /\ Len(a \o b) = Len(a) + Len(b)
      /\ \A i \in 1..Len(a) + Len(b) : Left(a \o b, i) = IF i <= Len(b) THEN Left(b, i) ELSE Left(a, i - Len(b))
  BY <1>1, LeftOfConcat
<1>3. \A i \in 1..5 : Left(a \o b, i) = IF i <= 3 THEN Left(b, i) ELSE Left(a, i - 3)
  BY <1>1, <1>2
<1>4. /\ Left(a \o b, 5) = Left(a, 2) /\ Left(a \o b, 4) = Left(a, 1) /\ Left(a \o b, 3) = Left(b, 3)
      /\ Left(a \o b, 2) = Left(b, 2) /\ Left(a \o b, 1) = Left(b, 1)
  BY <1>3
<1>5. q = a \o b
  BY DEF a, b
<1>. QED  BY <1>1, <1>2, <1>4, <1>5

(* Those of deleteManagedHostname and deleteProjectRoute: a record that is known is not looked for. *)
RemovePlan(q, n, h, t) ==
  /\ q \in Seq(TaskRow) /\ Len(q) = n
  /\ n = 5 => Left(q, 5).do = "look" /\ Left(q, 5).host = h
  /\ Left(q, 4).do = "drop" /\ Left(q, 4).host = h /\ Left(q, 4).tunnel = t
  /\ Left(q, 3).do = "erase" /\ Left(q, 2).do = "rows" /\ Left(q, 1).do = "put"
  /\ Left(q, 1).tunnel = t /\ Left(q, 2).tunnel = t

(* A removal drops the record, erases the row and writes the ingress. *)
LEMMA RemoveTasks ==
  ASSUME NEW t \in Tunnel, NEW h \in Host, NEW b, b \in {DropCname(h, t), Tail(DropCname(h, t))},
         NEW q, q = b \o <<Task("erase", h, t)>> \o PutConfig(t)
  PROVE  RemovePlan(q, IF b = DropCname(h, t) THEN 5 ELSE 4, h, t)
<1> DEFINE e == <<Task("erase", h, t)>>
           a == PutConfig(t)
           n == IF b = DropCname(h, t) THEN 2 ELSE 1
<1>1. /\ b \in Seq(TaskRow) /\ Len(b) = n /\ (n = 2 => Left(b, 2) = Task("look", h, t))
           /\ Left(b, 1) = Task("drop", h, t)
  BY DropTasks
<1>2. /\ a \in Seq(TaskRow) /\ Len(a) = 2 /\ Left(a, 2) = Task("rows", "none", t)
           /\ Left(a, 1) = Task("put", "none", t)
  BY PutConfigTasks
<1>3. e \in Seq(TaskRow) /\ Len(e) = 1 /\ Left(e, 1) = Task("erase", h, t)
  BY TaskIs, OneLeft DEF OnHost
<1>4. n \in 1..2 /\ (IF b = DropCname(h, t) THEN 5 ELSE 4) = n + 3
  OBVIOUS
<1> HIDE DEF a, e, n
<1>5. /\ b \o e \in Seq(TaskRow) /\ Len(b \o e) = Len(b) + Len(e)
      /\ \A i \in 1..Len(b) + Len(e) : Left(b \o e, i) = IF i <= Len(e) THEN Left(e, i) ELSE Left(b, i - Len(e))
  BY <1>1, <1>3, LeftOfConcat
<1>6. Len(b \o e) = n + 1 /\ \A i \in 1..(n + 1) : Left(b \o e, i) = IF i <= 1 THEN Left(e, i) ELSE Left(b, i - 1)
  BY <1>1, <1>3, <1>4, <1>5
<1>7. /\ b \o e \o a \in Seq(TaskRow) /\ Len(b \o e \o a) = Len(b \o e) + Len(a)
      /\ \A i \in 1..Len(b \o e) + Len(a) :
           Left(b \o e \o a, i) = IF i <= Len(a) THEN Left(a, i) ELSE Left(b \o e, i - Len(a))
  BY <1>2, <1>5, LeftOfConcat
<1>8. /\ q \in Seq(TaskRow) /\ Len(q) = n + 3
      /\ \A i \in 1..(n + 3) : Left(q, i) = IF i <= 2 THEN Left(a, i) ELSE Left(b \o e, i - 2)
  BY <1>2, <1>4, <1>6, <1>7 DEF a, e
<1>9. /\ Left(q, 1) = Left(a, 1) /\ Left(q, 2) = Left(a, 2)
      /\ Left(q, 3) = Left(b \o e, 1) /\ Left(q, 4) = Left(b \o e, 2) /\ (n = 2 => Left(q, 5) = Left(b \o e, 3))
  BY <1>4, <1>8
<1>10. Left(b \o e, 1) = Left(e, 1) /\ Left(b \o e, 2) = Left(b, 1) /\ (n = 2 => Left(b \o e, 3) = Left(b, 2))
  BY <1>4, <1>6
<1>11. Len(q) = 5 => n = 2
  BY <1>4, <1>8
<1>12. /\ Len(q) = 5 => Left(q, 5) = Task("look", h, t)
       /\ Left(q, 4) = Task("drop", h, t) /\ Left(q, 3) = Task("erase", h, t)
       /\ Left(q, 2) = Task("rows", "none", t) /\ Left(q, 1) = Task("put", "none", t)
  BY <1>1, <1>2, <1>3, <1>9, <1>10, <1>11
<1>13. RemovePlan(q, n + 3, h, t)
  BY <1>8, <1>12, TaskIs DEF RemovePlan, OnHost, OnTunnel
<1>. QED  BY <1>4, <1>13

(* Those of publishProjectRoute, with d tasks to drop the old record and m for the tunnel that served before. *)
PublishPlan(q, m, d, h, t) ==
  /\ q \in Seq(TaskRow) /\ Len(q) = 9 + m + d
  /\ Left(q, 1).do = "run" /\ Left(q, 1).tunnel = t /\ Left(q, 2).do = "rm" /\ Left(q, 3).do = "check"
  /\ Left(q, 3).tunnel = t
  /\ m = 2 => Left(q, 4).do = "put" /\ Left(q, 5).do = "rows" /\ Left(q, 5).tunnel = Left(q, 4).tunnel
  /\ Left(q, 4 + m).do = "put" /\ Left(q, 4 + m).tunnel = t /\ Left(q, 5 + m).do = "rows" /\ Left(q, 5 + m).tunnel = t
  /\ Left(q, 6 + m).do = "save" /\ Left(q, 6 + m).host = h /\ Left(q, 6 + m).tunnel = t
  /\ Left(q, 7 + m).do = "point" /\ Left(q, 7 + m).host = h /\ Left(q, 7 + m).tunnel = t
  /\ Left(q, 8 + m).do = "look" /\ Left(q, 8 + m).host = h
  /\ Left(q, 9 + m).do = "assign" /\ Left(q, 9 + m).host = h /\ Left(q, 9 + m).tunnel = t
  /\ d = 2 => Left(q, 10 + m).do = "drop" /\ Left(q, 11 + m).do = "look"

(* A publication is the plan named above. *)
LEMMA PublishTasks ==
  ASSUME NEW t \in Tunnel, NEW h \in Host, NEW old \in Tunnel \cup {"none"},
         NEW b, NEW d \in {0, 2}, NEW g \in Host, d = 0 => b = << >>, d = 2 => old \in Tunnel
           /\ b = DropCname(g, old),
         NEW mm, NEW m \in {0, 2}, m = 0 => mm = << >>, m = 2 => old \in Tunnel /\ mm = PutConfig(old),
         NEW q, q = b \o (<<Task("assign", h, t)>> \o UpsertCname(h, t) \o PutConfig(t) \o mm \o RunConnector(t))
  PROVE  PublishPlan(q, m, d, h, t)
<1> DEFINE a == <<Task("assign", h, t)>>
           u == UpsertCname(h, t)
           p == PutConfig(t)
           r == RunConnector(t)
           p1 == a \o u
           p2 == p1 \o p
           p3 == p2 \o mm
           p4 == p3 \o r
<1>1. a \in Seq(TaskRow) /\ Len(a) = 1 /\ Left(a, 1) = Task("assign", h, t)
  BY TaskIs, OneLeft DEF OnHost
<1>2. /\ u \in Seq(TaskRow) /\ Len(u) = 3
      /\ Left(u, 3) = Task("look", h, t) /\ Left(u, 2) = Task("point", h, t) /\ Left(u, 1) = Task("save", h, t)
  BY UpsertTasks
<1>3. p \in Seq(TaskRow) /\ Len(p) = 2 /\ Left(p, 2) = Task("rows", "none", t) /\ Left(p, 1) = Task("put", "none", t)
  BY PutConfigTasks
<1>4. /\ r \in Seq(TaskRow) /\ Len(r) = 3
      /\ Left(r, 3) = Task("check", "none", t) /\ Left(r, 2) = Task("rm", "none", t)
           /\ Left(r, 1) = Task("run", "none", t)
  BY ConnectorTasks
<1>5. /\ mm \in Seq(TaskRow) /\ Len(mm) = m
      /\ m = 2 => Left(mm, 2) = Task("rows", "none", old) /\ Left(mm, 1) = Task("put", "none", old)
  BY PutConfigTasks, EmptySeq
<1>6. /\ b \in Seq(TaskRow) /\ Len(b) = d
      /\ d = 2 => Left(b, 2) = Task("look", g, old) /\ Left(b, 1) = Task("drop", g, old)
  BY DropTasks, EmptySeq
<1>7. q = b \o p4
  OBVIOUS
<1> HIDE DEF a, u, p, r
<1>11. /\ p1 \in Seq(TaskRow) /\ Len(p1) = Len(a) + Len(u)
       /\ \A i \in 1..Len(a) + Len(u) : Left(p1, i) = IF i <= Len(u) THEN Left(u, i) ELSE Left(a, i - Len(u))
  BY <1>1, <1>2, LeftOfConcat
<1>12. Len(p1) = 4 /\ \A i \in 1..4 : Left(p1, i) = IF i <= 3 THEN Left(u, i) ELSE Left(a, i - 3)
  BY <1>1, <1>2, <1>11
<1> HIDE DEF p1
<1>21. /\ p2 \in Seq(TaskRow) /\ Len(p2) = Len(p1) + Len(p)
       /\ \A i \in 1..Len(p1) + Len(p) : Left(p2, i) = IF i <= Len(p) THEN Left(p, i) ELSE Left(p1, i - Len(p))
  BY <1>3, <1>11, LeftOfConcat
<1>22. Len(p2) = 6 /\ \A i \in 1..6 : Left(p2, i) = IF i <= 2 THEN Left(p, i) ELSE Left(p1, i - 2)
  BY <1>3, <1>12, <1>21
<1> HIDE DEF p2
<1>31. /\ p3 \in Seq(TaskRow) /\ Len(p3) = Len(p2) + Len(mm)
       /\ \A i \in 1..Len(p2) + Len(mm) : Left(p3, i) = IF i <= Len(mm) THEN Left(mm, i) ELSE Left(p2, i - Len(mm))
  BY <1>5, <1>21, LeftOfConcat
<1>32. Len(p3) = 6 + m /\ \A i \in 1..(6 + m) : Left(p3, i) = IF i <= m THEN Left(mm, i) ELSE Left(p2, i - m)
  BY <1>5, <1>22, <1>31
<1> HIDE DEF p3
<1>41. /\ p4 \in Seq(TaskRow) /\ Len(p4) = Len(p3) + Len(r)
       /\ \A i \in 1..Len(p3) + Len(r) : Left(p4, i) = IF i <= Len(r) THEN Left(r, i) ELSE Left(p3, i - Len(r))
  BY <1>4, <1>31, LeftOfConcat
<1>42. Len(p4) = 9 + m /\ \A i \in 1..(9 + m) : Left(p4, i) = IF i <= 3 THEN Left(r, i) ELSE Left(p3, i - 3)
  BY <1>4, <1>32, <1>41
<1> HIDE DEF p4
<1>51. /\ b \o p4 \in Seq(TaskRow) /\ Len(b \o p4) = Len(b) + Len(p4)
       /\ \A i \in 1..Len(b) + Len(p4) : Left(b \o p4, i) = IF i <= Len(p4) THEN Left(p4, i) ELSE Left(b, i - Len(p4))
  BY <1>6, <1>41, LeftOfConcat
<1>52. Len(b) + Len(p4) = 9 + m + d /\ Len(p4) = 9 + m
  BY <1>6, <1>42
<1>53. /\ q \in Seq(TaskRow) /\ Len(q) = 9 + m + d
       /\ \A i \in 1..(9 + m + d) : Left(q, i) = IF i <= 9 + m THEN Left(p4, i) ELSE Left(b, i - (9 + m))
  BY <1>7, <1>51, <1>52
<1>61. /\ Left(p1, 1) = Left(u, 1) /\ Left(p1, 2) = Left(u, 2) /\ Left(p1, 3) = Left(u, 3) /\ Left(p1, 4) = Left(a, 1)
  BY <1>12
<1>62. /\ Left(p2, 1) = Left(p, 1) /\ Left(p2, 2) = Left(p, 2) /\ Left(p2, 3) = Left(p1, 1)
            /\ Left(p2, 4) = Left(p1, 2)
       /\ Left(p2, 5) = Left(p1, 3) /\ Left(p2, 6) = Left(p1, 4)
  BY <1>22
<1>63. /\ m = 2 => Left(p3, 1) = Left(mm, 1) /\ Left(p3, 2) = Left(mm, 2)
       /\ \A i \in 1..6 : Left(p3, i + m) = Left(p2, i)
  <2>1. CASE m = 0
    BY <1>32, <2>1
  <2>2. CASE m = 2
    BY <1>32, <2>2
  <2>. QED  BY <2>1, <2>2
<1>64. /\ Left(p4, 1) = Left(r, 1) /\ Left(p4, 2) = Left(r, 2) /\ Left(p4, 3) = Left(r, 3)
       /\ \A i \in 1..(6 + m) : Left(p4, i + 3) = Left(p3, i)
  BY <1>42
<1>65. /\ \A i \in 1..(9 + m) : Left(q, i) = Left(p4, i)
       /\ d = 2 => Left(q, 10 + m) = Left(b, 1) /\ Left(q, 11 + m) = Left(b, 2)
  <2>1. CASE m = 0
    BY <1>53, <2>1
  <2>2. CASE m = 2
    <3>1. \A i \in 1..(11 + d) : Left(q, i) = IF i <= 11 THEN Left(p4, i) ELSE Left(b, i - 11)
      <4>1. 9 + m = 11 /\ 9 + m + d = 11 + d
        BY <2>2
      <4>. QED  BY <1>53, <4>1
    <3>2. d = 2 => Left(q, 12) = Left(b, 1) /\ Left(q, 13) = Left(b, 2)
      BY <3>1
    <3>. QED  BY <2>2, <3>1, <3>2
  <2>. QED  BY <2>1, <2>2
<1>66. \A i \in 1..6 : Left(q, i + 3 + m) = Left(p2, i)
  <2>1. CASE m = 0
    BY <1>63, <1>64, <1>65, <2>1
  <2>2. CASE m = 2
    <3>1. \A i \in 1..6 : Left(p4, i + 5) = Left(p3, i + 2)
      BY <1>64, <2>2
    <3>. QED  BY <1>63, <1>65, <2>2, <3>1
  <2>. QED  BY <2>1, <2>2
<1>67. m = 2 => Left(q, 4) = Left(p3, 1) /\ Left(q, 5) = Left(p3, 2)
  BY <1>64, <1>65
<1>68. /\ Left(q, 4 + m) = Left(p2, 1) /\ Left(q, 5 + m) = Left(p2, 2) /\ Left(q, 6 + m) = Left(p2, 3)
       /\ Left(q, 7 + m) = Left(p2, 4) /\ Left(q, 8 + m) = Left(p2, 5) /\ Left(q, 9 + m) = Left(p2, 6)
  <2>1. /\ Left(q, 1 + 3 + m) = Left(p2, 1) /\ Left(q, 2 + 3 + m) = Left(p2, 2) /\ Left(q, 3 + 3 + m) = Left(p2, 3)
        /\ Left(q, 4 + 3 + m) = Left(p2, 4) /\ Left(q, 5 + 3 + m) = Left(p2, 5) /\ Left(q, 6 + 3 + m) = Left(p2, 6)
    BY <1>66
  <2>. QED  BY <2>1
<1>71. Left(q, 1) = Left(r, 1) /\ Left(q, 2) = Left(r, 2) /\ Left(q, 3) = Left(r, 3)
  BY <1>64, <1>65
<1>72. m = 2 => Left(q, 4) = Task("put", "none", old) /\ Left(q, 5) = Task("rows", "none", old)
  BY <1>5, <1>63, <1>67
<1>73. d = 2 => Left(q, 10 + m) = Task("drop", g, old) /\ Left(q, 11 + m) = Task("look", g, old)
  BY <1>6, <1>65
<1>74. /\ Left(q, 1) = Task("run", "none", t) /\ Left(q, 2) = Task("rm", "none", t)
            /\ Left(q, 3) = Task("check", "none", t)
       /\ Left(q, 4 + m) = Task("put", "none", t) /\ Left(q, 5 + m) = Task("rows", "none", t)
       /\ Left(q, 6 + m) = Task("save", h, t) /\ Left(q, 7 + m) = Task("point", h, t)
       /\ Left(q, 8 + m) = Task("look", h, t) /\ Left(q, 9 + m) = Task("assign", h, t)
  BY <1>1, <1>2, <1>3, <1>4, <1>61, <1>62, <1>68, <1>71
<1>75. \A do \in OnTunnel : Task(do, "none", t).do = do /\ Task(do, "none", t).tunnel = t
  BY TaskIs
<1>76. \A do \in OnHost : Task(do, h, t).do = do /\ Task(do, h, t).tunnel = t /\ Task(do, h, t).host = h
  BY TaskIs
<1>77. d = 2 => Left(q, 10 + m).do = "drop" /\ Left(q, 11 + m).do = "look"
  BY <1>73, TaskIs DEF OnHost
<1>78. m = 2 => Left(q, 4).do = "put" /\ Left(q, 5).do = "rows" /\ Left(q, 5).tunnel = Left(q, 4).tunnel
  BY <1>72, TaskIs DEF OnTunnel
<1>79. /\ Left(q, 1).do = "run" /\ Left(q, 1).tunnel = t /\ Left(q, 2).do = "rm" /\ Left(q, 3).do = "check"
       /\ Left(q, 3).tunnel = t
       /\ Left(q, 4 + m).do = "put" /\ Left(q, 4 + m).tunnel = t /\ Left(q, 5 + m).do = "rows"
            /\ Left(q, 5 + m).tunnel = t
  BY <1>74, <1>75 DEF OnTunnel
<1>80. /\ Left(q, 6 + m).do = "save" /\ Left(q, 6 + m).host = h /\ Left(q, 6 + m).tunnel = t
       /\ Left(q, 7 + m).do = "point" /\ Left(q, 7 + m).host = h /\ Left(q, 7 + m).tunnel = t
       /\ Left(q, 8 + m).do = "look" /\ Left(q, 8 + m).host = h
       /\ Left(q, 9 + m).do = "assign" /\ Left(q, 9 + m).host = h /\ Left(q, 9 + m).tunnel = t
  BY <1>74, <1>76 DEF OnHost
<1>. QED  BY <1>53, <1>77, <1>78, <1>79, <1>80 DEF PublishPlan

(* An ingress is read before it is written, in each of them. *)
PutsFollow(q) ==
  \A i \in 1..Len(q) :
    /\ Left(q, i).do = "put" => i < Len(q) /\ Left(q, i + 1).do = "rows" /\ Left(q, i + 1).tunnel = Left(q, i).tunnel
    /\ Left(q, i).do \notin {"spoil", "undo"}

(* In a removal every ingress is written from rows read just before. *)
LEMMA RemovePuts ==
  ASSUME NEW q, NEW n \in {4, 5}, NEW h, NEW t, RemovePlan(q, n, h, t)
  PROVE  PutsFollow(q)
<1> SUFFICES ASSUME NEW i \in 1..n
             PROVE  /\ Left(q, i).do = "put" => i < n /\ Left(q, i + 1).do = "rows"
                         /\ Left(q, i + 1).tunnel = Left(q, i).tunnel
                    /\ Left(q, i).do \notin {"spoil", "undo"}
  BY DEF PutsFollow, RemovePlan
<1>1. i \in {1, 2, 3, 4, 5} /\ (i = 5 => n = 5)
  OBVIOUS
<1>2. /\ n = 5 => Left(q, 5).do = "look"
      /\ Left(q, 4).do = "drop" /\ Left(q, 3).do = "erase" /\ Left(q, 2).do = "rows" /\ Left(q, 1).do = "put"
      /\ Left(q, 1).tunnel = t /\ Left(q, 2).tunnel = t
  BY DEF RemovePlan
<1>. QED  BY <1>1, <1>2

(* The task of each number in a publication. *)
LEMMA PublishDoes ==
  ASSUME NEW q, NEW m \in {0, 2}, NEW d \in {0, 2}, NEW h, NEW t, PublishPlan(q, m, d, h, t), NEW i \in 1..Len(q)
  PROVE  /\ i \in 1..(9 + m + d) /\ Len(q) = 9 + m + d
         /\ \/ i = 1 /\ Left(q, i).do = "run" /\ Left(q, i).tunnel = t
            \/ i = 2 /\ Left(q, i).do = "rm"
            \/ i = 3 /\ Left(q, i).do = "check" /\ Left(q, i).tunnel = t
            \/ i = 4 /\ m = 2 /\ Left(q, i).do = "put" /\ Left(q, 5).do = "rows"
                 /\ Left(q, 5).tunnel = Left(q, i).tunnel
            \/ i = 5 /\ m = 2 /\ Left(q, i).do = "rows"
            \/ i = 4 + m /\ Left(q, i).do = "put" /\ Left(q, i).tunnel = t
                 /\ Left(q, 5 + m).do = "rows" /\ Left(q, 5 + m).tunnel = t
            \/ i = 5 + m /\ Left(q, i).do = "rows"
            \/ i = 6 + m /\ Left(q, i).do = "save" /\ Left(q, i).host = h /\ Left(q, i).tunnel = t
            \/ i = 7 + m /\ Left(q, i).do = "point" /\ Left(q, i).host = h /\ Left(q, i).tunnel = t
            \/ i = 8 + m /\ Left(q, i).do = "look" /\ Left(q, i).host = h
            \/ i = 9 + m /\ Left(q, i).do = "assign" /\ Left(q, i).host = h /\ Left(q, i).tunnel = t
            \/ i > 9 + m /\ Left(q, i).do \in {"drop", "look"}
<1>1. i \in 1..(9 + m + d) /\ Len(q) = 9 + m + d
  BY DEF PublishPlan
<1>2. \/ i = 1 \/ i = 2 \/ i = 3 \/ (m = 2 /\ i \in {4, 5})
      \/ i = 4 + m \/ i = 5 + m \/ i = 6 + m \/ i = 7 + m \/ i = 8 + m \/ i = 9 + m
      \/ (d = 2 /\ i \in {10 + m, 11 + m})
  BY <1>1
<1>3. CASE d = 2 /\ i \in {10 + m, 11 + m}
  <2>1. i > 9 + m
    BY <1>3
  <2>2. Left(q, i).do \in {"drop", "look"}
    BY <1>3 DEF PublishPlan
  <2>. QED  BY <1>1, <2>1, <2>2
<1>4. CASE i \in {1, 2, 3} \/ (m = 2 /\ i \in {4, 5})
  BY <1>1, <1>4 DEF PublishPlan
<1>5. CASE i \in {4 + m, 5 + m}
  BY <1>1, <1>5 DEF PublishPlan
<1>6. CASE i \in {6 + m, 7 + m}
  BY <1>1, <1>6 DEF PublishPlan
<1>7. CASE i \in {8 + m, 9 + m}
  BY <1>1, <1>7 DEF PublishPlan
<1>. QED  BY <1>2, <1>3, <1>4, <1>5, <1>6, <1>7

RemoveSteps(q, n, h, t) ==
  /\ Len(q) = n
  /\ Len(q) <= 5 /\ ~(Len(q) <= 3) /\ ~(Len(q) <= 2)
  /\ \A i \in 1..Len(q) : LET now == Left(q, i) IN
       /\ i = 5 => now.do = "look" /\ now.host = h
       /\ i = 4 => now.do = "drop" /\ now.host = h /\ now.tunnel = t
       /\ i = 3 => now.do = "erase"
       /\ i = 2 => now.do = "rows"
       /\ i = 1 => now.do = "put"

(* The task of each number in a removal. *)
LEMMA RemoveDoes ==
  ASSUME NEW q, NEW n \in {4, 5}, NEW h, NEW t, RemovePlan(q, n, h, t)
  PROVE  RemoveSteps(q, n, h, t)
BY DEF RemovePlan, RemoveSteps

(* In a publication, too, every ingress is written from rows read just before. *)
LEMMA PublishPuts ==
  ASSUME NEW q, NEW m \in {0, 2}, NEW d \in {0, 2}, NEW h, NEW t, PublishPlan(q, m, d, h, t)
  PROVE  PutsFollow(q)
<1> SUFFICES ASSUME NEW i \in 1..Len(q)
             PROVE  /\ Left(q, i).do = "put" => i < Len(q) /\ Left(q, i + 1).do = "rows"
                         /\ Left(q, i + 1).tunnel = Left(q, i).tunnel
                    /\ Left(q, i).do \notin {"spoil", "undo"}
  BY DEF PutsFollow
<1>1. i \in 1..(9 + m + d) /\ Len(q) = 9 + m + d
  BY PublishDoes
<1>2. Left(q, i).do \notin {"spoil", "undo"}
  BY PublishDoes
<1>3. ASSUME Left(q, i).do = "put"
      PROVE  i < Len(q) /\ Left(q, i + 1).do = "rows" /\ Left(q, i + 1).tunnel = Left(q, i).tunnel
  <2>1. \/ i = 4 /\ m = 2 /\ Left(q, 5).do = "rows" /\ Left(q, 5).tunnel = Left(q, i).tunnel
        \/ i = 4 + m /\ Left(q, i).tunnel = t /\ Left(q, 5 + m).do = "rows" /\ Left(q, 5 + m).tunnel = t
    BY <1>3, PublishDoes
  <2>2. CASE i = 4 /\ m = 2 /\ Left(q, 5).do = "rows" /\ Left(q, 5).tunnel = Left(q, i).tunnel
    BY <1>1, <2>2
  <2>3. CASE i = 4 + m /\ Left(q, i).tunnel = t /\ Left(q, 5 + m).do = "rows" /\ Left(q, 5 + m).tunnel = t
    <3>1. i + 1 = 5 + m /\ i < Len(q)
      BY <1>1, <2>3
    <3>. QED  BY <2>3, <3>1
  <2>. QED  BY <2>1, <2>2, <2>3
<1>. QED  BY <1>2, <1>3

(* What a publication has left when it begins serves its hostname. *)
LEMMA PublishServes ==
  ASSUME NEW j, NEW m \in {0, 2}, NEW d \in {0, 2}, NEW h, NEW t, PublishPlan(j.todo, m, d, h, t),
           j.kind \in {"publish", "serve"}
  PROVE  ServingTasks(j, 9 + m, 6 + m, 4 + m, h, t)
<1> DEFINE q == j.todo
<1>1. ASSUME NEW i \in 1..Len(q)
      PROVE  LET now == Left(q, i) IN
             /\ i = 9 + m => now.do = "assign" /\ now.host = h /\ now.tunnel = t
             /\ i > 9 + m => now.do \in {"look", "drop"}
             /\ i < 9 + m => now.do \in {"rows", "put", "look", "point", "save", "check", "rm", "run"}
             /\ i = 6 + m => now.do = "save" /\ now.host = h /\ now.tunnel = t
             /\ i = 6 + m + 1 => now.do = "point" /\ now.host = h /\ now.tunnel = t
             /\ i = 6 + m + 2 => now.do = "look" /\ now.host = h
             /\ i = 4 + m => now.do = "put" /\ now.tunnel = t
             /\ now.do = "save" => i = 6 + m
             /\ now.do = "point" => i = 6 + m + 1
             /\ i = 1 => now.do = "run" /\ now.tunnel = t
             /\ i = 2 => now.do = "rm"
             /\ i = 3 => now.do = "check" /\ now.tunnel = t
             /\ now.do \in {"check", "rm", "run"} => i <= 3
  BY PublishDoes
<1>2. 6 + m + 2 < 9 + m /\ 4 + m < 9 + m /\ 9 + m > 3 /\ 4 + m > 3 /\ 6 + m > 3
  OBVIOUS
<1>. QED  BY <1>1, <1>2 DEF ServingTasks

-----------------------------------------------------------------------------
(* Requests begin. *)

(* Only one request can be alone. *)
LEMMA OneOnTrack ==
  ASSUME NEW c \in Caller, \A d \in Caller \ {c} : ~jobs'[d].alone, OnTrack(jobs[c])'
  PROVE  (\A d \in Caller : OnTrack(jobs[d]))'
<1> SUFFICES ASSUME NEW d \in Caller, d # c PROVE OnTrack(jobs[d])'
  OBVIOUS
<1>. QED  BY DEF OnTrack

(* A request that has written no ingress yet, and will read rows before each. *)
LEMMA ConfigBegins ==
  ASSUME NEW c \in Caller, jobs'[c].put = {}, PutsFollow(jobs'[c].todo)
  PROVE  ConfigIsOfRows(jobs[c])'
<1>1. \A i \in 1..Len(jobs'[c].todo) :
        /\ Left(jobs'[c].todo, i).do = "put" =>
             i # Len(jobs'[c].todo) /\ Left(jobs'[c].todo, i + 1).do = "rows"
               /\ Left(jobs'[c].todo, i + 1).tunnel = Left(jobs'[c].todo, i).tunnel
        /\ Left(jobs'[c].todo, i).do \notin {"spoil", "undo"}
  BY DEF PutsFollow
<1>. QED  BY <1>1 DEF ConfigIsOfRows

(* A request that begins to create a hostname, or to retry it, has its row. *)
LEMMA CreateBegins ==
  ASSUME NEW t \in Tunnel, NEW h \in Host, NEW q, q = PutConfig(t) \o UpsertCname(h, t),
         NEW c \in Caller, jobs'[c].todo = q,
         jobs'[c].kind \in {"create", "retry"}, jobs'[c].put = {},
         NEW r, r = jobs'[c].route, RowIs(r, h, t)', routes'[r].enabled
  PROVE  OnTrack(jobs[c])'
<1> DEFINE j == jobs'[c]
<1>1. /\ q \in Seq(TaskRow) /\ Len(q) = 5
      /\ Left(q, 5) = Task("rows", "none", t) /\ Left(q, 4) = Task("put", "none", t)
      /\ Left(q, 3) = Task("look", h, t) /\ Left(q, 2) = Task("point", h, t) /\ Left(q, 1) = Task("save", h, t)
  BY CreateTasks, Zenon
<1>2. /\ Left(q, 5).do = "rows" /\ Left(q, 4).do = "put" /\ Left(q, 3).do = "look" /\ Left(q, 2).do = "point"
      /\ Left(q, 1).do = "save" /\ Left(q, 1).host = h /\ Left(q, 2).host = h /\ Left(q, 3).host = h
      /\ \A i \in 1..5 : Left(q, i).tunnel = t
  BY <1>1, TaskIs DEF OnHost, OnTunnel
<1>3. Len(q) = 5
  BY <1>1
<1>4. ConfigIsOfRows(jobs[c])'
  BY <1>2, <1>3 DEF ConfigIsOfRows
<1>5. ServingTasks(jobs[c], 6, 1, 4, h, t)'
  BY <1>2, <1>3 DEF ServingTasks
<1>6. ServingState(jobs[c], 6, 1, 4, h, t)'
  BY <1>3 DEF ServingState
<1>7. Serving(jobs[c])'
  BY <1>5, <1>6 DEF Serving
<1>8. Ordered(jobs[c])'
  BY <1>2, <1>3 DEF Ordered, Avoids, Changes
<1>. QED  BY <1>4, <1>7, <1>8 DEF OnTrack

(* A request that begins to remove a hostname: its row is there as it was read. *)
LEMMA RemoveBegins ==
  ASSUME NEW t \in Tunnel, NEW h \in Host, NEW n \in {4, 5}, NEW c \in Caller, RemovePlan(jobs'[c].todo, n, h, t),
         jobs'[c].kind \in {"delete", "remove", "withdraw"}, jobs'[c].put = {}, ~jobs'[c].warned,
         NEW w, jobs'[c].was = w, [host |-> w.host, tunnel |-> w.tunnel] = [host |-> h, tunnel |-> t],
         n = 4 => jobs'[c].kind = "delete" /\ w.record # 0,
         RowIs(jobs[c].route, h, t)'
  PROVE  OnTrack(jobs[c])'
<1> DEFINE q == jobs'[c].todo
<1>1. RemoveSteps(q, n, h, t)
  BY RemoveDoes
<1>2. jobs'[c].was.host = h /\ jobs'[c].was.tunnel = t
        /\ (Len(q) = 4 => jobs'[c].kind # "remove" /\ jobs'[c].was.record # 0)
  BY <1>1 DEF RemoveSteps
<1>3. jobs'[c].route \in Rows' /\ routes'[jobs'[c].route].host = h
  BY DEF RowIs
<1>4. ConfigIsOfRows(jobs[c])'
  BY RemovePuts, ConfigBegins
<1>5. Removing(jobs[c])'
  BY <1>1, <1>2, <1>3 DEF Removing, RemoveSteps
<1>. QED  BY <1>4, <1>5 DEF OnTrack, Ordered

(* A request that begins to publish a project finds the row it takes over, if there is one. *)
LEMMA PublishBegins ==
  ASSUME NEW t \in Tunnel, NEW h \in Host, NEW m \in {0, 2}, NEW d \in {0, 2}, NEW c \in Caller,
         PublishPlan(jobs'[c].todo, m, d, h, t), jobs'[c].kind \in {"publish", "serve"}, jobs'[c].put = {},
         jobs'[c].was.st = "live" => jobs'[c].route \in Rows'
  PROVE  OnTrack(jobs[c])'
<1>1. Len(jobs'[c].todo) = 9 + m + d
  BY DEF PublishPlan
<1>2. ConfigIsOfRows(jobs[c])'
  BY PublishPuts, ConfigBegins
<1>3. ServingTasks(jobs[c], 9 + m, 6 + m, 4 + m, h, t)'
  BY PublishServes
<1>4. ServingState(jobs[c], 9 + m, 6 + m, 4 + m, h, t)'
  <2>1. /\ ~(Len(jobs'[c].todo) < 9 + m) /\ ~(Len(jobs'[c].todo) < 4 + m) /\ ~(Len(jobs'[c].todo) = 6 + m + 1)
        /\ ~(Len(jobs'[c].todo) = 6 + m) /\ ~(Len(jobs'[c].todo) < 6 + m) /\ Len(jobs'[c].todo) # 0
    BY <1>1
  <2>. QED  BY <2>1 DEF ServingState
<1>5. 9 + m \in 1..11 /\ 6 + m \in 1..11 /\ 4 + m \in 1..11
  OBVIOUS
<1>6. Serving(jobs[c])'
  BY <1>3, <1>4, <1>5 DEF Serving
<1>. QED  BY <1>2, <1>6 DEF OnTrack, Ordered

(* What holds of the tasks of every request as it begins, and of tasks put one after the other. *)
PlanFits(q) == q \in Seq(TaskRow) /\ PutsFollow(q) /\ \A i \in 1..Len(q) : Left(q, i).do = "check" => i > 2

(* Plans that fit make one that fits. *)
LEMMA ConcatFits ==
  ASSUME NEW p, NEW q, PlanFits(p), PlanFits(q)
  PROVE  PlanFits(p \o q)
<1>0. p \in Seq(TaskRow) /\ q \in Seq(TaskRow)
  BY DEF PlanFits
<1>1. /\ p \o q \in Seq(TaskRow) /\ Len(p) \in Nat /\ Len(q) \in Nat /\ Len(p \o q) = Len(p) + Len(q)
      /\ \A i \in 1..Len(p) + Len(q) : Left(p \o q, i) = IF i <= Len(q) THEN Left(q, i) ELSE Left(p, i - Len(q))
  BY <1>0, LeftOfConcat
<1>2. ASSUME NEW i \in 1..Len(p \o q)
      PROVE  /\ Left(p \o q, i).do = "put" => /\ i < Len(p \o q) /\ Left(p \o q, i + 1).do = "rows"
                                              /\ Left(p \o q, i + 1).tunnel = Left(p \o q, i).tunnel
             /\ Left(p \o q, i).do \notin {"spoil", "undo"}
             /\ Left(p \o q, i).do = "check" => i > 2
  <2>0. i \in 1..Len(p) + Len(q)
    BY <1>1
  <2>1. CASE i <= Len(q)
    <3>1. i \in 1..Len(q) /\ Left(p \o q, i) = Left(q, i)
      BY <1>1, <2>0, <2>1
    <3>2. /\ Left(q, i).do = "put" => i < Len(q) /\ Left(q, i + 1).do = "rows"
               /\ Left(q, i + 1).tunnel = Left(q, i).tunnel
          /\ Left(q, i).do \notin {"spoil", "undo"}
          /\ Left(q, i).do = "check" => i > 2
      BY <3>1 DEF PlanFits, PutsFollow
    <3>3. i < Len(q) => i < Len(p \o q) /\ Left(p \o q, i + 1) = Left(q, i + 1)
      BY <1>1, <2>0
    <3>. QED  BY <3>1, <3>2, <3>3
  <2>2. CASE ~(i <= Len(q))
    <3> DEFINE k == i - Len(q)
    <3>1. k \in 1..Len(p) /\ k < i + 1 /\ Left(p \o q, i) = Left(p, k)
      BY <1>1, <2>0, <2>2
    <3>2. /\ Left(p, k).do = "put" => k < Len(p) /\ Left(p, k + 1).do = "rows"
               /\ Left(p, k + 1).tunnel = Left(p, k).tunnel
          /\ Left(p, k).do \notin {"spoil", "undo"}
          /\ Left(p, k).do = "check" => k > 2
      BY <3>1 DEF PlanFits, PutsFollow
    <3>3. k < Len(p) => i < Len(p \o q) /\ Left(p \o q, i + 1) = Left(p, k + 1)
      <4>1. k < Len(p) => i + 1 \in 1..Len(p) + Len(q) /\ ~(i + 1 <= Len(q)) /\ i + 1 - Len(q) = k + 1
        BY <1>1, <2>0, <2>2
      <4>. QED  BY <1>1, <2>0, <4>1
    <3>4. k > 2 => i > 2
      BY <1>1, <2>0
    <3>. QED  BY <3>1, <3>2, <3>3, <3>4
  <2>. QED  BY <2>1, <2>2
<1>. QED  BY <1>1, <1>2 DEF PlanFits, PutsFollow

(* A plan has a task if one of its parts has. *)
LEMMA ConcatNonempty ==
  ASSUME NEW p \in Seq(TaskRow), NEW q \in Seq(TaskRow), p # << >> \/ q # << >>
  PROVE  p \o q # << >>
<1>1. /\ p \o q \in Seq(TaskRow) /\ Len(p) \in Nat /\ Len(q) \in Nat /\ Len(p \o q) = Len(p) + Len(q)
  BY LeftOfConcat
<1>2. Len(p) > 0 \/ Len(q) > 0
  BY TodoLen
<1>3. Len(p \o q) > 0
  BY <1>1, <1>2
<1>. QED  BY <1>1, <1>3, TodoLen

(* The plan without tasks fits. *)
LEMMA EmptyFits == PlanFits(<< >>)
<1>1. << >> \in Seq(TaskRow) /\ Len(<< >>) = 0
  BY EmptySeq
<1>. QED  BY <1>1 DEF PlanFits, PutsFollow

(* A task of its own that writes no ingress and looks at no container. *)
LEMMA TaskFits ==
  ASSUME NEW x \in TaskRow, x.do \notin {"put", "spoil", "undo", "check"}
  PROVE  PlanFits(<<x>>) /\ <<x>> # << >>
<1>1. <<x>> \in Seq(TaskRow) /\ Len(<<x>>) = 1 /\ Left(<<x>>, 1) = x
  BY OneLeft
<1>2. \A i \in 1..Len(<<x>>) : Left(<<x>>, i) = x
  BY <1>1
<1>3. <<x>> # << >>
  BY <1>1, TodoLen
<1>. QED  BY <1>1, <1>2, <1>3 DEF PlanFits, PutsFollow

(* PutConfig fits, *)
LEMMA PutConfigFits ==
  ASSUME NEW t \in Tunnel, NEW q, q = PutConfig(t)
  PROVE  PlanFits(q) /\ q # << >>
<1>1. q \in Seq(TaskRow) /\ Len(q) = 2 /\ Left(q, 2) = Task("rows", "none", t) /\ Left(q, 1) = Task("put", "none", t)
  BY PutConfigTasks
<1>2. Left(q, 2).do = "rows" /\ Left(q, 2).tunnel = t /\ Left(q, 1).do = "put" /\ Left(q, 1).tunnel = t
  BY <1>1, TaskIs DEF OnTunnel
<1>3. q # << >>
  BY <1>1, TodoLen
<1>. QED  BY <1>1, <1>2, <1>3 DEF PlanFits, PutsFollow

NoPuts(q) == /\ q \in Seq(TaskRow) /\ Len(q) > 0
             /\ \A i \in 1..Len(q) : Left(q, i).do \notin {"put", "spoil", "undo"}
                  /\ (Left(q, i).do = "check" => i > 2)

(* and so does a plan that writes no ingress: *)
LEMMA NoPutsFits ==
  ASSUME NEW q, NoPuts(q)
  PROVE  PlanFits(q) /\ q # << >>
<1>1. q # << >>
  BY TodoLen DEF NoPuts
<1>. QED  BY <1>1 DEF NoPuts, PlanFits, PutsFollow

(* one of a task or two, *)
LEMMA FewNoPuts ==
  ASSUME NEW q \in Seq(TaskRow), Len(q) = 1 \/ (Len(q) = 2 /\ Left(q, 2).do \in {"rm", "look", "leave"}),
         Left(q, 1).do \in {"run", "drop", "unlist"}
  PROVE  NoPuts(q)
<1>1. CASE Len(q) = 1
  BY <1>1 DEF NoPuts
<1>2. CASE Len(q) = 2 /\ Left(q, 2).do \in {"rm", "look", "leave"}
  BY <1>2 DEF NoPuts
<1>. QED  BY <1>1, <1>2

(* UpsertCname, *)
LEMMA UpsertFits ==
  ASSUME NEW t \in Tunnel, NEW h \in Host, NEW q, q = UpsertCname(h, t)
  PROVE  PlanFits(q) /\ q # << >>
<1>1. /\ q \in Seq(TaskRow) /\ Len(q) = 3
      /\ Left(q, 3) = Task("look", h, t) /\ Left(q, 2) = Task("point", h, t) /\ Left(q, 1) = Task("save", h, t)
  BY UpsertTasks
<1>2. Left(q, 3).do = "look" /\ Left(q, 2).do = "point" /\ Left(q, 1).do = "save"
  BY <1>1, TaskIs DEF OnHost
<1>3. q # << >>
  BY <1>1, TodoLen
<1>. QED  BY <1>1, <1>2, <1>3 DEF PlanFits, PutsFollow

(* DropCname, *)
LEMMA DropFits ==
  ASSUME NEW t \in Tunnel, NEW h \in Host, NEW q, q = DropCname(h, t)
  PROVE  PlanFits(q) /\ q # << >> /\ PlanFits(Tail(q)) /\ Tail(q) # << >>
<1>1. /\ q \in Seq(TaskRow) /\ Len(q) = 2 /\ Left(q, 2) = Task("look", h, t) /\ Left(q, 1) = Task("drop", h, t)
      /\ Tail(q) \in Seq(TaskRow) /\ Len(Tail(q)) = 1 /\ Left(Tail(q), 1) = Task("drop", h, t)
  BY DropTasks
<1>2. Left(q, 2).do = "look" /\ Left(q, 1).do = "drop" /\ Left(Tail(q), 1).do = "drop"
  BY <1>1, TaskIs DEF OnHost
<1>3. NoPuts(q)
  BY <1>1, <1>2 DEF NoPuts
<1>4. NoPuts(Tail(q))
  BY <1>1, <1>2, FewNoPuts
<1>. QED  BY <1>3, <1>4, NoPutsFits

(* and RunConnector. *)
LEMMA ConnectorFits ==
  ASSUME NEW t \in Tunnel, NEW q, q = RunConnector(t)
  PROVE  PlanFits(q) /\ q # << >> /\ PlanFits(Tail(q)) /\ Tail(q) # << >>
<1>1. /\ q \in Seq(TaskRow) /\ Len(q) = 3
      /\ Left(q, 3) = Task("check", "none", t) /\ Left(q, 2) = Task("rm", "none", t)
           /\ Left(q, 1) = Task("run", "none", t)
      /\ Tail(q) \in Seq(TaskRow) /\ Len(Tail(q)) = 2
      /\ Left(Tail(q), 2) = Task("rm", "none", t) /\ Left(Tail(q), 1) = Task("run", "none", t)
  BY ConnectorTasks
<1>2. /\ Left(q, 3).do = "check" /\ Left(q, 2).do = "rm" /\ Left(q, 1).do = "run"
      /\ Left(Tail(q), 2).do = "rm" /\ Left(Tail(q), 1).do = "run"
  BY <1>1, TaskIs DEF OnTunnel
<1>3. NoPuts(q)
  BY <1>1, <1>2 DEF NoPuts
<1>4. NoPuts(Tail(q))
  BY <1>1, <1>2, FewNoPuts
<1>. QED  BY <1>3, <1>4, NoPutsFits

(* What the tasks of a request are not. *)
LEMMA ConcatAvoids ==
  ASSUME NEW p \in Seq(TaskRow), NEW q \in Seq(TaskRow), NEW dos, Avoids(p, dos), Avoids(q, dos)
  PROVE  Avoids(p \o q, dos)
<1>1. /\ Len(p) \in Nat /\ Len(q) \in Nat /\ Len(p \o q) = Len(p) + Len(q)
      /\ \A i \in 1..Len(p) + Len(q) : Left(p \o q, i) = IF i <= Len(q) THEN Left(q, i) ELSE Left(p, i - Len(q))
  BY LeftOfConcat
<1>2. ASSUME NEW i \in 1..Len(p) + Len(q) PROVE Left(p \o q, i).do \notin dos
  <2>1. CASE i <= Len(q)
    BY <1>1, <2>1 DEF Avoids
  <2>2. CASE ~(i <= Len(q))
    <3>1. i - Len(q) \in 1..Len(p)
      BY <1>1, <2>2
    <3>. QED  BY <1>1, <2>2, <3>1 DEF Avoids
  <2>. QED  BY <2>1, <2>2
<1>. QED  BY <1>1, <1>2 DEF Avoids

(* A plan without tasks avoids everything, *)
LEMMA NoneAvoids ==
  ASSUME NEW dos PROVE Avoids(<< >>, dos)
<1>1. Len(<< >>) = 0
  BY EmptySeq
<1>. QED  BY <1>1 DEF Avoids

(* one of a task what that task does not do, *)
LEMMA OneAvoids ==
  ASSUME NEW x \in TaskRow, NEW dos, x.do \notin dos
  PROVE  Avoids(<<x>>, dos)
<1>1. Len(<<x>>) = 1 /\ Left(<<x>>, 1) = x
  BY OneLeft
<1>2. \A i \in 1..Len(<<x>>) : Left(<<x>>, i) = x
  BY <1>1
<1>. QED  BY <1>2 DEF Avoids

(* and so for two tasks *)
LEMMA TwoAvoid ==
  ASSUME NEW q \in Seq(TaskRow), NEW dos, Len(q) = 2, Left(q, 1).do \notin dos, Left(q, 2).do \notin dos
  PROVE  Avoids(q, dos)
BY DEF Avoids

(* and for three. *)
LEMMA ThreeAvoid ==
  ASSUME NEW q \in Seq(TaskRow), NEW dos, Len(q) = 3, Left(q, 1).do \notin dos, Left(q, 2).do \notin dos,
           Left(q, 3).do \notin dos
  PROVE  Avoids(q, dos)
BY DEF Avoids

(* PutConfig changes no row, *)
LEMMA PutConfigAvoids ==
  ASSUME NEW t \in Tunnel
  PROVE  Avoids(PutConfig(t), Changes)
<1> DEFINE q == PutConfig(t)
<1>1. q \in Seq(TaskRow) /\ Len(q) = 2 /\ Left(q, 2) = Task("rows", "none", t) /\ Left(q, 1) = Task("put", "none", t)
  BY PutConfigTasks
<1> HIDE DEF q
<1>2. Left(q, 2).do = "rows" /\ Left(q, 1).do = "put"
  BY <1>1, TaskIs DEF OnTunnel
<1>3. Left(q, 2).do \notin Changes /\ Left(q, 1).do \notin Changes
  BY <1>2 DEF Changes
<1>4. Avoids(q, Changes)
  BY <1>1, <1>3, TwoAvoid
<1>. QED  BY <1>4 DEF q

(* nor does UpsertCname, *)
LEMMA UpsertAvoids ==
  ASSUME NEW t \in Tunnel, NEW h \in Host
  PROVE  Avoids(UpsertCname(h, t), Changes)
<1> DEFINE q == UpsertCname(h, t)
<1>1. /\ q \in Seq(TaskRow) /\ Len(q) = 3
      /\ Left(q, 3) = Task("look", h, t) /\ Left(q, 2) = Task("point", h, t) /\ Left(q, 1) = Task("save", h, t)
  BY UpsertTasks
<1> HIDE DEF q
<1>2. Left(q, 3).do = "look" /\ Left(q, 2).do = "point" /\ Left(q, 1).do = "save"
  BY <1>1, TaskIs DEF OnHost
<1>3. Left(q, 3).do \notin Changes /\ Left(q, 2).do \notin Changes /\ Left(q, 1).do \notin Changes
  BY <1>2 DEF Changes
<1>4. Avoids(q, Changes)
  BY <1>1, <1>3, ThreeAvoid
<1>. QED  BY <1>4 DEF q

(* nor RunConnector after its check. *)
LEMMA ConnectorTailAvoids ==
  ASSUME NEW t \in Tunnel
  PROVE  Avoids(Tail(RunConnector(t)), Changes)
<1> DEFINE q == Tail(RunConnector(t))
<1>1. q \in Seq(TaskRow) /\ Len(q) = 2 /\ Left(q, 2) = Task("rm", "none", t) /\ Left(q, 1) = Task("run", "none", t)
  BY ConnectorTasks
<1> HIDE DEF q
<1>2. Left(q, 2).do = "rm" /\ Left(q, 1).do = "run"
  BY <1>1, TaskIs DEF OnTunnel
<1>3. Left(q, 2).do \notin Changes /\ Left(q, 1).do \notin Changes
  BY <1>2 DEF Changes
<1>4. Avoids(q, Changes)
  BY <1>1, <1>3, TwoAvoid
<1>. QED  BY <1>4 DEF q

(* The first step of a request: the others are not alone any more. *)
Began(c, kind, r, was, todo) ==
  /\ jobs' \in [Caller -> Job] /\ JobsFit'
  /\ \A d \in Caller \ {c} : ~jobs'[d].alone
  /\ jobs'[c].kind = kind /\ jobs'[c].route = r /\ jobs'[c].was = was /\ jobs'[c].todo = todo
  /\ jobs'[c].put = {} /\ ~jobs'[c].warned
  /\ ConfigIsOfRows(jobs[c])' /\ Ordered(jobs[c])'

(* What Begin has done. *)
LEMMA BeginIsBegan ==
  ASSUME PublishingFits, NEW c \in Caller, NEW kind, NEW r \in 0..MaxRoute, NEW was \in RouteRow, NEW todo,
         kind \in Kinds,
         PlanFits(todo), todo # << >>, kind \in {"create", "retry"} => was.host \in Host /\ was.tunnel \in Tunnel,
         kind = "delete" => \A i \in 1..Len(todo) : Left(todo, i).do = "look" => i > 1,
         kind \in {"publish", "serve", "delete", "remove", "withdraw", "enable"} \/ Avoids(todo, Changes)
           \/ Avoids(todo, Puts),
         Begin(c, kind, r, was, todo)
  PROVE  Began(c, kind, r, was, todo)
<1>1. todo \in Seq(TaskRow) /\ PutsFollow(todo)
  BY DEF PlanFits
<1>2. \A i \in 1..Len(todo) : /\ Left(todo, i).do = "check" => i > 2
                              /\ kind = "delete" /\ Left(todo, i).do = "look" => i > 1
  BY DEF PlanFits
<1>3. /\ jobs' \in [Caller -> Job] /\ JobsFit'
      /\ \A d \in Caller \ {c} : ~jobs'[d].alone
      /\ jobs'[c].kind = kind /\ jobs'[c].route = r /\ jobs'[c].was = was /\ jobs'[c].todo = todo
      /\ jobs'[c].put = {} /\ ~jobs'[c].warned
  BY <1>1, <1>2, BeginFits
<1>4. ConfigIsOfRows(jobs[c])'
  BY <1>1, <1>3, ConfigBegins
<1>5. Ordered(jobs[c])'
  BY <1>3 DEF Ordered, Avoids
<1>. QED  BY <1>3, <1>4, <1>5 DEF Began

(* A row is written. *)
RowChanged(r, row) ==
  /\ routes' \in [1..MaxRoute -> RouteRow] /\ RowsFit'
  /\ routes'[r] = row /\ \A q \in (1..MaxRoute) \ {r} : routes'[q] = routes[q]

(* A change of one row that keeps hostnames apart. *)
LEMMA ChangeFits ==
  ASSUME PublishingFits, NEW r \in 1..MaxRoute, NEW row \in RouteRow, Change(r, row), UNCHANGED <<tunnels, dns>>,
         row.st = "live" => row.host \in Host /\ row.tunnel \in Tunnel /\ tunnels[row.tunnel].row
  PROVE  RowChanged(r, row)
<1>1. routes \in [1..MaxRoute -> RouteRow] /\ routes' = [routes EXCEPT ![r] = row]
  BY DEF Change, PublishingFits, PublishingTypeOK
<1>2. /\ routes' \in [1..MaxRoute -> RouteRow]
      /\ routes'[r] = row /\ \A q \in (1..MaxRoute) \ {r} : routes'[q] = routes[q]
  BY <1>1
<1>3. ASSUME NEW q \in Rows' PROVE (q \in Rows \ {r} /\ routes'[q] = routes[q]) \/ (q = r /\ row.st = "live")
  BY <1>2, <1>3 DEF Rows
<1>4. RowsFit'
  <2>1. ASSUME NEW q \in Rows' PROVE routes'[q].host \in Host /\ routes'[q].tunnel \in Tunnel
                 /\ tunnels'[routes'[q].tunnel].row
    BY <1>2, <1>3, <2>1 DEF PublishingFits, RowsFit
  <2>3. \A h \in Host : dns'[h].id = 0 => dns'[h] = NoCname
    BY DEF PublishingFits, RowsFit
  <2>. QED  BY <2>1, <2>3 DEF RowsFit
<1>. QED  BY <1>2, <1>4 DEF RowChanged

(* The rows fit as long as neither they nor tunnels and records change. *)
LEMMA SameRowsFit ==
  ASSUME PublishingFits, UNCHANGED <<routes, tunnels, dns>>
  PROVE  RowsFit'
BY DEF PublishingFits, RowsFit, Rows

(* A row in the table: its types, its tunnel, and that its hostname is its own. *)
LEMMA LiveRow ==
  ASSUME PublishingFits, NEW r \in Rows
  PROVE  /\ r \in 1..MaxRoute /\ r \in 0..MaxRoute /\ routes[r] \in RouteRow /\ routes[r].st = "live"
         /\ routes[r].host \in Host /\ routes[r].tunnel \in Tunnel /\ tunnels[routes[r].tunnel].row
<1>1. r \in 1..MaxRoute /\ routes[r].st = "live"
  BY DEF Rows
<1>2. routes[r] \in RouteRow /\ r \in 0..MaxRoute
  BY <1>1 DEF PublishingFits, PublishingTypeOK
<1>. QED  BY <1>1, <1>2 DEF PublishingFits, RowsFit

(* A new route is a row in the table. *)
LEMMA NewRouteType ==
  ASSUME NEW h \in Host, NEW t \in Tunnel, NEW p \in Project \cup {"none"}, NEW m \in BOOLEAN
  PROVE  /\ NewRoute(h, t, p, m) \in RouteRow
         /\ NewRoute(h, t, p, m).st = "live" /\ NewRoute(h, t, p, m).host = h /\ NewRoute(h, t, p, m).tunnel = t
         /\ NewRoute(h, t, p, m).enabled
BY NoneTypes DEF NewRoute, RouteRow

(* All of the invariant after a request has begun. *)
LEMMA BeganKeeps ==
  ASSUME PublishingFits, NEW c \in Caller, NEW kind, NEW r, NEW was, NEW todo, Began(c, kind, r, was, todo),
           OnTrack(jobs[c])',
         routes' \in [1..MaxRoute -> RouteRow], RowsFit', UNCHANGED <<setting, dns, issued, mishaps>>,
           tunnels' \in [Tunnel -> ManagedTunnel]
  PROVE  PublishingInv'
<1>1. PublishingTypeOK'
  BY DEF PublishingFits, PublishingTypeOK, Began
<1>2. (\A d \in Caller : OnTrack(jobs[d]))'
  <2>1. \A d \in Caller \ {c} : ~jobs'[d].alone
    BY DEF Began
  <2>. QED  BY <2>1, OneOnTrack
<1>3. JobsFit'
  BY DEF Began
<1>. QED  BY <1>1, <1>2, <1>3 DEF PublishingInv, PublishingFits

(* A request for a new hostname begins: createHostname. *)
LEMMA CreateHostnameKeeps ==
  ASSUME PublishingInv, NEW c \in Caller, UNCHANGED setting, CreateHostname(c)
  PROVE  PublishingInv'
<1>0. PublishingFits
  BY DEF PublishingInv
<1>1. PICK h \in Host, t \in Tunnel, p \in Project \cup {"none"}, r \in FreeIds :
        /\ tunnels[t].row /\ tunnels[t].linked # "none"
        /\ Change(r, NewRoute(h, t, p, TRUE))
        /\ Begin(c, "create", r, NewRoute(h, t, p, TRUE), PutConfig(t) \o UpsertCname(h, t))
  BY DEF CreateHostname
<1>2. UNCHANGED <<tunnels, dns, issued, mishaps>>
  BY DEF CreateHostname
<1> DEFINE w == NewRoute(h, t, p, TRUE)
           q == PutConfig(t) \o UpsertCname(h, t)
<1>3. /\ w \in RouteRow /\ w.st = "live" /\ w.host = h /\ w.tunnel = t /\ w.enabled
  BY NewRouteType
<1>4. PlanFits(q) /\ q # << >> /\ Avoids(q, Changes)
  <2>1. PlanFits(PutConfig(t)) /\ PutConfig(t) # << >> /\ PlanFits(UpsertCname(h, t))
    BY PutConfigFits, UpsertFits
  <2>2. Avoids(PutConfig(t), Changes) /\ Avoids(UpsertCname(h, t), Changes)
    BY PutConfigAvoids, UpsertAvoids
  <2>3. PutConfig(t) \in Seq(TaskRow) /\ UpsertCname(h, t) \in Seq(TaskRow)
    BY <2>1 DEF PlanFits
  <2>. QED  BY <2>1, <2>2, <2>3, ConcatFits, ConcatNonempty, ConcatAvoids
<1>5. r \in 1..MaxRoute /\ r \in 0..MaxRoute /\ r \notin Rows
  BY DEF FreeIds, Rows
<1>6. Change(r, w) /\ Begin(c, "create", r, w, q)
  BY <1>1
<1> HIDE DEF w, q
<1>8. Began(c, "create", r, w, q)
  BY <1>0, <1>3, <1>4, <1>5, <1>6, BeginIsBegan DEF Kinds
<1>9. RowChanged(r, w)
  BY <1>0, <1>1, <1>2, <1>3, <1>5, <1>6, ChangeFits
<1>10. OnTrack(jobs[c])'
  <2>1. q = PutConfig(t) \o UpsertCname(h, t) /\ jobs'[c].todo = q /\ jobs'[c].kind \in {"create", "retry"}
          /\ jobs'[c].put = {}
        /\ r = jobs'[c].route
    BY <1>8 DEF Began, q
  <2>2. RowIs(r, h, t)' /\ routes'[r].enabled
    BY <1>3, <1>5, <1>9 DEF RowChanged, RowIs, Rows
  <2>. QED  BY <2>1, <2>2, CreateBegins
<1>11. tunnels' \in [Tunnel -> ManagedTunnel]
  BY <1>0, <1>2 DEF PublishingFits, PublishingTypeOK
<1>12. routes' \in [1..MaxRoute -> RouteRow] /\ RowsFit'
  BY <1>9 DEF RowChanged
<1>. QED  BY <1>0, <1>2, <1>8, <1>10, <1>11, <1>12, BeganKeeps

(* It is retried: retryHostname. *)
LEMMA RetryHostnameKeeps ==
  ASSUME PublishingInv, NEW c \in Caller, UNCHANGED setting, RetryHostname(c)
  PROVE  PublishingInv'
<1>0. PublishingFits
  BY DEF PublishingInv
<1>1. PICK r \in Rows :
        /\ Change(r, [routes[r] EXCEPT !.enabled = TRUE])
        /\ Begin(c, "retry", r, routes[r],
             PutConfig(routes[r].tunnel) \o UpsertCname(routes[r].host, routes[r].tunnel))
  BY DEF RetryHostname
<1>2. UNCHANGED <<tunnels, dns, issued, mishaps>>
  BY DEF RetryHostname
<1>w. PICK w, h, t : w = routes[r] /\ [a |-> h, b |-> t] = [a |-> w.host, b |-> w.tunnel]
  OBVIOUS
<1>h. w = routes[r] /\ h = w.host /\ t = w.tunnel
  BY <1>w
<1> DEFINE v == [w EXCEPT !.enabled = TRUE]
           q == PutConfig(t) \o UpsertCname(h, t)
<1>3. /\ r \in 1..MaxRoute /\ r \in 0..MaxRoute /\ w \in RouteRow /\ w.st = "live"
      /\ h \in Host /\ t \in Tunnel /\ tunnels[t].row
  BY <1>0, <1>h, LiveRow
<1>4. v \in RouteRow /\ v.st = "live" /\ v.host = h /\ v.tunnel = t /\ v.enabled
  BY <1>3, <1>h DEF RouteRow
<1>5. PlanFits(q) /\ q # << >> /\ Avoids(q, Changes)
  <2>1. PlanFits(PutConfig(t)) /\ PutConfig(t) # << >> /\ PlanFits(UpsertCname(h, t))
    BY <1>3, PutConfigFits, UpsertFits
  <2>2. Avoids(PutConfig(t), Changes) /\ Avoids(UpsertCname(h, t), Changes)
    BY <1>3, PutConfigAvoids, UpsertAvoids
  <2>3. PutConfig(t) \in Seq(TaskRow) /\ UpsertCname(h, t) \in Seq(TaskRow)
    BY <2>1 DEF PlanFits
  <2>. QED  BY <2>1, <2>2, <2>3, ConcatFits, ConcatNonempty, ConcatAvoids
<1>6. Change(r, v) /\ Begin(c, "retry", r, w, q)
  BY <1>1, <1>h
<1>7. w.host \in Host /\ w.tunnel \in Tunnel
  BY <1>3, <1>h
<1> HIDE DEF v, q
<1>8. Began(c, "retry", r, w, q)
  BY <1>0, <1>3, <1>5, <1>6, <1>7, BeginIsBegan DEF Kinds
<1>9. RowChanged(r, v)
  BY <1>0, <1>2, <1>3, <1>4, <1>6, ChangeFits
<1>10. OnTrack(jobs[c])'
  <2>1. q = PutConfig(t) \o UpsertCname(h, t) /\ jobs'[c].todo = q /\ jobs'[c].kind \in {"create", "retry"}
          /\ jobs'[c].put = {}
        /\ r = jobs'[c].route
    BY <1>8 DEF Began, q
  <2>2. RowIs(r, h, t)' /\ routes'[r].enabled
    BY <1>3, <1>4, <1>9 DEF RowChanged, RowIs, Rows
  <2>. QED  BY <1>3, <2>1, <2>2, CreateBegins
<1>11. tunnels' \in [Tunnel -> ManagedTunnel]
  BY <1>0, <1>2 DEF PublishingFits, PublishingTypeOK
<1>12. routes' \in [1..MaxRoute -> RouteRow] /\ RowsFit'
  BY <1>9 DEF RowChanged
<1>. QED  BY <1>0, <1>2, <1>8, <1>10, <1>11, <1>12, BeganKeeps

(* A request that changes no row yet. *)
LEMMA SameKeeps ==
  ASSUME PublishingFits, UNCHANGED <<routes, tunnels, dns>>
  PROVE  routes' \in [1..MaxRoute -> RouteRow] /\ RowsFit' /\ tunnels' \in [Tunnel -> ManagedTunnel]
<1>1. RowsFit'
  BY SameRowsFit
<1>. QED  BY <1>1 DEF PublishingFits, PublishingTypeOK

(* A removal begins, with or without the look at its record. *)
LEMMA RemovalKeeps ==
  ASSUME PublishingInv, NEW c \in Caller, UNCHANGED <<setting, routes, tunnels, dns, issued, mishaps>>,
         NEW r \in Rows, NEW w, w = routes[r], NEW h, NEW t, [a |-> h, b |-> t] = [a |-> w.host, b |-> w.tunnel],
         NEW kind \in {"delete", "remove", "withdraw"}, NEW b, b \in {DropCname(h, t), Tail(DropCname(h, t))},
         b # DropCname(h, t) => kind = "delete" /\ w.record # 0,
         Begin(c, kind, r, w, b \o <<Task("erase", h, t)>> \o PutConfig(t))
  PROVE  PublishingInv'
<1> DEFINE q == b \o <<Task("erase", h, t)>> \o PutConfig(t)
           n == IF b = DropCname(h, t) THEN 5 ELSE 4
<1>0. PublishingFits
  BY DEF PublishingInv
<1>1. /\ r \in 1..MaxRoute /\ r \in 0..MaxRoute /\ w \in RouteRow /\ w.st = "live"
      /\ w.host \in Host /\ w.tunnel \in Tunnel
  BY <1>0, LiveRow
<1>2. w.host = h /\ w.tunnel = t /\ h \in Host /\ t \in Tunnel
  BY <1>1
<1>3. RemovePlan(q, n, h, t)
  BY <1>2, RemoveTasks
<1>4. PlanFits(q) /\ q # << >>
  <2>1. PlanFits(b) /\ b # << >> /\ PlanFits(PutConfig(t))
    BY <1>2, DropFits, PutConfigFits
  <2>2. Task("erase", h, t) \in TaskRow /\ Task("erase", h, t).do = "erase"
    BY <1>2, TaskIs DEF OnHost
  <2>3. PlanFits(<<Task("erase", h, t)>>)
    BY <2>2, TaskFits
  <2>4. PlanFits(b \o <<Task("erase", h, t)>>)
    BY <2>1, <2>3, ConcatFits
  <2>5. PlanFits(q)
    BY <2>1, <2>4, ConcatFits
  <2>6. q # << >>
    BY <1>3, TodoLen DEF RemovePlan
  <2>. QED  BY <2>5, <2>6
<1>5. Begin(c, kind, r, w, q) /\ n \in {4, 5} /\ (n = 4 => kind = "delete" /\ w.record # 0)
  OBVIOUS
<1> HIDE DEF q, n
<1>6. \A i \in 1..Len(q) : Left(q, i).do = "look" => i > 1
  BY <1>3, <1>5 DEF RemovePlan
<1>7. Began(c, kind, r, w, q)
  BY <1>0, <1>1, <1>4, <1>5, <1>6, BeginIsBegan DEF Kinds
<1>8. OnTrack(jobs[c])'
  <2>1. /\ RemovePlan(jobs'[c].todo, n, h, t)
        /\ jobs'[c].kind \in {"delete", "remove", "withdraw"} /\ jobs'[c].put = {} /\ ~jobs'[c].warned
        /\ jobs'[c].was = w /\ [host |-> w.host, tunnel |-> w.tunnel] = [host |-> h, tunnel |-> t]
        /\ n = 4 => jobs'[c].kind = "delete" /\ w.record # 0
    BY <1>2, <1>3, <1>5, <1>7 DEF Began
  <2>2. RowIs(jobs[c].route, h, t)'
    BY <1>1, <1>2, <1>7 DEF RowIs, Rows, Began
  <2>. QED  BY <1>2, <1>5, <2>1, <2>2, RemoveBegins
<1>9. routes' \in [1..MaxRoute -> RouteRow] /\ RowsFit' /\ tunnels' \in [Tunnel -> ManagedTunnel]
  BY <1>0, SameKeeps
<1>. QED  BY <1>0, <1>7, <1>8, <1>9, BeganKeeps

(* A project route is removed, *)
LEMMA RemoveRouteKeeps ==
  ASSUME PublishingInv, NEW c \in Caller, UNCHANGED setting, RemoveRoute(c)
  PROVE  PublishingInv'
<1>1. PICK r \in Rows, k \in {"remove", "withdraw"} :
        Begin(c, k, r, routes[r], DropCname(routes[r].host, routes[r].tunnel)
                \o <<Task("erase", routes[r].host, routes[r].tunnel)>> \o PutConfig(routes[r].tunnel))
  BY DEF RemoveRoute
<1>2. UNCHANGED <<setting, routes, tunnels, dns, issued, mishaps>>
  BY DEF RemoveRoute
<1>. QED  BY <1>1, <1>2, RemovalKeeps

(* or a hostname is deleted. *)
LEMMA DeleteHostnameKeeps ==
  ASSUME PublishingInv, NEW c \in Caller, UNCHANGED setting, DeleteHostname(c)
  PROVE  PublishingInv'
<1>1. PICK r \in Rows :
        Begin(c, "delete", r, routes[r],
              (IF routes[r].record # 0 THEN Tail(DropCname(routes[r].host, routes[r].tunnel))
                                       ELSE DropCname(routes[r].host, routes[r].tunnel))
                \o <<Task("erase", routes[r].host, routes[r].tunnel)>> \o PutConfig(routes[r].tunnel))
  BY DEF DeleteHostname
<1>2. UNCHANGED <<setting, routes, tunnels, dns, issued, mishaps>>
  BY DEF DeleteHostname
<1>3. CASE routes[r].record # 0
  BY <1>1, <1>2, <1>3, RemovalKeeps
<1>4. CASE routes[r].record = 0
  BY <1>1, <1>2, <1>4, RemovalKeeps
<1>. QED  BY <1>3, <1>4

(* The plan of a publication fits. *)
LEMMA PublishFits ==
  ASSUME NEW q, NEW m \in {0, 2}, NEW d \in {0, 2}, NEW h, NEW t, PublishPlan(q, m, d, h, t)
  PROVE  PlanFits(q) /\ q # << >>
<1>1. PutsFollow(q)
  BY PublishPuts
<1>2. q \in Seq(TaskRow) /\ Len(q) = 9 + m + d
  BY DEF PublishPlan
<1>3. ASSUME NEW i \in 1..Len(q), Left(q, i).do = "check" PROVE i > 2
  BY <1>3, PublishDoes
<1>4. Len(q) > 0
  BY <1>2
<1>5. q # << >>
  BY <1>2, <1>4, TodoLen
<1>. QED  BY <1>1, <1>2, <1>3, <1>5 DEF PlanFits

(* A publication begins. *)
LEMMA PublicationKeeps ==
  ASSUME PublishingInv, NEW c \in Caller, UNCHANGED <<setting, routes, tunnels, dns, issued, mishaps>>,
         NEW t \in Tunnel, NEW h \in Host, NEW m \in {0, 2}, NEW d \in {0, 2}, NEW q, PublishPlan(q, m, d, h, t),
         NEW r \in 0..MaxRoute, NEW w \in RouteRow, w.st = "live" => r \in Rows,
         NEW k \in {"publish", "serve"}, Begin(c, k, r, w, q)
  PROVE  PublishingInv'
<1>0. PublishingFits
  BY DEF PublishingInv
<1>2. PlanFits(q) /\ q # << >>
  BY PublishFits
<1>3. Began(c, k, r, w, q)
  BY <1>0, <1>2, BeginIsBegan DEF Kinds
<1>4. OnTrack(jobs[c])'
  <2>1. /\ PublishPlan(jobs'[c].todo, m, d, h, t) /\ jobs'[c].kind \in {"publish", "serve"} /\ jobs'[c].put = {}
        /\ jobs'[c].was = w /\ jobs'[c].route = r
    BY <1>3 DEF Began
  <2>2. jobs'[c].was.st = "live" => jobs'[c].route \in Rows'
    BY <2>1 DEF Rows
  <2>. QED  BY <2>1, <2>2, PublishBegins
<1>5. routes' \in [1..MaxRoute -> RouteRow] /\ RowsFit' /\ tunnels' \in [Tunnel -> ManagedTunnel]
  BY <1>0, SameKeeps
<1>. QED  BY <1>0, <1>3, <1>4, <1>5, BeganKeeps

(* A project is published, at a new route or at the one it has: the tasks are those of PublishPlan. *)
LEMMA AnyPublicationKeeps ==
  ASSUME PublishingInv, NEW c \in Caller, UNCHANGED <<setting, routes, tunnels, dns, issued, mishaps>>,
         NEW k \in {"publish", "serve"}, NEW p \in Project \cup {"none"}, NEW h \in Host, NEW t \in Tunnel,
         Publication(c, k, p, h, t)
  PROVE  PublishingInv'
<1>0. PublishingFits
  BY DEF PublishingInv
<1>1. UNCHANGED <<setting, routes, tunnels, dns, issued, mishaps>>
  OBVIOUS
<1>2.   \/ \E r \in FreeIds : Begin(c, k, r, [NoRoute EXCEPT !.project = p, !.zone = (k = "publish")],
             <<Task("assign", h, t)>> \o UpsertCname(h, t) \o PutConfig(t)
               \o (IF "none" \in {"none", t} THEN << >> ELSE PutConfig("none")) \o RunConnector(t))
        \/ \E r \in Rows : Begin(c, k, r, routes[r],
             (IF routes[r].host # h THEN DropCname(routes[r].host, routes[r].tunnel) ELSE << >>)
               \o (<<Task("assign", h, t)>> \o UpsertCname(h, t) \o PutConfig(t)
                     \o (IF routes[r].tunnel \in {"none", t} THEN << >>
                       ELSE PutConfig(routes[r].tunnel)) \o RunConnector(t)))
  BY ZenonT(60) DEF Publication
<1>3. CASE \E r \in FreeIds : Begin(c, k, r, [NoRoute EXCEPT !.project = p, !.zone = (k = "publish")],
             <<Task("assign", h, t)>> \o UpsertCname(h, t) \o PutConfig(t)
               \o (IF "none" \in {"none", t} THEN << >> ELSE PutConfig("none")) \o RunConnector(t))
  <2>1. PICK r \in FreeIds : Begin(c, k, r, [NoRoute EXCEPT !.project = p, !.zone = (k = "publish")],
             <<Task("assign", h, t)>> \o UpsertCname(h, t) \o PutConfig(t) \o << >> \o RunConnector(t))
    BY <1>3
  <2> DEFINE w == [NoRoute EXCEPT !.project = p, !.zone = (k = "publish")]
             q == <<Task("assign", h, t)>> \o UpsertCname(h, t) \o PutConfig(t) \o << >> \o RunConnector(t)
  <2>2. q \in Seq(TaskRow)
    <3>1. <<Task("assign", h, t)>> \in Seq(TaskRow)
      BY TaskIs, OneLeft DEF OnHost
    <3>2. UpsertCname(h, t) \in Seq(TaskRow) /\ PutConfig(t) \in Seq(TaskRow) /\ RunConnector(t) \in Seq(TaskRow)
            /\ << >> \in Seq(TaskRow)
      BY UpsertTasks, PutConfigTasks, ConnectorTasks, EmptySeq
    <3>. QED  BY <3>1, <3>2, ConcatProperties
  <2>3. q = << >> \o q
    BY <2>2, ConcatEmptySeq
  <2>4. PublishPlan(q, 0, 0, h, t)
    <3>1. ASSUME NEW b, b = << >>, NEW n, n = 0, NEW old, old = t,
                 NEW k0, k0 = b \o (<<Task("assign", h, t)>> \o UpsertCname(h,
                   t) \o PutConfig(t) \o b \o RunConnector(t))
          PROVE  PublishPlan(k0, n, n, h, t)
      <4>1. n \in {0, 2} /\ (n = 0 => b = << >>) /\ n # 2 /\ old \in Tunnel \cup {"none"}
        BY <3>1
      <4>2. k0 = b \o (<<Task("assign", h, t)>> \o UpsertCname(h, t) \o PutConfig(t) \o b \o RunConnector(t))
        BY <3>1
      <4>. QED  BY <4>1, <4>2, PublishTasks
    <3>. QED  BY <2>3, <3>1
  <2>z. PICK z \in BOOLEAN : z = (k = "publish")
    OBVIOUS
  <2>5. w \in RouteRow /\ w.st # "live" /\ r \in 0..MaxRoute
    <3>1. NoRoute \in RouteRow /\ NoRoute.st = "unused"
      BY NoneTypes DEF NoRoute
    <3>2. w = [NoRoute EXCEPT !.project = p, !.zone = z]
      BY <2>z
    <3>3. [NoRoute EXCEPT !.project = p, !.zone = z] \in RouteRow
            /\ [NoRoute EXCEPT !.project = p, !.zone = z].st = "unused"
      BY <3>1 DEF RouteRow
    <3>. QED  BY <3>2, <3>3 DEF FreeIds
  <2>6. Begin(c, k, r, w, q)
    BY <2>1
  <2> HIDE DEF q, w
  <2>. QED  BY <1>1, <2>4, <2>5, <2>6, PublicationKeeps
<1>4. CASE \E r \in Rows : Begin(c, k, r, routes[r],
             (IF routes[r].host # h THEN DropCname(routes[r].host, routes[r].tunnel) ELSE << >>)
               \o (<<Task("assign", h, t)>> \o UpsertCname(h, t) \o PutConfig(t)
                     \o (IF routes[r].tunnel \in {"none", t} THEN << >>
                       ELSE PutConfig(routes[r].tunnel)) \o RunConnector(t)))
  <2>1. PICK r \in Rows : Begin(c, k, r, routes[r],
             (IF routes[r].host # h THEN DropCname(routes[r].host, routes[r].tunnel) ELSE << >>)
               \o (<<Task("assign", h, t)>> \o UpsertCname(h, t) \o PutConfig(t)
                     \o (IF routes[r].tunnel \in {"none", t} THEN << >>
                       ELSE PutConfig(routes[r].tunnel)) \o RunConnector(t)))
    BY <1>4
  <2>2. PICK w, g, old : w = routes[r] /\ g = routes[r].host /\ old = routes[r].tunnel
    OBVIOUS
  <2>3. r \in 0..MaxRoute /\ w \in RouteRow /\ (w.st = "live" => r \in Rows) /\ g \in Host /\ old \in Tunnel
    BY <1>0, <2>2, LiveRow
  <2>d. PICK m, d, b, mm, q :
          /\ m = (IF old \in {"none", t} THEN 0 ELSE 2) /\ d = (IF g # h THEN 2 ELSE 0)
          /\ b = (IF g # h THEN DropCname(g, old) ELSE << >>)
          /\ mm = (IF old \in {"none", t} THEN << >> ELSE PutConfig(old))
          /\ q = b \o (<<Task("assign", h, t)>> \o UpsertCname(h, t) \o PutConfig(t) \o mm \o RunConnector(t))
    OBVIOUS
  <2>4. /\ m \in {0, 2} /\ d \in {0, 2} /\ (m = 0 => mm = << >>) /\ (m = 2 => mm = PutConfig(old))
        /\ (d = 0 => b = << >>) /\ (d = 2 => b = DropCname(g, old))
    BY <2>d
  <2>5. Begin(c, k, r, w, q)
    BY <2>1, <2>2, <2>d
  <2>q. q = b \o (<<Task("assign", h, t)>> \o UpsertCname(h, t) \o PutConfig(t) \o mm \o RunConnector(t))
    BY <2>d
  <2>6. PublishPlan(q, m, d, h, t)
    <3>1. old \in Tunnel \cup {"none"} /\ g \in Host /\ (m = 2 => old \in Tunnel) /\ (d = 2 => old \in Tunnel)
      BY <2>3
    <3>. QED  BY <2>4, <2>q, <3>1, PublishTasks
  <2>. QED  BY <1>1, <2>3, <2>4, <2>5, <2>6, PublicationKeeps
<1>. QED  BY <1>2, <1>3, <1>4

(* It is published by a tunnel that is there, *)
LEMMA PublishRouteKeeps ==
  ASSUME PublishingInv, NEW c \in Caller, UNCHANGED setting, PublishRoute(c)
  PROVE  PublishingInv'
<1>1. PICK k \in {"publish", "serve"}, p \in Project, h \in Host, t \in Tunnel : Publication(c, k, p, h, t)
  BY DEF PublishRoute
<1>2. UNCHANGED <<setting, routes, tunnels, dns, issued, mishaps>>
  BY DEF PublishRoute
<1>. QED  BY <1>1, <1>2, AnyPublicationKeeps

(* or by one that has just been made for it. *)
LEMMA TakeRouteKeeps ==
  ASSUME PublishingInv, NEW c \in Caller, UNCHANGED setting, TakeRoute(c)
  PROVE  PublishingInv'
<1>1. PICK k \in {"publish", "serve"} :
        Publication(c, k, jobs[c].was.project, Head(jobs[c].todo).host, Head(jobs[c].todo).tunnel)
  BY DEF TakeRoute
<1>2. UNCHANGED <<setting, routes, tunnels, dns, issued, mishaps>>
  BY DEF TakeRoute
<1>3. jobs[c] \in Job /\ jobs[c].todo \in Seq(TaskRow) /\ jobs[c].todo # << >>
  BY DEF TakeRoute, PublishingInv, PublishingFits, PublishingTypeOK, JobsFit, JobFits, Job
<1>4. jobs[c].was.project \in Project \cup {"none"}
  BY <1>3 DEF Job, RouteRow
<1>5. Head(jobs[c].todo) \in TaskRow /\ Head(jobs[c].todo).do = "take"
  BY <1>3, TailLeft DEF TakeRoute
<1>6. Head(jobs[c].todo).host \in Host /\ Head(jobs[c].todo).tunnel \in Tunnel
  BY <1>5 DEF TaskRow, OnTunnel
<1>. QED  BY <1>1, <1>2, <1>4, <1>6, AnyPublicationKeeps

(* The tasks of enableProjectRoute. *)
EnablePlan(q, t) ==
  /\ q \in Seq(TaskRow) /\ Len(q) = 5
  /\ Left(q, 1).do = "run" /\ Left(q, 1).tunnel = t /\ Left(q, 2).do = "rm" /\ Left(q, 3).do = "check"
       /\ Left(q, 3).tunnel = t
  /\ Left(q, 4).do = "put" /\ Left(q, 5).do = "rows"

(* Enabling is that plan. *)
LEMMA EnableTasks ==
  ASSUME NEW t \in Tunnel, NEW q, q = PutConfig(t) \o RunConnector(t)
  PROVE  EnablePlan(q, t)
<1> DEFINE a == PutConfig(t)
           b == RunConnector(t)
<1>1. /\ a \in Seq(TaskRow) /\ Len(a) = 2 /\ Left(a, 2) = Task("rows", "none", t)
           /\ Left(a, 1) = Task("put", "none", t)
  BY PutConfigTasks
<1>2. /\ b \in Seq(TaskRow) /\ Len(b) = 3
      /\ Left(b, 3) = Task("check", "none", t) /\ Left(b, 2) = Task("rm", "none", t)
           /\ Left(b, 1) = Task("run", "none", t)
  BY ConnectorTasks
<1>3. q = a \o b
  OBVIOUS
<1> HIDE DEF a, b
<1>4. /\ a \o b \in Seq(TaskRow) /\ Len(a \o b) = Len(a) + Len(b)
      /\ \A i \in 1..Len(a) + Len(b) : Left(a \o b, i) = IF i <= Len(b) THEN Left(b, i) ELSE Left(a, i - Len(b))
  BY <1>1, <1>2, LeftOfConcat
<1>5. /\ q \in Seq(TaskRow) /\ Len(q) = 5 /\ \A i \in 1..5 : Left(q, i) = IF i <= 3 THEN Left(b, i)
           ELSE Left(a, i - 3)
  BY <1>1, <1>2, <1>3, <1>4
<1>6. /\ Left(q, 1) = Left(b, 1) /\ Left(q, 2) = Left(b, 2) /\ Left(q, 3) = Left(b, 3)
      /\ Left(q, 4) = Left(a, 1) /\ Left(q, 5) = Left(a, 2)
  BY <1>5
<1>. QED  BY <1>1, <1>2, <1>5, <1>6, TaskIs DEF EnablePlan, OnTunnel

(* It serves what is enabled. *)
LEMMA EnableServes ==
  ASSUME NEW j, NEW h, NEW t, EnablePlan(j.todo, t), j.kind = "enable"
  PROVE  ServingTasks(j, 11, 4, 4, h, t)
<1> DEFINE q == j.todo
<1>1. ASSUME NEW i \in 1..Len(q)
      PROVE  LET now == Left(q, i) IN
             /\ i < 11 /\ now.do \in {"rows", "put", "check", "rm", "run"}
             /\ i = 1 => now.do = "run" /\ now.tunnel = t
             /\ i = 2 => now.do = "rm"
             /\ i = 3 => now.do = "check" /\ now.tunnel = t
             /\ now.do \in {"check", "rm", "run"} => i <= 3
  <2>1. i \in {1, 2, 3, 4, 5}
    BY DEF EnablePlan
  <2>. QED  BY <2>1 DEF EnablePlan
<1>. QED  BY <1>1 DEF ServingTasks

(* A request that enables a route begins. *)
LEMMA EnableBegins ==
  ASSUME NEW t \in Tunnel, NEW h \in Host, NEW c \in Caller, EnablePlan(jobs'[c].todo, t), jobs'[c].kind = "enable",
         NEW r, r = jobs'[c].route, RowIs(r, h, t)', ConfigIsOfRows(jobs[c])'
  PROVE  OnTrack(jobs[c])'
<1>1. Len(jobs'[c].todo) = 5
  BY DEF EnablePlan
<1>2. ServingTasks(jobs[c], 11, 4, 4, h, t)'
  BY EnableServes
<1>3. ServingState(jobs[c], 11, 4, 4, h, t)'
  BY <1>1 DEF ServingState, Records
<1>4. Serving(jobs[c])'
  BY <1>2, <1>3 DEF Serving
<1>. QED  BY <1>4 DEF OnTrack, Ordered

(* A route is enabled or disabled. *)
LEMMA SwitchRouteKeeps ==
  ASSUME PublishingInv, NEW c \in Caller, UNCHANGED setting, SwitchRoute(c)
  PROVE  PublishingInv'
<1>0. PublishingFits
  BY DEF PublishingInv
<1>1. PICK r \in Rows, k \in {"enable", "disable"} :
        /\ Change(r, [routes[r] EXCEPT !.enabled = (k = "enable")])
        /\ Begin(c, k, r, routes[r],
             PutConfig(routes[r].tunnel) \o (IF k = "enable" THEN RunConnector(routes[r].tunnel) ELSE << >>))
  BY DEF SwitchRoute
<1>2. UNCHANGED <<tunnels, dns, issued, mishaps>>
  BY DEF SwitchRoute
<1>w. PICK w, h, t : w = routes[r] /\ h = routes[r].host /\ t = routes[r].tunnel
  OBVIOUS
<1> DEFINE v == [w EXCEPT !.enabled = (k = "enable")]
           b == IF k = "enable" THEN RunConnector(t) ELSE << >>
           q == PutConfig(t) \o b
<1>3. /\ r \in 1..MaxRoute /\ r \in 0..MaxRoute /\ w \in RouteRow /\ w.st = "live"
      /\ h \in Host /\ t \in Tunnel /\ tunnels[t].row
  BY <1>0, <1>w, LiveRow
<1>4. v \in RouteRow /\ v.st = "live" /\ v.host = h /\ v.tunnel = t
  BY <1>3, <1>w DEF RouteRow
<1>5. PlanFits(q) /\ q # << >> /\ (k # "enable" => Avoids(q, Changes))
  <2>1. PlanFits(PutConfig(t)) /\ PutConfig(t) # << >> /\ Avoids(PutConfig(t), Changes)
    BY <1>3, PutConfigFits, PutConfigAvoids
  <2>2. PlanFits(b) /\ (k # "enable" => Avoids(b, Changes))
    BY <1>3, ConnectorFits, EmptyFits, NoneAvoids
  <2>3. PutConfig(t) \in Seq(TaskRow) /\ b \in Seq(TaskRow)
    BY <2>1, <2>2 DEF PlanFits
  <2>. QED  BY <2>1, <2>2, <2>3, ConcatFits, ConcatNonempty, ConcatAvoids
<1>6. Change(r, v) /\ Begin(c, k, r, w, q)
  BY <1>1, <1>w
<1>7. k = "enable" => EnablePlan(q, t)
  BY <1>3, EnableTasks
<1> HIDE DEF v, q
<1>8. Began(c, k, r, w, q)
  BY <1>0, <1>3, <1>5, <1>6, BeginIsBegan DEF Kinds
<1>9. RowChanged(r, v)
  BY <1>0, <1>2, <1>3, <1>4, <1>6, ChangeFits
<1>10. OnTrack(jobs[c])'
  <2>1. /\ jobs'[c].kind = k /\ r = jobs'[c].route /\ ConfigIsOfRows(jobs[c])' /\ Ordered(jobs[c])'
             /\ jobs'[c].todo = q
    BY <1>8 DEF Began
  <2>2. CASE k = "enable"
    <3>1. RowIs(r, h, t)'
      BY <1>3, <1>4, <1>9 DEF RowChanged, RowIs, Rows
    <3>2. EnablePlan(jobs'[c].todo, t) /\ jobs'[c].kind = "enable"
      BY <1>7, <2>1, <2>2
    <3>. QED  BY <1>3, <2>1, <3>1, <3>2, EnableBegins
  <2>3. CASE k = "disable"
    BY <2>1, <2>3 DEF OnTrack
  <2>. QED  BY <2>2, <2>3
<1>11. tunnels' \in [Tunnel -> ManagedTunnel]
  BY <1>0, <1>2 DEF PublishingFits, PublishingTypeOK
<1>12. routes' \in [1..MaxRoute -> RouteRow] /\ RowsFit'
  BY <1>9 DEF RowChanged
<1>. QED  BY <1>0, <1>2, <1>8, <1>10, <1>11, <1>12, BeganKeeps

(* The requests that neither serve nor remove a hostname. *)
LEMMA OtherBegins ==
  ASSUME PublishingInv, NEW c \in Caller, UNCHANGED <<setting, routes, dns, issued, mishaps>>,
         NEW kind \in {"tunnel", "ensure", "untunnel", "link", "unlink", "restart", "stop"}, NEW w \in RouteRow,
           NEW q, PlanFits(q), q # << >>,
         Avoids(q, Changes) \/ Avoids(q, Puts),
         Begin(c, kind, 0, w, q), tunnels' \in [Tunnel -> ManagedTunnel],
         \A t \in Tunnel : tunnels[t].row => tunnels'[t].row
  PROVE  PublishingInv'
<1>0. PublishingFits
  BY DEF PublishingInv
<1>1. 0 \in 0..MaxRoute
  BY PublishingAssumption
<1>2. Began(c, kind, 0, w, q)
  BY <1>0, <1>1, BeginIsBegan DEF Kinds
<1>3. OnTrack(jobs[c])'
  BY <1>2 DEF Began, OnTrack
<1>4. RowsFit'
  BY <1>0 DEF PublishingFits, RowsFit, Rows
<1>5. routes' \in [1..MaxRoute -> RouteRow]
  BY <1>0 DEF PublishingFits, PublishingTypeOK
<1>. QED  BY <1>0, <1>2, <1>3, <1>4, <1>5, BeganKeeps

(* A plan of one harmless task fits, *)
LEMMA OneTaskFits ==
  ASSUME NEW t \in Tunnel, NEW do \in {"make", "token", "insert", "stop", "unmake", "unrow", "join", "leave",
           "unlist", "rm"}
  PROVE  PlanFits(<<Task(do, "none", t)>>) /\ <<Task(do, "none", t)>> # << >> /\ Avoids(<<Task(do, "none", t)>>, Puts)
<1>1. Task(do, "none", t) \in TaskRow /\ Task(do, "none", t).do = do
  BY TaskIs DEF OnTunnel
<1>2. Task(do, "none", t).do \notin {"put", "spoil", "undo", "check"} /\ Task(do, "none", t).do \notin Puts
  BY <1>1 DEF Puts
<1>. QED  BY <1>1, <1>2, TaskFits, OneAvoids

(* and one of three. *)
LEMMA ThreeTasksFit ==
  ASSUME NEW t \in Tunnel, NEW d1, NEW d2, NEW d3,
         {d1, d2, d3} \subseteq {"make", "token", "insert", "stop", "unmake", "unrow", "join", "leave", "unlist",
           "rm"},
         NEW q, q = <<Task(d1, "none", t), Task(d2, "none", t), Task(d3, "none", t)>>
  PROVE  /\ PlanFits(q) /\ q # << >> /\ Avoids(q, Puts)
         /\ {d1, d2, d3} \cap Changes = {} => Avoids(q, Changes)
<1>1. \A do \in {d1, d2, d3} : /\ Task(do, "none", t) \in TaskRow /\ Task(do, "none", t).do = do
                               /\ Task(do, "none", t).do \notin {"put", "spoil", "undo", "check"}
  BY TaskIs DEF OnTunnel
<1>2. PICK x \in TaskRow, y \in TaskRow, z \in TaskRow : q = <<x, y, z>>
        /\ \A e \in {x, y, z} : e.do \notin {"put", "spoil", "undo", "check"} /\ e.do \in {d1, d2, d3}
  BY <1>1
<1>3. q \in Seq(TaskRow) /\ Len(q) = 3 /\ Left(q, 3) = x /\ Left(q, 2) = y /\ Left(q, 1) = z
  BY <1>2, ThreeLeft
<1>4. \A i \in 1..Len(q) : Left(q, i).do \notin {"put", "spoil", "undo", "check"}
  BY <1>2, <1>3
<1>5. NoPuts(q)
  BY <1>3, <1>4 DEF NoPuts
<1>6. Left(q, 1).do \notin Puts /\ Left(q, 2).do \notin Puts /\ Left(q, 3).do \notin Puts
  BY <1>2, <1>3 DEF Puts
<1>7. Avoids(q, Puts)
  BY <1>3, <1>6, ThreeAvoid
<1>8. ASSUME {d1, d2, d3} \cap Changes = {} PROVE Avoids(q, Changes)
  <2>1. Left(q, 1).do \notin Changes /\ Left(q, 2).do \notin Changes /\ Left(q, 3).do \notin Changes
    BY <1>2, <1>3, <1>8
  <2>. QED  BY <1>3, <2>1, ThreeAvoid
<1>. QED  BY <1>5, <1>7, <1>8, NoPutsFits

(* A tunnel is created. *)
LEMMA CreateTunnelKeeps ==
  ASSUME PublishingInv, NEW c \in Caller, UNCHANGED setting, CreateTunnel(c)
  PROVE  PublishingInv'
<1>0. tunnels \in [Tunnel -> ManagedTunnel]
  BY DEF PublishingInv, PublishingFits, PublishingTypeOK
<1>1. PICK t \in Tunnel :
        /\ \/ Begin(c, "tunnel", 0, NoRoute, Build(t))
           \/ \E p \in Project, h \in Host : Begin(c, "ensure", 0, [NoRoute EXCEPT !.project = p],
                Build(t) \o <<Task("take", h, t)>>)
        /\ tunnels' = [tunnels EXCEPT ![t].used = TRUE]
  BY DEF CreateTunnel
<1>2. UNCHANGED <<setting, routes, dns, issued, mishaps>>
  BY DEF CreateTunnel
<1> DEFINE m == <<Task("make", "none", t), Task("token", "none", t), Task("insert", "none", t)>>
           q == m \o PutConfig(t) \o Tail(RunConnector(t))
<1>3. PlanFits(m) /\ m # << >> /\ Avoids(m, Changes)
  <2>1. {"make", "token", "insert"} \cap Changes = {}
    BY DEF Changes
  <2>. QED  BY <2>1, ThreeTasksFit
<1>4. /\ PlanFits(PutConfig(t)) /\ PlanFits(Tail(RunConnector(t)))
      /\ Avoids(PutConfig(t), Changes) /\ Avoids(Tail(RunConnector(t)), Changes)
  BY PutConfigFits, ConnectorFits, PutConfigAvoids, ConnectorTailAvoids
<1>5. Build(t) = q
  BY DEF Build
<1> HIDE DEF m
<1>6. PlanFits(m \o PutConfig(t)) /\ m \o PutConfig(t) # << >> /\ Avoids(m \o PutConfig(t), Changes)
  <2>1. m \in Seq(TaskRow) /\ PutConfig(t) \in Seq(TaskRow)
    BY <1>3, <1>4 DEF PlanFits
  <2>. QED  BY <1>3, <1>4, <2>1, ConcatFits, ConcatNonempty, ConcatAvoids
<1>7. PlanFits(q) /\ q # << >> /\ Avoids(q, Changes)
  <2>1. m \o PutConfig(t) \in Seq(TaskRow) /\ Tail(RunConnector(t)) \in Seq(TaskRow)
    BY <1>4, <1>6 DEF PlanFits
  <2>. QED  BY <1>4, <1>6, <2>1, ConcatFits, ConcatNonempty, ConcatAvoids
<1> HIDE DEF q
<1>8. tunnels' \in [Tunnel -> ManagedTunnel] /\ \A x \in Tunnel : tunnels[x].row => tunnels'[x].row
  <2>1. [tunnels[t] EXCEPT !.used = TRUE] \in ManagedTunnel /\ [tunnels[t] EXCEPT !.used = TRUE].row = tunnels[t].row
    BY <1>0 DEF ManagedTunnel
  <2>. QED  BY <1>0, <1>1, <2>1
<1>9. CASE Begin(c, "tunnel", 0, NoRoute, q)
  BY <1>2, <1>7, <1>8, <1>9, NoneTypes, OtherBegins
<1>10. ASSUME NEW p \in Project, NEW h \in Host,
                Begin(c, "ensure", 0, [NoRoute EXCEPT !.project = p], q \o <<Task("take", h, t)>>)
       PROVE  PublishingInv'
  <2>1. Task("take", h, t) \in TaskRow /\ Task("take", h, t).do = "take"
    BY TaskIs DEF OnHost
  <2>2. /\ PlanFits(<<Task("take", h, t)>>) /\ <<Task("take", h, t)>> \in Seq(TaskRow)
        /\ Avoids(<<Task("take", h, t)>>, Changes)
    BY <2>1, TaskFits, OneAvoids, OneLeft DEF Changes
  <2>3. /\ PlanFits(q \o <<Task("take", h, t)>>) /\ q \o <<Task("take", h, t)>> # << >>
        /\ Avoids(q \o <<Task("take", h, t)>>, Changes)
    <3>1. q \in Seq(TaskRow)
      BY <1>7 DEF PlanFits
    <3>. QED  BY <1>7, <2>2, <3>1, ConcatFits, ConcatNonempty, ConcatAvoids
  <2>4. [NoRoute EXCEPT !.project = p] \in RouteRow
    BY NoneTypes DEF RouteRow
  <2>. QED  BY <1>2, <1>8, <1>10, <2>3, <2>4, OtherBegins
<1>. QED  BY <1>1, <1>5, <1>9, <1>10

(* One "forget" for each of the routes of a tunnel. *)
LEMMA ForgetFits ==
  ASSUME NEW n \in Nat, NEW f \in [1..n -> TaskRow], \A i \in 1..n : f[i].do = "forget"
  PROVE  PlanFits(f) /\ Avoids(f, Puts)
<1>1. f \in Seq(TaskRow) /\ Len(f) = n
  BY SeqDef
<1>2. \A i \in 1..Len(f) : Left(f, i).do = "forget"
  <2>1. \A i \in 1..n : n + 1 - i \in 1..n
    OBVIOUS
  <2>. QED  BY <1>1, <2>1 DEF Left
<1>3. Avoids(f, Puts)
  BY <1>2 DEF Avoids, Puts
<1>. QED  BY <1>1, <1>2, <1>3 DEF PlanFits, PutsFollow

(* A tunnel has finitely many rows. *)
LEMMA RowsOfFinite ==
  ASSUME NEW t \in Tunnel, NEW S, S \subseteq RowsOf(t)
  PROVE  IsFiniteSet(S) /\ Cardinality(S) \in Nat
<1>1. IsFiniteSet(1..MaxRoute)
  BY FS_Interval, PublishingAssumption
<1>2. S \subseteq 1..MaxRoute
  BY DEF RowsOf, Rows
<1>. QED  BY <1>1, <1>2, FS_Subset, FS_CardinalityType

(* A tunnel is deleted, with the records of its hostnames. *)
LEMMA DeleteTunnelKeeps ==
  ASSUME PublishingInv, NEW c \in Caller, UNCHANGED setting, DeleteTunnel(c)
  PROVE  PublishingInv'
<1>0. PublishingFits
  BY DEF PublishingInv
<1>t. PICK t \in Tunnel : \E order \in LET zoned == {r \in RowsOf(t) : routes[r].zone} IN
                       {s \in [1..Cardinality(zoned) -> zoned] : \A i, j \in DOMAIN s : s[i] = s[j] => i = j} :
        Begin(c, "untunnel", 0, NoRoute,
              [i \in DOMAIN order |-> [Task("forget", routes[order[i]].host,
                t) EXCEPT !.record = routes[order[i]].record]]
                \o <<Task("stop", "none", t), Task("unmake", "none", t), Task("unrow", "none", t)>>)
  BY DEF DeleteTunnel
<1>z. PICK Z : Z = {r \in RowsOf(t) : routes[r].zone}
  OBVIOUS
<1>1. PICK order \in [1..Cardinality(Z) -> Z] :
        Begin(c, "untunnel", 0, NoRoute,
              [i \in DOMAIN order |-> [Task("forget", routes[order[i]].host,
                t) EXCEPT !.record = routes[order[i]].record]]
                \o <<Task("stop", "none", t), Task("unmake", "none", t), Task("unrow", "none", t)>>)
  BY <1>t, <1>z
<1>2. UNCHANGED <<setting, routes, tunnels, dns, issued, mishaps>>
  BY DEF DeleteTunnel
<1> DEFINE n == Cardinality(Z)
           f == [i \in DOMAIN order |-> [Task("forget", routes[order[i]].host,
             t) EXCEPT !.record = routes[order[i]].record]]
           b == <<Task("stop", "none", t), Task("unmake", "none", t), Task("unrow", "none", t)>>
           q == f \o b
<1>3. n \in Nat
  BY <1>z, RowsOfFinite
<1>4. f \in [1..n -> TaskRow] /\ \A i \in 1..n : f[i].do = "forget"
  <2>1. ASSUME NEW i \in 1..n PROVE f[i] \in TaskRow /\ f[i].do = "forget"
    <3>1. order[i] \in Rows
      BY <1>z DEF RowsOf
    <3>2. PICK r \in Rows : r = order[i]
      BY <3>1
    <3>3. routes[r].host \in Host /\ routes[r].record \in 0..MaxRecord
      BY <1>0, LiveRow DEF RouteRow
    <3>4. f[i] = [Task("forget", routes[r].host, t) EXCEPT !.record = routes[r].record]
      BY <3>2
    <3>. QED  BY <3>3, <3>4 DEF Task, TaskRow, OnHost
  <2>2. DOMAIN order = 1..n
    OBVIOUS
  <2>. QED  BY <2>1, <2>2
<1>5. Begin(c, "untunnel", 0, NoRoute, q)
  BY <1>1
<1>6. PlanFits(b) /\ b # << >> /\ Avoids(b, Puts)
  BY ThreeTasksFit
<1> HIDE DEF n, f, b
<1>7. PlanFits(f) /\ Avoids(f, Puts)
  BY <1>3, <1>4, ForgetFits
<1>8. PlanFits(q) /\ q # << >> /\ Avoids(q, Puts)
  <2>1. f \in Seq(TaskRow) /\ b \in Seq(TaskRow)
    BY <1>6, <1>7 DEF PlanFits
  <2>. QED  BY <1>6, <1>7, <2>1, ConcatFits, ConcatNonempty, ConcatAvoids
<1> HIDE DEF q
<1>9. tunnels' \in [Tunnel -> ManagedTunnel] /\ \A x \in Tunnel : tunnels[x].row => tunnels'[x].row
  BY <1>0, <1>2 DEF PublishingFits, PublishingTypeOK
<1>. QED  BY <1>2, <1>5, <1>8, <1>9, NoneTypes, OtherBegins

(* A connector is restarted or stopped, a tunnel is linked or unlinked. *)
LEMMA OtherRequestKeeps ==
  ASSUME PublishingInv, NEW c \in Caller, UNCHANGED setting, OtherRequest(c)
  PROVE  PublishingInv'
<1>0. tunnels \in [Tunnel -> ManagedTunnel]
  BY DEF PublishingInv, PublishingFits, PublishingTypeOK
<1>1. PICK t \in Tunnel :
        \/ /\ tunnels' = [tunnels EXCEPT ![t].linked = "listed"]
                /\ Begin(c, "link", 0, NoRoute, <<Task("join", "none", t)>>)
        \/ /\ UNCHANGED tunnels
           /\ \/ Begin(c, "unlink", 0, NoRoute, <<Task("leave", "none", t), Task("unlist", "none", t)>>)
              \/ Begin(c, "restart", 0, NoRoute, Tail(RunConnector(t)))
              \/ Begin(c, "stop", 0, NoRoute, <<Task("rm", "none", t)>>)
  BY DEF OtherRequest
<1>2. UNCHANGED <<setting, routes, dns, issued, mishaps>>
  BY DEF OtherRequest
<1>3. UNCHANGED tunnels => tunnels' \in [Tunnel -> ManagedTunnel] /\ \A x \in Tunnel : tunnels[x].row
        => tunnels'[x].row
  BY <1>0
<1>4. CASE tunnels' = [tunnels EXCEPT ![t].linked = "listed"]
             /\ Begin(c, "link", 0, NoRoute, <<Task("join", "none", t)>>)
  <2>1. [tunnels[t] EXCEPT !.linked = "listed"] \in ManagedTunnel
          /\ [tunnels[t] EXCEPT !.linked = "listed"].row = tunnels[t].row
    BY <1>0 DEF ManagedTunnel
  <2>2. tunnels' \in [Tunnel -> ManagedTunnel] /\ \A x \in Tunnel : tunnels[x].row => tunnels'[x].row
    BY <1>0, <1>4, <2>1
  <2>3. PlanFits(<<Task("join", "none", t)>>) /\ <<Task("join", "none", t)>> # << >>
          /\ Avoids(<<Task("join", "none", t)>>, Puts)
    BY OneTaskFits
  <2>. QED  BY <1>2, <1>4, <2>2, <2>3, NoneTypes, OtherBegins
<1>5. CASE UNCHANGED tunnels /\ Begin(c, "unlink", 0, NoRoute,
             <<Task("leave", "none", t), Task("unlist", "none", t)>>)
  <2> DEFINE q == <<Task("leave", "none", t), Task("unlist", "none", t)>>
  <2>1. Task("leave", "none", t) \in TaskRow /\ Task("unlist", "none", t) \in TaskRow
        /\ Task("leave", "none", t).do = "leave" /\ Task("unlist", "none", t).do = "unlist"
    BY TaskIs DEF OnTunnel
  <2>2. q \in Seq(TaskRow) /\ Len(q) = 2 /\ Left(q, 2) = Task("leave", "none", t)
          /\ Left(q, 1) = Task("unlist", "none", t)
    BY <2>1, TwoLeft
  <2>3. Begin(c, "unlink", 0, NoRoute, q)
    BY <1>5
  <2> HIDE DEF q
  <2>4. NoPuts(q)
    BY <2>1, <2>2, FewNoPuts
  <2>5. PlanFits(q) /\ q # << >>
    BY <2>4, NoPutsFits
  <2>6. Left(q, 2).do \notin Puts /\ Left(q, 1).do \notin Puts
    BY <2>1, <2>2 DEF Puts
  <2>7. Avoids(q, Puts)
    BY <2>2, <2>6, TwoAvoid
  <2>. QED  BY <1>2, <1>3, <1>5, <2>3, <2>5, <2>7, NoneTypes, OtherBegins
<1>6. CASE UNCHANGED tunnels /\ Begin(c, "restart", 0, NoRoute, Tail(RunConnector(t)))
  <2>1. PlanFits(Tail(RunConnector(t))) /\ Tail(RunConnector(t)) # << >> /\ Avoids(Tail(RunConnector(t)), Changes)
    BY ConnectorFits, ConnectorTailAvoids
  <2>. QED  BY <1>2, <1>3, <1>6, <2>1, NoneTypes, OtherBegins
<1>7. CASE UNCHANGED tunnels /\ Begin(c, "stop", 0, NoRoute, <<Task("rm", "none", t)>>)
  <2>1. PlanFits(<<Task("rm", "none", t)>>) /\ <<Task("rm", "none", t)>> # << >>
          /\ Avoids(<<Task("rm", "none", t)>>, Puts)
    BY OneTaskFits
  <2>. QED  BY <1>2, <1>3, <1>7, <2>1, NoneTypes, OtherBegins
<1>. QED  BY <1>1, <1>4, <1>5, <1>6, <1>7

-----------------------------------------------------------------------------
(* Steps of the sweep, of people at Cloudflare and of projects. *)

(* With nobody alone nothing else is promised. *)
LEMMA NobodyAlone ==
  ASSUME PublishingFits, jobs' = Disturbed, UNCHANGED setting, RowsFit',
         routes' \in [1..MaxRoute -> RouteRow], tunnels' \in [Tunnel -> ManagedTunnel], dns' \in [Host -> Cname],
         issued' \in 0..MaxRecord, mishaps' \in 0..MaxMishap
  PROVE  PublishingInv'
<1>1. jobs' \in [Caller -> Job] /\ JobsFit' /\ \A d \in Caller : ~jobs'[d].alone
  BY DisturbedKeeps
<1>2. PublishingTypeOK'
  BY <1>1 DEF PublishingFits, PublishingTypeOK
<1>3. (\A d \in Caller : OnTrack(jobs[d]))'
  BY <1>1 DEF OnTrack
<1>. QED  BY <1>1, <1>2, <1>3 DEF PublishingInv, PublishingFits

(* Mishaps are counted up to their bound. *)
LEMMA MishapType ==
  ASSUME PublishingFits
  PROVE  mishaps \in 0..MaxMishap /\ (Mishap => mishaps' \in 0..MaxMishap)
           /\ (UNCHANGED mishaps => mishaps' \in 0..MaxMishap)
BY PublishingAssumption DEF PublishingFits, PublishingTypeOK, Mishap

(* The sweep puts a tunnel right behind the requests. *)
LEMMA ReconcileKeeps ==
  ASSUME PublishingInv, NEW t \in Tunnel, UNCHANGED setting, Reconcile(t)
  PROVE  PublishingInv'
<1>0. PublishingFits /\ PublishingTypeOK
  BY DEF PublishingInv, PublishingFits
<1> DEFINE l == IF tunnels[t].linked = "none" THEN "none" ELSE "joined"
           b == [tunnels[t] EXCEPT !.connector = TRUE, !.linked = l]
<1>1. tunnels' = [tunnels EXCEPT ![t] = b] /\ jobs' = Disturbed /\ UNCHANGED <<routes, dns, issued, mishaps>>
  BY DEF Reconcile
<1>2. b \in ManagedTunnel /\ b.row = tunnels[t].row
  BY <1>0 DEF PublishingTypeOK, ManagedTunnel
<1> HIDE DEF b
<1>3. tunnels' \in [Tunnel -> ManagedTunnel] /\ \A x \in Tunnel : tunnels[x].row => tunnels'[x].row
  BY <1>0, <1>1, <1>2 DEF PublishingTypeOK
<1>4. RowsFit'
  BY <1>0, <1>1, <1>3 DEF PublishingFits, RowsFit, Rows
<1>. QED  BY <1>0, <1>1, <1>3, <1>4, NobodyAlone DEF PublishingTypeOK

(* Someone edits DNS at Cloudflare. *)
LEMMA EditDnsKeeps ==
  ASSUME PublishingInv, NEW h \in Host, UNCHANGED setting, EditDns(h)
  PROVE  PublishingInv'
<1>0. PublishingFits /\ PublishingTypeOK
  BY DEF PublishingInv, PublishingFits
<1>1. /\ jobs' = Disturbed /\ UNCHANGED <<routes, tunnels>> /\ mishaps' \in 0..MaxMishap
  BY <1>0, MishapType DEF EditDns
<1>2. \E k : /\ dns' = [dns EXCEPT ![h] = k] /\ k \in Cname /\ (k.id = 0 => k = NoCname)
             /\ issued' \in 0..MaxRecord
  <2>1. CASE dns[h].id = 0 /\ issued < MaxRecord
               /\ dns' = [dns EXCEPT ![h] = [id |-> issued + 1, target |-> "other"]] /\ issued' = issued + 1
    <3>1. issued + 1 \in 0..MaxRecord /\ issued + 1 # 0
      BY <1>0, <2>1, PublishingAssumption DEF PublishingTypeOK
    <3>2. [id |-> issued + 1, target |-> "other"] \in Cname
      BY <3>1 DEF Cname
    <3>. QED  BY <2>1, <3>1, <3>2
  <2>2. CASE dns[h].id # 0 /\ dns' = [dns EXCEPT ![h].target = "other"] /\ UNCHANGED issued
    <3>1. [dns[h] EXCEPT !.target = "other"] \in Cname /\ [dns[h] EXCEPT !.target = "other"].id = dns[h].id
      BY <1>0 DEF PublishingTypeOK, Cname
    <3>2. dns' = [dns EXCEPT ![h] = [dns[h] EXCEPT !.target = "other"]]
      BY <2>2
    <3>. QED  BY <1>0, <2>2, <3>1, <3>2 DEF PublishingTypeOK
  <2>3. CASE dns[h].id # 0 /\ dns' = [dns EXCEPT ![h] = NoCname] /\ UNCHANGED issued
    BY <1>0, <2>3, NoneTypes DEF PublishingTypeOK
  <2>. QED  BY <2>1, <2>2, <2>3 DEF EditDns
<1>3. PICK k : /\ dns' = [dns EXCEPT ![h] = k] /\ k \in Cname /\ (k.id = 0 => k = NoCname)
               /\ issued' \in 0..MaxRecord
  BY <1>2
<1>4. dns' \in [Host -> Cname] /\ \A x \in Host : dns'[x].id = 0 => dns'[x] = NoCname
  BY <1>0, <1>3 DEF PublishingFits, PublishingTypeOK, RowsFit
<1>5. RowsFit'
  BY <1>0, <1>1, <1>4 DEF PublishingFits, RowsFit, Rows
<1>6. routes' \in [1..MaxRoute -> RouteRow] /\ tunnels' \in [Tunnel -> ManagedTunnel]
  BY <1>0, <1>1 DEF PublishingTypeOK
<1>. QED  BY <1>0, <1>1, <1>3, <1>4, <1>5, <1>6, NobodyAlone

(* Rows are deleted. *)
LEMMA FewerRowsFit ==
  ASSUME PublishingFits, routes' = [r \in DOMAIN routes |-> routes'[r]],
         \A r \in 1..MaxRoute : routes'[r] = routes[r] \/ routes'[r] = [NoRoute EXCEPT !.st = "gone"]
  PROVE  routes' \in [1..MaxRoute -> RouteRow] /\ \A r \in Rows' : r \in Rows /\ routes'[r] = routes[r]
<1>1. routes \in [1..MaxRoute -> RouteRow]
  BY DEF PublishingFits, PublishingTypeOK
<1>2. [NoRoute EXCEPT !.st = "gone"] \in RouteRow /\ [NoRoute EXCEPT !.st = "gone"].st = "gone"
  BY NoneTypes DEF RouteRow
<1>3. \A r \in 1..MaxRoute : routes'[r] \in RouteRow /\ (routes'[r].st = "live" => routes'[r] = routes[r])
  BY <1>1, <1>2
<1>4. DOMAIN routes = 1..MaxRoute
  BY <1>1
<1>5. routes' \in [1..MaxRoute -> RouteRow]
  BY <1>3, <1>4
<1>. QED  BY <1>3, <1>5 DEF Rows

(* The rows that are left still fit. *)
LEMMA RowsStillFit ==
  ASSUME PublishingFits, \A r \in Rows' : r \in Rows /\ routes'[r] = routes[r],
         \A h \in Host : dns'[h].id = 0 => dns'[h] = NoCname,
         \A r \in Rows' : tunnels'[routes[r].tunnel].row
  PROVE  RowsFit'
<1>1. ASSUME NEW r \in Rows' PROVE routes'[r].host \in Host /\ routes'[r].tunnel \in Tunnel
               /\ tunnels'[routes'[r].tunnel].row
  <2>1. r \in Rows /\ routes'[r] = routes[r] /\ tunnels'[routes[r].tunnel].row
    BY <1>1
  <2>. QED  BY <2>1, LiveRow
<1>. QED  BY <1>1 DEF RowsFit

(* A project is deleted, and its rows with it. *)
LEMMA DropProjectKeeps ==
  ASSUME PublishingInv, NEW p \in Project, UNCHANGED setting, DropProject(p)
  PROVE  PublishingInv'
<1>0. PublishingFits /\ PublishingTypeOK
  BY DEF PublishingInv, PublishingFits
<1>1. /\ jobs' = Disturbed /\ UNCHANGED <<tunnels, dns, issued>> /\ mishaps' \in 0..MaxMishap
      /\ routes' = [r \in DOMAIN routes |-> IF routes[r].project = p THEN [NoRoute EXCEPT !.st = "gone"]
           ELSE routes[r]]
  BY <1>0, MishapType DEF DropProject
<1>2. routes' \in [1..MaxRoute -> RouteRow] /\ \A r \in Rows' : r \in Rows /\ routes'[r] = routes[r]
  <2>1. DOMAIN routes = 1..MaxRoute
    BY <1>0 DEF PublishingTypeOK
  <2>2. routes' = [r \in DOMAIN routes |-> routes'[r]]
    BY <1>1
  <2>3. \A r \in 1..MaxRoute : routes'[r] = routes[r] \/ routes'[r] = [NoRoute EXCEPT !.st = "gone"]
    BY <1>1, <2>1
  <2>. QED  BY <1>0, <2>2, <2>3, FewerRowsFit
<1>3. RowsFit'
  <2>1. \A r \in Rows' : tunnels'[routes[r].tunnel].row
    BY <1>0, <1>1, <1>2, LiveRow
  <2>2. \A h \in Host : dns'[h].id = 0 => dns'[h] = NoCname
    BY <1>0, <1>1 DEF PublishingFits, RowsFit
  <2>. QED  BY <1>0, <1>2, <2>1, <2>2, RowsStillFit
<1>4. tunnels' \in [Tunnel -> ManagedTunnel] /\ dns' \in [Host -> Cname] /\ issued' \in 0..MaxRecord
  BY <1>0, <1>1 DEF PublishingTypeOK
<1>. QED  BY <1>0, <1>1, <1>2, <1>3, <1>4, NobodyAlone

(* What a request that is alone was, when it goes from j to k by a call that changes no more of it than i says. *)
Gone(j, i, k) ==
  /\ j.alone /\ ~Fails(j) /\ k.kind = j.kind /\ k.route = j.route /\ k.was = j.was /\ k.warned = j.warned
       /\ k.put = i.put
  /\ Len(j.todo) \in Nat /\ Len(j.todo) > 0 /\ Len(k.todo) = Len(j.todo) - 1
       /\ Head(j.todo) = Left(j.todo, Len(j.todo))
  /\ \A n \in 1..Len(k.todo) : Left(k.todo, n) = Left(j.todo, n)
  /\ Len(k.todo) > 0 => k.rows = i.rows /\ k.seen = i.seen

-----------------------------------------------------------------------------
(* Requests go on, one task at a time. *)

(* The request goes on, and the others are not alone if it is. *)
LEMMA GoingOn ==
  ASSUME PublishingFits, NEW c \in Caller, jobs[c].st = "running", NEW i \in Job,
         i.todo = jobs[c].todo, i.kind = jobs[c].kind, i.st = "running", i.route = jobs[c].route, i.was = jobs[c].was,
         i.warned = jobs[c].warned, i.alone = jobs[c].alone,
         Going(c, i)
  PROVE  /\ jobs' \in [Caller -> Job] /\ JobsFit' /\ \A d \in Caller \ {c} : ~jobs'[d].alone
         /\ jobs'[c].alone /\ ~Fails(jobs'[c]) => Gone(jobs[c], i, jobs'[c])
<1>0. jobs[c] \in Job /\ JobFits(jobs[c])
  BY DEF PublishingFits, PublishingTypeOK, JobsFit
<1>1. JobFits(i)
  BY <1>0 DEF JobFits, TasksFit, Fails
<1>2. PICK k : k = Ended([i EXCEPT !.todo = Tail(@)])
  OBVIOUS
<1>3. /\ k \in Job /\ JobFits(k) /\ Went(i, k)
      /\ k.alone => i.alone /\ Len(k.todo) = Len(i.todo) - 1 /\ k.warned = i.warned
  BY <1>1, <1>2, GoesOn
<1>4. jobs' = [jobs EXCEPT ![c] = k]
  BY <1>2 DEF Going
<1>5. /\ jobs' \in [Caller -> Job] /\ JobsFit'
      /\ jobs'[c] = k /\ \A d \in Caller \ {c} : jobs'[d] = jobs[d] /\ ~jobs'[d].alone
  BY <1>3, <1>4, JobGoes
<1>6. ASSUME k.alone, ~Fails(k) PROVE Gone(jobs[c], i, k)
  <2>1. /\ i.alone /\ ~Fails(i) /\ k.kind = i.kind /\ k.route = i.route /\ k.was = i.was /\ k.put = i.put
             /\ k.warned = i.warned
        /\ Len(k.todo) = Len(i.todo) - 1 /\ \A n \in 1..Len(k.todo) : Left(k.todo, n) = Left(i.todo, n)
        /\ Len(k.todo) > 0 => k.rows = i.rows /\ k.seen = i.seen
    BY <1>3, <1>6 DEF Went
  <2>2. jobs[c].todo \in Seq(TaskRow) /\ jobs[c].todo # << >>
    BY <1>0 DEF Job, JobFits
  <2>3. Len(jobs[c].todo) \in Nat /\ Len(jobs[c].todo) > 0
          /\ Head(jobs[c].todo) = Left(jobs[c].todo, Len(jobs[c].todo))
    BY <2>2, TailLeft
  <2>4. ~Fails(jobs[c])
    BY <2>1 DEF Fails
  <2>. QED  BY <2>1, <2>3, <2>4 DEF Gone
<1>. QED  BY <1>5, <1>6

(* The tasks of a request that serves are still those of one when it has done some of them. *)
LEMMA ServingTasksGo ==
  ASSUME NEW j, NEW k, NEW a, NEW s, NEW u, NEW h, NEW t, ServingTasks(j, a, s, u, h, t), k.kind = j.kind,
         Len(k.todo) \in Nat, Len(j.todo) \in Nat, Len(k.todo) <= Len(j.todo),
           \A n \in 1..Len(k.todo) : Left(k.todo, n) = Left(j.todo, n)
  PROVE  ServingTasks(k, a, s, u, h, t)
<1>1. \A n \in 1..Len(k.todo) : n \in 1..Len(j.todo) /\ Left(k.todo, n) = Left(j.todo, n)
  OBVIOUS
<1>. QED  BY <1>1 DEF ServingTasks

(* Where a request is: the number of tasks left, its route and its next task. *)
At(j, n, r, x) == n = Len(j.todo) /\ r = j.route /\ x = Head(j.todo)

(* What it has to have done by its next task, told by those that are left before it. *)
ServesNext(c, i, a, s, u, h, t, n, r) ==
  /\ n <= a => RowIs(r, h, t)' /\ (jobs[c].kind # "enable" => routes'[r].enabled)
  /\ n > a /\ jobs[c].was.st = "live" => r \in Rows'
  /\ jobs[c].kind # "enable" /\ n <= u => t \in i.put
  /\ Records(jobs[c].kind) =>
       /\ n = s + 2 => i.seen = dns'[h]
       /\ n = s + 1 => dns'[h] = [id |-> i.seen.id, target |-> t]
       /\ n <= s => dns'[h] = [id |-> routes'[r].record, target |-> t]
  /\ jobs[c].kind \in {"publish", "serve", "enable"} /\ n = 1 => tunnels'[t].connector

(* A task that leads to what ServesNext says keeps the request serving. *)
LEMMA ServingGoes ==
  ASSUME NEW c \in Caller, NEW i, Gone(jobs[c], i, jobs'[c]),
         NEW a \in 1..11, NEW s \in 1..11, NEW u \in 1..11, NEW h \in Host, NEW t \in Tunnel,
         ServingTasks(jobs[c], a, s, u, h, t),
         NEW n, NEW r, NEW x, At(jobs[c], n, r, x), ServesNext(c, i, a, s, u, h, t, n, r)
  PROVE  Serving(jobs[c])'
<1>1. ServingTasks(jobs'[c], a, s, u, h, t)
  <2>1. /\ jobs'[c].kind = jobs[c].kind /\ Len(jobs'[c].todo) \in Nat /\ Len(jobs[c].todo) \in Nat
             /\ Len(jobs'[c].todo) <= Len(jobs[c].todo)
        /\ \A y \in 1..Len(jobs'[c].todo) : Left(jobs'[c].todo, y) = Left(jobs[c].todo, y)
    BY DEF Gone
  <2>. QED  BY <2>1, ServingTasksGo
<1>2. PICK l : l = Len(jobs'[c].todo)
  OBVIOUS
<1>n. n \in Nat /\ n > 0 /\ l = n - 1
  BY <1>2 DEF Gone, At
<1>3. /\ (l < a <=> n <= a) /\ (l >= a <=> n > a) /\ (l < u <=> n <= u)
      /\ (l = s + 1 <=> n = s + 2) /\ (l = s <=> n = s + 1) /\ (l < s <=> n <= s) /\ (l = 0 <=> n = 1)
      /\ (l = s + 1 \/ l = s => l > 0)
  <2>1. \A z \in Nat, y \in 1..11 : z > 0 => (z - 1 < y <=> z <= y) /\ (z - 1 >= y <=> z > y)
    OBVIOUS
  <2>2. \A z \in Nat, y \in 1..11 : (z - 1 = y + 1 <=> z = y + 2) /\ (z - 1 = y <=> z = y + 1)
          /\ (z - 1 = 0 <=> z = 1)
    OBVIOUS
  <2>3. l = s + 1 \/ l = s => l > 0
    OBVIOUS
  <2>. QED  BY <1>n, <2>1, <2>2, <2>3
<1>4. /\ jobs'[c].kind = jobs[c].kind /\ jobs'[c].route = r /\ jobs'[c].was = jobs[c].was /\ jobs'[c].put = i.put
      /\ l > 0 => jobs'[c].seen = i.seen
  BY <1>2 DEF Gone, At
<1>5. ServingState(jobs[c], a, s, u, h, t)'
  <2>1. l < a => RowIs(r, h, t)' /\ (jobs'[c].kind # "enable" => routes'[r].enabled)
    BY <1>3, <1>4 DEF ServesNext
  <2>2. l >= a /\ jobs'[c].was.st = "live" => r \in Rows'
    BY <1>3, <1>4 DEF ServesNext
  <2>s. jobs'[c].kind # "enable" /\ l < u => t \in jobs'[c].put
    BY <1>3, <1>4 DEF ServesNext
  <2>3. ASSUME Records(jobs'[c].kind)
        PROVE  /\ l = s + 1 => jobs'[c].seen = dns'[h]
               /\ l = s => dns'[h] = [id |-> jobs'[c].seen.id, target |-> t]
               /\ l < s => dns'[h] = [id |-> routes'[r].record, target |-> t]
    BY <1>3, <1>4, <2>3 DEF ServesNext
  <2>4. jobs'[c].kind \in {"publish", "serve", "enable"} /\ l = 0 => tunnels'[t].connector
    BY <1>3, <1>4 DEF ServesNext
  <2>. QED  BY <1>2, <1>4, <2>1, <2>2, <2>s, <2>3, <2>4 DEF ServingState
<1>. QED  BY <1>1, <1>5 DEF Serving

(* A request that is alone has been tracked so far. *)
LEMMA Tracked ==
  ASSUME PublishingInv, NEW c \in Caller, NEW i, Gone(jobs[c], i, jobs'[c])
  PROVE  /\ ConfigIsOfRows(jobs[c]) /\ Ordered(jobs[c])
         /\ jobs[c].kind \in {"create", "retry", "publish", "serve", "enable"} => Serving(jobs[c])
         /\ jobs[c].kind \in {"delete", "remove", "withdraw"} => Removing(jobs[c])
BY DEF PublishingInv, OnTrack, Gone

(* The next task of a request that serves a hostname. *)
ServingNow(kind, n, x, a, s, u, h, t) ==
  /\ n \in Nat /\ n > 0 /\ s + 2 < a /\ u < a
  /\ n = a => x.do = "assign" /\ x.host = h /\ x.tunnel = t
  /\ n > a => x.do \in {"look", "drop"}
  /\ n < a => x.do \in {"rows", "put", "look", "point", "save", "check", "rm", "run"}
  /\ kind # "enable" =>
       /\ n = s => x.do = "save" /\ x.host = h /\ x.tunnel = t
       /\ n = s + 1 => x.do = "point" /\ x.host = h /\ x.tunnel = t
       /\ n = s + 2 => x.do = "look" /\ x.host = h
       /\ n = u => x.do = "put" /\ x.tunnel = t
  /\ x.do = "save" => n = s /\ kind # "enable"
  /\ x.do = "point" => n = s + 1 /\ kind # "enable"
  /\ kind \in {"publish", "serve", "enable"} =>
       (n = 1 => x.do = "run" /\ x.tunnel = t) /\ (n = 2 => x.do = "rm") /\ (n = 3 => x.do = "check" /\ x.tunnel = t)
  /\ x.do \in {"check", "rm", "run"} => n <= 3 /\ kind \in {"publish", "serve", "enable"}

(* The next task of a request that serves, *)
LEMMA ServingHead ==
  ASSUME NEW j, NEW n \in 1..Len(j.todo), NEW a, NEW s, NEW u, NEW h, NEW t, ServingTasks(j, a, s, u, h, t),
           Len(j.todo) \in Nat
  PROVE  ServingNow(j.kind, n, Left(j.todo, n), a, s, u, h, t)
<1>1. n \in Nat /\ n > 0
  OBVIOUS
<1>. QED  BY <1>1 DEF ServingTasks, ServingNow

(* also when it is known by its number. *)
LEMMA ServingAt ==
  ASSUME NEW j, NEW i, NEW k, Gone(j, i, k), NEW a, NEW s, NEW u, NEW h, NEW t, ServingTasks(j, a, s, u, h, t),
         NEW n, NEW r, NEW x, At(j, n, r, x)
  PROVE  ServingNow(j.kind, n, x, a, s, u, h, t)
<1>1. n \in 1..Len(j.todo) /\ Len(j.todo) \in Nat /\ x = Left(j.todo, n)
  BY DEF Gone, At
<1>2. ServingNow(j.kind, n, Left(j.todo, n), a, s, u, h, t)
  BY <1>1, ServingHead
<1>. QED  BY <1>1, <1>2

(* A call that writes no row, unless it writes the record of a hostname. *)
LEMMA ServingMoves ==
  ASSUME NEW c \in Caller, NEW i, Gone(jobs[c], i, jobs'[c]), Serving(jobs[c]),
         NEW x, x = Head(jobs[c].todo), x.do \notin {"assign", "point", "save"}, UNCHANGED routes,
         x.do # "look" => i.seen = jobs[c].seen, x.do = "look" => i.seen = dns'[x.host], x.do # "drop"
           => UNCHANGED dns,
         jobs[c].put \subseteq i.put, x.do = "put" => x.tunnel \in i.put, x.do = "run" => tunnels'[x.tunnel].connector
  PROVE  Serving(jobs[c])'
<1>1. PICK a \in 1..11, s \in 1..11, u \in 1..11, h \in Host, t \in Tunnel :
        ServingTasks(jobs[c], a, s, u, h, t) /\ ServingState(jobs[c], a, s, u, h, t)
  BY DEF Serving
<1>2. PICK n, r : At(jobs[c], n, r, x)
  BY DEF At
<1>3. ServingNow(jobs[c].kind, n, x, a, s, u, h, t)
  BY <1>1, <1>2, ServingAt
<1>4. /\ n < a => RowIs(r, h, t) /\ (jobs[c].kind # "enable" => routes[r].enabled)
      /\ n >= a /\ jobs[c].was.st = "live" => r \in Rows
      /\ jobs[c].kind # "enable" /\ n < u => t \in jobs[c].put
      /\ Records(jobs[c].kind) =>
           /\ n = s + 1 => jobs[c].seen = dns[h]
           /\ n = s => dns[h] = [id |-> jobs[c].seen.id, target |-> t]
           /\ n < s => dns[h] = [id |-> routes[r].record, target |-> t]
  BY <1>1, <1>2 DEF ServingState, At
<1>5. n <= a => RowIs(r, h, t)' /\ (jobs[c].kind # "enable" => routes'[r].enabled)
  BY <1>3, <1>4 DEF ServingNow, RowIs, Rows
<1>6. n > a /\ jobs[c].was.st = "live" => r \in Rows'
  BY <1>3, <1>4 DEF ServingNow, Rows
<1>u. ASSUME jobs[c].kind # "enable" PROVE n <= u => t \in i.put
  <2>1. CASE n = u
    BY <1>3, <1>u, <2>1 DEF ServingNow
  <2>2. CASE n # u
    BY <1>3, <1>4, <1>u, <2>2 DEF ServingNow
  <2>. QED  BY <2>1, <2>2
<1>7. ASSUME Records(jobs[c].kind), jobs[c].kind # "enable"
      PROVE  /\ n = s + 2 => i.seen = dns'[h]
             /\ n = s + 1 => dns'[h] = [id |-> i.seen.id, target |-> t]
             /\ n <= s => dns'[h] = [id |-> routes'[r].record, target |-> t]
  <2>2. n = s + 2 => i.seen = dns'[h]
    BY <1>3, <1>7 DEF ServingNow
  <2>3. n # s + 1 /\ n # s
    BY <1>3, <1>7 DEF ServingNow
  <2>4. n < s => dns'[h] = [id |-> routes'[r].record, target |-> t]
    <3>1. n < s => x.do # "drop"
      BY <1>3 DEF ServingNow
    <3>. QED  BY <1>4, <1>7, <3>1
  <2>. QED  BY <1>3, <2>2, <2>3, <2>4 DEF ServingNow
<1>8. jobs[c].kind \in {"publish", "serve", "enable"} /\ n = 1 => tunnels'[t].connector
  BY <1>3 DEF ServingNow
<1>9. ServesNext(c, i, a, s, u, h, t, n, r)
  BY <1>5, <1>6, <1>u, <1>7, <1>8 DEF ServesNext, Records
<1>. QED  BY <1>1, <1>2, <1>9, ServingGoes

(* The ingresses a request has written stay those of the rows. *)
LEMMA ConfigGoes ==
  ASSUME NEW c \in Caller, NEW i, Gone(jobs[c], i, jobs'[c]), ConfigIsOfRows(jobs[c]), Ordered(jobs[c]),
         NEW x, x = Head(jobs[c].todo),
         \A t \in i.put : tunnels'[t].ingress = RowsFor(t)',
         x.do = "rows" => i.rows = RowsFor(x.tunnel)',
         \/ i.put = jobs[c].put
         \/ \A n \in 1..(Len(jobs[c].todo) - 1) : Left(jobs[c].todo, n).do \notin {"assign", "erase", "unrow",
              "unmake"}
  PROVE  ConfigIsOfRows(jobs[c])' /\ Ordered(jobs[c])'
<1>1. PICK j, k : j = jobs[c] /\ k = jobs'[c]
  OBVIOUS
<1>2. PICK l : l = Len(k.todo)
  OBVIOUS
<1>3. /\ l \in Nat /\ Len(j.todo) = l + 1 /\ x = Left(j.todo, l + 1) /\ k.put = i.put /\ k.kind = j.kind
      /\ \A n \in 1..l : Left(k.todo, n) = Left(j.todo, n)
      /\ l > 0 => k.rows = i.rows
  BY <1>1, <1>2 DEF Gone
<1>4. ASSUME NEW n \in 1..l, Left(k.todo, n).do = "put"
      PROVE  IF n = l THEN k.rows = RowsFor(Left(k.todo, n).tunnel)'
             ELSE Left(k.todo, n + 1).do = "rows" /\ Left(k.todo, n + 1).tunnel = Left(k.todo, n).tunnel
  <2>1. n \in 1..Len(j.todo) /\ n # Len(j.todo) /\ Left(k.todo, n) = Left(j.todo, n) /\ l > 0
    BY <1>3
  <2>2. Left(j.todo, n + 1).do = "rows" /\ Left(j.todo, n + 1).tunnel = Left(j.todo, n).tunnel
    BY <1>1, <1>4, <2>1 DEF ConfigIsOfRows
  <2>3. CASE n = l
    BY <1>3, <2>1, <2>2, <2>3
  <2>4. CASE n # l
    <3>1. n + 1 \in 1..l
      BY <1>3, <2>4
    <3>. QED  BY <1>3, <2>1, <2>2, <2>4, <3>1
  <2>. QED  BY <2>3, <2>4
<1>5. \A n \in 1..l : Left(k.todo, n).do \in {"assign", "erase", "unrow", "unmake"} => k.put = {}
  <2>1. \A n \in 1..l : n \in 1..Len(j.todo) /\ n \in 1..(Len(j.todo) - 1)
    BY <1>3
  <2>. QED  BY <1>1, <1>3, <2>1 DEF ConfigIsOfRows
<1>6. \A n \in 1..l : Left(k.todo, n).do \notin {"spoil", "undo"}
  <2>1. \A n \in 1..l : n \in 1..Len(j.todo)
    BY <1>3
  <2>. QED  BY <1>1, <1>3, <2>1 DEF ConfigIsOfRows
<1>7. \A t \in k.put : tunnels'[t].ingress = RowsFor(t)'
  BY <1>3
<1>8. ConfigIsOfRows(jobs[c])'
  BY <1>1, <1>2, <1>4, <1>5, <1>6, <1>7 DEF ConfigIsOfRows
<1>9. Ordered(jobs[c])'
  <2>1. \A n \in 1..l : n \in 1..Len(j.todo) /\ Left(k.todo, n) = Left(j.todo, n)
    BY <1>3
  <2>2. \A dos : Avoids(j.todo, dos) => Avoids(k.todo, dos)
    BY <1>2, <2>1 DEF Avoids
  <2>. QED  BY <1>1, <1>3, <2>2 DEF Ordered
<1>. QED  BY <1>8, <1>9

(* One call of a request, which goes on. *)
LEMMA TaskKeeps ==
  ASSUME PublishingInv, NEW c \in Caller, jobs[c].st = "running", NEW i \in Job,
         i.todo = jobs[c].todo, i.kind = jobs[c].kind, i.st = "running", i.route = jobs[c].route, i.was = jobs[c].was,
         i.warned = jobs[c].warned, i.alone = jobs[c].alone,
         Going(c, i), UNCHANGED setting, routes' \in [1..MaxRoute -> RouteRow],
           tunnels' \in [Tunnel -> ManagedTunnel],
         dns' \in [Host -> Cname], issued' \in 0..MaxRecord, mishaps' \in 0..MaxMishap, RowsFit',
         NEW x, x = Head(jobs[c].todo),
         Gone(jobs[c], i, jobs'[c]) =>
           /\ \A t \in i.put : tunnels'[t].ingress = RowsFor(t)'
           /\ x.do = "rows" => i.rows = RowsFor(x.tunnel)'
           /\ \/ i.put = jobs[c].put
              \/ \A n \in 1..(Len(jobs[c].todo) - 1) : Left(jobs[c].todo, n).do \notin {"assign", "erase", "unrow",
                   "unmake"}
           /\ jobs[c].kind \in {"create", "retry", "publish", "serve", "enable"} => Serving(jobs[c])'
           /\ jobs[c].kind \in {"delete", "remove", "withdraw"} => Removing(jobs[c])'
  PROVE  PublishingInv'
<1>0. PublishingFits
  BY DEF PublishingInv
<1>1. /\ jobs' \in [Caller -> Job] /\ JobsFit' /\ \A d \in Caller \ {c} : ~jobs'[d].alone
      /\ jobs'[c].alone /\ ~Fails(jobs'[c]) => Gone(jobs[c], i, jobs'[c])
  BY <1>0, GoingOn
<1>2. PublishingTypeOK'
  BY <1>0, <1>1 DEF PublishingFits, PublishingTypeOK
<1>3. ASSUME jobs'[c].alone, ~Fails(jobs'[c])
      PROVE  /\ ConfigIsOfRows(jobs[c])' /\ Ordered(jobs[c])'
             /\ jobs'[c].kind \in {"create", "retry", "publish", "serve", "enable"} => Serving(jobs[c])'
             /\ jobs'[c].kind \in {"delete", "remove", "withdraw"} => Removing(jobs[c])'
  <2>1. Gone(jobs[c], i, jobs'[c])
    BY <1>1, <1>3
  <2>2. ConfigIsOfRows(jobs[c]) /\ Ordered(jobs[c])
    BY <2>1, Tracked
  <2>3. ConfigIsOfRows(jobs[c])' /\ Ordered(jobs[c])'
    BY <2>1, <2>2, ConfigGoes
  <2>4. jobs'[c].kind = jobs[c].kind
    BY <2>1 DEF Gone
  <2>. QED  BY <2>1, <2>3, <2>4
<1>4. OnTrack(jobs[c])'
  BY <1>3 DEF OnTrack, Fails
<1>5. (\A d \in Caller : OnTrack(jobs[d]))'
  BY <1>1, <1>4, OneOnTrack
<1>. QED  BY <1>1, <1>2, <1>5 DEF PublishingInv, PublishingFits

(* A request goes from its tasks to k. *)
LEMMA JobKeeps ==
  ASSUME PublishingInv, NEW c \in Caller, jobs[c].st = "running", NEW k \in Job, JobFits(k), k.alone => jobs[c].alone,
         jobs' = [jobs EXCEPT ![c] = k],
         UNCHANGED setting, routes' \in [1..MaxRoute -> RouteRow], tunnels' \in [Tunnel -> ManagedTunnel],
         dns' \in [Host -> Cname], issued' \in 0..MaxRecord, mishaps' \in 0..MaxMishap, RowsFit',
         jobs'[c] = k /\ k.alone /\ ~Fails(k) =>
           /\ ConfigIsOfRows(jobs[c])' /\ Ordered(jobs[c])'
           /\ k.kind \in {"create", "retry", "publish", "serve", "enable"} => Serving(jobs[c])'
           /\ k.kind \in {"delete", "remove", "withdraw"} => Removing(jobs[c])'
  PROVE  PublishingInv'
<1>0. PublishingFits
  BY DEF PublishingInv
<1>1. /\ jobs' \in [Caller -> Job] /\ JobsFit'
      /\ jobs'[c] = k /\ \A d \in Caller \ {c} : ~jobs'[d].alone
  BY <1>0, JobGoes
<1>2. PublishingTypeOK'
  BY <1>0, <1>1 DEF PublishingFits, PublishingTypeOK
<1>3. OnTrack(jobs[c])'
  BY <1>1 DEF OnTrack, Fails
<1>4. (\A d \in Caller : OnTrack(jobs[d]))'
  BY <1>1, <1>3, OneOnTrack
<1>. QED  BY <1>1, <1>2, <1>4 DEF PublishingInv, PublishingFits

(* A request that leaves tasks out still writes the rows of the tunnel to an ingress. *)
LEMMA ConfigSkips ==
  ASSUME NEW c \in Caller, NEW n, NEW l, n = Len(jobs[c].todo), l = Len(jobs'[c].todo), n \in Nat, l \in Nat,
         Went(jobs[c], jobs'[c]), jobs'[c].alone, ~Fails(jobs'[c]), ConfigIsOfRows(jobs[c]), Ordered(jobs[c]),
         Left(jobs[c].todo, l + 1).do # "rows", \A t \in jobs[c].put : tunnels'[t].ingress = RowsFor(t)'
  PROVE  ConfigIsOfRows(jobs[c])' /\ Ordered(jobs[c])'
<1>1. PICK j, k : j = jobs[c] /\ k = jobs'[c]
  OBVIOUS
<1>2. /\ l < n /\ k.put = j.put /\ k.kind = j.kind /\ \A i \in 1..l : Left(k.todo, i) = Left(j.todo, i)
      /\ n = Len(j.todo) /\ l = Len(k.todo)
  BY <1>1 DEF Went
<1>3. \A i \in 1..l : i \in 1..Len(j.todo) /\ i # Len(j.todo) /\ Left(k.todo, i) = Left(j.todo, i)
  BY <1>2
<1>4. ASSUME NEW i \in 1..l, Left(k.todo, i).do = "put"
      PROVE  i # l /\ Left(k.todo, i + 1).do = "rows" /\ Left(k.todo, i + 1).tunnel = Left(k.todo, i).tunnel
  <2>1. Left(j.todo, i + 1).do = "rows" /\ Left(j.todo, i + 1).tunnel = Left(j.todo, i).tunnel
    BY <1>1, <1>3, <1>4 DEF ConfigIsOfRows
  <2>2. i # l
    BY <1>1, <2>1
  <2>3. i + 1 \in 1..l
    BY <2>2
  <2>. QED  BY <1>3, <2>1, <2>2, <2>3
<1>5. /\ \A i \in 1..l : Left(k.todo, i).do \in {"assign", "erase", "unrow", "unmake"} => k.put = {}
      /\ \A i \in 1..l : Left(k.todo, i).do \notin {"spoil", "undo"}
  BY <1>1, <1>2, <1>3 DEF ConfigIsOfRows
<1>6. \A t \in k.put : tunnels'[t].ingress = RowsFor(t)'
  BY <1>1, <1>2
<1>7. ConfigIsOfRows(jobs[c])'
  BY <1>1, <1>2, <1>4, <1>5, <1>6 DEF ConfigIsOfRows
<1>8. Ordered(jobs[c])'
  <2>1. \A dos : Avoids(j.todo, dos) => Avoids(k.todo, dos)
    BY <1>2, <1>3 DEF Avoids
  <2>. QED  BY <1>1, <1>2, <2>1 DEF Ordered
<1>. QED  BY <1>7, <1>8

(* A call that throws, which neither reads nor erases a row. *)
LEMMA ThrownKeeps ==
  ASSUME PublishingInv, NEW c \in Caller, jobs[c].st = "running", Thrown(c), UNCHANGED <<setting, routes>>,
         tunnels' \in [Tunnel -> ManagedTunnel],
         dns' \in [Host -> Cname], issued' \in 0..MaxRecord, mishaps' \in 0..MaxMishap, RowsFit',
         NEW x, x = Head(jobs[c].todo), x.do \notin {"rows", "erase"},
         jobs[c].alone /\ ~Fails(jobs[c]) => \A t \in jobs[c].put : tunnels'[t].ingress = RowsFor(t)
  PROVE  PublishingInv'
<1>0. PublishingFits /\ PublishingTypeOK /\ jobs[c] \in Job /\ JobFits(jobs[c])
  BY DEF PublishingInv, PublishingFits, PublishingTypeOK, JobsFit
<1>1. PICK j, k, n, l : j = jobs[c] /\ k = Caught(jobs[c]) /\ n = Len(j.todo) /\ l = Len(k.todo)
  OBVIOUS
<1>2. /\ k \in Job /\ JobFits(k) /\ Went(j, k) /\ (k.alone => j.alone)
      /\ k.alone /\ ~Fails(k) =>
           \/ j.kind = "delete" /\ k.warned /\ l = n - (IF x.do = "look" THEN 2 ELSE 1)
           \/ j.kind = "untunnel" /\ x.do = "forget" /\ l = n - 1
  BY <1>0, <1>1, CaughtWent
<1>3. n \in Nat /\ n > 0 /\ x = Left(j.todo, n) /\ l \in Nat
  <2>1. j.todo \in Seq(TaskRow) /\ j.todo # << >> /\ k.todo \in Seq(TaskRow)
    BY <1>0, <1>1, <1>2 DEF JobFits, Job
  <2>. QED  BY <1>1, <2>1, TailLeft, LenProperties
<1>4. jobs' = [jobs EXCEPT ![c] = k]
  BY <1>1 DEF Thrown
<1>5. routes' \in [1..MaxRoute -> RouteRow]
  BY <1>0 DEF PublishingTypeOK
<1>6. ASSUME jobs'[c] = k, k.alone, ~Fails(k)
      PROVE  /\ ConfigIsOfRows(jobs[c])' /\ Ordered(jobs[c])'
             /\ k.kind \in {"create", "retry", "publish", "serve", "enable"} => Serving(jobs[c])'
             /\ k.kind \in {"delete", "remove", "withdraw"} => Removing(jobs[c])'
  <2>1. /\ j.alone /\ ~Fails(j) /\ k.kind = j.kind /\ k.route = j.route /\ k.was = j.was
        /\ l < n /\ \A i \in 1..l : Left(k.todo, i) = Left(j.todo, i)
    BY <1>1, <1>2, <1>6 DEF Went
  <2>2. /\ ConfigIsOfRows(j) /\ Ordered(j) /\ (j.kind \in {"delete", "remove", "withdraw"} => Removing(j))
    BY <1>1, <2>1 DEF PublishingInv, OnTrack
  <2>3. \A t \in j.put : tunnels'[t].ingress = RowsFor(t)'
    <3>1. \A t : RowsFor(t)' = RowsFor(t)
      BY DEF RowsFor, RowsOf, Rows
    <3>. QED  BY <1>1, <2>1, <3>1
  <2>4. CASE j.kind = "untunnel"
    <3>1. l + 1 = n
      BY <1>2, <1>3, <1>6, <2>4
    <3>2. Left(j.todo, l + 1).do # "rows"
      BY <1>3, <3>1
    <3>3. ConfigIsOfRows(jobs[c])' /\ Ordered(jobs[c])'
      BY <1>1, <1>2, <1>3, <1>6, <2>2, <2>3, <3>2, ConfigSkips
    <3>. QED  BY <2>1, <2>4, <3>3
  <2>5. CASE j.kind = "delete"
    <3>1. PICK h, t : h = j.was.host /\ t = j.was.tunnel
      OBVIOUS
    <3>2. /\ n <= 5 /\ h \in Host /\ t \in Tunnel
          /\ \A i \in 1..n : LET now == Left(j.todo, i) IN
               /\ i = 5 => now.do = "look" /\ now.host = h
               /\ i = 4 => now.do = "drop" /\ now.host = h /\ now.tunnel = t
               /\ i = 3 => now.do = "erase"
               /\ i = 2 => now.do = "rows"
               /\ i = 1 => now.do = "put"
          /\ n >= 3 => j.route \in Rows /\ routes[j.route].host = h
          /\ n <= 2 => j.route \notin Rows
      BY <1>1, <2>2, <2>5, <3>1 DEF Removing
    <3>3. n \in {1, 4, 5}
      BY <1>3, <3>2
    <3>4. k.warned /\ l = n - (IF x.do = "look" THEN 2 ELSE 1)
      BY <1>2, <1>6, <2>5
    <3>5. (n = 1 => l = 0 /\ x.do = "put") /\ (n \in {4, 5} => l = 3)
      <4>1. n = 1 => x.do = "put"
        BY <1>3, <3>2
      <4>2. n = 4 => x.do = "drop"
        BY <1>3, <3>2
      <4>3. n = 5 => x.do = "look"
        BY <1>3, <3>2
      <4>. QED  BY <3>4, <4>1, <4>2, <4>3
    <3>6. Left(j.todo, l + 1).do # "rows"
      BY <1>3, <3>2, <3>3, <3>5
    <3>7. ConfigIsOfRows(jobs[c])' /\ Ordered(jobs[c])'
      BY <1>1, <1>2, <1>3, <1>6, <2>2, <2>3, <3>6, ConfigSkips
    <3>8. Removing(jobs[c])'
      <4>1. l = 0 \/ l = 3
        BY <3>3, <3>5
      <4>2. \A i \in 1..l : /\ Left(k.todo, i) = Left(j.todo, i) /\ i \in 1..n /\ i # 5 /\ i # 4
        BY <1>3, <2>1, <3>3, <4>1
      <4>3. \A i \in 1..l : LET now == Left(k.todo, i) IN
               /\ i = 3 => now.do = "erase"
               /\ i = 2 => now.do = "rows"
               /\ i = 1 => now.do = "put"
        BY <3>2, <4>2
      <4>4. l >= 3 => k.route \in Rows' /\ routes'[k.route].host = h
        BY <2>1, <3>2, <3>3, <3>5 DEF Rows
      <4>5. l <= 2 => k.route \notin Rows'
        BY <2>1, <3>2, <3>3, <3>5 DEF Rows
      <4>6. l <= 5 /\ l # 4
        BY <4>1
      <4>7. /\ jobs'[c] = k /\ Len(k.todo) = l /\ k.was.host = h /\ k.was.tunnel = t /\ k.warned
        BY <1>1, <1>6, <2>1, <3>1, <3>4
      <4>. QED  BY <3>2, <4>2, <4>3, <4>4, <4>5, <4>6, <4>7 DEF Removing, Cleans
    <3>. QED  BY <2>1, <2>5, <3>7, <3>8
  <2>. QED  BY <1>2, <1>6, <2>4, <2>5
<1>. QED  BY <1>0, <1>1, <1>2, <1>4, <1>5, <1>6, JobKeeps

(* What is known of a request that has a call to make. *)
LEMMA Busy ==
  ASSUME PublishingInv, NEW c \in Caller, jobs[c].st = "running"
  PROVE  /\ PublishingFits /\ RowsFit /\ jobs[c] \in Job /\ JobFits(jobs[c]) /\ Head(jobs[c].todo) \in TaskRow
         /\ routes \in [1..MaxRoute -> RouteRow] /\ tunnels \in [Tunnel -> ManagedTunnel] /\ dns \in [Host -> Cname]
         /\ issued \in 0..MaxRecord /\ mishaps \in 0..MaxMishap
<1>1. PublishingFits /\ RowsFit /\ PublishingTypeOK /\ jobs[c] \in Job /\ JobFits(jobs[c])
  BY DEF PublishingInv, PublishingFits, PublishingTypeOK, JobsFit
<1>2. jobs[c].todo \in Seq(TaskRow) /\ jobs[c].todo # << >>
  BY <1>1 DEF JobFits, Job
<1>3. Head(jobs[c].todo) \in TaskRow
  BY <1>2, TailLeft
<1>. QED  BY <1>1, <1>3 DEF PublishingTypeOK

(* The types of a task. *)
LEMMA TaskType ==
  ASSUME NEW x \in TaskRow
  PROVE  /\ x.tunnel \in Tunnel /\ x.do \in OnHost \cup OnTunnel /\ x.record \in 0..MaxRecord
         /\ x.do \in {"look", "point", "save", "drop", "erase", "assign", "spoil", "forget"} => x.host \in Host
<1>1. OnHost \cap OnTunnel = {}
  BY DEF OnHost, OnTunnel
<1>2. 0 \in 0..MaxRecord
  BY PublishingAssumption
<1>. QED  BY <1>1, <1>2 DEF TaskRow, OnHost

(* What a request that serves a hostname, or removes one, calls. *)
LEMMA ServesWith ==
  ASSUME NEW c \in Caller, NEW i, Gone(jobs[c], i, jobs'[c]), Serving(jobs[c]), NEW x, x = Head(jobs[c].todo)
  PROVE  x.do \in {"assign", "look", "drop", "rows", "put", "point", "save", "check", "rm", "run"}
<1>1. PICK a \in 1..11, s \in 1..11, u \in 1..11, h \in Host, t \in Tunnel : ServingTasks(jobs[c], a, s, u, h, t)
  BY DEF Serving
<1>2. PICK n, r : At(jobs[c], n, r, x)
  BY DEF At
<1>3. ServingNow(jobs[c].kind, n, x, a, s, u, h, t)
  BY <1>1, <1>2, ServingAt
<1>. QED  BY <1>3 DEF ServingNow

(* Where a request that removes a row is. *)
RemovingNow(n, x, h, t) ==
  /\ n \in 1..5
  /\ n = 5 => x.do = "look" /\ x.host = h
  /\ n = 4 => x.do = "drop" /\ x.host = h /\ x.tunnel = t
  /\ n = 3 => x.do = "erase"
  /\ n = 2 => x.do = "rows"
  /\ n = 1 => x.do = "put"

(* The next task of a removal. *)
LEMMA RemovingAt ==
  ASSUME NEW c \in Caller, NEW i, Gone(jobs[c], i, jobs'[c]), Removing(jobs[c]), NEW n, NEW r, NEW x,
           At(jobs[c], n, r, x)
  PROVE  RemovingNow(n, x, jobs[c].was.host, jobs[c].was.tunnel)
<1>1. n \in 1..Len(jobs[c].todo) /\ Len(jobs[c].todo) \in Nat /\ x = Left(jobs[c].todo, n) /\ n <= 5
  BY DEF Gone, At, Removing
<1>. QED  BY <1>1 DEF Removing, RemovingNow

(* What is left of what a request removes, told by the tasks that are left. *)
RemovesNext(c, i, n, r, h, t) ==
  /\ n >= 4 => r \in Rows' /\ routes'[r].host = h
  /\ n = 5 /\ jobs[c].kind # "withdraw" /\ (jobs[c].kind = "remove" \/ jobs[c].was.record = 0) => i.seen = dns'[h]
  /\ n <= 4 /\ Cleans(jobs[c]) => /\ jobs[c].was.record # 0 => dns'[h].id # jobs[c].was.record
                                  /\ jobs[c].was.record = 0 => dns'[h].target # t
  /\ n <= 3 => r \notin Rows'

(* A task that leads to what RemovesNext says keeps the removal removing, *)
LEMMA RemovingGoes ==
  ASSUME NEW c \in Caller, NEW i, Gone(jobs[c], i, jobs'[c]), Removing(jobs[c]), NEW n, NEW r, NEW x,
           At(jobs[c], n, r, x),
         RemovesNext(c, i, n, r, jobs[c].was.host, jobs[c].was.tunnel)
  PROVE  Removing(jobs[c])'
<1>1. PICK j, k, l, h, t : j = jobs[c] /\ k = jobs'[c] /\ l = Len(k.todo) /\ h = j.was.host /\ t = j.was.tunnel
  OBVIOUS
<1>2. /\ n = Len(j.todo) /\ n \in Nat /\ n > 0 /\ l = n - 1 /\ k.kind = j.kind /\ k.was = j.was /\ k.warned = j.warned
      /\ k.route = r /\ \A y \in 1..l : Left(k.todo, y) = Left(j.todo, y)
      /\ l > 0 => k.seen = i.seen
  BY <1>1 DEF Gone, At
<1>3. /\ n <= 5 /\ h \in Host /\ t \in Tunnel
      /\ \A y \in 1..n : LET now == Left(j.todo, y) IN
           /\ y = 5 => now.do = "look" /\ now.host = h
           /\ y = 4 => now.do = "drop" /\ now.host = h /\ now.tunnel = t
           /\ y = 3 => now.do = "erase"
           /\ y = 2 => now.do = "rows"
           /\ y = 1 => now.do = "put"
  BY <1>1, <1>2 DEF Removing
<1>4. l <= 5 /\ (l >= 3 <=> n >= 4) /\ (l = 4 <=> n = 5) /\ (l <= 3 <=> n <= 4) /\ (l <= 2 <=> n <= 3)
        /\ (l = 4 => l > 0)
  <2>1. n \in Nat /\ n > 0 /\ l = n - 1 /\ n <= 5
    BY <1>2, <1>3
  <2>2. n \in 1..5 /\ l = n - 1
    BY <2>1
  <2>. QED  BY <2>2
<1>5. \A y \in 1..l : y \in 1..n /\ Left(k.todo, y) = Left(j.todo, y)
  BY <1>2
<1>6. /\ l >= 3 => k.route \in Rows' /\ routes'[k.route].host = h
      /\ l = 4 /\ k.kind # "withdraw" /\ (k.kind = "remove" \/ k.was.record = 0) => k.seen = dns'[h]
      /\ l <= 3 /\ Cleans(k) => /\ k.was.record # 0 => dns'[h].id # k.was.record
                                /\ k.was.record = 0 => dns'[h].target # t
      /\ l <= 2 => k.route \notin Rows'
  <2>1. Cleans(k) <=> Cleans(j)
    BY <1>2 DEF Cleans, Zoneless, Zoned
  <2>. QED  BY <1>1, <1>2, <1>4, <2>1 DEF RemovesNext
<1>7. \A y \in 1..l : LET now == Left(k.todo, y) IN
           /\ y = 5 => now.do = "look" /\ now.host = h
           /\ y = 4 => now.do = "drop" /\ now.host = h /\ now.tunnel = t
           /\ y = 3 => now.do = "erase"
           /\ y = 2 => now.do = "rows"
           /\ y = 1 => now.do = "put"
  BY <1>3, <1>5
<1>8. k.was.host = h /\ k.was.tunnel = t
  BY <1>1, <1>2
<1>. QED  BY <1>1, <1>3, <1>4, <1>6, <1>7, <1>8 DEF Removing

(* and one that touches neither rows nor records does. *)
LEMMA RemovingMoves ==
  ASSUME NEW c \in Caller, NEW i, Gone(jobs[c], i, jobs'[c]), Removing(jobs[c]),
         NEW x, x = Head(jobs[c].todo), x.do \notin {"look", "drop", "erase"}, UNCHANGED <<routes, dns>>
  PROVE  Removing(jobs[c])'
<1>1. PICK n, r, h, t : At(jobs[c], n, r, x) /\ h = jobs[c].was.host /\ t = jobs[c].was.tunnel
  BY DEF At
<1>2. RemovingNow(n, x, h, t)
  BY <1>1, RemovingAt
<1>3. n \in {1, 2}
  BY <1>2 DEF RemovingNow
<1>4. /\ n <= 3 /\ Cleans(jobs[c]) => /\ jobs[c].was.record # 0 => dns[h].id # jobs[c].was.record
                                      /\ jobs[c].was.record = 0 => dns[h].target # t
      /\ n <= 2 => r \notin Rows
  BY <1>1 DEF Removing, At
<1>5. /\ Cleans(jobs[c]) => /\ jobs[c].was.record # 0 => dns'[h].id # jobs[c].was.record
                            /\ jobs[c].was.record = 0 => dns'[h].target # t
  BY <1>3, <1>4
<1>6. r \notin Rows'
  BY <1>3, <1>4 DEF Rows
<1>7. ~(n >= 4) /\ n # 5
  BY <1>3
<1>8. RemovesNext(c, i, n, r, h, t)
  BY <1>5, <1>6, <1>7 DEF RemovesNext
<1>. QED  BY <1>1, <1>8, RemovingGoes

(* What was written to an ingress are the rows while neither changes. *)
LEMMA SameIngress ==
  ASSUME NEW c \in Caller, ConfigIsOfRows(jobs[c]), UNCHANGED routes, jobs[c].put \subseteq Tunnel,
         \A t \in Tunnel : tunnels'[t].ingress = tunnels[t].ingress
  PROVE  \A t \in jobs[c].put : tunnels'[t].ingress = RowsFor(t)'
<1>1. \A t : RowsFor(t)' = RowsFor(t)
  BY DEF RowsFor, RowsOf, Rows
<1>. QED  BY <1>1 DEF ConfigIsOfRows

(* A call after which a request goes on as it was: it writes no row and no ingress that it has to keep. *)
LEMMA QuietKeeps ==
  ASSUME PublishingInv, NEW c \in Caller, jobs[c].st = "running", Going(c, jobs[c]), UNCHANGED setting,
         routes' \in [1..MaxRoute -> RouteRow], tunnels' \in [Tunnel -> ManagedTunnel],
         dns' \in [Host -> Cname], issued' \in 0..MaxRecord, mishaps' \in 0..MaxMishap, RowsFit',
         NEW x, x = Head(jobs[c].todo),
           x.do \notin {"rows", "put", "look", "point", "save", "drop", "erase", "assign"},
         x.do \in {"check", "rm", "run"} => UNCHANGED <<routes, dns>>,
         x.do = "run" => tunnels'[x.tunnel].connector,
         x.do \notin {"spoil", "undo", "unrow", "unmake"} =>
           UNCHANGED routes /\ \A t \in Tunnel : tunnels'[t].ingress = tunnels[t].ingress
  PROVE  PublishingInv'
<1>0. jobs[c] \in Job
  BY Busy
<1>1. ASSUME Gone(jobs[c], jobs[c], jobs'[c])
      PROVE  /\ \A t \in jobs[c].put : tunnels'[t].ingress = RowsFor(t)'
             /\ jobs[c].kind \in {"create", "retry", "publish", "serve", "enable"} => Serving(jobs[c])'
             /\ jobs[c].kind \in {"delete", "remove", "withdraw"} => Removing(jobs[c])'
  <2>1. /\ ConfigIsOfRows(jobs[c])
        /\ jobs[c].kind \in {"create", "retry", "publish", "serve", "enable"} => Serving(jobs[c])
        /\ jobs[c].kind \in {"delete", "remove", "withdraw"} => Removing(jobs[c])
    BY <1>1, Tracked
  <2>2. \A t \in jobs[c].put : tunnels'[t].ingress = RowsFor(t)'
    <3>1. PICK n : n = Len(jobs[c].todo)
      OBVIOUS
    <3>2. n \in 1..n /\ x = Left(jobs[c].todo, n)
      BY <1>1, <3>1 DEF Gone
    <3>3. x.do \notin {"spoil", "undo"} /\ (x.do \in {"unrow", "unmake"} => jobs[c].put = {})
      BY <2>1, <3>1, <3>2 DEF ConfigIsOfRows
    <3>4. CASE x.do \in {"unrow", "unmake"}
      BY <3>3, <3>4
    <3>5. CASE x.do \notin {"unrow", "unmake"}
      <4>1. UNCHANGED routes /\ (\A t \in Tunnel : tunnels'[t].ingress = tunnels[t].ingress)
              /\ jobs[c].put \subseteq Tunnel
        BY <1>0, <3>3, <3>5 DEF Job
      <4>. QED  BY <2>1, <4>1, SameIngress
    <3>. QED  BY <3>4, <3>5
  <2>3. ASSUME jobs[c].kind \in {"create", "retry", "publish", "serve", "enable"} PROVE Serving(jobs[c])'
    <3>1. x.do \in {"check", "rm", "run"}
      BY <1>1, <2>1, <2>3, ServesWith
    <3>2. UNCHANGED <<routes, dns>>
      BY <3>1
    <3>. QED  BY <1>1, <2>1, <2>3, <3>1, <3>2, ServingMoves
  <2>4. ASSUME jobs[c].kind \in {"delete", "remove", "withdraw"} PROVE Removing(jobs[c])'
    <3>1. PICK n, r : At(jobs[c], n, r, x)
      BY DEF At
    <3>2. RemovingNow(n, x, jobs[c].was.host, jobs[c].was.tunnel)
      BY <1>1, <2>1, <2>4, <3>1, RemovingAt
    <3>3. FALSE
      BY <3>2 DEF RemovingNow
    <3>. QED  BY <3>3
  <2>. QED  BY <2>2, <2>3, <2>4
<1>2. Gone(jobs[c], jobs[c], jobs'[c]) =>
        /\ \A t \in jobs[c].put : tunnels'[t].ingress = RowsFor(t)'
        /\ x.do = "rows" => jobs[c].rows = RowsFor(x.tunnel)'
        /\ \/ jobs[c].put = jobs[c].put
           \/ \A n \in 1..(Len(jobs[c].todo) - 1) : Left(jobs[c].todo, n).do \notin {"assign", "erase", "unrow",
                "unmake"}
        /\ jobs[c].kind \in {"create", "retry", "publish", "serve", "enable"} => Serving(jobs[c])'
        /\ jobs[c].kind \in {"delete", "remove", "withdraw"} => Removing(jobs[c])'
  BY <1>1
<1>. QED  BY <1>0, <1>2, TaskKeeps

(* Only the tunnels' and the records' own state changes. *)
LEMMA SameRowsStillFit ==
  ASSUME PublishingFits, UNCHANGED routes, \A t \in Tunnel : tunnels[t].row => tunnels'[t].row,
         \A h \in Host : dns'[h].id = 0 => dns'[h] = NoCname
  PROVE  RowsFit' /\ routes' \in [1..MaxRoute -> RouteRow]
<1>1. \A r \in Rows' : r \in Rows /\ routes'[r] = routes[r]
  BY DEF Rows
<1>2. \A r \in Rows' : tunnels'[routes[r].tunnel].row
  BY <1>1, LiveRow
<1>3. RowsFit'
  BY <1>1, <1>2, RowsStillFit
<1>. QED  BY <1>3 DEF PublishingFits, PublishingTypeOK

(* A call of the connector, or of a tunnel's assignment: one of the tunnels changes, and serves what it served. *)
LEMMA TunnelChanges ==
  ASSUME PublishingFits, UNCHANGED <<routes, dns>>, NEW t \in Tunnel, NEW b \in ManagedTunnel,
           tunnels' = [tunnels EXCEPT ![t] = b],
         tunnels[t].row => b.row
  PROVE  /\ tunnels' \in [Tunnel -> ManagedTunnel] /\ RowsFit' /\ routes' \in [1..MaxRoute -> RouteRow]
         /\ tunnels'[t] = b /\ (b.ingress = tunnels[t].ingress
              => \A y \in Tunnel : tunnels'[y].ingress = tunnels[y].ingress)
<1>1. tunnels \in [Tunnel -> ManagedTunnel]
  BY DEF PublishingFits, PublishingTypeOK
<1>2. tunnels' \in [Tunnel -> ManagedTunnel] /\ tunnels'[t] = b /\ \A y \in Tunnel : y # t => tunnels'[y] = tunnels[y]
  BY <1>1
<1>3. \A y \in Tunnel : tunnels[y].row => tunnels'[y].row
  BY <1>2
<1>4. \A h \in Host : dns'[h].id = 0 => dns'[h] = NoCname
  BY DEF PublishingFits, RowsFit
<1>5. RowsFit' /\ routes' \in [1..MaxRoute -> RouteRow]
  BY <1>3, <1>4, SameRowsStillFit
<1>. QED  BY <1>2, <1>5

(* The same if no tunnel changes. *)
LEMMA SameTunnels ==
  ASSUME PublishingFits, UNCHANGED <<routes, tunnels, dns>>
  PROVE  /\ tunnels' \in [Tunnel -> ManagedTunnel] /\ RowsFit' /\ routes' \in [1..MaxRoute -> RouteRow]
         /\ \A y \in Tunnel : tunnels'[y].ingress = tunnels[y].ingress
<1>1. \A h \in Host : dns'[h].id = 0 => dns'[h] = NoCname
  BY DEF PublishingFits, RowsFit
<1>2. \A t \in Tunnel : tunnels[t].row => tunnels'[t].row
  OBVIOUS
<1>3. RowsFit' /\ routes' \in [1..MaxRoute -> RouteRow]
  BY <1>1, <1>2, SameRowsStillFit
<1>. QED  BY <1>3 DEF PublishingFits, PublishingTypeOK

(* A call that throws and writes no ingress that the request has to keep. *)
LEMMA QuietThrow ==
  ASSUME PublishingInv, NEW c \in Caller, jobs[c].st = "running", Thrown(c), UNCHANGED <<setting, routes>>,
         tunnels' \in [Tunnel -> ManagedTunnel],
         dns' \in [Host -> Cname], issued' \in 0..MaxRecord, mishaps' \in 0..MaxMishap, RowsFit',
         NEW x, x = Head(jobs[c].todo), x.do \notin {"rows", "erase"},
         x.do # "unmake" => \A t \in Tunnel : tunnels'[t].ingress = tunnels[t].ingress
  PROVE  PublishingInv'
<1>0. jobs[c] \in Job /\ JobFits(jobs[c])
  BY Busy
<1>1. ASSUME jobs[c].alone, ~Fails(jobs[c]) PROVE \A t \in jobs[c].put : tunnels'[t].ingress = RowsFor(t)
  <2>1. ConfigIsOfRows(jobs[c])
    BY <1>1 DEF PublishingInv, OnTrack
  <2>2. CASE x.do = "unmake"
    <3>1. jobs[c].todo \in Seq(TaskRow) /\ jobs[c].todo # << >>
      BY <1>0 DEF JobFits, Job
    <3>2. Len(jobs[c].todo) \in Nat /\ Len(jobs[c].todo) > 0 /\ x = Left(jobs[c].todo, Len(jobs[c].todo))
      BY <3>1, TailLeft
    <3>3. PICK n : n = Len(jobs[c].todo)
      OBVIOUS
    <3>4. n \in 1..Len(jobs[c].todo) /\ Left(jobs[c].todo, n).do = "unmake"
      BY <2>2, <3>2, <3>3
    <3>5. jobs[c].put = {}
      BY <2>1, <3>4 DEF ConfigIsOfRows
    <3>. QED  BY <3>5
  <2>3. CASE x.do # "unmake"
    <3>1. jobs[c].put \subseteq Tunnel
      BY <1>0 DEF Job
    <3>. QED  BY <2>1, <2>3, <3>1 DEF ConfigIsOfRows
  <2>. QED  BY <2>2, <2>3
<1>. QED  BY <1>1, ThrownKeeps

(* Tasks are numbered from one. *)
LEMMA AboveZero ==
  \A y \in 1..11 : ~(0 >= y) /\ 0 # y + 1 /\ 0 # y
OBVIOUS

(* A container that runs is left alone: a request that has come so far has nothing else to do. *)
LEMMA CheckKeeps ==
  ASSUME PublishingInv, NEW c \in Caller, UNCHANGED <<setting, routes, tunnels, dns, issued, mishaps>>,
           Doing(c, "check"),
         tunnels[Now(c).tunnel].connector,
         jobs' = [jobs EXCEPT ![c] = Ended([jobs[c] EXCEPT !.todo = Tail(Tail(Tail(@)))])]
  PROVE  PublishingInv'
<1>r. jobs[c].st = "running" /\ Head(jobs[c].todo).do = "check"
  BY DEF Doing
<1>0. PublishingFits /\ jobs[c] \in Job /\ JobFits(jobs[c]) /\ issued \in 0..MaxRecord /\ mishaps \in 0..MaxMishap
      /\ dns \in [Host -> Cname]
  BY <1>r, Busy
<1>1. PICK j, n, q1, q2, q : j = jobs[c] /\ n = Len(j.todo) /\ q1 = Tail(j.todo) /\ q2 = Tail(q1) /\ q = Tail(q2)
  OBVIOUS
<1>2. /\ j.todo \in Seq(TaskRow) /\ n \in Nat /\ n > 0 /\ Head(j.todo) = Left(j.todo, n)
      /\ q1 \in Seq(TaskRow) /\ Len(q1) = n - 1 /\ \A i \in 1..Len(q1) : Left(q1, i) = Left(j.todo, i)
  <2>1. j.todo \in Seq(TaskRow) /\ j.todo # << >>
    BY <1>0, <1>1, <1>r DEF JobFits, Job
  <2>. QED  BY <1>1, <2>1, TailLeft
<1>3. n > 2
  <2>1. n \in 1..n /\ Left(j.todo, n).do = "check"
    BY <1>1, <1>2, <1>r
  <2>. QED  BY <1>0, <1>1, <2>1 DEF JobFits, TasksFit
<1>4. /\ q2 \in Seq(TaskRow) /\ Len(q2) = n - 2 /\ \A i \in 1..Len(q2) : Left(q2, i) = Left(q1, i)
  <2>1. q1 # << >>
    BY <1>2, <1>3, TodoLen
  <2>2. q2 \in Seq(TaskRow) /\ Len(q2) = Len(q1) - 1 /\ \A i \in 1..Len(q2) : Left(q2, i) = Left(q1, i)
    BY <1>1, <1>2, <2>1, TailLeft
  <2>. QED  BY <1>2, <2>2
<1>5. /\ q \in Seq(TaskRow) /\ Len(q) = n - 3 /\ \A i \in 1..Len(q) : Left(q, i) = Left(q2, i)
  <2>1. q2 # << >>
    BY <1>2, <1>3, <1>4, TodoLen
  <2>2. q \in Seq(TaskRow) /\ Len(q) = Len(q2) - 1 /\ \A i \in 1..Len(q) : Left(q, i) = Left(q2, i)
    BY <1>1, <1>4, <2>1, TailLeft
  <2>. QED  BY <1>2, <1>4, <2>2
<1>6. Len(q) < n /\ \A i \in 1..Len(q) : Left(q, i) = Left(j.todo, i)
  <2>1. \A i \in 1..Len(q) : i \in 1..Len(q2) /\ i \in 1..Len(q1)
    BY <1>2, <1>4, <1>5
  <2>. QED  BY <1>2, <1>3, <1>4, <1>5, <2>1
<1>7. PICK m : m = [j EXCEPT !.todo = q]
  OBVIOUS
<1>8. /\ m \in Job /\ m.todo = q /\ m.st = "running" /\ m.kind = j.kind /\ m.route = j.route /\ m.was = j.was
      /\ m.put = j.put /\ m.alone = j.alone /\ m.rows = j.rows /\ m.seen = j.seen /\ m.warned = j.warned
  BY <1>0, <1>1, <1>5, <1>7, <1>r DEF Job
<1>9. PICK k, l : k = Ended(m) /\ l = Len(k.todo)
  OBVIOUS
<1>10. /\ k \in Job /\ JobFits(k) /\ Went(j, k) /\ (k.alone => j.alone)
       /\ k.alone => Len(k.todo) = Len(m.todo) /\ k.warned = m.warned
  <2>1. j.warned => m.warned
    BY <1>8
  <2>2. Len(m.todo) < Len(j.todo) /\ \A i \in 1..Len(m.todo) : Left(m.todo, i) = Left(j.todo, i)
    BY <1>1, <1>6, <1>8
  <2>3. j \in Job /\ JobFits(j) /\ j.st = "running"
    BY <1>0, <1>1, <1>r
  <2>. QED  BY <1>8, <1>9, <2>1, <2>2, <2>3, EndedWent
<1>11. jobs' = [jobs EXCEPT ![c] = k]
  BY <1>1, <1>7, <1>9
<1>12. tunnels' \in [Tunnel -> ManagedTunnel] /\ RowsFit' /\ routes' \in [1..MaxRoute -> RouteRow]
       /\ \A y \in Tunnel : tunnels'[y].ingress = tunnels[y].ingress
  BY <1>0, SameTunnels
<1>13. ASSUME jobs'[c] = k, k.alone, ~Fails(k)
       PROVE  /\ ConfigIsOfRows(jobs[c])' /\ Ordered(jobs[c])'
              /\ k.kind \in {"create", "retry", "publish", "serve", "enable"} => Serving(jobs[c])'
              /\ k.kind \in {"delete", "remove", "withdraw"} => Removing(jobs[c])'
  <2>1. /\ j.alone /\ ~Fails(j) /\ k.kind = j.kind /\ k.route = j.route /\ k.was = j.was /\ k.put = j.put
        /\ l = n - 3 /\ \A i \in 1..l : Left(k.todo, i) = Left(j.todo, i)
    BY <1>5, <1>8, <1>9, <1>10, <1>13 DEF Went
  <2>2. /\ ConfigIsOfRows(j) /\ Ordered(j)
        /\ j.kind \in {"create", "retry", "publish", "serve", "enable"} => Serving(j)
        /\ j.kind \in {"delete", "remove", "withdraw"} => Removing(j)
    BY <1>1, <2>1 DEF PublishingInv, OnTrack
  <2>3. n \in 1..Len(j.todo) /\ Len(j.todo) \in Nat /\ Left(j.todo, n).do = "check"
    BY <1>1, <1>2, <1>r
  <2>4. j.kind \notin {"delete", "remove", "withdraw"}
    BY <1>3, <2>2, <2>3 DEF Removing
  <2>5. j.kind \in {"create", "retry", "publish", "serve", "enable"}
    BY <2>2, <2>3, <2>4 DEF Ordered, Avoids, Changes, Puts
  <2>6. PICK a \in 1..11, s \in 1..11, u \in 1..11, h \in Host, t \in Tunnel :
          ServingTasks(j, a, s, u, h, t) /\ ServingState(j, a, s, u, h, t)
    BY <2>2, <2>5 DEF Serving
  <2>7. ServingNow(j.kind, n, Left(j.todo, n), a, s, u, h, t)
    BY <2>3, <2>6, ServingHead
  <2>8. n = 3 /\ j.kind \in {"publish", "serve", "enable"} /\ Left(j.todo, n).tunnel = t
    BY <1>2, <1>3, <2>3, <2>7 DEF ServingNow
  <2>9. l = 0 /\ n < a /\ n < u /\ n < s /\ Left(j.todo, 1).do = "run"
    <3>1. n \in 1..Len(j.todo) /\ 1 \in 1..Len(j.todo)
      BY <1>1, <2>8
    <3>2. a > 3 /\ u > 3 /\ s > 3 /\ Left(j.todo, 1).do = "run"
      BY <2>6, <2>8, <3>1 DEF ServingTasks
    <3>. QED  BY <2>1, <2>8, <3>2
  <2>10. ConfigIsOfRows(jobs[c])' /\ Ordered(jobs[c])'
    <3>1. \A t1 \in j.put : tunnels'[t1].ingress = RowsFor(t1)'
      <4>1. jobs[c].put \subseteq Tunnel
        BY <1>0 DEF Job
      <4>. QED  BY <1>1, <1>12, <2>2, <4>1, SameIngress
    <3>2. l \in Nat /\ Left(j.todo, l + 1).do # "rows"
      BY <2>9
    <3>. QED  BY <1>1, <1>2, <1>9, <1>10, <1>13, <2>2, <3>1, <3>2, ConfigSkips
  <2>11. ServingTasks(k, a, s, u, h, t)
    <3>1. l \in Nat /\ l <= Len(j.todo)
      BY <2>3, <2>9
    <3>. QED  BY <1>9, <2>1, <2>3, <2>6, <3>1, ServingTasksGo
  <2>12. /\ RowIs(j.route, h, t) /\ (j.kind # "enable" => routes[j.route].enabled)
         /\ j.kind # "enable" => t \in j.put
         /\ Records(j.kind) => dns[h] = [id |-> routes[j.route].record, target |-> t]
    BY <1>1, <2>6, <2>9 DEF ServingState
  <2>13. tunnels[t].connector
    BY <1>1, <1>2, <2>8 DEF Now
  <2>14. /\ RowIs(k.route, h, t)' /\ (k.kind # "enable" => routes'[k.route].enabled)
         /\ k.kind # "enable" => t \in k.put
         /\ Records(k.kind) => dns'[h] = [id |-> routes'[k.route].record, target |-> t]
    BY <2>1, <2>12 DEF RowIs, Rows
  <2>15. ServingState(jobs[c], a, s, u, h, t)'
    <3>1. ~(0 >= a) /\ 0 # s + 1 /\ 0 # s
      BY Zenon, AboveZero
    <3>. QED  BY <1>9, <1>13, <2>9, <2>13, <2>14, <3>1 DEF ServingState
  <2>16. Serving(jobs[c])'
    BY <1>13, <2>11, <2>15 DEF Serving
  <2>. QED  BY <2>1, <2>4, <2>10, <2>16
<1>. QED  BY <1>0, <1>1, <1>10, <1>11, <1>12, <1>13, <1>r, JobKeeps

(* A call that changes a tunnel, and not what it serves, or that throws before or after it did. *)
LEMMA TunnelKeeps ==
  ASSUME PublishingInv, NEW c \in Caller, UNCHANGED <<setting, routes, dns, issued>>, jobs[c].st = "running",
         NEW x, x = Head(jobs[c].todo), NEW b \in ManagedTunnel, b.ingress = tunnels[x.tunnel].ingress,
         tunnels[x.tunnel].row => b.row, x.do = "run" => b.connector,
         x.do \in {"rm", "run", "make", "token", "insert", "stop", "join", "leave", "unlist"},
         \/ tunnels' = [tunnels EXCEPT ![x.tunnel] = b] /\ Going(c, jobs[c]) /\ UNCHANGED mishaps
         \/ (tunnels' = [tunnels EXCEPT ![x.tunnel] = b] \/ UNCHANGED tunnels) /\ Thrown(c) /\ Mishap
  PROVE  PublishingInv'
<1>0. /\ PublishingFits /\ x \in TaskRow /\ issued' \in 0..MaxRecord /\ dns' \in [Host -> Cname]
  BY Busy
<1>1. x.tunnel \in Tunnel
  BY <1>0, TaskType
<1>2. mishaps' \in 0..MaxMishap
  BY <1>0, MishapType
<1>3. /\ tunnels' \in [Tunnel -> ManagedTunnel] /\ RowsFit' /\ routes' \in [1..MaxRoute -> RouteRow]
      /\ \A y \in Tunnel : tunnels'[y].ingress = tunnels[y].ingress
  <2>1. CASE tunnels' = [tunnels EXCEPT ![x.tunnel] = b]
    BY <1>0, <1>1, <2>1, TunnelChanges
  <2>2. CASE UNCHANGED tunnels
    BY <1>0, <2>2, SameTunnels
  <2>. QED  BY <2>1, <2>2
<1>4. CASE tunnels' = [tunnels EXCEPT ![x.tunnel] = b] /\ Going(c, jobs[c])
  <2>1. x.do = "run" => tunnels'[x.tunnel].connector
    BY <1>0, <1>1, <1>4, TunnelChanges
  <2>. QED  BY <1>0, <1>2, <1>3, <1>4, <2>1, QuietKeeps
<1>5. CASE Thrown(c)
  BY <1>0, <1>2, <1>3, <1>5, QuietThrow
<1>. QED  BY <1>4, <1>5

(* So does one that changes none. *)
LEMMA CallKeeps ==
  ASSUME PublishingInv, NEW c \in Caller, UNCHANGED <<setting, routes, tunnels, dns, issued>>, jobs[c].st = "running",
         NEW x, x = Head(jobs[c].todo), x.do \in {"check", "rm", "run", "make", "token", "join", "unmake"},
         mishaps' \in 0..MaxMishap, (Going(c, jobs[c]) /\ x.do # "run") \/ Thrown(c)
  PROVE  PublishingInv'
<1>0. /\ PublishingFits /\ issued' \in 0..MaxRecord /\ dns' \in [Host -> Cname]
  BY Busy
<1>1. /\ tunnels' \in [Tunnel -> ManagedTunnel] /\ RowsFit' /\ routes' \in [1..MaxRoute -> RouteRow]
      /\ \A y \in Tunnel : tunnels'[y].ingress = tunnels[y].ingress
  BY <1>0, SameTunnels
<1>2. CASE Going(c, jobs[c]) /\ x.do # "run"
  BY <1>0, <1>1, <1>2, QuietKeeps
<1>3. CASE Thrown(c)
  BY <1>0, <1>1, <1>3, QuietThrow
<1>. QED  BY <1>2, <1>3

(* A connector is looked for, removed and started: runTunnelConnector. *)
LEMMA ConnectorKeeps ==
  ASSUME PublishingInv, NEW c \in Caller, UNCHANGED setting, Connector(c)
  PROVE  PublishingInv'
<1>1. PICK x, t : x = Head(jobs[c].todo) /\ t = x.tunnel
  OBVIOUS
<1>2. /\ UNCHANGED <<routes, dns, issued>>
      /\ \/ /\ Doing(c, "check") /\ tunnels[t].connector
            /\ jobs' = [jobs EXCEPT ![c] = Ended([jobs[c] EXCEPT !.todo = Tail(Tail(Tail(@)))])]
            /\ UNCHANGED <<tunnels, mishaps>>
         \/ Doing(c, "check") /\ Going(c, jobs[c]) /\ UNCHANGED <<tunnels, mishaps>>
         \/ Doing(c, "rm") /\ tunnels' = [tunnels EXCEPT ![t].connector = FALSE] /\ Going(c, jobs[c])
              /\ UNCHANGED mishaps
         \/ /\ Doing(c, "run")
            /\ Calls(c, tunnels' = [tunnels EXCEPT ![t].connector = TRUE], UNCHANGED tunnels, jobs[c])
         \/ Doing(c, "run") /\ Thrown(c) /\ UNCHANGED <<tunnels, mishaps>>
  BY <1>1 DEF Connector, Now
<1>r. jobs[c].st = "running" /\ (\A do : Doing(c, do) => x.do = do)
  BY <1>1, <1>2 DEF Doing
<1>3. /\ PublishingFits /\ x \in TaskRow /\ tunnels \in [Tunnel -> ManagedTunnel] /\ mishaps \in 0..MaxMishap
  BY <1>1, <1>r, Busy
<1>4. t \in Tunnel
  BY <1>1, <1>3, TaskType
<1>5. \A v \in BOOLEAN : LET b == [tunnels[t] EXCEPT !.connector = v] IN
        b \in ManagedTunnel /\ b.ingress = tunnels[t].ingress /\ b.row = tunnels[t].row /\ b.connector = v
  BY <1>3, <1>4 DEF ManagedTunnel
<1>6. \A v \in BOOLEAN : tunnels' = [tunnels EXCEPT ![t].connector = v]
        => tunnels' = [tunnels EXCEPT ![t] = [tunnels[t] EXCEPT !.connector = v]]
  OBVIOUS
<1>7. CASE /\ Doing(c, "check") /\ tunnels[t].connector
           /\ jobs' = [jobs EXCEPT ![c] = Ended([jobs[c] EXCEPT !.todo = Tail(Tail(Tail(@)))])]
           /\ UNCHANGED <<tunnels, mishaps>>
  BY <1>1, <1>2, <1>7, CheckKeeps DEF Now
<1>8. CASE Doing(c, "check") /\ Going(c, jobs[c]) /\ UNCHANGED <<tunnels, mishaps>>
  <2>1. x.do = "check" /\ mishaps' \in 0..MaxMishap
    BY <1>3, <1>r, <1>8
  <2>. QED  BY <1>1, <1>2, <1>8, <1>r, <2>1, CallKeeps
<1>9. CASE Doing(c, "rm") /\ tunnels' = [tunnels EXCEPT ![t].connector = FALSE] /\ Going(c, jobs[c])
             /\ UNCHANGED mishaps
  <2>1. PICK b : /\ b \in ManagedTunnel /\ b.ingress = tunnels[t].ingress /\ b.row = tunnels[t].row
                 /\ tunnels' = [tunnels EXCEPT ![t] = b]
    BY <1>5, <1>6, <1>9
  <2>2. x.do = "rm"
    BY <1>9, <1>r
  <2>. QED  BY <1>1, <1>2, <1>9, <1>r, <2>1, <2>2, TunnelKeeps
<1>10. CASE Doing(c, "run") /\ Calls(c, tunnels' = [tunnels EXCEPT ![t].connector = TRUE], UNCHANGED tunnels, jobs[c])
  <2>1. PICK b : b = [tunnels[t] EXCEPT !.connector = TRUE]
    OBVIOUS
  <2>2. b \in ManagedTunnel /\ b.ingress = tunnels[t].ingress /\ b.row = tunnels[t].row /\ b.connector
    BY <1>5, <2>1
  <2>3. x.do = "run"
    BY <1>10, <1>r
  <2>4. tunnels' = [tunnels EXCEPT ![t].connector = TRUE] => tunnels' = [tunnels EXCEPT ![t] = b]
    BY <2>1
  <2>5. \/ tunnels' = [tunnels EXCEPT ![t] = b] /\ Going(c, jobs[c]) /\ UNCHANGED mishaps
        \/ (tunnels' = [tunnels EXCEPT ![t] = b] \/ UNCHANGED tunnels) /\ Thrown(c) /\ Mishap
    BY <1>10, <2>4 DEF Calls
  <2>. QED  BY <1>1, <1>2, <1>r, <2>2, <2>3, <2>5, TunnelKeeps
<1>11. CASE Doing(c, "run") /\ Thrown(c) /\ UNCHANGED <<tunnels, mishaps>>
  <2>1. x.do = "run" /\ mishaps' \in 0..MaxMishap
    BY <1>3, <1>r, <1>11
  <2>. QED  BY <1>1, <1>2, <1>11, <1>r, <2>1, CallKeeps
<1>. QED  BY <1>2, <1>7, <1>8, <1>9, <1>10, <1>11

(* A tunnel is made at Cloudflare, its token read and its row inserted. *)
LEMMA BuildTunnelKeeps ==
  ASSUME PublishingInv, NEW c \in Caller, UNCHANGED setting, BuildTunnel(c)
  PROVE  PublishingInv'
<1>1. PICK x, t : x = Head(jobs[c].todo) /\ t = x.tunnel
  OBVIOUS
<1>2. /\ UNCHANGED <<routes, dns, issued>>
      /\ \/ Doing(c, "make") /\ Calls(c, tunnels' = [tunnels EXCEPT ![t].remote = TRUE], UNCHANGED tunnels, jobs[c])
         \/ Doing(c, "token") /\ Calls(c, UNCHANGED tunnels, UNCHANGED tunnels, jobs[c])
         \/ Doing(c, "insert") /\ tunnels' = [tunnels EXCEPT ![t].row = TRUE] /\ Going(c, jobs[c])
              /\ UNCHANGED mishaps
         \/ /\ Doing(c, "undo") /\ Going(c, jobs[c])
            /\ \/ tunnels' = [tunnels EXCEPT ![t] = [tunnels[t] EXCEPT !.remote = FALSE, !.ingress = {}]]
                    /\ UNCHANGED mishaps
               \/ UNCHANGED tunnels /\ Mishap
  BY <1>1 DEF BuildTunnel, Now
<1>r. jobs[c].st = "running" /\ (\A do : Doing(c, do) => x.do = do)
  BY <1>1, <1>2 DEF Doing
<1>3. /\ PublishingFits /\ x \in TaskRow /\ tunnels \in [Tunnel -> ManagedTunnel] /\ issued' \in 0..MaxRecord
      /\ dns' \in [Host -> Cname]
  BY <1>1, <1>2, <1>r, Busy
<1>4. t \in Tunnel
  BY <1>1, <1>3, TaskType
<1>m. (Mishap => mishaps' \in 0..MaxMishap) /\ (UNCHANGED mishaps => mishaps' \in 0..MaxMishap)
  BY <1>3, MishapType
<1>5. CASE Doing(c, "make") /\ Calls(c, tunnels' = [tunnels EXCEPT ![t].remote = TRUE], UNCHANGED tunnels, jobs[c])
  <2>1. PICK b : b = [tunnels[t] EXCEPT !.remote = TRUE]
    OBVIOUS
  <2>2. b \in ManagedTunnel /\ b.ingress = tunnels[t].ingress /\ b.row = tunnels[t].row
    BY <1>3, <1>4, <2>1 DEF ManagedTunnel
  <2>3. x.do = "make"
    BY <1>5, <1>r
  <2>4. tunnels' = [tunnels EXCEPT ![t].remote = TRUE] => tunnels' = [tunnels EXCEPT ![t] = b]
    BY <2>1
  <2>5. \/ tunnels' = [tunnels EXCEPT ![t] = b] /\ Going(c, jobs[c]) /\ UNCHANGED mishaps
        \/ (tunnels' = [tunnels EXCEPT ![t] = b] \/ UNCHANGED tunnels) /\ Thrown(c) /\ Mishap
    BY <1>5, <2>4 DEF Calls
  <2>. QED  BY <1>1, <1>2, <1>r, <2>2, <2>3, <2>5, TunnelKeeps
<1>6. CASE Doing(c, "token") /\ Calls(c, UNCHANGED tunnels, UNCHANGED tunnels, jobs[c])
  <2>1. x.do = "token" /\ UNCHANGED tunnels /\ (Going(c, jobs[c]) \/ Thrown(c)) /\ (UNCHANGED mishaps \/ Mishap)
    BY <1>6, <1>r DEF Calls
  <2>. QED  BY <1>1, <1>2, <1>m, <1>r, <2>1, CallKeeps
<1>7. CASE Doing(c, "insert") /\ tunnels' = [tunnels EXCEPT ![t].row = TRUE] /\ Going(c, jobs[c]) /\ UNCHANGED mishaps
  <2>1. PICK b : b = [tunnels[t] EXCEPT !.row = TRUE]
    OBVIOUS
  <2>2. b \in ManagedTunnel /\ b.ingress = tunnels[t].ingress /\ b.row
    BY <1>3, <1>4, <2>1 DEF ManagedTunnel
  <2>3. x.do = "insert"
    BY <1>7, <1>r
  <2>4. tunnels' = [tunnels EXCEPT ![t] = b]
    BY <1>7, <2>1
  <2>. QED  BY <1>1, <1>2, <1>7, <1>r, <2>2, <2>3, <2>4, TunnelKeeps
<1>8. CASE /\ Doing(c, "undo") /\ Going(c, jobs[c])
           /\ \/ tunnels' = [tunnels EXCEPT ![t] = [tunnels[t] EXCEPT !.remote = FALSE, !.ingress = {}]]
                   /\ UNCHANGED mishaps
              \/ UNCHANGED tunnels /\ Mishap
  <2>1. PICK b : b = [tunnels[t] EXCEPT !.remote = FALSE, !.ingress = {}]
    OBVIOUS
  <2>2. b \in ManagedTunnel /\ b.row = tunnels[t].row
    BY <1>3, <1>4, <2>1 DEF ManagedTunnel
  <2>3. tunnels' \in [Tunnel -> ManagedTunnel] /\ RowsFit' /\ routes' \in [1..MaxRoute -> RouteRow]
    <3>1. CASE tunnels' = [tunnels EXCEPT ![t] = b]
      BY <1>2, <1>3, <1>4, <2>2, <3>1, TunnelChanges
    <3>2. CASE UNCHANGED tunnels
      BY <1>2, <1>3, <3>2, SameTunnels
    <3>. QED  BY <1>8, <2>1, <3>1, <3>2
  <2>4. x.do = "undo" /\ mishaps' \in 0..MaxMishap
    BY <1>8, <1>m, <1>r
  <2>. QED  BY <1>1, <1>3, <1>8, <1>r, <2>3, <2>4, QuietKeeps
<1>. QED  BY <1>2, <1>5, <1>6, <1>7, <1>8

(* A tunnel joins or leaves a project. *)
LEMMA AssignmentKeeps ==
  ASSUME PublishingInv, NEW c \in Caller, UNCHANGED setting, Assignment(c)
  PROVE  PublishingInv'
<1>1. PICK x, t, w, z : /\ x = Head(jobs[c].todo) /\ t = x.tunnel
                        /\ w = (IF tunnels[t].linked = "none" THEN "none" ELSE "joined")
                        /\ z = (IF tunnels[t].linked = "none" THEN "none" ELSE "listed")
  OBVIOUS
<1>2. /\ UNCHANGED <<routes, dns, issued>>
      /\ \/ Doing(c, "join") /\ Calls(c, tunnels' = [tunnels EXCEPT ![t].linked = w], UNCHANGED tunnels, jobs[c])
         \/ Doing(c, "leave") /\ tunnels' = [tunnels EXCEPT ![t].linked = z] /\ Going(c, jobs[c]) /\ UNCHANGED mishaps
         \/ Doing(c, "unlist") /\ tunnels' = [tunnels EXCEPT ![t].linked = "none"] /\ Going(c, jobs[c])
              /\ UNCHANGED mishaps
         \/ Doing(c, "unlist") /\ jobs' = [jobs EXCEPT ![c] = NoJob] /\ UNCHANGED <<tunnels, mishaps>>
  BY <1>1 DEF Assignment, Now
<1>r. jobs[c].st = "running" /\ (\A do : Doing(c, do) => x.do = do)
  BY <1>1, <1>2 DEF Doing
<1>3. /\ PublishingFits /\ x \in TaskRow /\ tunnels \in [Tunnel -> ManagedTunnel] /\ issued' \in 0..MaxRecord
      /\ dns' \in [Host -> Cname] /\ mishaps \in 0..MaxMishap
  BY <1>1, <1>2, <1>r, Busy
<1>4. t \in Tunnel
  BY <1>1, <1>3, TaskType
<1>5. ASSUME NEW v \in {"none", "listed", "joined"}, x.do \in {"join", "leave", "unlist"},
             \/ tunnels' = [tunnels EXCEPT ![t].linked = v] /\ Going(c, jobs[c]) /\ UNCHANGED mishaps
             \/ (tunnels' = [tunnels EXCEPT ![t].linked = v] \/ UNCHANGED tunnels) /\ Thrown(c) /\ Mishap
      PROVE  PublishingInv'
  <2>1. PICK b : b = [tunnels[t] EXCEPT !.linked = v]
    OBVIOUS
  <2>2. b \in ManagedTunnel /\ b.ingress = tunnels[t].ingress /\ b.row = tunnels[t].row
    BY <1>3, <1>4, <2>1 DEF ManagedTunnel
  <2>3. tunnels' = [tunnels EXCEPT ![t].linked = v] => tunnels' = [tunnels EXCEPT ![t] = b]
    BY <2>1
  <2>4. \/ tunnels' = [tunnels EXCEPT ![t] = b] /\ Going(c, jobs[c]) /\ UNCHANGED mishaps
        \/ (tunnels' = [tunnels EXCEPT ![t] = b] \/ UNCHANGED tunnels) /\ Thrown(c) /\ Mishap
    BY <1>5, <2>3
  <2>5. x.do # "run" /\ x.do \in {"rm", "run", "make", "token", "insert", "stop", "join", "leave", "unlist"}
    BY <1>5
  <2>. QED  BY <1>1, <1>2, <1>r, <2>2, <2>4, <2>5, TunnelKeeps
<1>6. w \in {"none", "listed", "joined"} /\ z \in {"none", "listed", "joined"}
  BY <1>1
<1>7. CASE Doing(c, "join") /\ Calls(c, tunnels' = [tunnels EXCEPT ![t].linked = w], UNCHANGED tunnels, jobs[c])
  BY <1>5, <1>6, <1>7, <1>r DEF Calls
<1>8. CASE Doing(c, "leave") /\ tunnels' = [tunnels EXCEPT ![t].linked = z] /\ Going(c, jobs[c]) /\ UNCHANGED mishaps
  BY <1>5, <1>6, <1>8, <1>r
<1>9. CASE Doing(c, "unlist") /\ tunnels' = [tunnels EXCEPT ![t].linked = "none"] /\ Going(c, jobs[c])
             /\ UNCHANGED mishaps
  BY <1>5, <1>9, <1>r
<1>10. CASE jobs' = [jobs EXCEPT ![c] = NoJob] /\ UNCHANGED <<tunnels, mishaps>>
  <2>1. tunnels' \in [Tunnel -> ManagedTunnel] /\ RowsFit' /\ routes' \in [1..MaxRoute -> RouteRow]
    BY <1>2, <1>3, <1>10, SameTunnels
  <2>2. NoJob \in Job /\ JobFits(NoJob) /\ ~NoJob.alone
    BY NoneTypes, NoJobFits
  <2>. QED  BY <1>2, <1>3, <1>10, <1>r, <2>1, <2>2, JobKeeps
<1>. QED  BY <1>2, <1>7, <1>8, <1>9, <1>10

(* A request that failed says so in its row or undoes what it made. *)
LEMMA SpoilKeeps ==
  ASSUME PublishingInv, NEW c \in Caller, UNCHANGED setting, Spoil(c)
  PROVE  PublishingInv'
<1>1. PICK x, r : x = Head(jobs[c].todo) /\ r = jobs[c].route
  OBVIOUS
<1>2. /\ UNCHANGED <<tunnels, dns, issued, mishaps>> /\ Going(c, jobs[c]) /\ jobs[c].st = "running" /\ x.do = "spoil"
      /\ IF r \in Rows THEN Change(r, [routes[r] EXCEPT !.enabled = FALSE]) ELSE UNCHANGED routes
  BY <1>1 DEF Spoil, Doing, Rest
<1>3. /\ PublishingFits /\ tunnels' \in [Tunnel -> ManagedTunnel] /\ issued' \in 0..MaxRecord
      /\ dns' \in [Host -> Cname] /\ mishaps' \in 0..MaxMishap
  BY <1>2, Busy
<1>4. RowsFit' /\ routes' \in [1..MaxRoute -> RouteRow]
  <2>1. CASE r \in Rows
    <3>1. PICK row : row = [routes[r] EXCEPT !.enabled = FALSE]
      OBVIOUS
    <3>2. routes[r] \in RouteRow /\ r \in 1..MaxRoute
      BY <1>3, <2>1 DEF PublishingFits, PublishingTypeOK, Rows
    <3>3. row \in RouteRow /\ row.st = routes[r].st /\ row.host = routes[r].host /\ row.tunnel = routes[r].tunnel
      BY <3>1, <3>2 DEF RouteRow
    <3>4. Change(r, row)
      BY <1>2, <2>1, <3>1
    <3>5. row.host \in Host /\ row.tunnel \in Tunnel /\ tunnels[row.tunnel].row
      BY <1>3, <2>1, <3>3, LiveRow
    <3>6. RowChanged(r, row)
      BY <1>2, <1>3, <3>2, <3>3, <3>4, <3>5, ChangeFits
    <3>. QED  BY <3>6 DEF RowChanged
  <2>2. CASE r \notin Rows
    BY <1>2, <1>3, <2>2, SameTunnels
  <2>. QED  BY <2>1, <2>2
<1>. QED  BY <1>1, <1>2, <1>3, <1>4, QuietKeeps

(* One record of the zone changes. *)
LEMMA RecordChanges ==
  ASSUME PublishingFits, UNCHANGED <<routes, tunnels>>, NEW h \in Host, NEW v \in Cname, v.id = 0 => v = NoCname,
         dns' = [dns EXCEPT ![h] = v] \/ UNCHANGED dns
  PROVE  /\ dns' \in [Host -> Cname] /\ RowsFit' /\ routes' \in [1..MaxRoute -> RouteRow]
         /\ tunnels' \in [Tunnel -> ManagedTunnel] /\ \A y \in Tunnel : tunnels'[y].ingress = tunnels[y].ingress
<1>1. dns \in [Host -> Cname] /\ tunnels \in [Tunnel -> ManagedTunnel] /\ \A y \in Host : dns[y].id = 0
        => dns[y] = NoCname
  BY DEF PublishingFits, PublishingTypeOK, RowsFit
<1>2. dns' \in [Host -> Cname] /\ \A y \in Host : dns'[y].id = 0 => dns'[y] = NoCname
  BY <1>1
<1>3. \A t \in Tunnel : tunnels[t].row => tunnels'[t].row
  OBVIOUS
<1>4. RowsFit' /\ routes' \in [1..MaxRoute -> RouteRow]
  BY <1>2, <1>3, SameRowsStillFit
<1>. QED  BY <1>1, <1>2, <1>4

(* A tunnel is taken down: its records, its connector, itself and its row. *)
LEMMA BreakTunnelKeeps ==
  ASSUME PublishingInv, NEW c \in Caller, UNCHANGED setting, BreakTunnel(c)
  PROVE  PublishingInv'
<1>1. PICK x, t, h, v, b :
        /\ x = Head(jobs[c].todo) /\ t = x.tunnel /\ h = x.host
        /\ v = (IF (IF x.record # 0 THEN dns[h].id = x.record ELSE dns[h].target = t) THEN NoCname ELSE dns[h])
        /\ b = [tunnels[t] EXCEPT !.remote = FALSE, !.ingress = {}]
  OBVIOUS
<1>2. \/ /\ Doing(c, "forget") /\ Calls(c, dns' = [dns EXCEPT ![h] = v], UNCHANGED dns, jobs[c])
         /\ UNCHANGED <<routes, tunnels, issued>>
      \/ /\ Doing(c, "stop") /\ tunnels' = [tunnels EXCEPT ![t].connector = FALSE]
         /\ Going(c, jobs[c]) /\ UNCHANGED <<routes, dns, issued, mishaps>>
      \/ /\ Doing(c, "unmake") /\ Calls(c, tunnels' = [tunnels EXCEPT ![t] = b], UNCHANGED tunnels, jobs[c])
         /\ UNCHANGED <<routes, dns, issued>>
      \/ Doing(c, "unmake") /\ Thrown(c) /\ UNCHANGED <<routes, tunnels, dns, issued, mishaps>>
      \/ /\ Doing(c, "unrow")
         /\ tunnels' = [tunnels EXCEPT ![t] = [TunnelThere(FALSE) EXCEPT !.used = TRUE]]
         /\ routes' = [r \in DOMAIN routes |-> IF r \in RowsOf(t) THEN [NoRoute EXCEPT !.st = "gone"] ELSE routes[r]]
         /\ Going(c, jobs[c]) /\ UNCHANGED <<dns, issued, mishaps>>
  BY <1>1 DEF BreakTunnel, Now
<1>r. jobs[c].st = "running" /\ (\A do : Doing(c, do) => x.do = do)
  BY <1>1, <1>2 DEF Doing
<1>3. /\ PublishingFits /\ RowsFit /\ x \in TaskRow /\ routes \in [1..MaxRoute -> RouteRow]
      /\ tunnels \in [Tunnel -> ManagedTunnel] /\ dns \in [Host -> Cname] /\ issued \in 0..MaxRecord
  BY <1>1, <1>r, Busy
<1>4. t \in Tunnel
  BY <1>1, <1>3, TaskType
<1>m. (Mishap => mishaps' \in 0..MaxMishap) /\ (UNCHANGED mishaps => mishaps' \in 0..MaxMishap)
  BY <1>3, MishapType
<1>5. CASE /\ Doing(c, "forget") /\ Calls(c, dns' = [dns EXCEPT ![h] = v], UNCHANGED dns, jobs[c])
           /\ UNCHANGED <<routes, tunnels, issued>>
  <2>1. x.do = "forget" /\ h \in Host
    BY <1>1, <1>3, <1>5, <1>r, TaskType
  <2>2. v \in Cname /\ (v.id = 0 => v = NoCname)
    BY <1>1, <1>3, <2>1, NoneTypes DEF RowsFit
  <2>3. /\ dns' = [dns EXCEPT ![h] = v] \/ UNCHANGED dns
        /\ Going(c, jobs[c]) \/ Thrown(c)
        /\ UNCHANGED mishaps \/ Mishap
    BY <1>5 DEF Calls
  <2>4. /\ dns' \in [Host -> Cname] /\ RowsFit' /\ routes' \in [1..MaxRoute -> RouteRow]
        /\ tunnels' \in [Tunnel -> ManagedTunnel] /\ \A y \in Tunnel : tunnels'[y].ingress = tunnels[y].ingress
    BY <1>3, <1>5, <2>1, <2>2, <2>3, RecordChanges
  <2>5. mishaps' \in 0..MaxMishap /\ issued' \in 0..MaxRecord
    BY <1>3, <1>5, <1>m, <2>3
  <2>6. CASE Going(c, jobs[c])
    BY <1>1, <1>5, <1>r, <2>1, <2>4, <2>5, <2>6, QuietKeeps
  <2>7. CASE Thrown(c)
    BY <1>1, <1>5, <1>r, <2>1, <2>4, <2>5, <2>7, QuietThrow
  <2>. QED  BY <2>3, <2>6, <2>7
<1>6. CASE /\ Doing(c, "stop") /\ tunnels' = [tunnels EXCEPT ![t].connector = FALSE]
           /\ Going(c, jobs[c]) /\ UNCHANGED <<routes, dns, issued, mishaps>>
  <2>1. PICK d : d = [tunnels[t] EXCEPT !.connector = FALSE]
    OBVIOUS
  <2>2. d \in ManagedTunnel /\ d.ingress = tunnels[t].ingress /\ d.row = tunnels[t].row
    BY <1>3, <1>4, <2>1 DEF ManagedTunnel
  <2>3. x.do = "stop" /\ tunnels' = [tunnels EXCEPT ![t] = d]
    BY <1>6, <1>r, <2>1
  <2>. QED  BY <1>1, <1>6, <1>r, <2>2, <2>3, TunnelKeeps
<1>7. CASE /\ Doing(c, "unmake") /\ Calls(c, tunnels' = [tunnels EXCEPT ![t] = b], UNCHANGED tunnels, jobs[c])
           /\ UNCHANGED <<routes, dns, issued>>
  <2>1. b \in ManagedTunnel /\ b.row = tunnels[t].row
    <3>1. tunnels[t] \in ManagedTunnel
      BY <1>3, <1>4
    <3>2. b = [tunnels[t] EXCEPT !.remote = FALSE, !.ingress = {}]
      BY <1>1
    <3>. QED  BY <3>1, <3>2 DEF ManagedTunnel
  <2>2. /\ tunnels' = [tunnels EXCEPT ![t] = b] \/ UNCHANGED tunnels
        /\ Going(c, jobs[c]) \/ Thrown(c)
        /\ UNCHANGED mishaps \/ Mishap
        /\ x.do = "unmake"
    BY <1>7, <1>r DEF Calls
  <2>3. tunnels' \in [Tunnel -> ManagedTunnel] /\ RowsFit' /\ routes' \in [1..MaxRoute -> RouteRow]
    <3>1. CASE tunnels' = [tunnels EXCEPT ![t] = b]
      BY <1>3, <1>4, <1>7, <2>1, <3>1, TunnelChanges
    <3>2. CASE UNCHANGED tunnels
      BY <1>3, <1>7, <3>2, SameTunnels
    <3>. QED  BY <2>2, <3>1, <3>2
  <2>4. mishaps' \in 0..MaxMishap /\ issued' \in 0..MaxRecord /\ dns' \in [Host -> Cname]
    BY <1>3, <1>7, <1>m, <2>2
  <2>5. CASE Going(c, jobs[c])
    BY <1>1, <1>7, <1>r, <2>2, <2>3, <2>4, <2>5, QuietKeeps
  <2>6. CASE Thrown(c)
    BY <1>1, <1>7, <1>r, <2>2, <2>3, <2>4, <2>6, QuietThrow
  <2>. QED  BY <2>2, <2>5, <2>6
<1>8. CASE Doing(c, "unmake") /\ Thrown(c) /\ UNCHANGED <<routes, tunnels, dns, issued, mishaps>>
  <2>1. x.do = "unmake" /\ mishaps' \in 0..MaxMishap
    BY <1>8, <1>m, <1>r
  <2>. QED  BY <1>1, <1>8, <1>r, <2>1, CallKeeps
<1>9. CASE /\ Doing(c, "unrow")
           /\ tunnels' = [tunnels EXCEPT ![t] = [TunnelThere(FALSE) EXCEPT !.used = TRUE]]
           /\ routes' = [r \in DOMAIN routes |-> IF r \in RowsOf(t) THEN [NoRoute EXCEPT !.st = "gone"]
                ELSE routes[r]]
           /\ Going(c, jobs[c]) /\ UNCHANGED <<dns, issued, mishaps>>
  <2>1. DOMAIN routes = 1..MaxRoute
    BY <1>3
  <2>2. /\ routes' = [r \in DOMAIN routes |-> routes'[r]]
        /\ \A r \in 1..MaxRoute : routes'[r] = IF r \in RowsOf(t) THEN [NoRoute EXCEPT !.st = "gone"] ELSE routes[r]
    BY <1>9, <2>1
  <2>3. routes' \in [1..MaxRoute -> RouteRow] /\ \A r \in Rows' : r \in Rows /\ routes'[r] = routes[r]
    BY <1>3, <2>2, FewerRowsFit
  <2>4. [TunnelThere(FALSE) EXCEPT !.used = TRUE] \in ManagedTunnel
    BY DEF TunnelThere, ManagedTunnel
  <2>5. tunnels' \in [Tunnel -> ManagedTunnel] /\ \A y \in Tunnel \ {t} : tunnels'[y] = tunnels[y]
    BY <1>3, <1>4, <1>9, <2>4
  <2>6. ASSUME NEW r \in Rows' PROVE tunnels'[routes[r].tunnel].row
    <3>1. r \in Rows /\ routes'[r] = routes[r] /\ r \in 1..MaxRoute /\ routes[r].st = "live"
      BY <2>3 DEF Rows
    <3>2. r \notin RowsOf(t)
      BY <2>2, <3>1, NoneTypes DEF RouteRow
    <3>3. routes[r].tunnel \in Tunnel \ {t} /\ tunnels[routes[r].tunnel].row
      BY <1>3, <3>1, <3>2, LiveRow DEF RowsOf
    <3>. QED  BY <2>5, <3>3
  <2>7. \A y \in Host : dns'[y].id = 0 => dns'[y] = NoCname
    BY <1>3, <1>9 DEF RowsFit
  <2>8. RowsFit'
    BY <1>3, <2>3, <2>6, <2>7, RowsStillFit
  <2>9. x.do = "unrow" /\ mishaps' \in 0..MaxMishap /\ issued' \in 0..MaxRecord /\ dns' \in [Host -> Cname]
    BY <1>3, <1>9, <1>m, <1>r
  <2>. QED  BY <1>1, <1>9, <1>r, <2>3, <2>5, <2>8, <2>9, QuietKeeps
<1>. QED  BY <1>2, <1>5, <1>6, <1>7, <1>8, <1>9

(* An ingress is of hostnames. *)
LEMMA RowsForType ==
  ASSUME PublishingFits, NEW t
  PROVE  RowsFor(t) \subseteq Host
BY LiveRow DEF RowsFor, RowsOf

(* The rows for an ingress are read. *)
LEMMA ReadRowsKeeps ==
  ASSUME PublishingInv, NEW c \in Caller, UNCHANGED setting, ReadRows(c)
  PROVE  PublishingInv'
<1>1. PICK x, t, j : x = Head(jobs[c].todo) /\ t = x.tunnel /\ j = jobs[c]
  OBVIOUS
<1>2. PICK i : i = [j EXCEPT !.rows = RowsFor(t)]
  OBVIOUS
<1>3. /\ j.st = "running" /\ x.do = "rows" /\ Going(c, i) /\ UNCHANGED <<routes, tunnels, dns, issued, mishaps>>
  BY <1>1, <1>2 DEF ReadRows, Doing, Now, Rest
<1>4. /\ PublishingFits /\ j \in Job /\ tunnels \in [Tunnel -> ManagedTunnel] /\ dns \in [Host -> Cname]
           /\ issued \in 0..MaxRecord
      /\ mishaps \in 0..MaxMishap
  BY <1>1, <1>3, Busy
<1>5. RowsFit' /\ routes' \in [1..MaxRoute -> RouteRow]
  BY <1>3, <1>4, SameTunnels
<1>6. /\ i \in Job /\ i.todo = j.todo /\ i.kind = j.kind /\ i.st = j.st /\ i.route = j.route /\ i.was = j.was
           /\ i.warned = j.warned
      /\ i.alone = j.alone /\ i.put = j.put /\ i.seen = j.seen /\ i.rows = RowsFor(t)
  BY <1>2, <1>4, RowsForType DEF Job
<1>7. ASSUME Gone(jobs[c], i, jobs'[c])
      PROVE  /\ \A y \in i.put : tunnels'[y].ingress = RowsFor(y)'
             /\ i.rows = RowsFor(x.tunnel)'
             /\ jobs[c].kind \in {"create", "retry", "publish", "serve", "enable"} => Serving(jobs[c])'
             /\ jobs[c].kind \in {"delete", "remove", "withdraw"} => Removing(jobs[c])'
  <2>1. /\ ConfigIsOfRows(jobs[c])
        /\ jobs[c].kind \in {"create", "retry", "publish", "serve", "enable"} => Serving(jobs[c])
        /\ jobs[c].kind \in {"delete", "remove", "withdraw"} => Removing(jobs[c])
    BY <1>7, Tracked
  <2>2. \A y \in jobs[c].put : tunnels'[y].ingress = RowsFor(y)'
    <3>1. jobs[c].put \subseteq Tunnel
      BY <1>1, <1>4 DEF Job
    <3>. QED  BY <1>3, <2>1, <3>1, SameIngress
  <2>3. i.rows = RowsFor(x.tunnel)'
    BY <1>1, <1>3, <1>6 DEF RowsFor, RowsOf, Rows
  <2>4. jobs[c].kind \in {"create", "retry", "publish", "serve", "enable"} => Serving(jobs[c])'
    <3>1. i.seen = jobs[c].seen /\ jobs[c].put \subseteq i.put
      BY <1>1, <1>6
    <3>. QED  BY <1>1, <1>3, <1>7, <2>1, <3>1, ServingMoves
  <2>5. jobs[c].kind \in {"delete", "remove", "withdraw"} => Removing(jobs[c])'
    BY <1>1, <1>3, <1>7, <2>1, RemovingMoves
  <2>. QED  BY <1>1, <1>6, <2>2, <2>3, <2>4, <2>5
<1>8. Gone(jobs[c], i, jobs'[c]) =>
        /\ \A y \in i.put : tunnels'[y].ingress = RowsFor(y)'
        /\ x.do = "rows" => i.rows = RowsFor(x.tunnel)'
        /\ \/ i.put = jobs[c].put
           \/ \A n \in 1..(Len(jobs[c].todo) - 1) : Left(jobs[c].todo, n).do \notin {"assign", "erase", "unrow",
                "unmake"}
        /\ jobs[c].kind \in {"create", "retry", "publish", "serve", "enable"} => Serving(jobs[c])'
        /\ jobs[c].kind \in {"delete", "remove", "withdraw"} => Removing(jobs[c])'
  BY <1>1, <1>6, <1>7
<1>. QED  BY <1>1, <1>3, <1>4, <1>5, <1>6, <1>8, TaskKeeps

(* A request writes an ingress after it has changed its rows. *)
LEMMA PutsLast ==
  ASSUME PublishingInv, NEW c \in Caller, NEW i, Gone(jobs[c], i, jobs'[c]), Head(jobs[c].todo).do = "put"
  PROVE  \A n \in 1..(Len(jobs[c].todo) - 1) : Left(jobs[c].todo, n).do \notin {"assign", "erase", "unrow", "unmake"}
<1>1. PICK j, l : j = jobs[c] /\ l = Len(j.todo)
  OBVIOUS
<1>2. l \in Nat /\ l > 0 /\ l \in 1..l /\ Left(j.todo, l).do = "put" /\ \A n \in 1..(l - 1) : n \in 1..l
  BY <1>1 DEF Gone
<1>3. /\ Ordered(j)
      /\ j.kind \in {"create", "retry", "publish", "serve", "enable"} => Serving(j)
      /\ j.kind \in {"delete", "remove", "withdraw"} => Removing(j)
  BY <1>1, Tracked
<1>4. CASE j.kind \in {"create", "retry", "publish", "serve", "enable"}
  <2>1. PICK a \in 1..11, s \in 1..11, u \in 1..11, h \in Host, t \in Tunnel : ServingTasks(j, a, s, u, h, t)
    BY <1>3, <1>4 DEF Serving
  <2>2. l < a
    <3>1. ServingNow(j.kind, l, Left(j.todo, l), a, s, u, h, t)
      BY <1>1, <1>2, <2>1, ServingHead
    <3>. QED  BY <1>2, <3>1 DEF ServingNow
  <2>3. \A n \in 1..(l - 1) : n < a
    BY <1>2, <2>2
  <2>4. \A n \in 1..(l - 1) : Left(j.todo, n).do \in {"rows", "put", "look", "point", "save", "check", "rm", "run"}
    BY <1>1, <1>2, <2>1, <2>3 DEF ServingTasks
  <2>. QED  BY <1>1, <2>4
<1>5. CASE j.kind \in {"delete", "remove", "withdraw"}
  <2>1. PICK r, x : At(jobs[c], l, r, x)
    BY <1>1 DEF At
  <2>2. RemovingNow(l, x, jobs[c].was.host, jobs[c].was.tunnel) /\ x.do = "put"
    BY <1>1, <1>3, <1>5, <2>1, RemovingAt DEF At
  <2>3. l = 1
    BY <2>2 DEF RemovingNow
  <2>. QED  BY <1>1, <2>3
<1>6. CASE j.kind \notin {"create", "retry", "publish", "serve", "enable", "delete", "remove", "withdraw"}
  <2>1. Avoids(j.todo, Changes)
    BY <1>1, <1>2, <1>3, <1>6 DEF Ordered, Avoids, Puts
  <2>. QED  BY <1>1, <1>2, <2>1 DEF Avoids, Changes
<1>. QED  BY <1>4, <1>5, <1>6

(* An ingress is written, from rows that are still those of the tunnel if the request is alone. *)
LEMMA PutIngressKeeps ==
  ASSUME PublishingInv, NEW c \in Caller, UNCHANGED setting, PutIngress(c)
  PROVE  PublishingInv'
<1>1. PICK x, t, j : x = Head(jobs[c].todo) /\ t = x.tunnel /\ j = jobs[c]
  OBVIOUS
<1>2. PICK i, b : i = [j EXCEPT !.put = j.put \cup {t}] /\ b = [tunnels[t] EXCEPT !.ingress = j.rows]
  OBVIOUS
<1>3. /\ j.st = "running" /\ x.do = "put" /\ UNCHANGED <<routes, dns, issued>>
      /\ \/ Going(c, i) /\ tunnels' = [tunnels EXCEPT ![t] = b] /\ UNCHANGED mishaps
         \/ Thrown(c) /\ (tunnels' = [tunnels EXCEPT ![t] = b] \/ UNCHANGED tunnels) /\ (UNCHANGED mishaps \/ Mishap)
  BY <1>1, <1>2 DEF PutIngress, Doing, Now, Calls
<1>4. /\ PublishingFits /\ j \in Job /\ JobFits(j) /\ x \in TaskRow /\ tunnels \in [Tunnel -> ManagedTunnel]
           /\ dns \in [Host -> Cname]
      /\ issued \in 0..MaxRecord
  BY <1>1, <1>3, Busy
<1>5. t \in Tunnel
  BY <1>1, <1>4, TaskType
<1>6. b \in ManagedTunnel /\ b.ingress = j.rows /\ b.row = tunnels[t].row
  <2>1. tunnels[t] \in ManagedTunnel /\ j.rows \in SUBSET Host
    BY <1>4, <1>5 DEF Job
  <2>. QED  BY <1>2, <2>1 DEF ManagedTunnel
<1>m. mishaps' \in 0..MaxMishap
  BY <1>3, <1>4, MishapType
<1>7. /\ tunnels' \in [Tunnel -> ManagedTunnel] /\ RowsFit' /\ routes' \in [1..MaxRoute -> RouteRow]
      /\ \A y \in Tunnel \ {t} : tunnels'[y] = tunnels[y]
      /\ tunnels'[t] = b \/ tunnels'[t] = tunnels[t]
  <2>1. CASE tunnels' = [tunnels EXCEPT ![t] = b]
    BY <1>3, <1>4, <1>5, <1>6, <2>1, TunnelChanges
  <2>2. CASE UNCHANGED tunnels
    BY <1>3, <1>4, <2>2, SameTunnels
  <2>. QED  BY <1>3, <2>1, <2>2
<1>8. ASSUME ConfigIsOfRows(j) PROVE /\ j.rows = RowsFor(t)
                                     /\ \A y \in j.put : tunnels'[y].ingress = RowsFor(y)
  <2>1. j.todo \in Seq(TaskRow) /\ j.todo # << >>
    BY <1>3, <1>4 DEF JobFits, Job
  <2>2. Len(j.todo) \in Nat /\ Len(j.todo) > 0 /\ x = Left(j.todo, Len(j.todo))
    BY <1>1, <2>1, TailLeft
  <2>3. PICK n : n = Len(j.todo)
    OBVIOUS
  <2>4. n \in 1..Len(j.todo) /\ n = Len(j.todo) /\ Left(j.todo, n).do = "put" /\ Left(j.todo, n).tunnel = t
    BY <1>1, <1>3, <2>2, <2>3
  <2>5. j.rows = RowsFor(t)
    BY <1>8, <2>4 DEF ConfigIsOfRows
  <2>6. j.put \subseteq Tunnel /\ \A y \in j.put : tunnels[y].ingress = RowsFor(y)
    BY <1>4, <1>8 DEF ConfigIsOfRows, Job
  <2>. QED  BY <1>6, <1>7, <2>5, <2>6
<1>9. CASE Going(c, i) /\ tunnels' = [tunnels EXCEPT ![t] = b]
  <2>1. /\ i \in Job /\ i.todo = j.todo /\ i.kind = j.kind /\ i.st = j.st /\ i.route = j.route /\ i.was = j.was
             /\ i.warned = j.warned
        /\ i.alone = j.alone /\ i.put = j.put \cup {t} /\ i.seen = j.seen
    BY <1>2, <1>4, <1>5 DEF Job
  <2>2. ASSUME Gone(jobs[c], i, jobs'[c])
        PROVE  /\ \A y \in i.put : tunnels'[y].ingress = RowsFor(y)'
               /\ \A n \in 1..(Len(jobs[c].todo) - 1) : Left(jobs[c].todo, n).do \notin {"assign", "erase", "unrow",
                    "unmake"}
               /\ jobs[c].kind \in {"create", "retry", "publish", "serve", "enable"} => Serving(jobs[c])'
               /\ jobs[c].kind \in {"delete", "remove", "withdraw"} => Removing(jobs[c])'
    <3>1. /\ ConfigIsOfRows(j)
          /\ jobs[c].kind \in {"create", "retry", "publish", "serve", "enable"} => Serving(jobs[c])
          /\ jobs[c].kind \in {"delete", "remove", "withdraw"} => Removing(jobs[c])
      BY <1>1, <2>2, Tracked
    <3>2. \A y \in i.put : tunnels'[y].ingress = RowsFor(y)
      <4>1. tunnels'[t].ingress = j.rows
        BY <1>4, <1>5, <1>6, <1>9
      <4>. QED  BY <1>8, <2>1, <3>1, <4>1
    <3>3. \A y : RowsFor(y)' = RowsFor(y)
      BY <1>3 DEF RowsFor, RowsOf, Rows
    <3>4. \A n \in 1..(Len(jobs[c].todo) - 1) : Left(jobs[c].todo, n).do \notin {"assign", "erase", "unrow", "unmake"}
      BY <1>1, <1>3, <2>2, PutsLast
    <3>5. jobs[c].kind \in {"create", "retry", "publish", "serve", "enable"} => Serving(jobs[c])'
      <4>1. i.seen = jobs[c].seen /\ jobs[c].put \subseteq i.put /\ x.tunnel \in i.put
        BY <1>1, <2>1
      <4>. QED  BY <1>1, <1>3, <2>2, <3>1, <4>1, ServingMoves
    <3>6. jobs[c].kind \in {"delete", "remove", "withdraw"} => Removing(jobs[c])'
      BY <1>1, <1>3, <2>2, <3>1, RemovingMoves
    <3>. QED  BY <3>2, <3>3, <3>4, <3>5, <3>6
  <2>3. Gone(jobs[c], i, jobs'[c]) =>
        /\ \A y \in i.put : tunnels'[y].ingress = RowsFor(y)'
        /\ x.do = "rows" => i.rows = RowsFor(x.tunnel)'
        /\ \/ i.put = jobs[c].put
           \/ \A n \in 1..(Len(jobs[c].todo) - 1) : Left(jobs[c].todo, n).do \notin {"assign", "erase", "unrow",
                "unmake"}
        /\ jobs[c].kind \in {"create", "retry", "publish", "serve", "enable"} => Serving(jobs[c])'
        /\ jobs[c].kind \in {"delete", "remove", "withdraw"} => Removing(jobs[c])'
    BY <1>3, <2>2
  <2>4. i.st = "running" /\ dns' \in [Host -> Cname] /\ issued' \in 0..MaxRecord /\ jobs[c].st = "running"
    BY <1>1, <1>3, <1>4, <2>1
  <2>5. /\ i.todo = jobs[c].todo /\ i.kind = jobs[c].kind /\ i.route = jobs[c].route /\ i.was = jobs[c].was
        /\ i.warned = jobs[c].warned /\ i.alone = jobs[c].alone /\ x = Head(jobs[c].todo)
    BY <1>1, <2>1
  <2>6. tunnels' \in [Tunnel -> ManagedTunnel] /\ RowsFit' /\ routes' \in [1..MaxRoute -> RouteRow] /\ i \in Job
    BY <1>7, <2>1
  <2>. QED  BY <1>9, <1>m, <2>3, <2>4, <2>5, <2>6, TaskKeeps
<1>10. CASE Thrown(c)
  <2>1. jobs[c].alone /\ ~Fails(jobs[c]) => \A y \in jobs[c].put : tunnels'[y].ingress = RowsFor(y)
    <3>1. jobs[c].alone /\ ~Fails(jobs[c]) => ConfigIsOfRows(jobs[c])
      BY DEF PublishingInv, OnTrack
    <3>. QED  BY <1>1, <1>8, <3>1
  <2>. QED  BY <1>1, <1>3, <1>4, <1>7, <1>10, <1>m, <2>1, ThrownKeeps
<1>. QED  BY <1>3, <1>9, <1>10

(* A call that goes on and leaves the ingresses and the rows they are made of as they are. *)
LEMMA RecordKeeps ==
  ASSUME PublishingInv, NEW c \in Caller, jobs[c].st = "running", NEW i \in Job,
         i.todo = jobs[c].todo, i.kind = jobs[c].kind, i.st = "running", i.route = jobs[c].route, i.was = jobs[c].was,
         i.warned = jobs[c].warned, i.alone = jobs[c].alone, i.put = jobs[c].put,
         Going(c, i), UNCHANGED setting, routes' \in [1..MaxRoute -> RouteRow],
           tunnels' \in [Tunnel -> ManagedTunnel],
         dns' \in [Host -> Cname], issued' \in 0..MaxRecord, mishaps' \in 0..MaxMishap, RowsFit',
         NEW x, x = Head(jobs[c].todo), x.do # "rows",
         \A t \in Tunnel : tunnels'[t].ingress = tunnels[t].ingress,
         \A t \in Tunnel : RowsFor(t)' = RowsFor(t),
         Gone(jobs[c], i, jobs'[c]) =>
           /\ jobs[c].kind \in {"create", "retry", "publish", "serve", "enable"} /\ Serving(jobs[c])
                => Serving(jobs[c])'
           /\ jobs[c].kind \in {"delete", "remove", "withdraw"} /\ Removing(jobs[c]) => Removing(jobs[c])'
  PROVE  PublishingInv'
<1>0. jobs[c] \in Job
  BY Busy
<1>1. ASSUME Gone(jobs[c], i, jobs'[c])
      PROVE  /\ \A t \in i.put : tunnels'[t].ingress = RowsFor(t)'
             /\ jobs[c].kind \in {"create", "retry", "publish", "serve", "enable"} => Serving(jobs[c])'
             /\ jobs[c].kind \in {"delete", "remove", "withdraw"} => Removing(jobs[c])'
  <2>1. /\ ConfigIsOfRows(jobs[c])
        /\ jobs[c].kind \in {"create", "retry", "publish", "serve", "enable"} => Serving(jobs[c])
        /\ jobs[c].kind \in {"delete", "remove", "withdraw"} => Removing(jobs[c])
    BY <1>1, Tracked
  <2>2. jobs[c].put \subseteq Tunnel /\ \A t \in jobs[c].put : tunnels[t].ingress = RowsFor(t)
    BY <1>0, <2>1 DEF ConfigIsOfRows, Job
  <2>. QED  BY <1>1, <2>1, <2>2
<1>2. Gone(jobs[c], i, jobs'[c]) =>
        /\ \A t \in i.put : tunnels'[t].ingress = RowsFor(t)'
        /\ x.do = "rows" => i.rows = RowsFor(x.tunnel)'
        /\ \/ i.put = jobs[c].put
           \/ \A n \in 1..(Len(jobs[c].todo) - 1) : Left(jobs[c].todo, n).do \notin {"assign", "erase", "unrow",
                "unmake"}
        /\ jobs[c].kind \in {"create", "retry", "publish", "serve", "enable"} => Serving(jobs[c])'
        /\ jobs[c].kind \in {"delete", "remove", "withdraw"} => Removing(jobs[c])'
  BY <1>1
<1>. QED  BY <1>2, TaskKeeps

(* What it has seen is kept as well. *)
LEMMA SeenJob ==
  ASSUME NEW j \in Job, NEW v \in Cname, NEW i, i = [j EXCEPT !.seen = v]
  PROVE  /\ i \in Job /\ i.todo = j.todo /\ i.kind = j.kind /\ i.st = j.st /\ i.route = j.route /\ i.was = j.was
              /\ i.warned = j.warned
         /\ i.alone = j.alone /\ i.put = j.put /\ i.seen = v
BY DEF Job

(* A step about the record of a hostname that has no zone changes nothing. *)
LEMMA ServingRests ==
  ASSUME NEW c \in Caller, Gone(jobs[c], jobs[c], jobs'[c]), Serving(jobs[c]), UNCHANGED <<routes, dns>>,
         NEW x, x = Head(jobs[c].todo), x.do \in {"look", "point", "save"}, ~Records(jobs[c].kind),
           jobs[c].kind # "enable"
  PROVE  Serving(jobs[c])'
<1>1. PICK a \in 1..11, s \in 1..11, u \in 1..11, h \in Host, t \in Tunnel :
        ServingTasks(jobs[c], a, s, u, h, t) /\ ServingState(jobs[c], a, s, u, h, t)
  BY DEF Serving
<1>2. PICK n, r : At(jobs[c], n, r, x)
  BY DEF At
<1>3. ServingNow(jobs[c].kind, n, x, a, s, u, h, t)
  BY <1>1, <1>2, ServingAt
<1>4. /\ n < a => RowIs(r, h, t) /\ (jobs[c].kind # "enable" => routes[r].enabled)
      /\ n >= a /\ jobs[c].was.st = "live" => r \in Rows
      /\ n < u => t \in jobs[c].put
  BY <1>1, <1>2 DEF ServingState, At
<1>5. n # a /\ n # u
  BY <1>3 DEF ServingNow
<1>6. n <= a => RowIs(r, h, t)' /\ (jobs[c].kind # "enable" => routes'[r].enabled)
  BY <1>3, <1>4, <1>5 DEF ServingNow, RowIs, Rows
<1>7. n > a /\ jobs[c].was.st = "live" => r \in Rows'
  BY <1>3, <1>4 DEF ServingNow, Rows
<1>8. n <= u => t \in jobs[c].put
  BY <1>3, <1>4, <1>5 DEF ServingNow
<1>9. jobs[c].kind \in {"publish", "serve", "enable"} => n # 1
  BY <1>3 DEF ServingNow
<1>10. ServesNext(c, jobs[c], a, s, u, h, t, n, r)
  BY <1>6, <1>7, <1>8, <1>9 DEF ServesNext
<1>. QED  BY <1>1, <1>2, <1>10, ServingGoes

(* Nor does a removal go back on anything when it leaves the record alone. *)
LEMMA RemovingRests ==
  ASSUME NEW c \in Caller, Gone(jobs[c], jobs[c], jobs'[c]), Removing(jobs[c]), UNCHANGED <<routes, dns>>,
         NEW x, x = Head(jobs[c].todo), x.do \in {"look", "point", "save", "drop"}, ~Cleans(jobs[c]),
         x.do = "look" => jobs[c].kind = "withdraw"
  PROVE  Removing(jobs[c])'
<1>1. PICK n, r, h, t : At(jobs[c], n, r, x) /\ h = jobs[c].was.host /\ t = jobs[c].was.tunnel
  BY DEF At
<1>2. RemovingNow(n, x, h, t)
  BY <1>1, RemovingAt
<1>3. n \in {4, 5} /\ (n = 5 => jobs[c].kind = "withdraw")
  BY <1>2 DEF RemovingNow
<1>4. r \in Rows /\ routes[r].host = h
  <2>1. n >= 3 => r \in Rows /\ routes[r].host = h
    BY <1>1 DEF Removing, At
  <2>. QED  BY <1>3, <2>1
<1>5. r \in Rows' /\ routes'[r].host = h
  BY <1>4 DEF Rows
<1>6. ~(n <= 3)
  BY <1>3
<1>7. RemovesNext(c, jobs[c], n, r, h, t)
  BY <1>3, <1>5, <1>6 DEF RemovesNext
<1>. QED  BY <1>1, <1>7, RemovingGoes

(* A request goes on past a record it has no zone for. *)
LEMMA UnrecordedKeeps ==
  ASSUME PublishingInv, NEW c \in Caller, UNCHANGED <<setting, routes, tunnels, dns, issued, mishaps>>,
         jobs[c].st = "running", Going(c, jobs[c]), NEW x, x = Head(jobs[c].todo),
           x.do \in {"look", "point", "save", "drop"},
         Zoneless(jobs[c]) \/ (x.do = "drop" /\ ~Zoned(jobs[c]))
  PROVE  PublishingInv'
<1>1. /\ PublishingFits /\ jobs[c] \in Job /\ tunnels \in [Tunnel -> ManagedTunnel] /\ dns \in [Host -> Cname]
      /\ issued \in 0..MaxRecord /\ mishaps \in 0..MaxMishap
  BY Busy
<1>2. /\ tunnels' \in [Tunnel -> ManagedTunnel] /\ RowsFit' /\ routes' \in [1..MaxRoute -> RouteRow]
      /\ \A y \in Tunnel : tunnels'[y].ingress = tunnels[y].ingress
  BY <1>1, SameTunnels
<1>3. \A t \in Tunnel : RowsFor(t)' = RowsFor(t)
  BY DEF RowsFor, RowsOf, Rows
<1>4. ASSUME Gone(jobs[c], jobs[c], jobs'[c]), jobs[c].kind \in {"create", "retry", "publish", "serve", "enable"},
               Serving(jobs[c])
      PROVE  Serving(jobs[c])'
  <2>1. CASE x.do = "drop"
    BY <1>4, <2>1, ServingMoves
  <2>2. CASE x.do # "drop"
    <3>1. jobs[c].kind = "serve"
      BY <1>4, <2>2 DEF Zoneless
    <3>2. ~Records(jobs[c].kind) /\ jobs[c].kind # "enable" /\ x.do \in {"look", "point", "save"}
      BY <2>2, <3>1 DEF Records
    <3>. QED  BY <1>4, <3>2, ServingRests
  <2>. QED  BY <2>1, <2>2
<1>5. ASSUME Gone(jobs[c], jobs[c], jobs'[c]), jobs[c].kind \in {"delete", "remove", "withdraw"}, Removing(jobs[c])
      PROVE  Removing(jobs[c])'
  <2>1. ~Cleans(jobs[c]) /\ (x.do = "look" => jobs[c].kind = "withdraw")
    BY <1>5 DEF Cleans, Zoneless
  <2>. QED  BY <1>5, <2>1, RemovingRests
<1>6. x.do # "rows"
  OBVIOUS
<1>7. dns' \in [Host -> Cname] /\ issued' \in 0..MaxRecord /\ mishaps' \in 0..MaxMishap
  BY <1>1
<1>. QED  BY <1>1, <1>2, <1>3, <1>4, <1>5, <1>6, <1>7, RecordKeeps

(* A record is looked up: what was seen is what there is. *)
LEMMA LookUpKeeps ==
  ASSUME PublishingInv, NEW c \in Caller, UNCHANGED setting, LookUp(c)
  PROVE  PublishingInv'
<1>1. PICK x, h, i : x = Head(jobs[c].todo) /\ h = x.host /\ i = [jobs[c] EXCEPT !.seen = dns[h]]
  OBVIOUS
<1>2. /\ jobs[c].st = "running" /\ x.do = "look" /\ UNCHANGED <<routes, tunnels, dns, issued>>
      /\ Going(c, i) \/ Thrown(c) \/ (Zoneless(jobs[c]) /\ Going(c, jobs[c]) /\ UNCHANGED mishaps)
      /\ UNCHANGED mishaps \/ Mishap
  BY <1>1 DEF LookUp, Doing, Now, Rest, Calls
<1>3. /\ PublishingFits /\ jobs[c] \in Job /\ x \in TaskRow /\ dns \in [Host -> Cname] /\ issued \in 0..MaxRecord
  BY <1>1, <1>2, Busy
<1>4. h \in Host
  BY <1>1, <1>2, <1>3, TaskType
<1>5. /\ tunnels' \in [Tunnel -> ManagedTunnel] /\ RowsFit' /\ routes' \in [1..MaxRoute -> RouteRow]
      /\ \A y \in Tunnel : tunnels'[y].ingress = tunnels[y].ingress
  BY <1>2, <1>3, SameTunnels
<1>6. mishaps' \in 0..MaxMishap /\ dns' \in [Host -> Cname] /\ issued' \in 0..MaxRecord
  BY <1>2, <1>3, MishapType
<1>7. CASE Going(c, i)
  <2>1. dns[h] \in Cname
    BY <1>3, <1>4
  <2>2. /\ i \in Job /\ i.todo = jobs[c].todo /\ i.kind = jobs[c].kind /\ i.st = jobs[c].st /\ i.route = jobs[c].route
        /\ i.was = jobs[c].was /\ i.warned = jobs[c].warned /\ i.alone = jobs[c].alone /\ i.put = jobs[c].put
             /\ i.seen = dns[h]
    BY <1>1, <1>3, <2>1, SeenJob
  <2>3. ASSUME Gone(jobs[c], i, jobs'[c]), Serving(jobs[c]) PROVE Serving(jobs[c])'
    BY <1>1, <1>2, <2>2, <2>3, ServingMoves
  <2>4. ASSUME Gone(jobs[c], i, jobs'[c]), Removing(jobs[c]) PROVE Removing(jobs[c])'
    <3>1. PICK n, r, g, t : At(jobs[c], n, r, x) /\ g = jobs[c].was.host /\ t = jobs[c].was.tunnel
      BY <1>1 DEF At
    <3>2. n = 5 /\ h = g
      <4>1. RemovingNow(n, x, g, t)
        BY <2>4, <3>1, RemovingAt
      <4>2. n = 5
        BY <1>2, <4>1 DEF RemovingNow
      <4>. QED  BY <1>1, <4>1, <4>2 DEF RemovingNow
    <3>3. /\ g \in Host /\ t \in Tunnel
          /\ n >= 3 => r \in Rows /\ routes[r].host = g
          /\ n = 4 /\ jobs[c].kind # "withdraw" /\ (jobs[c].kind = "remove" \/ jobs[c].was.record = 0)
               => jobs[c].seen = dns[g]
          /\ n <= 3 /\ Cleans(jobs[c]) => /\ jobs[c].was.record # 0 => dns[g].id # jobs[c].was.record
                                          /\ jobs[c].was.record = 0 => dns[g].target # t
          /\ n <= 2 => r \notin Rows
      BY <2>4, <3>1 DEF Removing, At
    <3>4. r \in Rows' /\ routes'[r].host = g
      BY <1>2, <3>2, <3>3 DEF Rows
    <3>5. ~(n <= 4) /\ ~(n <= 3) /\ i.seen = dns'[g]
      BY <1>2, <2>2, <3>2
    <3>6. RemovesNext(c, i, n, r, g, t)
      BY <3>4, <3>5 DEF RemovesNext
    <3>. QED  BY <2>4, <3>1, <3>6, RemovingGoes
  <2>5. \A t \in Tunnel : RowsFor(t)' = RowsFor(t)
    BY <1>2 DEF RowsFor, RowsOf, Rows
  <2>6. i.st = "running" /\ x.do # "rows"
    BY <1>2, <2>2
  <2>. QED  BY <1>1, <1>2, <1>5, <1>6, <1>7, <2>2, <2>3, <2>4, <2>5, <2>6, RecordKeeps
<1>8. CASE Thrown(c)
  BY <1>1, <1>2, <1>5, <1>6, <1>8, QuietThrow
<1>9. CASE Zoneless(jobs[c]) /\ Going(c, jobs[c]) /\ UNCHANGED mishaps
  BY <1>1, <1>2, <1>9, UnrecordedKeeps
<1>. QED  BY <1>2, <1>7, <1>8, <1>9

(* The record of the hostname after deleteTunnelDnsRecord or deleteDnsRecordForRoute has succeeded. *)
LEMMA DroppedRecord ==
  ASSUME NEW j, NEW t \in Tunnel, NEW d \in Cname, d.id = 0 => d = NoCname, j.kind \in {"delete", "remove"},
           j.was.tunnel = t,
         j.kind = "remove" \/ j.was.record = 0 => j.seen = d, NEW e,
         LET i == Matches(j, t) IN
           \/ i = 0 /\ e = d
           \/ d.id = i /\ e = NoCname
           \/ j.kind = "delete" /\ d.id # i /\ e = d
  PROVE  /\ j.was.record # 0 => e.id # j.was.record
         /\ j.was.record = 0 => e.target # t
<1>0. "none" # t
  BY PublishingAssumption
<1>1. CASE j.kind = "delete" /\ j.was.record # 0
  BY <1>1, NoneTypes DEF Matches
<1>2. CASE j.kind = "delete" /\ j.was.record = 0
  <2>1. j.seen = d /\ Matches(j, t) = IF d.target = t THEN d.id ELSE 0
    BY <1>2 DEF Matches
  <2>. QED  BY <1>0, <1>2, <2>1, NoneTypes
<1>3. CASE j.kind = "remove"
  <2>1. j.seen = d /\ Matches(j, t) = IF d.target = t \/ d.id = j.was.record THEN d.id ELSE 0
    BY <1>3 DEF Matches
  <2>. QED  BY <1>0, <1>3, <2>1, NoneTypes
<1>. QED  BY <1>1, <1>2, <1>3

(* A record is removed, or is not the one to remove. *)
LEMMA DropRecordKeeps ==
  ASSUME PublishingInv, NEW c \in Caller, UNCHANGED setting, DropRecord(c)
  PROVE  PublishingInv'
<1>1. PICK x, h, m : x = Head(jobs[c].todo) /\ h = x.host /\ m = Matches(jobs[c], x.tunnel)
  OBVIOUS
<1>2. /\ jobs[c].st = "running" /\ x.do = "drop" /\ UNCHANGED <<routes, tunnels, issued>>
      /\ \/ /\ Going(c, jobs[c])
            /\ \/ m = 0 /\ UNCHANGED dns
               \/ dns[h].id = m /\ dns' = [dns EXCEPT ![h] = NoCname]
               \/ jobs[c].kind = "delete" /\ dns[h].id # m /\ UNCHANGED dns
         \/ Thrown(c) /\ (dns' = [dns EXCEPT ![h] = NoCname] \/ UNCHANGED dns)
         \/ (Zoneless(jobs[c]) \/ ~Zoned(jobs[c])) /\ Going(c, jobs[c]) /\ UNCHANGED <<dns, mishaps>>
      /\ UNCHANGED mishaps \/ Mishap
  BY <1>1 DEF DropRecord, Doing, Now, Calls
<1>3. /\ PublishingFits /\ RowsFit /\ jobs[c] \in Job /\ x \in TaskRow /\ dns \in [Host -> Cname]
           /\ issued \in 0..MaxRecord
  BY <1>1, <1>2, Busy
<1>4. h \in Host /\ x.tunnel \in Tunnel
  BY <1>1, <1>2, <1>3, TaskType
<1>5. /\ dns' \in [Host -> Cname] /\ RowsFit' /\ routes' \in [1..MaxRoute -> RouteRow]
      /\ tunnels' \in [Tunnel -> ManagedTunnel] /\ \A y \in Tunnel : tunnels'[y].ingress = tunnels[y].ingress
  BY <1>2, <1>3, <1>4, NoneTypes, RecordChanges
<1>6. mishaps' \in 0..MaxMishap /\ issued' \in 0..MaxRecord
  BY <1>2, <1>3, MishapType
<1>7. CASE /\ Going(c, jobs[c])
           /\ \/ m = 0 /\ UNCHANGED dns
              \/ dns[h].id = m /\ dns' = [dns EXCEPT ![h] = NoCname]
              \/ jobs[c].kind = "delete" /\ dns[h].id # m /\ UNCHANGED dns
  <2>1. ASSUME Gone(jobs[c], jobs[c], jobs'[c]), Serving(jobs[c]) PROVE Serving(jobs[c])'
    BY <1>1, <1>2, <2>1, ServingMoves
  <2>2. ASSUME Gone(jobs[c], jobs[c], jobs'[c]), jobs[c].kind \in {"delete", "remove", "withdraw"}, Removing(jobs[c])
        PROVE  Removing(jobs[c])'
    <3>0. Removing(jobs[c])
      BY <2>2
    <3>1. PICK n, r, g, t : At(jobs[c], n, r, x) /\ g = jobs[c].was.host /\ t = jobs[c].was.tunnel
      BY <1>1 DEF At
    <3>2. n = 4 /\ h = g /\ x.tunnel = t
      <4>1. RemovingNow(n, x, g, t)
        BY <2>2, <3>1, RemovingAt
      <4>2. n = 4
        BY <1>2, <4>1 DEF RemovingNow
      <4>. QED  BY <1>1, <4>1, <4>2 DEF RemovingNow
    <3>3. /\ g \in Host /\ t \in Tunnel
          /\ n >= 3 => r \in Rows /\ routes[r].host = g
          /\ n = 4 /\ jobs[c].kind # "withdraw" /\ (jobs[c].kind = "remove" \/ jobs[c].was.record = 0)
               => jobs[c].seen = dns[g]
          /\ n <= 3 /\ Cleans(jobs[c]) => /\ jobs[c].was.record # 0 => dns[g].id # jobs[c].was.record
                                          /\ jobs[c].was.record = 0 => dns[g].target # t
          /\ n <= 2 => r \notin Rows
      BY <3>0, <3>1 DEF Removing, At
    <3>4. r \in Rows' /\ routes'[r].host = g
      BY <1>2, <3>2, <3>3 DEF Rows
    <3>5. ASSUME Cleans(jobs[c])
          PROVE  /\ jobs[c].was.record # 0 => dns'[g].id # jobs[c].was.record
                 /\ jobs[c].was.record = 0 => dns'[g].target # t
      <4>0. jobs[c].kind # "withdraw"
        BY <3>5 DEF Cleans, Zoneless
      <4>1. PICK d, e, j : d = dns[g] /\ e = dns'[g] /\ j = jobs[c]
        OBVIOUS
      <4>2. d \in Cname /\ (d.id = 0 => d = NoCname)
        BY <1>3, <3>3, <4>1 DEF RowsFit
      <4>3. j.kind = "remove" \/ j.was.record = 0 => j.seen = d
        BY <3>2, <3>3, <4>0, <4>1
      <4>4. LET i == Matches(j, t) IN
              \/ i = 0 /\ e = d
              \/ d.id = i /\ e = NoCname
              \/ j.kind = "delete" /\ d.id # i /\ e = d
        BY <1>1, <1>3, <1>4, <1>7, <3>2, <4>1
      <4>5. j.kind \in {"delete", "remove"} /\ j.was.tunnel = t
        BY <2>2, <3>1, <4>0, <4>1
      <4>6. /\ j.was.record # 0 => e.id # j.was.record
            /\ j.was.record = 0 => e.target # t
        BY <3>3, <4>2, <4>3, <4>4, <4>5, DroppedRecord
      <4>. QED  BY <4>1, <4>6
    <3>6. ~(n <= 3) /\ n # 5
      BY <3>2
    <3>7. RemovesNext(c, jobs[c], n, r, g, t)
      BY <3>4, <3>5, <3>6 DEF RemovesNext
    <3>. QED  BY <2>2, <3>1, <3>7, RemovingGoes
  <2>3. \A t \in Tunnel : RowsFor(t)' = RowsFor(t)
    BY <1>2 DEF RowsFor, RowsOf, Rows
  <2>. QED  BY <1>1, <1>2, <1>3, <1>5, <1>6, <1>7, <2>1, <2>2, <2>3, RecordKeeps
<1>8. CASE Thrown(c)
  BY <1>1, <1>2, <1>5, <1>6, <1>8, QuietThrow
<1>9. CASE (Zoneless(jobs[c]) \/ ~Zoned(jobs[c])) /\ Going(c, jobs[c]) /\ UNCHANGED <<dns, mishaps>>
  BY <1>1, <1>2, <1>9, UnrecordedKeeps
<1>. QED  BY <1>2, <1>7, <1>8, <1>9

(* A request that only enables a row points and saves no record. *)
LEMMA ServingPoint ==
  ASSUME NEW c \in Caller, NEW i, Gone(jobs[c], i, jobs'[c]), Serving(jobs[c]), NEW x, x = Head(jobs[c].todo),
         x.do \in {"point", "save"}
  PROVE  jobs[c].kind # "enable"
<1>1. PICK a \in 1..11, s \in 1..11, u \in 1..11, h \in Host, t \in Tunnel : ServingTasks(jobs[c], a, s, u, h, t)
  BY DEF Serving
<1>2. PICK n, r : At(jobs[c], n, r, x)
  BY DEF At
<1>3. ServingNow(jobs[c].kind, n, x, a, s, u, h, t)
  BY <1>1, <1>2, ServingAt
<1>. QED  BY <1>3 DEF ServingNow

(* A request that serves a hostname points and saves the record of the hostname of its row. *)
LEMMA ServingPoints ==
  ASSUME NEW c \in Caller, NEW i, Gone(jobs[c], i, jobs'[c]), Serving(jobs[c]), NEW x, x = Head(jobs[c].todo),
         x.do = "point", Records(jobs[c].kind), UNCHANGED routes, i.put = jobs[c].put,
         jobs[c].seen = dns[x.host] => dns'[x.host] = [id |-> i.seen.id, target |-> x.tunnel]
  PROVE  Serving(jobs[c])'
<1>1. PICK a \in 1..11, s \in 1..11, u \in 1..11, h \in Host, t \in Tunnel :
        ServingTasks(jobs[c], a, s, u, h, t) /\ ServingState(jobs[c], a, s, u, h, t)
  BY DEF Serving
<1>2. PICK n, r : At(jobs[c], n, r, x)
  BY DEF At
<1>3. ServingNow(jobs[c].kind, n, x, a, s, u, h, t)
  BY <1>1, <1>2, ServingAt
<1>4. /\ n < a => RowIs(r, h, t) /\ (jobs[c].kind # "enable" => routes[r].enabled)
      /\ n < u => t \in jobs[c].put
      /\ n = s + 1 => jobs[c].seen = dns[h]
  BY <1>1, <1>2 DEF ServingState, At, Records
<1>5. n = s + 1 /\ jobs[c].kind # "enable" /\ n < a /\ n # u /\ x.host = h /\ x.tunnel = t
  BY <1>3 DEF ServingNow
<1>6. ~(n > a) /\ n # s + 2 /\ ~(n <= s) /\ n # 1
  BY <1>5
<1>7. RowIs(r, h, t)' /\ routes'[r].enabled
  BY <1>4, <1>5 DEF RowIs, Rows
<1>8. n <= u => t \in i.put
  <2>1. n <= u => n < u
    BY <1>5
  <2>. QED  BY <1>4, <1>5, <2>1
<1>9. dns'[h] = [id |-> i.seen.id, target |-> t]
  BY <1>4, <1>5
<1>10. ServesNext(c, i, a, s, u, h, t, n, r)
  BY <1>6, <1>7, <1>8, <1>9 DEF ServesNext
<1>. QED  BY <1>1, <1>2, <1>10, ServingGoes

(* A record that is there already, or has just been written, points to the tunnel. *)
LEMMA PointKeeps ==
  ASSUME PublishingInv, NEW c \in Caller, UNCHANGED setting, Point(c)
  PROVE  PublishingInv'
<1>1. PICK x, h, t, s, new : /\ x = Head(jobs[c].todo) /\ h = x.host /\ t = x.tunnel /\ s = jobs[c].seen
                             /\ new = [id |-> issued + 1, target |-> t]
  OBVIOUS
<1>2. PICK i : i = [jobs[c] EXCEPT !.seen = new]
  OBVIOUS
<1>0. CASE Zoneless(jobs[c])
  <2>1. /\ jobs[c].st = "running" /\ x.do = "point" /\ UNCHANGED <<routes, tunnels, dns, issued, mishaps>>
        /\ Going(c, jobs[c])
    BY <1>0, <1>1 DEF Point, Doing, Now
  <2>. QED  BY <1>0, <1>1, <2>1, UnrecordedKeeps
<1> SUFFICES ASSUME ~Zoneless(jobs[c]) PROVE PublishingInv'
  BY <1>0
<1>3. /\ jobs[c].st = "running" /\ x.do = "point" /\ UNCHANGED <<routes, tunnels>>
      /\ \/ UpToDate(s, t) /\ Going(c, jobs[c]) /\ UNCHANGED <<dns, issued, mishaps>>
         \/ /\ s.id # 0 /\ dns[h].id = s.id /\ UNCHANGED issued
            /\ \/ dns' = [dns EXCEPT ![h].target = t] /\ Going(c, jobs[c]) /\ UNCHANGED mishaps
               \/ (dns' = [dns EXCEPT ![h].target = t] \/ UNCHANGED dns) /\ Thrown(c) /\ Mishap
         \/ /\ issued < MaxRecord
            /\ \/ dns' = [dns EXCEPT ![h] = new] /\ issued' = issued + 1 /\ Going(c, i) /\ UNCHANGED mishaps
               \/ ((dns' = [dns EXCEPT ![h] = new] /\ issued' = issued + 1) \/ UNCHANGED <<dns, issued>>)
                    /\ Thrown(c) /\ Mishap
         \/ Thrown(c) /\ UNCHANGED <<dns, issued, mishaps>>
  BY <1>1, <1>2 DEF Point, Doing, Now, Calls
<1>4. /\ PublishingFits /\ RowsFit /\ jobs[c] \in Job /\ x \in TaskRow /\ dns \in [Host -> Cname]
           /\ issued \in 0..MaxRecord
  BY <1>1, <1>3, Busy
<1>5. h \in Host /\ t \in Tunnel
  BY <1>1, <1>3, <1>4, TaskType
<1>6. PICK old : old = [dns[h] EXCEPT !.target = t]
  OBVIOUS
<1>7. /\ dns[h] \in Cname /\ old \in Cname /\ old.id = dns[h].id /\ old.target = t
      /\ issued < MaxRecord => new \in Cname /\ new.id # 0 /\ issued + 1 \in 0..MaxRecord
  <2>1. dns[h] \in Cname
    BY <1>4, <1>5
  <2>2. issued < MaxRecord => issued + 1 \in 0..MaxRecord /\ issued + 1 # 0
    BY <1>4, PublishingAssumption
  <2>. QED  BY <1>1, <1>5, <1>6, <2>1, <2>2 DEF Cname
<1>8. /\ dns' \in [Host -> Cname] /\ RowsFit' /\ routes' \in [1..MaxRoute -> RouteRow]
      /\ tunnels' \in [Tunnel -> ManagedTunnel] /\ \A y \in Tunnel : tunnels'[y].ingress = tunnels[y].ingress
  <2>1. \/ UNCHANGED dns
        \/ dns[h].id # 0 /\ dns' = [dns EXCEPT ![h] = old]
        \/ issued < MaxRecord /\ dns' = [dns EXCEPT ![h] = new]
    BY <1>3, <1>6
  <2>2. CASE UNCHANGED dns
    BY <1>3, <1>4, <1>5, <1>7, <2>2, NoneTypes, RecordChanges
  <2>3. CASE dns[h].id # 0 /\ dns' = [dns EXCEPT ![h] = old]
    BY <1>3, <1>4, <1>5, <1>7, <2>3, RecordChanges
  <2>4. CASE issued < MaxRecord /\ dns' = [dns EXCEPT ![h] = new]
    BY <1>3, <1>4, <1>5, <1>7, <2>4, RecordChanges
  <2>. QED  BY <2>1, <2>2, <2>3, <2>4
<1>9. mishaps' \in 0..MaxMishap /\ issued' \in 0..MaxRecord
  <2>1. UNCHANGED mishaps \/ Mishap
    BY <1>3
  <2>2. UNCHANGED issued \/ (issued < MaxRecord /\ issued' = issued + 1)
    BY <1>3
  <2>. QED  BY <1>4, <1>7, <2>1, <2>2, MishapType
<1>10. \A y \in Tunnel : RowsFor(y)' = RowsFor(y)
  BY <1>3 DEF RowsFor, RowsOf, Rows
<1>11. ASSUME NEW k \in Job, Going(c, k), k.todo = jobs[c].todo, k.kind = jobs[c].kind, k.st = jobs[c].st,
              k.route = jobs[c].route, k.was = jobs[c].was, k.warned = jobs[c].warned, k.alone = jobs[c].alone,
              k.put = jobs[c].put, jobs[c].seen = dns[h] => dns'[h] = [id |-> k.seen.id, target |-> t]
       PROVE  PublishingInv'
  <2>1. ASSUME Gone(jobs[c], k, jobs'[c]), jobs[c].kind \in {"create", "retry", "publish", "serve", "enable"},
                 Serving(jobs[c])
        PROVE  Serving(jobs[c])'
    <3>0. Records(jobs[c].kind)
      <4>1. jobs[c].kind # "serve"
        BY DEF Zoneless
      <4>2. jobs[c].kind # "enable"
        BY <1>1, <1>3, <2>1, ServingPoint
      <4>. QED  BY <4>1, <4>2 DEF Records
    <3>1. jobs[c].seen = dns[x.host] => dns'[x.host] = [id |-> k.seen.id, target |-> x.tunnel]
      BY <1>1, <1>11
    <3>. QED  BY <1>1, <1>3, <1>11, <2>1, <3>0, <3>1, ServingPoints
  <2>2. ASSUME Gone(jobs[c], k, jobs'[c]), Removing(jobs[c]) PROVE FALSE
    <3>1. PICK n, r : At(jobs[c], n, r, x)
      BY <1>1 DEF At
    <3>2. RemovingNow(n, x, jobs[c].was.host, jobs[c].was.tunnel)
      BY <2>2, <3>1, RemovingAt
    <3>. QED  BY <1>3, <3>2 DEF RemovingNow
  <2>3. k.st = "running" /\ x.do # "rows"
    BY <1>3, <1>11
  <2>. QED  BY <1>1, <1>3, <1>8, <1>9, <1>10, <1>11, <2>1, <2>2, <2>3, RecordKeeps
<1>12. CASE UpToDate(s, t) /\ Going(c, jobs[c]) /\ UNCHANGED dns
  <2>1. dns[h].target = t => dns[h] = [id |-> dns[h].id, target |-> t]
    BY <1>7 DEF Cname
  <2>2. jobs[c].seen = dns[h] => dns'[h] = [id |-> jobs[c].seen.id, target |-> t]
    BY <1>1, <1>12, <2>1 DEF UpToDate
  <2>. QED  BY <1>4, <1>11, <1>12, <2>2
<1>13. CASE dns' = [dns EXCEPT ![h].target = t] /\ Going(c, jobs[c])
  <2>1. dns'[h] = old
    BY <1>4, <1>5, <1>6, <1>13
  <2>2. old = [id |-> dns[h].id, target |-> t]
    BY <1>7 DEF Cname
  <2>3. jobs[c].seen = dns[h] => dns'[h] = [id |-> jobs[c].seen.id, target |-> t]
    BY <2>1, <2>2
  <2>. QED  BY <1>4, <1>11, <1>13, <2>3
<1>14. CASE issued < MaxRecord /\ dns' = [dns EXCEPT ![h] = new] /\ Going(c, i)
  <2>1. /\ i \in Job /\ i.todo = jobs[c].todo /\ i.kind = jobs[c].kind /\ i.st = jobs[c].st /\ i.route = jobs[c].route
        /\ i.was = jobs[c].was /\ i.warned = jobs[c].warned /\ i.alone = jobs[c].alone /\ i.put = jobs[c].put
             /\ i.seen = new
    BY <1>2, <1>4, <1>7, <1>14, SeenJob
  <2>2. dns'[h] = [id |-> i.seen.id, target |-> t]
    BY <1>1, <1>4, <1>5, <1>14, <2>1
  <2>. QED  BY <1>11, <1>14, <2>1, <2>2
<1>15. CASE Thrown(c)
  <2>1. x.do \notin {"rows", "erase", "unmake"} /\ UNCHANGED <<setting, routes>>
    BY <1>3
  <2>. QED  BY <1>1, <1>3, <1>8, <1>9, <1>15, <2>1, QuietThrow
<1>. QED  BY <1>3, <1>12, <1>13, <1>14, <1>15

(* A row keeps what is served: its record changes. *)
LEMMA SameRowsFor ==
  ASSUME PublishingFits, NEW r \in Rows, NEW row \in RouteRow, RowChanged(r, row), row.st = "live",
         row.host = routes[r].host, row.tunnel = routes[r].tunnel, row.enabled = routes[r].enabled
  PROVE  \A t \in Tunnel : RowsFor(t)' = RowsFor(t)
<1>1. /\ r \in 1..MaxRoute /\ routes[r].st = "live" /\ routes'[r] = row
           /\ \A q \in (1..MaxRoute) \ {r} : routes'[q] = routes[q]
  BY LiveRow DEF RowChanged
<1>2. \A q \in 1..MaxRoute : /\ routes'[q].st = "live" <=> routes[q].st = "live"
                             /\ routes'[q].host = routes[q].host /\ routes'[q].tunnel = routes[q].tunnel
                             /\ routes'[q].enabled = routes[q].enabled
  BY <1>1
<1>3. Rows' = Rows
  BY <1>2 DEF Rows
<1>4. \A q \in Rows : q \in 1..MaxRoute
  BY DEF Rows
<1> SUFFICES ASSUME NEW t \in Tunnel PROVE RowsFor(t)' = RowsFor(t)
  OBVIOUS
<1>5. RowsOf(t)' = RowsOf(t)
  BY <1>2, <1>3, <1>4 DEF RowsOf
<1>6. \A q \in RowsOf(t) : q \in 1..MaxRoute
  BY <1>4 DEF RowsOf
<1>7. {q \in RowsOf(t) : routes'[q].enabled} = {q \in RowsOf(t) : routes[q].enabled}
  BY <1>2, <1>6
<1>8. \A q \in {p \in RowsOf(t) : routes[p].enabled} : routes'[q].host = routes[q].host
  BY <1>2, <1>6
<1>. QED  BY <1>5, <1>7, <1>8 DEF RowsFor

(* A row that has saved its record serves its hostname. *)
LEMMA ServingSaves ==
  ASSUME PublishingFits, NEW c \in Caller, Gone(jobs[c], jobs[c], jobs'[c]), Serving(jobs[c]), NEW x,
           x = Head(jobs[c].todo),
         x.do = "save", Records(jobs[c].kind), UNCHANGED dns, NEW w, w = jobs[c].route,
         w \in Rows => RowChanged(w, [routes[w] EXCEPT !.record = jobs[c].seen.id]),
         w \in Rows => [routes[w] EXCEPT !.record = jobs[c].seen.id] \in RouteRow
  PROVE  Serving(jobs[c])'
<1>1. PICK a \in 1..11, s \in 1..11, u \in 1..11, h \in Host, t \in Tunnel :
        ServingTasks(jobs[c], a, s, u, h, t) /\ ServingState(jobs[c], a, s, u, h, t)
  BY DEF Serving
<1>2. PICK n, r : At(jobs[c], n, r, x)
  BY DEF At
<1>3. ServingNow(jobs[c].kind, n, x, a, s, u, h, t)
  BY <1>1, <1>2, ServingAt
<1>4. /\ n < a => RowIs(r, h, t) /\ (jobs[c].kind # "enable" => routes[r].enabled)
      /\ n < u => t \in jobs[c].put
      /\ n = s => dns[h] = [id |-> jobs[c].seen.id, target |-> t]
  BY <1>1, <1>2 DEF ServingState, At, Records
<1>5. n = s /\ jobs[c].kind # "enable" /\ n < a /\ n # u
  BY <1>3 DEF ServingNow
<1>6. r = w /\ r \in Rows /\ routes[r].host = h /\ routes[r].tunnel = t /\ routes[r].enabled
  BY <1>2, <1>4, <1>5 DEF RowIs, At
<1>7. PICK row : row = [routes[r] EXCEPT !.record = jobs[c].seen.id]
  OBVIOUS
<1>8. /\ row.host = h /\ row.tunnel = t /\ row.enabled /\ row.record = jobs[c].seen.id /\ row.st = "live"
           /\ r \in 1..MaxRoute
  BY <1>6, <1>7, LiveRow DEF RouteRow
<1>9. routes'[r] = row
  BY <1>6, <1>7 DEF RowChanged
<1>10. RowIs(r, h, t)' /\ routes'[r].enabled /\ routes'[r].record = jobs[c].seen.id
  BY <1>8, <1>9 DEF RowIs, Rows
<1>11. n <= u => t \in jobs[c].put
  <2>1. n <= u => n < u
    BY <1>3, <1>5 DEF ServingNow
  <2>. QED  BY <1>4, <1>5, <2>1
<1>12. dns'[h] = [id |-> routes'[r].record, target |-> t]
  BY <1>4, <1>5, <1>10
<1>13. ~(n > a) /\ n # s + 2 /\ n # s + 1
  BY <1>5
<1>14. jobs[c].kind \in {"publish", "serve", "enable"} => n # 1
  BY <1>3, <1>5 DEF ServingNow
<1>15. ServesNext(c, jobs[c], a, s, u, h, t, n, r)
  BY <1>10, <1>11, <1>12, <1>13, <1>14 DEF ServesNext
<1>. QED  BY <1>1, <1>2, <1>15, ServingGoes

(* The id of a record is saved in the row. *)
LEMMA SaveRecordKeeps ==
  ASSUME PublishingInv, NEW c \in Caller, UNCHANGED setting, SaveRecord(c)
  PROVE  PublishingInv'
<1>1. PICK x, r, row : x = Head(jobs[c].todo) /\ r = jobs[c].route
             /\ row = [routes[r] EXCEPT !.record = jobs[c].seen.id]
  OBVIOUS
<1>0. CASE Zoneless(jobs[c])
  <2>1. /\ jobs[c].st = "running" /\ x.do = "save" /\ UNCHANGED <<routes, tunnels, dns, issued, mishaps>>
        /\ Going(c, jobs[c])
    BY <1>0, <1>1 DEF SaveRecord, Doing, Rest
  <2>. QED  BY <1>0, <1>1, <2>1, UnrecordedKeeps
<1> SUFFICES ASSUME ~Zoneless(jobs[c]) PROVE PublishingInv'
  BY <1>0
<1>2. /\ jobs[c].st = "running" /\ x.do = "save" /\ UNCHANGED <<tunnels, dns, issued, mishaps>> /\ Going(c, jobs[c])
      /\ IF r \in Rows THEN Change(r, row) ELSE UNCHANGED routes
  BY <1>1 DEF SaveRecord, Doing, Rest
<1>3. /\ PublishingFits /\ jobs[c] \in Job /\ tunnels \in [Tunnel -> ManagedTunnel] /\ dns \in [Host -> Cname]
      /\ issued \in 0..MaxRecord /\ mishaps \in 0..MaxMishap
  BY <1>1, <1>2, Busy
<1>4. r \in Rows => row \in RouteRow /\ row.st = "live" /\ row.host = routes[r].host /\ row.tunnel = routes[r].tunnel
                    /\ row.enabled = routes[r].enabled
  <2>1. jobs[c].seen.id \in 0..MaxRecord
    BY <1>3 DEF Job, Cname
  <2>. QED  BY <1>1, <1>3, <2>1, LiveRow DEF RouteRow
<1>5. ASSUME r \in Rows PROVE RowChanged(r, row)
  <2>1. r \in 1..MaxRoute /\ row.host \in Host /\ row.tunnel \in Tunnel /\ tunnels[row.tunnel].row
    BY <1>3, <1>4, <1>5, LiveRow
  <2>. QED  BY <1>2, <1>3, <1>4, <1>5, <2>1, ChangeFits
<1>6. RowsFit' /\ routes' \in [1..MaxRoute -> RouteRow] /\ \A t \in Tunnel : RowsFor(t)' = RowsFor(t)
  <2>1. CASE r \in Rows
    <3>1. \A t \in Tunnel : RowsFor(t)' = RowsFor(t)
      BY <1>3, <1>4, <1>5, <2>1, SameRowsFor
    <3>. QED  BY <1>5, <2>1, <3>1 DEF RowChanged
  <2>2. CASE r \notin Rows
    <3>1. UNCHANGED routes
      BY <1>2, <2>2
    <3>2. RowsFit' /\ routes' \in [1..MaxRoute -> RouteRow]
      BY <1>2, <1>3, <3>1, SameTunnels
    <3>. QED  BY <3>1, <3>2 DEF RowsFor, RowsOf, Rows
  <2>. QED  BY <2>1, <2>2
<1>7. ASSUME Gone(jobs[c], jobs[c], jobs'[c]), jobs[c].kind \in {"create", "retry", "publish", "serve", "enable"},
               Serving(jobs[c])
      PROVE  Serving(jobs[c])'
  <2>1. jobs[c].kind # "serve"
    BY DEF Zoneless
  <2>2. jobs[c].kind # "enable"
    BY <1>1, <1>2, <1>7, ServingPoint
  <2>3. Records(jobs[c].kind)
    BY <2>1, <2>2 DEF Records
  <2>. QED  BY <1>1, <1>2, <1>3, <1>4, <1>5, <1>7, <2>3, ServingSaves
<1>8. ASSUME Gone(jobs[c], jobs[c], jobs'[c]), Removing(jobs[c]) PROVE FALSE
  <2>1. PICK n, q : At(jobs[c], n, q, x)
    BY <1>1 DEF At
  <2>2. RemovingNow(n, x, jobs[c].was.host, jobs[c].was.tunnel)
    BY <1>8, <2>1, RemovingAt
  <2>. QED  BY <1>2, <2>2 DEF RemovingNow
<1>9. /\ tunnels' \in [Tunnel -> ManagedTunnel] /\ dns' \in [Host -> Cname] /\ issued' \in 0..MaxRecord
           /\ mishaps' \in 0..MaxMishap
      /\ \A t \in Tunnel : tunnels'[t].ingress = tunnels[t].ingress
  BY <1>2, <1>3
<1>. QED  BY <1>1, <1>2, <1>3, <1>6, <1>7, <1>8, <1>9, RecordKeeps

(* A request that has yet to change a row has written no ingress. *)
LEMMA NonePut ==
  ASSUME PublishingInv, NEW c \in Caller, Gone(jobs[c], jobs[c], jobs'[c]),
           Head(jobs[c].todo).do \in {"assign", "erase", "unrow", "unmake"}
  PROVE  jobs[c].put = {}
<1>1. PICK n : n = Len(jobs[c].todo)
  OBVIOUS
<1>2. n \in 1..Len(jobs[c].todo) /\ Head(jobs[c].todo) = Left(jobs[c].todo, n)
  BY <1>1 DEF Gone
<1>3. ConfigIsOfRows(jobs[c])
  BY Tracked
<1>. QED  BY <1>2, <1>3 DEF ConfigIsOfRows

(* A row is erased: its hostname is not served any more. *)
LEMMA EraseRowKeeps ==
  ASSUME PublishingInv, NEW c \in Caller, UNCHANGED setting, EraseRow(c)
  PROVE  PublishingInv'
<1>1. PICK x, w, row : x = Head(jobs[c].todo) /\ w = jobs[c].route /\ row = [NoRoute EXCEPT !.st = "gone"]
  OBVIOUS
<1>2. /\ jobs[c].st = "running" /\ x.do = "erase" /\ UNCHANGED <<tunnels, dns, issued, mishaps>> /\ Going(c, jobs[c])
      /\ IF w \in Rows THEN Change(w, row) ELSE UNCHANGED routes
  BY <1>1 DEF EraseRow, Doing, Rest
<1>3. /\ PublishingFits /\ RowsFit /\ jobs[c] \in Job /\ tunnels \in [Tunnel -> ManagedTunnel]
           /\ dns \in [Host -> Cname]
      /\ issued \in 0..MaxRecord /\ mishaps \in 0..MaxMishap
  BY <1>1, <1>2, Busy
<1>4. row \in RouteRow /\ row.st = "gone"
  BY <1>1, NoneTypes DEF RouteRow
<1>5. ASSUME w \in Rows PROVE RowChanged(w, row) /\ w \in 1..MaxRoute
  <2>1. w \in 1..MaxRoute
    BY <1>5 DEF Rows
  <2>. QED  BY <1>2, <1>3, <1>4, <1>5, <2>1, ChangeFits
<1>6. RowsFit' /\ routes' \in [1..MaxRoute -> RouteRow]
  <2>1. CASE w \in Rows
    BY <1>5, <2>1 DEF RowChanged
  <2>2. CASE w \notin Rows
    BY <1>2, <1>3, <2>2, SameTunnels
  <2>. QED  BY <2>1, <2>2
<1>7. ASSUME Gone(jobs[c], jobs[c], jobs'[c]), Removing(jobs[c]) PROVE Removing(jobs[c])'
  <2>1. PICK n, r, g, t : At(jobs[c], n, r, x) /\ g = jobs[c].was.host /\ t = jobs[c].was.tunnel
    BY <1>1 DEF At
  <2>2. RemovingNow(n, x, g, t)
    BY <1>7, <2>1, RemovingAt
  <2>3. n = 3
    BY <1>2, <2>2 DEF RemovingNow
  <2>4. r = w /\ r \in Rows /\ routes[r].host = g
    BY <1>1, <1>7, <2>1, <2>3 DEF Removing, At
  <2>5. Cleans(jobs[c]) => /\ jobs[c].was.record # 0 => dns[g].id # jobs[c].was.record
                           /\ jobs[c].was.record = 0 => dns[g].target # t
    BY <1>7, <2>1, <2>3 DEF Removing, At
  <2>6. /\ r \in 1..MaxRoute /\ routes'[r] = row /\ \A q \in (1..MaxRoute) \ {r} : routes'[q] = routes[q]
    BY <1>5, <2>4 DEF RowChanged
  <2>7. r \notin Rows'
    BY <1>4, <2>6 DEF Rows
  <2>9. ~(n >= 4) /\ n # 5 /\ n <= 4
    BY <2>3
  <2>10. RemovesNext(c, jobs[c], n, r, g, t)
    BY <1>2, <2>5, <2>7, <2>9 DEF RemovesNext
  <2>. QED  BY <1>7, <2>1, <2>10, RemovingGoes
<1>8. Gone(jobs[c], jobs[c], jobs'[c]) =>
        /\ \A t \in jobs[c].put : tunnels'[t].ingress = RowsFor(t)'
        /\ x.do = "rows" => jobs[c].rows = RowsFor(x.tunnel)'
        /\ \/ jobs[c].put = jobs[c].put
           \/ \A n \in 1..(Len(jobs[c].todo) - 1) : Left(jobs[c].todo, n).do \notin {"assign", "erase", "unrow",
                "unmake"}
        /\ jobs[c].kind \in {"create", "retry", "publish", "serve", "enable"} => Serving(jobs[c])'
        /\ jobs[c].kind \in {"delete", "remove", "withdraw"} => Removing(jobs[c])'
  <2>1. ASSUME Gone(jobs[c], jobs[c], jobs'[c])
        PROVE  /\ jobs[c].put = {}
               /\ jobs[c].kind \notin {"create", "retry", "publish", "serve", "enable"}
               /\ jobs[c].kind \in {"delete", "remove", "withdraw"} => Removing(jobs[c])'
    <3>1. jobs[c].put = {}
      BY <1>1, <1>2, <2>1, NonePut
    <3>2. /\ jobs[c].kind \in {"create", "retry", "publish", "serve", "enable"} => Serving(jobs[c])
          /\ jobs[c].kind \in {"delete", "remove", "withdraw"} => Removing(jobs[c])
      BY <2>1, Tracked
    <3>3. ~Serving(jobs[c])
      BY <1>1, <1>2, <2>1, ServesWith
    <3>. QED  BY <1>7, <2>1, <3>1, <3>2, <3>3
  <2>. QED  BY <1>2, <2>1
<1>9. /\ tunnels' \in [Tunnel -> ManagedTunnel] /\ dns' \in [Host -> Cname] /\ issued' \in 0..MaxRecord
           /\ mishaps' \in 0..MaxMishap
  BY <1>2, <1>3
<1>. QED  BY <1>1, <1>2, <1>3, <1>6, <1>8, <1>9, TaskKeeps

(* The row a publication has written serves its hostname. *)
LEMMA ServingAssigns ==
  ASSUME NEW c \in Caller, Gone(jobs[c], jobs[c], jobs'[c]), Serving(jobs[c]), NEW x, x = Head(jobs[c].todo),
           x.do = "assign",
         NEW w, w = jobs[c].route,
         ~(jobs[c].was.st = "live" /\ w \notin Rows) => RowIs(w, x.host, x.tunnel)' /\ routes'[w].enabled
  PROVE  Serving(jobs[c])'
<1>1. PICK a \in 1..11, s \in 1..11, u \in 1..11, h \in Host, t \in Tunnel :
        ServingTasks(jobs[c], a, s, u, h, t) /\ ServingState(jobs[c], a, s, u, h, t)
  BY DEF Serving
<1>2. PICK n, r : At(jobs[c], n, r, x)
  BY DEF At
<1>3. ServingNow(jobs[c].kind, n, x, a, s, u, h, t)
  BY <1>1, <1>2, ServingAt
<1>4. n >= a /\ jobs[c].was.st = "live" => r \in Rows
  BY <1>1, <1>2 DEF ServingState, At
<1>5. n \in Nat /\ ~(n > a) /\ ~(n < a)
  BY <1>3 DEF ServingNow
<1>6. n = a /\ x.host = h /\ x.tunnel = t /\ s + 2 < n /\ u < n
  BY <1>3, <1>5 DEF ServingNow
<1>7. ~(n > a) /\ ~(n <= u) /\ n # s + 2 /\ n # s + 1 /\ ~(n <= s) /\ n # 1
  BY <1>5, <1>6
<1>8. r = w
  BY <1>2 DEF At
<1>9. RowIs(r, x.host, x.tunnel)' /\ routes'[r].enabled
  BY <1>4, <1>5, <1>6, <1>8
<1>10. RowIs(r, h, t)'
  BY <1>6, <1>9
<1>11. ServesNext(c, jobs[c], a, s, u, h, t, n, r)
  BY <1>7, <1>9, <1>10 DEF ServesNext
<1>. QED  BY <1>1, <1>2, <1>11, ServingGoes

(* A row gets its hostname and its tunnel. *)
LEMMA AssignRowKeeps ==
  ASSUME PublishingInv, NEW c \in Caller, UNCHANGED setting, AssignRow(c)
  PROVE  PublishingInv'
<1>1. PICK x, r, h, t, w : x = Head(jobs[c].todo) /\ r = jobs[c].route /\ h = x.host /\ t = x.tunnel
             /\ w = jobs[c].was
  OBVIOUS
<1>2. PICK old, new : /\ old = [routes[r] EXCEPT !.tunnel = t, !.host = h, !.enabled = TRUE, !.record = 0]
                      /\ new = [NewRoute(h, t, w.project, FALSE) EXCEPT !.zone = w.zone]
  OBVIOUS
<1>3. /\ jobs[c].st = "running" /\ x.do = "assign" /\ UNCHANGED <<tunnels, dns, issued, mishaps>>
      /\ \/ /\ tunnels[t].row /\ Going(c, jobs[c])
            /\ \/ r \in Rows /\ Change(r, old)
               \/ r \in FreeIds /\ Change(r, new)
               \/ w.st = "live" /\ r \notin Rows /\ UNCHANGED routes
         \/ Thrown(c) /\ UNCHANGED routes
  BY <1>1, <1>2 DEF AssignRow, Doing, Now, Rest
<1>4. /\ PublishingFits /\ jobs[c] \in Job /\ x \in TaskRow /\ tunnels \in [Tunnel -> ManagedTunnel]
           /\ dns \in [Host -> Cname]
      /\ issued \in 0..MaxRecord /\ mishaps \in 0..MaxMishap
  BY <1>1, <1>3, Busy
<1>5. h \in Host /\ t \in Tunnel
  BY <1>1, <1>3, <1>4, TaskType
<1>6. /\ tunnels' \in [Tunnel -> ManagedTunnel] /\ dns' \in [Host -> Cname] /\ issued' \in 0..MaxRecord
           /\ mishaps' \in 0..MaxMishap
  BY <1>3, <1>4
<1>7. r \in Rows => old \in RouteRow /\ old.st = "live" /\ old.host = h /\ old.tunnel = t /\ old.enabled
        /\ r \in 1..MaxRoute
  <2>1. 0 \in 0..MaxRecord
    BY PublishingAssumption
  <2>. QED  BY <1>2, <1>4, <1>5, <2>1, LiveRow DEF RouteRow
<1>8. new \in RouteRow /\ new.st = "live" /\ new.host = h /\ new.tunnel = t /\ new.enabled
  <2>1. w.project \in Project \cup {"none"} /\ w.zone \in BOOLEAN
    BY <1>1, <1>4 DEF Job, RouteRow
  <2>2. PICK row : row = NewRoute(h, t, w.project, FALSE)
    OBVIOUS
  <2>3. row \in RouteRow /\ row.st = "live" /\ row.host = h /\ row.tunnel = t /\ row.enabled
    BY <1>5, <2>1, <2>2, NoneTypes DEF NewRoute, NoRoute, RouteRow
  <2>. QED  BY <1>2, <2>1, <2>2, <2>3 DEF RouteRow
<1>9. r \in FreeIds => r \in 1..MaxRoute
  BY DEF FreeIds
<1>10. ASSUME tunnels[t].row,
              NEW row \in RouteRow, r \in 1..MaxRoute, Change(r, row), row.st = "live", row.host = h, row.tunnel = t,
                row.enabled
       PROVE  RowsFit' /\ routes' \in [1..MaxRoute -> RouteRow] /\ RowIs(r, h, t)' /\ routes'[r].enabled
  <2>1. RowChanged(r, row)
    BY <1>3, <1>4, <1>5, <1>10, ChangeFits
  <2>. QED  BY <1>10, <2>1 DEF RowChanged, RowIs, Rows
<1>11. CASE /\ tunnels[t].row /\ Going(c, jobs[c])
            /\ \/ r \in Rows /\ Change(r, old)
               \/ r \in FreeIds /\ Change(r, new)
               \/ w.st = "live" /\ r \notin Rows /\ UNCHANGED routes
  <2>1. /\ RowsFit' /\ routes' \in [1..MaxRoute -> RouteRow]
        /\ ~(w.st = "live" /\ r \notin Rows) => RowIs(r, h, t)' /\ routes'[r].enabled
    <3>1. CASE r \in Rows /\ Change(r, old)
      BY <1>7, <1>10, <1>11, <3>1
    <3>2. CASE r \in FreeIds /\ Change(r, new)
      BY <1>8, <1>9, <1>10, <1>11, <3>2
    <3>3. CASE w.st = "live" /\ r \notin Rows /\ UNCHANGED routes
      BY <1>3, <1>4, <3>3, SameTunnels
    <3>. QED  BY <1>11, <3>1, <3>2, <3>3
  <2>2. ASSUME Gone(jobs[c], jobs[c], jobs'[c])
        PROVE  /\ jobs[c].put = {}
               /\ jobs[c].kind \in {"create", "retry", "publish", "serve", "enable"} => Serving(jobs[c])'
               /\ jobs[c].kind \notin {"delete", "remove", "withdraw"}
    <3>1. jobs[c].put = {}
      BY <1>1, <1>3, <2>2, NonePut
    <3>2. /\ jobs[c].kind \in {"create", "retry", "publish", "serve", "enable"} => Serving(jobs[c])
          /\ jobs[c].kind \in {"delete", "remove", "withdraw"} => Removing(jobs[c])
      BY <2>2, Tracked
    <3>3. ~Removing(jobs[c])
      <4> SUFFICES ASSUME Removing(jobs[c]) PROVE FALSE
        OBVIOUS
      <4>1. PICK n, q : At(jobs[c], n, q, x)
        BY <1>1 DEF At
      <4>2. RemovingNow(n, x, jobs[c].was.host, jobs[c].was.tunnel)
        BY <2>2, <4>1, RemovingAt
      <4>. QED  BY <1>3, <4>2 DEF RemovingNow
    <3>4. ~(jobs[c].was.st = "live" /\ r \notin Rows) => RowIs(r, x.host, x.tunnel)' /\ routes'[r].enabled
      BY <1>1, <2>1
    <3>5. Serving(jobs[c]) => Serving(jobs[c])'
      BY <1>1, <1>3, <2>2, <3>4, ServingAssigns
    <3>. QED  BY <3>1, <3>2, <3>3, <3>5
  <2>3. Gone(jobs[c], jobs[c], jobs'[c]) =>
          /\ \A y \in jobs[c].put : tunnels'[y].ingress = RowsFor(y)'
          /\ x.do = "rows" => jobs[c].rows = RowsFor(x.tunnel)'
          /\ \/ jobs[c].put = jobs[c].put
             \/ \A n \in 1..(Len(jobs[c].todo) - 1) : Left(jobs[c].todo, n).do \notin {"assign", "erase", "unrow",
                  "unmake"}
          /\ jobs[c].kind \in {"create", "retry", "publish", "serve", "enable"} => Serving(jobs[c])'
          /\ jobs[c].kind \in {"delete", "remove", "withdraw"} => Removing(jobs[c])'
    BY <1>3, <2>2
  <2>. QED  BY <1>1, <1>3, <1>4, <1>6, <1>11, <2>1, <2>3, TaskKeeps
<1>12. CASE Thrown(c) /\ UNCHANGED routes
  <2>1. RowsFit' /\ \A y \in Tunnel : tunnels'[y].ingress = tunnels[y].ingress
    BY <1>3, <1>4, <1>12, SameTunnels
  <2>. QED  BY <1>1, <1>3, <1>6, <1>12, <2>1, QuietThrow
<1>. QED  BY <1>3, <1>11, <1>12

-----------------------------------------------------------------------------
(* The invariant, and what follows. *)

(* At first nobody has asked for anything. *)
LEMMA PublishingStarts == PublishingInit => PublishingInv
<1> SUFFICES ASSUME PublishingInit PROVE PublishingInv
  OBVIOUS
<1>1. /\ setting \in Settings /\ routes = [r \in 1..MaxRoute |-> NoRoute] /\ dns = [h \in Host |-> NoCname]
           /\ issued = 0
      /\ jobs = [c \in Caller |-> NoJob] /\ mishaps = 0
      /\ tunnels = [t \in Tunnel |-> [TunnelThere(t \in setting.ready) EXCEPT !.used = t \notin setting.spare]]
  BY DEF PublishingInit
<1>2. routes \in [1..MaxRoute -> RouteRow] /\ Rows = {}
  BY <1>1, NoneTypes DEF Rows, NoRoute
<1>3. dns \in [Host -> Cname] /\ \A h \in Host : dns[h].id = 0 => dns[h] = NoCname
  BY <1>1, NoneTypes
<1>4. issued \in 0..MaxRecord /\ mishaps \in 0..MaxMishap
  BY <1>1, PublishingAssumption
<1>5. \A u \in BOOLEAN, b \in BOOLEAN : [TunnelThere(b) EXCEPT !.used = u] \in ManagedTunnel
  BY DEF TunnelThere, ManagedTunnel
<1>6. \A t \in Tunnel : (t \in setting.ready) \in BOOLEAN /\ (t \notin setting.spare) \in BOOLEAN
  OBVIOUS
<1>7. tunnels \in [Tunnel -> ManagedTunnel]
  BY <1>1, <1>5, <1>6
<1>8. jobs \in [Caller -> Job] /\ \A c \in Caller : jobs[c] = NoJob
  BY <1>1, NoneTypes
<1>9. JobsFit
  BY <1>8, NoneTypes, NoJobFits DEF JobsFit
<1>10. \A c \in Caller : OnTrack(jobs[c])
  BY <1>8, NoneTypes DEF OnTrack
<1>11. PublishingTypeOK
  BY <1>1, <1>2, <1>3, <1>4, <1>7, <1>8 DEF PublishingTypeOK
<1>12. RowsFit
  BY <1>2, <1>3 DEF RowsFit
<1>. QED  BY <1>9, <1>10, <1>11, <1>12 DEF PublishingInv, PublishingFits

(* A step that changes nothing. *)
LEMMA PublishingStutters ==
  ASSUME PublishingInv, UNCHANGED publishingVars
  PROVE  PublishingInv'
<1>1. UNCHANGED <<setting, routes, tunnels, dns, issued, jobs, mishaps>>
  BY DEF publishingVars
<1>2. PublishingTypeOK'
  BY <1>1 DEF PublishingInv, PublishingFits, PublishingTypeOK
<1>3. RowsFit' /\ JobsFit'
  BY <1>1 DEF PublishingInv, PublishingFits, RowsFit, JobsFit, Rows
<1>4. (\A c \in Caller : OnTrack(jobs[c]))'
  <2>1. \A c \in Caller : OnTrack(jobs[c])
    BY DEF PublishingInv
  <2>2. ASSUME NEW c \in Caller, OnTrack(jobs[c]) PROVE OnTrack(jobs[c])'
    <3>1. PICK j : j = jobs[c]
      OBVIOUS
    <3>2. jobs'[c] = j
      BY <1>1, <3>1
    <3>3. Rows' = Rows
      BY <1>1 DEF Rows
    <3>4. \A t : RowsFor(t)' = RowsFor(t)
      BY <1>1 DEF RowsFor, RowsOf, Rows
    <3>5. ConfigIsOfRows(j) => ConfigIsOfRows(jobs[c])'
      BY <1>1, <3>2, <3>4 DEF ConfigIsOfRows
    <3>6. Serving(j) => Serving(jobs[c])'
      <4>1. \A a, s, u, h, t : ServingState(j, a, s, u, h, t) => ServingState(jobs[c], a, s, u, h, t)'
        BY <1>1, <3>2, <3>3 DEF ServingState, RowIs
      <4>. QED  BY <3>2, <4>1 DEF Serving
    <3>7. Removing(j) => Removing(jobs[c])'
      BY <1>1, <3>2, <3>3 DEF Removing
    <3>. QED  BY <2>2, <3>1, <3>2, <3>5, <3>6, <3>7 DEF OnTrack
  <2>. QED  BY <2>1, <2>2
<1>. QED  BY <1>2, <1>3, <1>4 DEF PublishingInv, PublishingFits

(* A request begins. *)
LEMMA RequestBegins ==
  ASSUME PublishingInv, NEW c \in Caller, UNCHANGED setting,
         \/ CreateHostname(c) \/ RetryHostname(c) \/ DeleteHostname(c) \/ PublishRoute(c) \/ SwitchRoute(c)
              \/ RemoveRoute(c)
         \/ CreateTunnel(c) \/ TakeRoute(c) \/ DeleteTunnel(c) \/ OtherRequest(c)
  PROVE  PublishingInv'
<1>1. CASE CreateHostname(c)
  BY <1>1, CreateHostnameKeeps
<1>2. CASE RetryHostname(c)
  BY <1>2, RetryHostnameKeeps
<1>3. CASE DeleteHostname(c)
  BY <1>3, DeleteHostnameKeeps
<1>4. CASE PublishRoute(c)
  BY <1>4, PublishRouteKeeps
<1>5. CASE SwitchRoute(c)
  BY <1>5, SwitchRouteKeeps
<1>6. CASE RemoveRoute(c)
  BY <1>6, RemoveRouteKeeps
<1>7. CASE CreateTunnel(c)
  BY <1>7, CreateTunnelKeeps
<1>10. CASE TakeRoute(c)
  BY <1>10, TakeRouteKeeps
<1>8. CASE DeleteTunnel(c)
  BY <1>8, DeleteTunnelKeeps
<1>9. CASE OtherRequest(c)
  BY <1>9, OtherRequestKeeps
<1>. QED  BY <1>1, <1>2, <1>3, <1>4, <1>5, <1>6, <1>7, <1>8, <1>9, <1>10

(* A request makes its next call. *)
LEMMA RequestCalls ==
  ASSUME PublishingInv, NEW c \in Caller, UNCHANGED setting,
         \/ ReadRows(c) \/ PutIngress(c) \/ LookUp(c) \/ Point(c) \/ SaveRecord(c) \/ Spoil(c) \/ DropRecord(c)
              \/ EraseRow(c)
         \/ AssignRow(c) \/ Connector(c) \/ BuildTunnel(c) \/ BreakTunnel(c) \/ Assignment(c)
  PROVE  PublishingInv'
<1>1. CASE ReadRows(c)
  BY <1>1, ReadRowsKeeps
<1>2. CASE PutIngress(c)
  BY <1>2, PutIngressKeeps
<1>3. CASE LookUp(c)
  BY <1>3, LookUpKeeps
<1>4. CASE Point(c)
  BY <1>4, PointKeeps
<1>5. CASE SaveRecord(c)
  BY <1>5, SaveRecordKeeps
<1>6. CASE Spoil(c)
  BY <1>6, SpoilKeeps
<1>7. CASE DropRecord(c)
  BY <1>7, DropRecordKeeps
<1>8. CASE EraseRow(c)
  BY <1>8, EraseRowKeeps
<1>9. CASE AssignRow(c)
  BY <1>9, AssignRowKeeps
<1>10. CASE Connector(c)
  BY <1>10, ConnectorKeeps
<1>11. CASE BuildTunnel(c)
  BY <1>11, BuildTunnelKeeps
<1>12. CASE BreakTunnel(c)
  BY <1>12, BreakTunnelKeeps
<1>13. CASE Assignment(c)
  BY <1>13, AssignmentKeeps
<1>. QED
  BY <1>1, <1>2, <1>3, <1>4, <1>5, <1>6, <1>7, <1>8, <1>9, <1>10, <1>11, <1>12, <1>13

(* Every step keeps the invariant. *)
LEMMA PublishingSteps == PublishingInv /\ [PublishingNext]_publishingVars => PublishingInv'
<1> SUFFICES ASSUME PublishingInv, [PublishingNext]_publishingVars PROVE PublishingInv'
  OBVIOUS
<1>1. CASE PublishingNext
  <2>1. UNCHANGED setting
    BY <1>1 DEF PublishingNext
  <2>2. ASSUME NEW c \in Caller,
               \/ CreateHostname(c) \/ RetryHostname(c) \/ DeleteHostname(c) \/ PublishRoute(c) \/ SwitchRoute(c)
                    \/ RemoveRoute(c)
               \/ CreateTunnel(c) \/ TakeRoute(c) \/ DeleteTunnel(c) \/ OtherRequest(c)
        PROVE  PublishingInv'
    BY <2>1, <2>2, RequestBegins
  <2>3. ASSUME NEW c \in Caller,
               \/ ReadRows(c) \/ PutIngress(c) \/ LookUp(c) \/ Point(c) \/ SaveRecord(c) \/ Spoil(c) \/ DropRecord(c)
                    \/ EraseRow(c)
               \/ AssignRow(c) \/ Connector(c) \/ BuildTunnel(c) \/ BreakTunnel(c) \/ Assignment(c)
        PROVE  PublishingInv'
    BY <2>1, <2>3, RequestCalls
  <2>4. ASSUME NEW t \in Tunnel, Reconcile(t) PROVE PublishingInv'
    BY <2>1, <2>4, ReconcileKeeps
  <2>5. ASSUME NEW h \in Host, EditDns(h) PROVE PublishingInv'
    BY <2>1, <2>5, EditDnsKeeps
  <2>6. ASSUME NEW p \in Project, DropProject(p) PROVE PublishingInv'
    BY <2>1, <2>6, DropProjectKeeps
  <2>. QED  BY <1>1, <2>2, <2>3, <2>4, <2>5, <2>6 DEF PublishingNext
<1>2. CASE UNCHANGED publishingVars
  BY <1>2, PublishingStutters
<1>. QED  BY <1>1, <1>2

(* The invariant is kept by every step: the variables are well formed, a hostname is of one row, and a request that *)
(* nothing overlapped has done what its remaining tasks rely on.                                                     *)
THEOREM PublishingInvariant == PublishingSpec => []PublishingInv
<1>1. PublishingInit => PublishingInv
  BY PublishingStarts
<1>2. PublishingInv /\ [PublishingNext]_publishingVars => PublishingInv'
  BY PublishingSteps
<1>. QED  BY <1>1, <1>2, PTL DEF PublishingSpec

(* What a request that answered success has promised. *)
LEMMA PromiseKept ==
  ASSUME PublishingInv, NEW c \in Caller, jobs[c].st = "ok", jobs[c].alone
  PROVE  Promised(jobs[c])
<1>1. PICK j, r, w : j = jobs[c] /\ r = j.route /\ w = j.was
  OBVIOUS
<1>2. j \in Job /\ JobFits(j) /\ PublishingFits /\ RowsFit
  BY <1>1 DEF PublishingInv, PublishingFits, PublishingTypeOK, JobsFit
<1>3. Len(j.todo) = 0 /\ ~Fails(j)
  <2>1. j.todo = << >> /\ ~Fails(j)
    BY <1>1, <1>2 DEF JobFits
  <2>. QED  BY <2>1, EmptySeq
<1>4. /\ \A t \in j.put : tunnels[t].ingress = RowsFor(t)
      /\ j.kind \in {"create", "retry", "publish", "serve", "enable"} => Serving(j)
      /\ j.kind \in {"delete", "remove", "withdraw"} => Removing(j)
  BY <1>1, <1>3 DEF PublishingInv, OnTrack, ConfigIsOfRows
<1>5. ASSUME j.kind \in {"create", "retry", "publish", "serve", "enable"}
      PROVE  /\ j.kind # "enable" =>
                  /\ r \in Rows /\ routes[r].enabled /\ routes[r].host \in tunnels[routes[r].tunnel].ingress
                  /\ ~Zoneless(j) => dns[routes[r].host] = [id |-> routes[r].record, target |-> routes[r].tunnel]
             /\ j.kind \in {"enable", "publish", "serve"} => tunnels[routes[r].tunnel].connector
  <2>1. PICK a \in 1..11, s \in 1..11, u \in 1..11, h \in Host, t \in Tunnel : ServingState(j, a, s, u, h, t)
    BY <1>4, <1>5 DEF Serving
  <2>2. 0 < a /\ 0 < s /\ 0 < u
    OBVIOUS
  <2>3. /\ r \in Rows /\ routes[r].host = h /\ routes[r].tunnel = t
        /\ j.kind # "enable" => routes[r].enabled /\ t \in j.put
        /\ j.kind # "enable" /\ ~Zoneless(j) => dns[h] = [id |-> routes[r].record, target |-> t]
        /\ j.kind \in {"publish", "serve", "enable"} => tunnels[t].connector
    BY <1>1, <1>3, <2>1, <2>2 DEF ServingState, RowIs, Records, Zoneless
  <2>4. ASSUME j.kind # "enable" PROVE h \in tunnels[t].ingress
    <3>1. r \in RowsOf(t) /\ routes[r].enabled
      BY <2>3, <2>4 DEF RowsOf
    <3>2. routes[r].host \in RowsFor(t)
      BY <3>1 DEF RowsFor
    <3>. QED  BY <1>4, <2>3, <2>4, <3>2
  <2>. QED  BY <2>3, <2>4
<1>6. ASSUME j.kind \in {"delete", "remove", "withdraw"}
      PROVE  /\ r \notin Rows
             /\ ~Zoneless(j) /\ Zoned(j) /\ ~j.warned =>
                  IF w.record # 0 THEN dns[w.host].id # w.record ELSE dns[w.host].target # w.tunnel
  <2>1. /\ r \notin Rows
        /\ Cleans(j) => /\ w.record # 0 => dns[w.host].id # w.record
                        /\ w.record = 0 => dns[w.host].target # w.tunnel
    BY <1>1, <1>3, <1>4, <1>6 DEF Removing
  <2>. QED  BY <1>4, <2>1 DEF Cleans
<1>. QED  BY <1>1, <1>4, <1>5, <1>6 DEF Promised

(* A request that nothing overlapped and that answered success leaves what it promised: see SuccessIsKept. *)
THEOREM SuccessIsAlwaysKept == PublishingSpec => []SuccessIsKept
<1>1. PublishingInv => SuccessIsKept
  BY PromiseKept DEF SuccessIsKept
<1>. QED  BY <1>1, PublishingInvariant, PTL
=============================================================================
