--------------------------- MODULE Sessions_proofs ---------------------------
(***************************************************************************)
(* Proofs about Sessions, for every set of users, rows and workers and     *)
(* every lifetime.                                                         *)
(***************************************************************************)
EXTENDS Sessions, FiniteSetTheorems, TLAPS

-----------------------------------------------------------------------------
(* Type correctness.                                                       *)

\* The initial tables and requests have their types.
LEMMA TypeInit == Init => TypeOK
<1> SUFFICES ASSUME Init PROVE TypeOK
  OBVIOUS
<1> USE SessionsAssumption DEF Init, Time, NoTime
<1>1. req \in [Worker -> Request] /\ \A w \in Worker : RequestOK(req[w])
  BY DEF Idle, Request, Stage, RequestOK
<1>2. role \in [User -> Role \cup {NoRole}]
  <2>1. \A r \in {NoRole, "user", "owner"} : r \in Role \cup {NoRole}
    OBVIOUS
  <2>2. \A u \in User : role[u] \in {NoRole, "user", "owner"}
    OBVIOUS
  <2> QED
    BY <2>1, <2>2
<1>3. UsersOK
  BY <1>2 DEF UsersOK
<1>4. RowsOK
  BY DEF RowsOK, Inserted
<1>5. now \in Time /\ access \in [User -> [Role -> Nat]]
  OBVIOUS
<1> QED
  BY <1>1, <1>3, <1>4, <1>5 DEF TypeOK

\* A statement that writes one request and, in the tables, neither takes a
\* row's owner away nor unregisters a user.
LEMMA RequestKept ==
  ASSUME TypeOK, NEW w \in Worker, NEW q, req' = [req EXCEPT ![w] = q],
         RequestOK(q)',
         \A t \in Token : Inserted(t) => owner'[t] = owner[t],
         \A u \in User : Registered(u) => Registered(u)'
  PROVE  req' \in [Worker -> Request] /\ \A v \in Worker : RequestOK(req[v])'
<1>1. ASSUME NEW v \in Worker PROVE RequestOK(req[v])'
  <2>1. CASE v = w
    BY <2>1 DEF TypeOK
  <2>2. CASE v # w
    <3>1. req'[v] = req[v] /\ RequestOK(req[v])
      BY <2>2 DEF TypeOK
    <3> QED
      BY <3>1, SessionsAssumption DEF RequestOK, Inserted, Registered, Request
  <2> QED
    BY <2>1, <2>2
<1>2. req' \in [Worker -> Request]
  BY <1>1 DEF TypeOK, RequestOK
<1> QED
  BY <1>1, <1>2

\* A request that has ended needs nothing.
LEMMA IdleOK == RequestOK(Idle)
  BY SessionsAssumption DEF Idle, RequestOK, Request, Stage, Time

\* A statement that only reads: the tables stay and one request moves on.
LEMMA ReadStep ==
  ASSUME TypeOK, NEW w \in Worker, NEW q, RequestOK(q), req' = [req EXCEPT ![w] = q],
         UNCHANGED <<now, users, rows, access, hist>>
  PROVE  TypeOK'
<1>1. RequestOK(q)'
  BY DEF users, rows, RequestOK, Inserted, Registered
<1>2. req' \in [Worker -> Request] /\ \A v \in Worker : RequestOK(req[v])'
  BY <1>1, RequestKept DEF users, rows, Registered
<1>3. UsersOK'
  BY DEF TypeOK, UsersOK, users, hist
<1>4. RowsOK'
  BY DEF TypeOK, RowsOK, users, rows, hist, Inserted, Registered
<1> QED
  BY <1>2, <1>3, <1>4 DEF TypeOK

\* A statement that writes users or rows and no request.
LEMMA AdminStep ==
  ASSUME TypeOK, UNCHANGED <<req, owner>>,
         \A u \in User : Registered(u) => Registered(u)'
  PROVE  req' \in [Worker -> Request] /\ \A v \in Worker : RequestOK(req[v])'
<1> QED
  BY SessionsAssumption DEF TypeOK, RequestOK, Inserted, Registered, Request

\* A row is inserted for a registered user.
LEMMA InsertStep ==
  ASSUME TypeOK, NEW t \in Token, ~Inserted(t), NEW u \in User, Registered(u),
         NEW exp \in Nat, NEW chain \in Token, InsertRow(t, u, exp, chain),
         replacedBy' \in [Token -> Token \cup {NoToken}],
         revoked' \in [Token -> BOOLEAN], UNCHANGED <<users, leftRole>>
  PROVE  /\ UsersOK' /\ RowsOK'
         /\ \A s \in Token : Inserted(s) => owner'[s] = owner[s]
<1>1. UsersOK'
  BY DEF TypeOK, UsersOK, InsertRow, users
<1>2. \A s \in Token : Inserted(s) => owner'[s] = owner[s]
  BY DEF InsertRow, Inserted, TypeOK, RowsOK
<1>3. /\ owner' \in [Token -> User \cup {NoUser}]
      /\ expires' \in [Token -> Nat]
      /\ session' \in [Token -> Token \cup {NoToken}]
  BY DEF InsertRow, TypeOK, RowsOK
<1>4. \A s \in Token : Inserted(s)' => Registered(owner[s])' /\ session'[s] \in Token
  BY DEF InsertRow, TypeOK, RowsOK, Inserted, Registered, users
<1> QED
  BY <1>1, <1>2, <1>3, <1>4 DEF RowsOK

\* Each statement of each handler keeps the types.
LEMMA TypeNext == TypeOK /\ [Next]_vars => TypeOK'
<1> SUFFICES ASSUME TypeOK, [Next]_vars PROVE TypeOK'
  OBVIOUS
<1> USE SessionsAssumption
<1>1. ASSUME NEW w \in Worker, NEW u \in User, Register(w, u) PROVE TypeOK'
  <2>1. PICK q : q = [Idle EXCEPT !.stage = "issue", !.user = u, !.role = "user", !.since = now]
    OBVIOUS
  <2>2. role' \in [User -> Role \cup {NoRole}] /\ \A v \in User : Registered(v) => Registered(v)'
    BY <1>1 DEF Register, TypeOK, UsersOK, Registered
  <2>3. Registered(u)'
    BY <1>1 DEF Register, TypeOK, UsersOK, Registered
  <2>4. RequestOK(q)'
    BY <2>1, <2>3 DEF Idle, RequestOK, Request, Stage, TypeOK
  <2>5. req' \in [Worker -> Request] /\ \A v \in Worker : RequestOK(req[v])'
    BY <1>1, <2>1, <2>2, <2>4, RequestKept DEF Register, rows
  <2>6. UsersOK'
    BY <1>1, <2>2 DEF Register, TypeOK, UsersOK, hist
  <2>7. RowsOK'
    BY <1>1, <2>2 DEF Register, TypeOK, RowsOK, rows, hist, Inserted
  <2> QED
    BY <1>1, <2>5, <2>6, <2>7 DEF Register, TypeOK
<1>2. ASSUME NEW w \in Worker, NEW u \in User, Login(w, u) PROVE TypeOK'
  <2> DEFINE q == [Idle EXCEPT !.stage = IF banned[u] THEN "unban" ELSE "issue",
                               !.user = u, !.role = role[u], !.since = now]
  <2>1. RequestOK(q)
    BY <1>2 DEF Login, Registered, Idle, RequestOK, Request, Stage, TypeOK, UsersOK
  <2>2. req' = [req EXCEPT ![w] = q] /\ UNCHANGED <<now, users, rows, access, hist>>
    BY <1>2 DEF Login
  <2> HIDE DEF q
  <2> QED
    BY <2>1, <2>2, ReadStep
<1>3. ASSUME NEW w \in Worker, NEW u \in User, LogoutAll(w, u) PROVE TypeOK'
  <2> DEFINE q == [Idle EXCEPT !.stage = "sweep", !.user = u, !.since = now,
                               !.seen = {t \in Token : owner[t] = u /\ ~revoked[t]}]
  <2>1. RequestOK(q)
    BY <1>3 DEF LogoutAll, Idle, RequestOK, Request, Stage, TypeOK
  <2>2. req' = [req EXCEPT ![w] = q] /\ UNCHANGED <<now, users, rows, access, hist>>
    BY <1>3 DEF LogoutAll
  <2> HIDE DEF q
  <2> QED
    BY <2>1, <2>2, ReadStep
<1>4. ASSUME NEW w \in Worker, NEW t \in Token, RefreshRead(w, t) PROVE TypeOK'
  <2> DEFINE q == [Idle EXCEPT !.stage = "user", !.tok = t, !.user = owner[t], !.since = now]
  <2>1. RequestOK(q)
    BY <1>4 DEF RefreshRead, Live, Inserted, Idle, RequestOK, Request, Stage, TypeOK, RowsOK
  <2>2. req' = [req EXCEPT ![w] = q] /\ UNCHANGED <<now, users, rows, access, hist>>
    BY <1>4 DEF RefreshRead
  <2> HIDE DEF q
  <2> QED
    BY <2>1, <2>2, ReadStep
<1>5. ASSUME NEW w \in Worker, IssueTokens(w) PROVE TypeOK'
  <2>1. req[w].user \in User /\ req[w].role \in Role /\ Registered(req[w].user)
    BY <1>5 DEF IssueTokens, TypeOK, RequestOK
  <2>2. PICK t \in Token : ~Inserted(t) /\ InsertRow(t, req[w].user, now + RefreshTTL, t)
    BY <1>5 DEF IssueTokens
  <2>3. now + RefreshTTL \in Nat /\ now + AccessTTL \in Nat
    BY DEF TypeOK, Time
  <2>4. /\ UsersOK' /\ RowsOK'
        /\ \A s \in Token : Inserted(s) => owner'[s] = owner[s]
    BY <1>5, <2>1, <2>2, <2>3, InsertStep DEF IssueTokens, TypeOK, RowsOK
  <2>5. RequestOK(Idle)'
    BY IdleOK DEF Idle, RequestOK
  <2>6. req' \in [Worker -> Request] /\ \A v \in Worker : RequestOK(req[v])'
    BY <1>5, <2>4, <2>5, RequestKept DEF IssueTokens, Finish, users, Registered
  <2>7. access' \in [User -> [Role -> Nat]]
    BY <1>5, <2>1, <2>3 DEF IssueTokens, Sign, TypeOK
  <2> QED
    BY <1>5, <2>4, <2>6, <2>7 DEF IssueTokens, TypeOK
<1>6. ASSUME NEW w \in Worker, AutoUnban(w) PROVE TypeOK'
  <2>1. RequestOK(req[w]) /\ req[w].user \in User /\ Registered(req[w].user)
    BY <1>6 DEF AutoUnban, TypeOK, RequestOK
  <2>2. PICK q : q = [req[w] EXCEPT !.stage = IF req[w].tok = NoToken THEN "issue" ELSE "lock"]
    OBVIOUS
  <2>3. RequestOK(q)'
    BY <1>6, <2>1, <2>2 DEF AutoUnban, rows, RequestOK, Request, Stage, Inserted, Registered
  <2>4. req' = [req EXCEPT ![w] = q]
    BY <1>6, <2>2 DEF AutoUnban, Goto, TypeOK
  <2>5. req' \in [Worker -> Request] /\ \A v \in Worker : RequestOK(req[v])'
    BY <1>6, <2>3, <2>4, RequestKept DEF AutoUnban, rows, Registered
  <2>6. UsersOK'
    <3>1. CASE UNCHANGED <<banned, bannedAt, banExp, issued>>
      BY <1>6, <3>1 DEF AutoUnban, TypeOK, UsersOK
    <3>2. CASE /\ banned' = [banned EXCEPT ![req[w].user] = FALSE]
               /\ bannedAt' = [bannedAt EXCEPT ![req[w].user] = NoTime]
               /\ banExp' = [banExp EXCEPT ![req[w].user] = NoTime]
               /\ issued' = [issued EXCEPT ![req[w].user] = 0]
      BY <1>6, <2>1, <3>2 DEF AutoUnban, TypeOK, UsersOK
    <3> QED
      BY <1>6, <3>1, <3>2 DEF AutoUnban
  <2>7. RowsOK'
    BY <1>6 DEF AutoUnban, TypeOK, RowsOK, rows, Inserted, Registered
  <2> QED
    BY <1>6, <2>5, <2>6, <2>7 DEF AutoUnban, TypeOK
<1>7. ASSUME NEW w \in Worker, RefreshUser(w) PROVE TypeOK'
  <2>1. RequestOK(req[w]) /\ req[w].user \in User /\ role[req[w].user] \in Role
    BY <1>7 DEF RefreshUser, TypeOK, UsersOK, RequestOK, Registered
  <2>2. CASE Finish(w)
    BY <1>7, <2>2, IdleOK, ReadStep DEF RefreshUser, Finish
  <2>3. CASE req' = [req EXCEPT ![w] = [@ EXCEPT !.stage = IF banned[req[w].user] THEN "unban" ELSE "lock",
                                                 !.role = role[req[w].user]]]
    <3> DEFINE q == [req[w] EXCEPT !.stage = IF banned[req[w].user] THEN "unban" ELSE "lock",
                                   !.role = role[req[w].user]]
    <3>1. RequestOK(q)
      BY <1>7, <2>1 DEF RefreshUser, RequestOK, Request, Stage
    <3>2. req' = [req EXCEPT ![w] = q]
      BY <2>3 DEF TypeOK
    <3> HIDE DEF q
    <3> QED
      BY <1>7, <3>1, <3>2, ReadStep DEF RefreshUser
  <2> QED
    BY <1>7, <2>2, <2>3 DEF RefreshUser
<1>8. ASSUME NEW w \in Worker, RefreshLock(w) PROVE TypeOK'
  <2>1. CASE Finish(w)
    BY <1>8, <2>1, IdleOK, ReadStep DEF RefreshLock, Finish
  <2>2. CASE Goto(w, "tx")
    <3> DEFINE q == [req[w] EXCEPT !.stage = "tx"]
    <3>1. RequestOK(q)
      BY <1>8 DEF RefreshLock, TypeOK, RequestOK, Request, Stage
    <3>2. req' = [req EXCEPT ![w] = q]
      BY <2>2 DEF TypeOK, Goto
    <3> HIDE DEF q
    <3> QED
      BY <1>8, <3>1, <3>2, ReadStep DEF RefreshLock
  <2> QED
    BY <1>8, <2>1, <2>2 DEF RefreshLock
<1>9. ASSUME NEW w \in Worker, RefreshCommit(w) PROVE TypeOK'
  <2> DEFINE old == req[w].tok
  <2>1. /\ RequestOK(req[w]) /\ req[w] \in Request
        /\ old \in Token /\ Inserted(old) /\ owner[old] \in User /\ Registered(owner[old])
    BY <1>9 DEF RefreshCommit, TypeOK, RowsOK, RequestOK
  <2>2. PICK t \in Token : /\ ~Inserted(t)
                           /\ InsertRow(t, owner[old], req[w].since + RefreshTTL, session[old])
                           /\ replacedBy' = [replacedBy EXCEPT ![old] = t]
    BY <1>9 DEF RefreshCommit
  <2>3. req[w].since + RefreshTTL \in Nat
    BY <2>1 DEF Request, Time
  <2>4. session[old] \in Token
    BY <2>1 DEF TypeOK, RowsOK
  <2>5. replacedBy' \in [Token -> Token \cup {NoToken}] /\ revoked' \in [Token -> BOOLEAN]
    BY <1>9, <2>2 DEF RefreshCommit, TypeOK, RowsOK
  <2>6. /\ UsersOK' /\ RowsOK'
        /\ \A s \in Token : Inserted(s) => owner'[s] = owner[s]
    BY <1>9, <2>1, <2>2, <2>3, <2>4, <2>5, InsertStep DEF RefreshCommit
  <2>7. PICK q : q = [req[w] EXCEPT !.stage = "reply"]
    OBVIOUS
  <2>8. RequestOK(q)'
    BY <1>9, <2>1, <2>6, <2>7 DEF RefreshCommit, users, RequestOK, Request, Stage, Inserted, Registered
  <2>9. req' \in [Worker -> Request] /\ \A v \in Worker : RequestOK(req[v])'
    BY <1>9, <2>6, <2>7, <2>8, RequestKept DEF RefreshCommit, Goto, users, Registered, TypeOK
  <2> QED
    BY <1>9, <2>6, <2>9 DEF RefreshCommit, TypeOK
<1>10. ASSUME NEW w \in Worker, RefreshReply(w) PROVE TypeOK'
  <2>1. req[w].user \in User /\ req[w].role \in Role
    BY <1>10 DEF RefreshReply, TypeOK, RequestOK
  <2>2. RequestOK(Idle)'
    BY IdleOK DEF Idle, RequestOK
  <2>3. req' \in [Worker -> Request] /\ \A v \in Worker : RequestOK(req[v])'
    BY <1>10, <2>2, RequestKept DEF RefreshReply, Finish, users, rows, Registered
  <2>4. access' \in [User -> [Role -> Nat]]
    BY <1>10, <2>1 DEF RefreshReply, Sign, TypeOK, Time
  <2>5. UsersOK' /\ RowsOK'
    BY <1>10 DEF RefreshReply, TypeOK, UsersOK, RowsOK, users, rows, hist, Inserted, Registered
  <2> QED
    BY <1>10, <2>3, <2>4, <2>5 DEF RefreshReply, TypeOK
<1>11. ASSUME NEW t \in Token, Logout(t) PROVE TypeOK'
  <2>1. req' \in [Worker -> Request] /\ \A v \in Worker : RequestOK(req[v])'
    BY <1>11, AdminStep DEF Logout, users, Registered
  <2>2. UsersOK'
    BY <1>11 DEF Logout, TypeOK, UsersOK, users, hist
  <2>3. RowsOK'
    BY <1>11 DEF Logout, TypeOK, RowsOK, users, hist, Inserted, Registered
  <2> QED
    BY <1>11, <2>1, <2>2, <2>3 DEF Logout, TypeOK
<1>12. ASSUME NEW w \in Worker, SweepRows(w) PROVE TypeOK'
  <2>1. RequestOK(Idle)'
    BY IdleOK DEF Idle, RequestOK
  <2>2. req' \in [Worker -> Request] /\ \A v \in Worker : RequestOK(req[v])'
    BY <1>12, <2>1, RequestKept DEF SweepRows, Finish, users, Registered
  <2>3. UsersOK'
    BY <1>12 DEF SweepRows, TypeOK, UsersOK, users, hist
  <2>4. revoked' \in [Token -> BOOLEAN]
    BY <1>12 DEF SweepRows, TypeOK, RowsOK
  <2>5. RowsOK'
    BY <1>12, <2>4 DEF SweepRows, TypeOK, RowsOK, users, hist, Inserted, Registered
  <2> QED
    BY <1>12, <2>2, <2>3, <2>5 DEF SweepRows, TypeOK
<1>13. ASSUME NEW w \in Worker, Abort(w) PROVE TypeOK'
  BY <1>13, IdleOK, ReadStep DEF Abort, Finish
<1>14. ASSUME NEW u \in User, NEW e \in Time \cup {NoTime}, AdminBanUser(u, e) PROVE TypeOK'
  <2>1. req' \in [Worker -> Request] /\ \A v \in Worker : RequestOK(req[v])'
    BY <1>14, AdminStep DEF AdminBanUser, rows, Registered
  <2>2. UsersOK'
    BY <1>14 DEF AdminBanUser, TypeOK, UsersOK
  <2>3. RowsOK'
    BY <1>14 DEF AdminBanUser, TypeOK, RowsOK, rows, Inserted, Registered
  <2> QED
    BY <1>14, <2>1, <2>2, <2>3 DEF AdminBanUser, TypeOK
<1>15. ASSUME NEW u \in User, AdminUnbanUser(u) PROVE TypeOK'
  <2>1. req' \in [Worker -> Request] /\ \A v \in Worker : RequestOK(req[v])'
    BY <1>15, AdminStep DEF AdminUnbanUser, rows, Registered
  <2>2. UsersOK'
    BY <1>15 DEF AdminUnbanUser, TypeOK, UsersOK
  <2>3. RowsOK'
    BY <1>15 DEF AdminUnbanUser, TypeOK, RowsOK, rows, Inserted, Registered
  <2> QED
    BY <1>15, <2>1, <2>2, <2>3 DEF AdminUnbanUser, TypeOK
<1>16. ASSUME NEW u \in User, NEW r \in Role, AdminChangeUserRole(u, r) PROVE TypeOK'
  <2>1. role' \in [User -> Role \cup {NoRole}] /\ \A v \in User : Registered(v) => Registered(v)'
    BY <1>16 DEF AdminChangeUserRole, TypeOK, UsersOK, Registered
  <2>2. req' \in [Worker -> Request] /\ \A v \in Worker : RequestOK(req[v])'
    BY <1>16, <2>1, AdminStep DEF AdminChangeUserRole, rows
  <2>3. leftRole' \in [User -> [Role -> Time \cup {NoTime}]]
    BY <1>16 DEF AdminChangeUserRole, TypeOK, UsersOK, Registered
  <2>4. UsersOK'
    BY <1>16, <2>1, <2>3 DEF AdminChangeUserRole, TypeOK, UsersOK
  <2>5. RowsOK'
    BY <1>16, <2>1 DEF AdminChangeUserRole, TypeOK, RowsOK, rows, Inserted
  <2> QED
    BY <1>16, <2>2, <2>4, <2>5 DEF AdminChangeUserRole, TypeOK
<1>17. CASE Tick
  <2>1. req' \in [Worker -> Request] /\ \A v \in Worker : RequestOK(req[v])'
    BY <1>17, AdminStep DEF Tick, users, rows, Registered
  <2>2. UsersOK' /\ RowsOK'
    BY <1>17 DEF Tick, TypeOK, UsersOK, RowsOK, users, rows, hist, Inserted, Registered
  <2> QED
    BY <1>17, <2>1, <2>2 DEF Tick, TypeOK, Time
<1>18. CASE UNCHANGED vars
  <2>1. req' \in [Worker -> Request] /\ \A v \in Worker : RequestOK(req[v])'
    BY <1>18, AdminStep DEF vars, users, rows, Registered
  <2>2. UsersOK' /\ RowsOK'
    BY <1>18 DEF vars, TypeOK, UsersOK, RowsOK, users, rows, hist, Inserted, Registered
  <2> QED
    BY <1>18, <2>1, <2>2 DEF vars, TypeOK
<1> QED
  BY <1>1, <1>2, <1>3, <1>4, <1>5, <1>6, <1>7, <1>8, <1>9, <1>10, <1>11, <1>12,
     <1>13, <1>14, <1>15, <1>16, <1>17, <1>18 DEF Next

\* Every behaviour of the handlers keeps the types (models.go:30-43, 170-182 and
\* the local variables of the handlers).
THEOREM TypeCorrect == Spec => []TypeOK
  BY TypeInit, TypeNext, PTL DEF Spec

-----------------------------------------------------------------------------
(* Rotation: at most one working refresh token per login.                  *)

LEMMA SessionInit == Init => SessionInv
<1> SUFFICES ASSUME Init PROVE SessionInv
  OBVIOUS
<1>1. TypeOK
  BY TypeInit
<1>2. \A t \in Token : ~Inserted(t) /\ replacedBy[t] = NoToken
  BY DEF Init, Inserted
<1>3. \A w \in Worker : req[w].stage = "idle" /\ req[w].seen = {}
  BY DEF Init, Idle
<1>4. RowsLinked /\ LocksExclusive /\ SeenInserted
  BY <1>2, <1>3 DEF RowsLinked, LocksExclusive, SeenInserted
<1>5. OneLivePerSession /\ EndedIsDead
  BY <1>2 DEF OneLivePerSession, EndedIsDead, Live
<1> QED
  BY <1>1, <1>4, <1>5 DEF SessionInv

\* A step that writes no row and takes no row lock.
LEMMA QuietStep ==
  ASSUME SessionInv, TypeOK', UNCHANGED <<rows, session>>,
         \A w \in Worker : req'[w].stage = "tx" =>
            req[w].stage = "tx" /\ req[w].tok = req'[w].tok,
         \A w \in Worker : \A t \in req'[w].seen : t \in req[w].seen \/ Inserted(t)
  PROVE  SessionInv'
<1>1. \A t \in Token : (Inserted(t)' <=> Inserted(t)) /\ (Live(t)' <=> Live(t))
  BY DEF rows, Inserted, Live
<1>2. RowsLinked'
  BY <1>1 DEF SessionInv, RowsLinked, rows, Inserted
<1>3. LocksExclusive'
  <2>1. \A w \in Worker : req'[w].stage = "tx" => req'[w].tok \in Token
    BY DEF TypeOK, RequestOK
  <2>2. \A w \in Worker : req'[w].stage = "tx" => Live(req[w].tok)
    BY DEF SessionInv, LocksExclusive
  <2>3. \A w \in Worker : req'[w].stage = "tx" => Live(req[w].tok)'
    BY <1>1, <2>1, <2>2
  <2> QED
    BY <2>3 DEF SessionInv, LocksExclusive
<1>4. OneLivePerSession'
  BY <1>1 DEF SessionInv, OneLivePerSession
<1>5. EndedIsDead'
  <2>1. \A s \in Token : SessionLive(s)' <=> SessionLive(s)
    BY <1>1 DEF SessionLive
  <2> QED
    BY <1>1, <2>1 DEF SessionInv, EndedIsDead, rows, TypeOK, RowsOK
<1>6. SeenInserted'
  BY DEF SessionInv, SeenInserted, rows, Inserted
<1> QED
  BY <1>2, <1>3, <1>4, <1>5, <1>6 DEF SessionInv

\* A row revoked by Logout or LogoutAll while no refresh holds it: the locks of
\* the others stay right and its login is over.
LEMMA RevokeStep ==
  ASSUME SessionInv, TypeOK', UNCHANGED <<owner, replacedBy, session>>,
         \A t \in Token : revoked[t] => revoked'[t],
         \A w \in Worker : req'[w].stage = "tx" =>
            /\ req[w].stage = "tx" /\ req[w].tok = req'[w].tok
            /\ revoked'[req[w].tok] = revoked[req[w].tok],
         \A w \in Worker : \A t \in req'[w].seen : t \in req[w].seen
  PROVE  SessionInv'
<1>1. \A t \in Token : (Inserted(t)' <=> Inserted(t)) /\ (Live(t)' => Live(t))
  BY DEF Inserted, Live
<1>2. RowsLinked'
  BY <1>1 DEF SessionInv, RowsLinked, Inserted
<1>3. LocksExclusive'
  <2>1. \A w \in Worker : req'[w].stage = "tx" => req[w].tok \in Token /\ Live(req[w].tok)
    BY DEF SessionInv, LocksExclusive, TypeOK, RequestOK
  <2>2. \A w \in Worker : req'[w].stage = "tx" => Live(req[w].tok)'
    BY <1>1, <2>1 DEF Live
  <2> QED
    BY <2>2 DEF SessionInv, LocksExclusive
<1>4. OneLivePerSession'
  BY <1>1 DEF SessionInv, OneLivePerSession
<1>5. EndedIsDead'
  <2> SUFFICES ASSUME NEW t \in Token, Inserted(t), revoked'[t], replacedBy[t] = NoToken,
                      NEW s \in Token, Live(s)', session[s] = session[t]
               PROVE FALSE
    BY <1>1 DEF EndedIsDead, SessionLive
  <2>1. Live(s) /\ ~revoked'[s]
    BY <1>1 DEF Live
  <2>2. CASE revoked[t]
    BY <2>1, <2>2 DEF SessionInv, EndedIsDead, SessionLive
  <2>3. CASE ~revoked[t]
    <3>1. s = t
      BY <2>1, <2>3 DEF SessionInv, OneLivePerSession, Live
    <3> QED
      BY <2>1, <3>1
  <2> QED
    BY <2>2, <2>3
<1>6. SeenInserted'
  BY DEF SessionInv, SeenInserted, Inserted
<1> QED
  BY <1>2, <1>3, <1>4, <1>5, <1>6 DEF SessionInv

\* The first row of a new login.
LEMMA IssueStep ==
  ASSUME SessionInv, TypeOK', NEW w \in Worker, IssueTokens(w)
  PROVE  SessionInv'
<1>1. PICK n \in Token : ~Inserted(n) /\ InsertRow(n, req[w].user, now + RefreshTTL, n)
  BY DEF IssueTokens
<1>2. /\ UNCHANGED <<revoked, replacedBy>>
      /\ owner' = [owner EXCEPT ![n] = req[w].user]
      /\ session' = [session EXCEPT ![n] = n]
      /\ req' = [req EXCEPT ![w] = Idle]
      /\ req[w].user \in User
  BY <1>1 DEF IssueTokens, InsertRow, Finish, SessionInv, TypeOK, RequestOK
<1> USE SessionsAssumption
<1>3. \A t \in Token : /\ t # n => owner'[t] = owner[t] /\ session'[t] = session[t]
                       /\ t = n => Inserted(t)' /\ session'[t] = n
                       /\ Inserted(t) => t # n /\ session[t] # n /\ session[t] \in Token
  BY <1>1, <1>2 DEF SessionInv, TypeOK, RowsOK, RowsLinked, Inserted
<1>4. \A t \in Token : t # n => (Inserted(t)' <=> Inserted(t)) /\ (Live(t)' <=> Live(t))
  BY <1>2, <1>3 DEF Inserted, Live
<1>5. RowsLinked'
  BY <1>1, <1>2, <1>3, <1>4 DEF SessionInv, RowsLinked, Inserted
<1>6. \A v \in Worker : req'[v].stage = "tx" => v # w /\ req'[v] = req[v]
  BY <1>2 DEF Idle, SessionInv, TypeOK
<1>7. LocksExclusive'
  <2>1. \A v \in Worker : req'[v].stage = "tx" => req[v].tok \in Token /\ Live(req[v].tok)
    BY <1>6 DEF SessionInv, LocksExclusive, TypeOK, RequestOK
  <2>2. \A v \in Worker : req'[v].stage = "tx" => Live(req[v].tok)'
    BY <1>1, <1>2, <1>6, <2>1 DEF Live, Inserted
  <2> QED
    BY <1>6, <2>2 DEF SessionInv, LocksExclusive
<1>8. OneLivePerSession'
  <2> SUFFICES ASSUME NEW s \in Token, NEW t \in Token, Live(s)', Live(t)',
                      session'[s] = session'[t], s # t
               PROVE FALSE
    BY DEF OneLivePerSession
  <2>1. CASE s = n
    BY <1>3, <1>4, <2>1 DEF Live
  <2>2. CASE t = n
    BY <1>3, <1>4, <2>2 DEF Live
  <2>3. CASE s # n /\ t # n
    BY <1>3, <1>4, <2>3 DEF SessionInv, OneLivePerSession
  <2> QED
    BY <2>1, <2>2, <2>3
<1>9. EndedIsDead'
  <2> SUFFICES ASSUME NEW t \in Token, Inserted(t)', revoked'[t], replacedBy'[t] = NoToken,
                      NEW s \in Token, Live(s)', session'[s] = session'[t]
               PROVE FALSE
    BY DEF EndedIsDead, SessionLive
  <2>1. CASE t = n
    <3>1. s = n
      BY <1>3, <1>4, <2>1 DEF Live
    <3> QED
      BY <2>1, <3>1 DEF Live
  <2>2. CASE t # n
    BY <1>2, <1>3, <1>4, <2>2 DEF SessionInv, EndedIsDead, SessionLive
  <2> QED
    BY <2>1, <2>2
<1>10. SeenInserted'
  <2>1. \A v \in Worker : req'[v].seen \subseteq req[v].seen
    BY <1>2 DEF Idle, SessionInv, TypeOK
  <2> QED
    BY <1>4, <1>3, <2>1 DEF SessionInv, SeenInserted, TypeOK, Request
<1> QED
  BY <1>5, <1>7, <1>8, <1>9, <1>10 DEF SessionInv

\* The rotation: the locked row is the login's only live one, and its successor
\* takes its place in the same commit.
LEMMA CommitStep ==
  ASSUME SessionInv, TypeOK', NEW w \in Worker, RefreshCommit(w)
  PROVE  SessionInv'
<1> DEFINE old == req[w].tok
<1> USE SessionsAssumption
<1>1. PICK n \in Token : /\ ~Inserted(n)
                         /\ InsertRow(n, owner[old], req[w].since + RefreshTTL, session[old])
                         /\ replacedBy' = [replacedBy EXCEPT ![old] = n]
  BY DEF RefreshCommit
<1>2. old \in Token /\ Live(old) /\ Inserted(old) /\ ~revoked[old] /\ old # n
  BY <1>1 DEF RefreshCommit, SessionInv, LocksExclusive, TypeOK, RequestOK, Live
<1>3. /\ owner' = [owner EXCEPT ![n] = owner[old]]
      /\ session' = [session EXCEPT ![n] = session[old]]
      /\ revoked' = [revoked EXCEPT ![old] = TRUE]
      /\ replacedBy' = [replacedBy EXCEPT ![old] = n]
      /\ req' = [req EXCEPT ![w].stage = "reply"]
  BY <1>1 DEF RefreshCommit, InsertRow, Goto
<1>4. \A t \in Token : /\ t # n => owner'[t] = owner[t] /\ session'[t] = session[t]
                       /\ t = n => Inserted(t)' /\ session'[t] = session[old]
                       /\ Inserted(t) => t # n /\ session[t] # n /\ session[t] \in Token
  BY <1>1, <1>2, <1>3 DEF SessionInv, TypeOK, RowsOK, RowsLinked, Inserted
<1>5. \A t \in Token : t # n => (Inserted(t)' <=> Inserted(t))
  BY <1>4 DEF Inserted
<1>6. \A t \in Token : t # n => (Live(t)' <=> (Live(t) /\ t # old))
  BY <1>2, <1>3, <1>5 DEF Live, SessionInv, TypeOK, RowsOK
<1> HIDE DEF old
<1>7. RowsLinked'
  BY <1>1, <1>2, <1>3, <1>4, <1>5 DEF SessionInv, RowsLinked
<1>8. \A v \in Worker : req'[v].stage = "tx" => v # w /\ req'[v] = req[v]
  BY <1>3 DEF SessionInv, TypeOK, Request
<1>9. LocksExclusive'
  <2>1. \A v \in Worker : req'[v].stage = "tx" =>
           req[v].tok \in Token /\ Live(req[v].tok) /\ req[v].tok # old /\ req[v].tok # n
    BY <1>1, <1>8 DEF SessionInv, LocksExclusive, TypeOK, RequestOK, Live, RefreshCommit, old
  <2>2. \A v \in Worker : req'[v].stage = "tx" => Live(req[v].tok)'
    BY <1>6, <1>8, <2>1
  <2> QED
    BY <1>8, <2>2 DEF SessionInv, LocksExclusive
<1>10. OneLivePerSession'
  <2> SUFFICES ASSUME NEW s \in Token, NEW t \in Token, Live(s)', Live(t)',
                      session'[s] = session'[t], s # t
               PROVE FALSE
    BY DEF OneLivePerSession
  <2>1. CASE s = n
    BY <1>2, <1>4, <1>6, <2>1 DEF SessionInv, OneLivePerSession
  <2>2. CASE t = n
    BY <1>2, <1>4, <1>6, <2>2 DEF SessionInv, OneLivePerSession
  <2>3. CASE s # n /\ t # n
    BY <1>4, <1>6, <2>3 DEF SessionInv, OneLivePerSession
  <2> QED
    BY <2>1, <2>2, <2>3
<1>11. EndedIsDead'
  <2> SUFFICES ASSUME NEW t \in Token, Inserted(t)', revoked'[t], replacedBy'[t] = NoToken,
                      NEW s \in Token, Live(s)', session'[s] = session'[t]
               PROVE FALSE
    BY DEF EndedIsDead, SessionLive
  <2>1. t # old
    BY <1>3, <1>2 DEF SessionInv, TypeOK, RowsOK
  <2>2. CASE t = n
    <3>1. s = n
      BY <1>2, <1>4, <1>6, <2>2 DEF SessionInv, OneLivePerSession
    <3> QED
      BY <2>2, <3>1 DEF Live
  <2>3. CASE t # n
    <3>1. revoked[t] /\ replacedBy[t] = NoToken /\ Inserted(t)
      BY <1>3, <1>5, <2>1, <2>3 DEF SessionInv, TypeOK, RowsOK
    <3>2. ~SessionLive(session[t])
      BY <3>1 DEF SessionInv, EndedIsDead
    <3>3. CASE s = n
      BY <1>2, <1>4, <2>3, <3>2, <3>3 DEF SessionLive
    <3>4. CASE s # n
      BY <1>4, <1>6, <2>3, <3>2, <3>4 DEF SessionLive
    <3> QED
      BY <3>3, <3>4
  <2> QED
    BY <2>2, <2>3
<1>12. SeenInserted'
  <2>1. \A v \in Worker : req'[v].seen = req[v].seen /\ req[v].seen \subseteq Token
    BY <1>3 DEF SessionInv, TypeOK, Request
  <2> QED
    BY <1>4, <1>5, <2>1 DEF SessionInv, SeenInserted
<1> QED
  BY <1>7, <1>9, <1>10, <1>11, <1>12 DEF SessionInv

\* The lock was free and the row still live: the transaction may begin.
LEMMA LockStep ==
  ASSUME SessionInv, TypeOK', NEW w \in Worker, RefreshLock(w)
  PROVE  SessionInv'
<1>1. CASE Finish(w)
  <2>1. req' = [req EXCEPT ![w] = Idle] /\ UNCHANGED <<rows, session>>
    BY <1>1 DEF RefreshLock, Finish, hist
  <2> QED
    BY <2>1, QuietStep DEF Idle, SessionInv, TypeOK
<1>2. CASE ~revoked[req[w].tok] /\ Goto(w, "tx")
  <2>1. /\ req' = [req EXCEPT ![w] = [req[w] EXCEPT !.stage = "tx"]]
        /\ UNCHANGED <<rows, session>>
        /\ req[w].stage = "lock"
        /\ \A v \in Worker : v # w => ~(req[v].stage = "tx" /\ req[v].tok = req[w].tok)
    BY <1>2 DEF RefreshLock, Goto, hist, LockedByOther, SessionInv, TypeOK
  <2>2. req[w].tok \in Token /\ Live(req[w].tok)
    BY <1>2, <2>1 DEF SessionInv, TypeOK, RequestOK, Live
  <2>3. \A v \in Worker : /\ v # w => req'[v] = req[v]
                          /\ req'[v].tok = req[v].tok /\ req'[v].seen = req[v].seen
    BY <2>1 DEF SessionInv, TypeOK, Request
  <2>4. \A t \in Token : (Inserted(t)' <=> Inserted(t)) /\ (Live(t)' <=> Live(t))
    BY <2>1 DEF rows, Inserted, Live
  <2>5. LocksExclusive'
    <3>1. \A v \in Worker : req'[v].stage = "tx" => req[v].tok \in Token /\ Live(req[v].tok)
      BY <2>2, <2>3 DEF SessionInv, LocksExclusive, TypeOK, RequestOK
    <3>2. \A v \in Worker : req'[v].stage = "tx" => Live(req[v].tok)'
      BY <2>3, <2>4, <3>1
    <3>3. ASSUME NEW u \in Worker, NEW v \in Worker, req'[u].stage = "tx", req'[v].stage = "tx",
                 req'[u].tok = req'[v].tok
          PROVE  u = v
      BY <2>1, <2>3, <3>3 DEF SessionInv, LocksExclusive
    <3> QED
      BY <3>2, <3>3 DEF LocksExclusive
  <2>6. RowsLinked' /\ OneLivePerSession'
    BY <2>1, <2>4 DEF SessionInv, RowsLinked, OneLivePerSession, rows, Inserted
  <2>7. EndedIsDead'
    <3>1. \A s \in Token : SessionLive(s)' <=> SessionLive(s)
      BY <2>1, <2>4 DEF SessionLive
    <3> QED
      BY <2>1, <2>4, <3>1 DEF SessionInv, EndedIsDead, rows, TypeOK, RowsOK
  <2>8. SeenInserted'
    BY <2>3, <2>4 DEF SessionInv, SeenInserted, TypeOK, Request
  <2> QED
    BY <2>5, <2>6, <2>7, <2>8 DEF SessionInv
<1> QED
  BY <1>1, <1>2 DEF RefreshLock

LEMMA SessionNext == SessionInv /\ [Next]_vars => SessionInv'
<1> SUFFICES ASSUME SessionInv, [Next]_vars PROVE SessionInv'
  OBVIOUS
<1>0. TypeOK /\ TypeOK'
  BY TypeNext DEF SessionInv
<1>1. ASSUME NEW w \in Worker, NEW u \in User, Register(w, u) PROVE SessionInv'
  <2> UNCHANGED <<rows, session>>
    BY <1>1 DEF Register, hist
  <2> QED
    BY <1>0, <1>1, QuietStep DEF Register, Idle, TypeOK
<1>2. ASSUME NEW w \in Worker, NEW u \in User, Login(w, u) PROVE SessionInv'
  <2> UNCHANGED <<rows, session>>
    BY <1>2 DEF Login, hist
  <2> QED
    BY <1>0, <1>2, QuietStep DEF Login, Idle, TypeOK
<1>3. ASSUME NEW w \in Worker, NEW u \in User, LogoutAll(w, u) PROVE SessionInv'
  <2>1. UNCHANGED <<rows, session>> /\ u # NoUser
    BY <1>3, SessionsAssumption DEF LogoutAll, hist
  <2>2. \A v \in Worker : \A t \in req'[v].seen : t \in req[v].seen \/ Inserted(t)
    BY <1>0, <1>3, <2>1 DEF LogoutAll, Idle, TypeOK, Inserted
  <2> QED
    BY <1>0, <1>3, <2>1, <2>2, QuietStep DEF LogoutAll, Idle, TypeOK
<1>4. ASSUME NEW w \in Worker, NEW t \in Token, RefreshRead(w, t) PROVE SessionInv'
  <2> UNCHANGED <<rows, session>>
    BY <1>4 DEF RefreshRead, hist
  <2> QED
    BY <1>0, <1>4, QuietStep DEF RefreshRead, Idle, TypeOK
<1>5. ASSUME NEW w \in Worker, IssueTokens(w) PROVE SessionInv'
  BY <1>0, <1>5, IssueStep
<1>6. ASSUME NEW w \in Worker, AutoUnban(w) PROVE SessionInv'
  <2> UNCHANGED <<rows, session>>
    BY <1>6 DEF AutoUnban
  <2> QED
    BY <1>0, <1>6, QuietStep DEF AutoUnban, Goto, TypeOK, Request
<1>7. ASSUME NEW w \in Worker, RefreshUser(w) PROVE SessionInv'
  <2> UNCHANGED <<rows, session>>
    BY <1>7 DEF RefreshUser, hist
  <2>1. CASE Finish(w)
    BY <1>0, <2>1, QuietStep DEF Finish, Idle, TypeOK
  <2>2. CASE req' = [req EXCEPT ![w] = [@ EXCEPT !.stage = IF banned[req[w].user] THEN "unban" ELSE "lock",
                                                 !.role = role[req[w].user]]]
    BY <1>0, <2>2, QuietStep DEF TypeOK, Request
  <2> QED
    BY <1>7, <2>1, <2>2 DEF RefreshUser
<1>8. ASSUME NEW w \in Worker, RefreshLock(w) PROVE SessionInv'
  BY <1>0, <1>8, LockStep
<1>9. ASSUME NEW w \in Worker, RefreshCommit(w) PROVE SessionInv'
  BY <1>0, <1>9, CommitStep
<1>10. ASSUME NEW w \in Worker, RefreshReply(w) PROVE SessionInv'
  <2> UNCHANGED <<rows, session>>
    BY <1>10 DEF RefreshReply, hist
  <2> QED
    BY <1>0, <1>10, QuietStep DEF RefreshReply, Finish, Idle, TypeOK
<1>11. ASSUME NEW t \in Token, Logout(t) PROVE SessionInv'
  <2>1. /\ UNCHANGED <<owner, replacedBy, session, req>>
        /\ revoked' = [revoked EXCEPT ![t] = TRUE]
        /\ \A w \in Worker : req[w].stage = "tx" => req[w].tok # t
    BY <1>11 DEF Logout, hist, Unlocked
  <2>2. \A s \in Token : /\ revoked[s] => revoked'[s]
                         /\ s # t => revoked'[s] = revoked[s]
    BY <1>0, <2>1 DEF TypeOK, RowsOK
  <2>3. \A w \in Worker : req[w].stage = "tx" => req[w].tok \in Token
    BY <1>0 DEF TypeOK, RequestOK
  <2> QED
    BY <1>0, <2>1, <2>2, <2>3, RevokeStep
<1>12. ASSUME NEW w \in Worker, SweepRows(w) PROVE SessionInv'
  <2>1. /\ UNCHANGED <<owner, replacedBy, session>>
        /\ revoked' = [t \in Token |-> revoked[t] \/ t \in req[w].seen]
        /\ req' = [req EXCEPT ![w] = Idle]
        /\ \A v \in Worker : v # w /\ req[v].stage = "tx" => req[v].tok \notin req[w].seen
    BY <1>12 DEF SweepRows, Finish, hist, LockedByOther
  <2>2. \A v \in Worker : req'[v].stage = "tx" => v # w /\ req'[v] = req[v] /\ req[v].tok \in Token
    BY <1>0, <2>1 DEF TypeOK, RequestOK, Idle
  <2>3. \A v \in Worker : req'[v].stage = "tx" => revoked'[req[v].tok] = revoked[req[v].tok]
    BY <1>0, <2>1, <2>2 DEF TypeOK, RowsOK
  <2>4. \A t \in Token : revoked[t] => revoked'[t]
    BY <2>1
  <2>5. \A v \in Worker : req'[v].seen \subseteq req[v].seen
    BY <1>0, <2>1 DEF TypeOK, Idle
  <2> QED
    BY <1>0, <2>1, <2>2, <2>3, <2>4, <2>5, RevokeStep
<1>13. ASSUME NEW w \in Worker, Abort(w) PROVE SessionInv'
  <2> UNCHANGED <<rows, session>>
    BY <1>13 DEF Abort, hist
  <2> QED
    BY <1>0, <1>13, QuietStep DEF Abort, Finish, Idle, TypeOK
<1>14. ASSUME UNCHANGED <<rows, session, req>> PROVE SessionInv'
  BY <1>0, <1>14, QuietStep
<1>15. ASSUME NEW u \in User, NEW e \in Time \cup {NoTime}, AdminBanUser(u, e) PROVE SessionInv'
  BY <1>14, <1>15 DEF AdminBanUser
<1>16. ASSUME NEW u \in User, AdminUnbanUser(u) PROVE SessionInv'
  BY <1>14, <1>16 DEF AdminUnbanUser
<1>17. ASSUME NEW u \in User, NEW r \in Role, AdminChangeUserRole(u, r) PROVE SessionInv'
  BY <1>14, <1>17 DEF AdminChangeUserRole
<1>18. CASE Tick \/ UNCHANGED vars
  BY <1>14, <1>18 DEF Tick, vars, hist
<1> QED
  BY <1>1, <1>2, <1>3, <1>4, <1>5, <1>6, <1>7, <1>8, <1>9, <1>10, <1>11, <1>12,
     <1>13, <1>15, <1>16, <1>17, <1>18 DEF Next

\* Along every behaviour the rows, locks and logins stay consistent.
THEOREM SessionInvariant == Spec => []SessionInv
  BY SessionInit, SessionNext, PTL DEF Spec

\* A login never has two working refresh tokens, for any number of replays and
\* requests (auth.go:190-226).
THEOREM OneLive == Spec => []OneLivePerSession
<1>1. SessionInv => OneLivePerSession
  BY DEF SessionInv
<1> QED
  BY <1>1, SessionInvariant, PTL

\* Only IssueTokens and RefreshCommit bring a live row into a login.
LEMMA LiveFrame ==
  ASSUME Next, ~\E w \in Worker : IssueTokens(w) \/ RefreshCommit(w), TypeOK
  PROVE  session' = session /\ \A t \in Token : Live(t)' => Live(t)
<1>1. CASE UNCHANGED <<owner, revoked, session>>
  BY <1>1 DEF Live, Inserted
<1>2. CASE \E t \in Token : Logout(t)
  BY <1>2 DEF Logout, hist, Live, Inserted, TypeOK, RowsOK
<1>3. CASE \E w \in Worker : SweepRows(w)
  BY <1>3 DEF SweepRows, hist, Live, Inserted, TypeOK, RowsOK
<1>4. ASSUME NEW w \in Worker, NEW u \in User, Register(w, u) \/ Login(w, u) \/ LogoutAll(w, u)
      PROVE  UNCHANGED <<owner, revoked, session>>
  BY <1>4 DEF Register, Login, LogoutAll, rows, hist
<1>5. ASSUME NEW w \in Worker, \/ \E t \in Token : RefreshRead(w, t)
                               \/ AutoUnban(w) \/ RefreshUser(w) \/ RefreshLock(w)
                               \/ RefreshReply(w) \/ Abort(w)
      PROVE  UNCHANGED <<owner, revoked, session>>
  BY <1>5 DEF RefreshRead, AutoUnban, RefreshUser, RefreshLock, RefreshReply, Abort, rows, hist
<1>6. ASSUME NEW u \in User, \/ \E e \in Time \cup {NoTime} : AdminBanUser(u, e)
                             \/ AdminUnbanUser(u)
                             \/ \E r \in Role : AdminChangeUserRole(u, r)
      PROVE  UNCHANGED <<owner, revoked, session>>
  BY <1>6 DEF AdminBanUser, AdminUnbanUser, AdminChangeUserRole, rows
<1>7. Tick => UNCHANGED <<owner, revoked, session>>
  BY DEF Tick, rows, hist
<1> QED
  BY <1>1, <1>2, <1>3, <1>4, <1>5, <1>6, <1>7 DEF Next

\* A login that is over stays over, whatever refreshes of it are in progress
\* (auth.go:190-195 against 255-257 and 268-270).
THEOREM DeadStaysDead == Spec => DeadSessionStaysDead
<1>1. ASSUME SessionInv, [Next]_vars
      PROVE  [\A s \in Token : Inserted(s) /\ ~SessionLive(s) => ~SessionLive(s)']_vars
  <2> SUFFICES ASSUME Next, NEW s \in Token, Inserted(s), ~SessionLive(s),
                      NEW t \in Token, Live(t)', session'[t] = s
               PROVE FALSE
    BY <1>1 DEF SessionLive
  <2>1. ASSUME NEW w \in Worker, IssueTokens(w) PROVE FALSE
    <3>1. PICK n \in Token : ~Inserted(n) /\ InsertRow(n, req[w].user, now + RefreshTTL, n)
      BY <2>1 DEF IssueTokens
    <3>2. session'[n] = n /\ n # s
      BY <1>1, <3>1 DEF SessionInv, TypeOK, RowsOK, InsertRow
    <3>3. t # n /\ session[t] = s /\ Live(t)
      BY <1>1, <2>1, <3>1, <3>2
         DEF SessionInv, TypeOK, RowsOK, InsertRow, Live, Inserted, IssueTokens
    <3> QED
      BY <3>3 DEF SessionLive
  <2>2. ASSUME NEW w \in Worker, RefreshCommit(w) PROVE FALSE
    <3> DEFINE old == req[w].tok
    <3>1. PICK n \in Token :
             ~Inserted(n) /\ InsertRow(n, owner[old], req[w].since + RefreshTTL, session[old])
      BY <2>2 DEF RefreshCommit
    <3>2. old \in Token /\ Live(old)
      BY <1>1, <2>2 DEF RefreshCommit, SessionInv, LocksExclusive, TypeOK, RequestOK
    <3>3. session[old] # s
      BY <3>2 DEF SessionLive
    <3>4. t # n /\ session[t] = s
      BY <1>1, <3>1, <3>3 DEF SessionInv, TypeOK, RowsOK, InsertRow
    <3>5. Live(t)
      BY <1>1, <2>2, <3>1, <3>2, <3>4
         DEF SessionInv, TypeOK, RowsOK, InsertRow, Live, Inserted, RefreshCommit
    <3> QED
      BY <3>4, <3>5 DEF SessionLive
  <2>3. CASE ~\E w \in Worker : IssueTokens(w) \/ RefreshCommit(w)
    BY <1>1, <2>3, LiveFrame DEF SessionLive, SessionInv
  <2> QED
    BY <2>1, <2>2, <2>3
<1> QED
  BY <1>1, SessionInvariant, PTL DEF Spec, DeadSessionStaysDead

\* A logout from all devices only misses logins whose row was replaced after its
\* snapshot (auth.go:268-270).
THEOREM LogoutAllMisses == Spec => LogoutAllMissesOnlyRotated
<1>1. ASSUME SessionInv, [Next]_vars
      PROVE  [\A w \in Worker : req[w].stage = "sweep" /\ SweepRows(w) =>
                \A t \in req[w].seen :
                   /\ revoked'[t]
                   /\ SessionLive(session[t])' => replacedBy[t] # NoToken]_vars
  <2> SUFFICES ASSUME NEW w \in Worker, SweepRows(w), NEW t \in req[w].seen
               PROVE  revoked'[t] /\ (SessionLive(session[t])' => replacedBy[t] # NoToken)
    OBVIOUS
  <2>1. SessionInv'
    BY <1>1, SessionNext
  <2>2. t \in Token /\ Inserted(t) /\ Inserted(t)' /\ replacedBy' = replacedBy
    BY <1>1 DEF SessionInv, SeenInserted, TypeOK, Request, SweepRows, Inserted
  <2>3. revoked'[t]
    BY <2>2 DEF SweepRows
  <2>4. replacedBy[t] = NoToken => ~SessionLive(session[t])'
    BY <2>1, <2>2, <2>3 DEF SessionInv, EndedIsDead
  <2> QED
    BY <2>3, <2>4
<1> QED
  BY <1>1, SessionInvariant, PTL DEF Spec, LogoutAllMissesOnlyRotated

-----------------------------------------------------------------------------
(* The rotation chain.                                                     *)

LEMMA ChainInit == Init => ChainInv
<1> SUFFICES ASSUME Init PROVE ChainInv
  OBVIOUS
<1>1. \A t \in Token : ~Inserted(t) /\ replacedBy[t] = NoToken
  BY DEF Init, Inserted
<1>2. ExpiriesFollow
  BY <1>1 DEF Init, ExpiriesFollow, Idle
<1>3. RotationChain
  BY <1>1, SessionsAssumption DEF RotationChain
<1> QED
  BY <1>2, <1>3, SessionInit DEF ChainInv

\* A step that inserts no row: no link, no expiry changes.
LEMMA ChainFrame ==
  ASSUME ChainInv, SessionInv', UNCHANGED <<owner, replacedBy, expires, session>>,
         now' \in {now, now + 1}, \A t \in Token : revoked[t] => revoked'[t],
         \A w \in Worker :
            \/ req'[w].since = now /\ now' = now
               /\ (req'[w].tok # NoToken => Inserted(req'[w].tok))
            \/ req'[w].since = 0 /\ req'[w].stage = "idle"
            \/ /\ req'[w].since = req[w].since /\ req'[w].tok = req[w].tok
               /\ req'[w].stage \in Refreshing => req[w].stage \in Refreshing
  PROVE  ChainInv'
<1>1. /\ now \in Int /\ 0 <= now
      /\ \A t \in Token : expires[t] \in Int
      /\ \A w \in Worker : req'[w].tok # NoToken => req'[w].tok \in Token
  BY DEF ChainInv, SessionInv, TypeOK, RowsOK, Time, Request
<1>2. \A t \in Token : Inserted(t)' <=> Inserted(t)
  BY DEF Inserted
<1>3. RotationChain'
  <2>1. \A t \in Token : replacedBy[t] # NoToken => replacedBy[t] \in Token
    BY DEF ChainInv, SessionInv, TypeOK, RowsOK
  <2> QED
    BY <1>2, <2>1 DEF ChainInv, RotationChain
<1>4. \A t \in Token : Inserted(t) => expires[t] <= now + RefreshTTL
  BY DEF ChainInv, ExpiriesFollow
<1>5. ASSUME NEW w \in Worker
      PROVE  /\ req'[w].since <= now'
             /\ req'[w].stage \in Refreshing /\ req'[w].tok # NoToken
                   => expires'[req'[w].tok] <= req'[w].since + RefreshTTL
  <2>1. CASE /\ req'[w].since = now /\ now' = now
             /\ req'[w].tok # NoToken => Inserted(req'[w].tok)
    BY <1>1, <1>4, <2>1
  <2>2. CASE req'[w].since = 0 /\ req'[w].stage = "idle"
    BY <1>1, <2>2 DEF Refreshing
  <2>3. CASE /\ req'[w].since = req[w].since /\ req'[w].tok = req[w].tok
             /\ req'[w].stage \in Refreshing => req[w].stage \in Refreshing
    <3>1. req[w].since \in Int /\ req[w].since <= now
      BY DEF ChainInv, SessionInv, TypeOK, Request, Time, ExpiriesFollow
    <3> QED
      BY <1>1, <2>3, <3>1 DEF ChainInv, ExpiriesFollow
  <2> QED
    BY <2>1, <2>2, <2>3
<1>6. \A t \in Token : Inserted(t)' => expires'[t] <= now' + RefreshTTL
  BY <1>1, <1>2, <1>4, SessionsAssumption
<1> QED
  BY <1>3, <1>5, <1>6 DEF ChainInv, ExpiriesFollow

\* A login's first row is nobody's successor and has none.
LEMMA ChainIssue ==
  ASSUME ChainInv, SessionInv', NEW w \in Worker, IssueTokens(w)
  PROVE  ChainInv'
<1>1. PICK n \in Token : ~Inserted(n) /\ InsertRow(n, req[w].user, now + RefreshTTL, n)
  BY DEF IssueTokens
<1>2. /\ UNCHANGED <<now, revoked, replacedBy>>
      /\ \A t \in Token : t # n => /\ owner'[t] = owner[t] /\ session'[t] = session[t]
                                   /\ expires'[t] = expires[t]
      /\ session'[n] = n /\ expires'[n] = now + RefreshTTL
      /\ req' = [req EXCEPT ![w] = Idle]
  BY <1>1 DEF IssueTokens, InsertRow, Finish, ChainInv, SessionInv, TypeOK, RowsOK
<1>3. \A t \in Token : t # n => (Inserted(t)' <=> Inserted(t))
  BY <1>2 DEF Inserted
<1>4. \A t \in Token : replacedBy[t] # NoToken => t # n /\ replacedBy[t] # n /\ replacedBy[t] \in Token
  BY <1>1 DEF ChainInv, SessionInv, RowsLinked, RotationChain, TypeOK, RowsOK
<1>5. RotationChain'
  <2>1. \A t, m \in Token : replacedBy[t] = m => t # n /\ m # n
    BY <1>4, SessionsAssumption
  <2>2. ASSUME NEW t \in Token, NEW m \in Token, replacedBy'[t] = m
        PROVE  /\ revoked'[t] /\ Inserted(m)' /\ m # session'[m]
               /\ owner'[m] = owner'[t] /\ session'[m] = session'[t]
               /\ expires'[m] >= expires'[t]
    BY <1>2, <1>3, <2>1, <2>2 DEF ChainInv, RotationChain
  <2>3. \A s, t \in Token : replacedBy'[s] = replacedBy'[t] /\ replacedBy'[s] # NoToken => s = t
    BY <1>2 DEF ChainInv, RotationChain
  <2>4. \A m \in Token : Inserted(m)' /\ m # session'[m] => \E t \in Token : replacedBy'[t] = m
    BY <1>2, <1>3 DEF ChainInv, RotationChain
  <2> QED
    BY <2>2, <2>3, <2>4 DEF RotationChain
<1>6. now \in Int /\ 0 <= now
  BY DEF ChainInv, SessionInv, TypeOK, Time
<1>7. \A t \in Token : Inserted(t)' => expires'[t] <= now' + RefreshTTL
  BY <1>2, <1>3, <1>6, SessionsAssumption DEF ChainInv, ExpiriesFollow
<1>8. ASSUME NEW v \in Worker
      PROVE  /\ req'[v].since <= now'
             /\ req'[v].stage \in Refreshing /\ req'[v].tok # NoToken
                   => expires'[req'[v].tok] <= req'[v].since + RefreshTTL
  <2>1. CASE v = w
    BY <1>2, <1>6, <2>1 DEF Idle, Refreshing, ChainInv, SessionInv, TypeOK
  <2>2. CASE v # w
    <3>1. /\ req'[v] = req[v] /\ (req[v].tok # NoToken => req[v].tok \in Token)
      BY <1>2, <2>2 DEF ChainInv, SessionInv, TypeOK, Request
    <3>2. req[v].stage \in Refreshing /\ req[v].tok # NoToken => req[v].tok # n
      BY <1>1 DEF ChainInv, SessionInv, TypeOK, RequestOK, Refreshing
    <3> QED
      BY <1>2, <3>1, <3>2 DEF ChainInv, ExpiriesFollow
  <2> QED
    BY <2>1, <2>2
<1> QED
  BY <1>5, <1>7, <1>8 DEF ChainInv, ExpiriesFollow

\* The rotation appends one row to its login's chain.
LEMMA ChainCommit ==
  ASSUME ChainInv, SessionInv', NEW w \in Worker, RefreshCommit(w)
  PROVE  ChainInv'
<1> DEFINE old == req[w].tok
<1>1. PICK n \in Token : /\ ~Inserted(n)
                         /\ InsertRow(n, owner[old], req[w].since + RefreshTTL, session[old])
                         /\ replacedBy' = [replacedBy EXCEPT ![old] = n]
  BY DEF RefreshCommit
<1>2. old \in Token /\ Live(old) /\ Inserted(old) /\ ~revoked[old] /\ old # n
  BY <1>1 DEF RefreshCommit, ChainInv, SessionInv, LocksExclusive, TypeOK, RequestOK, Live
<1>3. replacedBy[old] = NoToken /\ n # session[old] /\ n # NoToken
  <2>1. replacedBy[old] \in Token \cup {NoToken}
    BY <1>2 DEF ChainInv, SessionInv, TypeOK, RowsOK
  <2>2. replacedBy[old] \in Token => revoked[old]
    BY <1>2 DEF ChainInv, RotationChain
  <2> QED
    BY <1>1, <1>2, <2>1, <2>2, SessionsAssumption DEF ChainInv, SessionInv, RowsLinked
<1>4. /\ now' = now /\ req' = [req EXCEPT ![w].stage = "reply"]
      /\ \A t \in Token : t # n => /\ owner'[t] = owner[t] /\ session'[t] = session[t]
                                   /\ expires'[t] = expires[t]
      /\ owner'[n] = owner[old] /\ session'[n] = session[old]
      /\ expires'[n] = req[w].since + RefreshTTL
      /\ \A t \in Token : /\ t # old => replacedBy'[t] = replacedBy[t]
                          /\ revoked[t] => revoked'[t]
      /\ replacedBy'[old] = n /\ revoked'[old]
  BY <1>1, <1>2 DEF RefreshCommit, InsertRow, Goto, ChainInv, SessionInv, TypeOK, RowsOK
<1>5. /\ \A t \in Token : t # n => (Inserted(t)' <=> Inserted(t))
      /\ Inserted(n)'
  BY <1>2, <1>4 DEF Inserted
<1>6. \A t \in Token : replacedBy[t] # NoToken =>
         t # n /\ t # old /\ replacedBy[t] # n /\ replacedBy[t] \in Token
  BY <1>1, <1>2, <1>3 DEF ChainInv, SessionInv, RowsLinked, RotationChain, TypeOK, RowsOK
<1>7. /\ now \in Int /\ req[w].since \in Int /\ req[w].since <= now
      /\ expires[old] <= req[w].since + RefreshTTL
      /\ \A t \in Token : expires[t] \in Int
  BY <1>2, SessionsAssumption
     DEF RefreshCommit, ChainInv, SessionInv, TypeOK, RowsOK, Request, Time, ExpiriesFollow, Refreshing
<1> HIDE DEF old
<1>8. RotationChain'
  <2>1. ASSUME NEW t \in Token, NEW m \in Token, replacedBy'[t] = m
        PROVE  /\ revoked'[t] /\ Inserted(m)' /\ m # session'[m]
               /\ owner'[m] = owner'[t] /\ session'[m] = session'[t]
               /\ expires'[m] >= expires'[t]
    <3>1. CASE t = old
      <4>1. m = n /\ revoked'[t] /\ Inserted(m)'
        BY <1>4, <1>5, <2>1, <3>1
      <4>2. owner'[n] = owner'[t] /\ session'[n] = session'[t] /\ n # session'[n]
        BY <1>2, <1>3, <1>4, <3>1
      <4>3. expires'[n] >= expires'[t]
        BY <1>2, <1>4, <1>7, <3>1, SessionsAssumption
      <4> QED
        BY <4>1, <4>2, <4>3
    <3>2. CASE t # old
      <4>1. replacedBy[t] = m /\ replacedBy[t] # NoToken /\ m # n /\ t # n
        BY <1>4, <1>6, <2>1, <3>2, SessionsAssumption
      <4>2. /\ revoked[t] /\ Inserted(m) /\ m # session[m]
            /\ owner[m] = owner[t] /\ session[m] = session[t]
            /\ expires[m] >= expires[t]
        BY <4>1 DEF ChainInv, RotationChain
      <4>3. /\ owner'[m] = owner[m] /\ session'[m] = session[m] /\ expires'[m] = expires[m]
            /\ owner'[t] = owner[t] /\ session'[t] = session[t] /\ expires'[t] = expires[t]
            /\ revoked'[t] /\ Inserted(m)'
        BY <1>4, <1>5, <4>1, <4>2
      <4> QED
        BY <4>2, <4>3
    <3> QED
      BY <3>1, <3>2
  <2>2. \A s, t \in Token : replacedBy'[s] = replacedBy'[t] /\ replacedBy'[s] # NoToken => s = t
    BY <1>3, <1>4, <1>6 DEF ChainInv, RotationChain
  <2>3. ASSUME NEW m \in Token, Inserted(m)', m # session'[m]
        PROVE  \E t \in Token : replacedBy'[t] = m
    <3>1. CASE m = n
      BY <1>2, <1>4, <3>1
    <3>2. CASE m # n
      <4>1. PICK t \in Token : replacedBy[t] = m
        BY <1>4, <1>5, <2>3, <3>2 DEF ChainInv, RotationChain
      <4>2. m # NoToken
        BY SessionsAssumption
      <4> QED
        BY <1>4, <1>6, <4>1, <4>2
    <3> QED
      BY <3>1, <3>2
  <2> QED
    BY <2>1, <2>2, <2>3 DEF RotationChain
<1>9. \A t \in Token : Inserted(t)' => expires'[t] <= now' + RefreshTTL
  BY <1>4, <1>5, <1>7, SessionsAssumption DEF ChainInv, ExpiriesFollow
<1>10. ASSUME NEW v \in Worker
       PROVE  /\ req'[v].since <= now'
              /\ req'[v].stage \in Refreshing /\ req'[v].tok # NoToken
                    => expires'[req'[v].tok] <= req'[v].since + RefreshTTL
  <2>1. CASE v = w
    BY <1>4, <1>7, <2>1 DEF Refreshing, ChainInv, SessionInv, TypeOK, Request
  <2>2. CASE v # w
    <3>1. req'[v] = req[v] /\ (req[v].tok # NoToken => req[v].tok \in Token)
      BY <1>4, <2>2 DEF ChainInv, SessionInv, TypeOK, Request
    <3>2. req[v].stage \in Refreshing /\ req[v].tok # NoToken => req[v].tok # n
      BY <1>1 DEF ChainInv, SessionInv, TypeOK, RequestOK, Refreshing
    <3> QED
      BY <1>4, <3>1, <3>2 DEF ChainInv, ExpiriesFollow
  <2> QED
    BY <2>1, <2>2
<1> QED
  BY <1>8, <1>9, <1>10 DEF ChainInv, ExpiriesFollow
\* Every step keeps the chain.
LEMMA ChainNext == ChainInv /\ [Next]_vars => ChainInv'
<1> SUFFICES ASSUME ChainInv, [Next]_vars PROVE ChainInv'
  OBVIOUS
<1>0. /\ SessionInv' /\ TypeOK /\ SessionInv
      /\ req \in [Worker -> Request]
  BY SessionNext DEF ChainInv, SessionInv, TypeOK
<1>1. ASSUME NEW w \in Worker, NEW u \in User, Register(w, u) \/ Login(w, u) \/ LogoutAll(w, u)
      PROVE  ChainInv'
  <2>1. UNCHANGED <<now, owner, replacedBy, expires, revoked, session>>
    BY <1>1 DEF Register, Login, LogoutAll, rows, hist
  <2>2. req'[w].since = now /\ req'[w].tok = NoToken
    <3>1. CASE Register(w, u)
      BY <1>0, <3>1 DEF Register, Idle
    <3>2. CASE Login(w, u)
      BY <1>0, <3>2 DEF Login, Idle
    <3>3. CASE LogoutAll(w, u)
      BY <1>0, <3>3 DEF LogoutAll, Idle
    <3> QED
      BY <1>1, <3>1, <3>2, <3>3
  <2>3. \A v \in Worker : v # w => req'[v] = req[v]
    BY <1>0, <1>1 DEF Register, Login, LogoutAll
  <2> QED
    BY <1>0, <2>1, <2>2, <2>3, ChainFrame
<1>2. ASSUME NEW w \in Worker, NEW t \in Token, RefreshRead(w, t) PROVE ChainInv'
  <2>1. UNCHANGED <<now, owner, replacedBy, expires, revoked, session>>
    BY <1>2 DEF RefreshRead, rows, hist
  <2>2. req'[w].since = now /\ req'[w].tok = t
    BY <1>0, <1>2 DEF RefreshRead, Idle
  <2>3. Inserted(t)
    BY <1>2 DEF RefreshRead, Live
  <2>4. Inserted(req'[w].tok)
    BY <2>2, <2>3 DEF Inserted
  <2>5. \A v \in Worker : v # w => req'[v] = req[v]
    BY <1>0, <1>2 DEF RefreshRead
  <2> QED
    BY <1>0, <2>1, <2>2, <2>4, <2>5, ChainFrame
<1>3. ASSUME NEW w \in Worker, IssueTokens(w) PROVE ChainInv'
  BY <1>0, <1>3, ChainIssue
<1>4. ASSUME NEW w \in Worker, RefreshCommit(w) PROVE ChainInv'
  BY <1>0, <1>4, ChainCommit
<1>5. ASSUME NEW w \in Worker, AutoUnban(w) \/ RefreshUser(w) \/ RefreshLock(w) PROVE ChainInv'
  <2>1. UNCHANGED <<now, owner, replacedBy, expires, revoked, session>>
    BY <1>5 DEF AutoUnban, RefreshUser, RefreshLock, rows, hist
  <2>2. \A v \in Worker : v # w => req'[v] = req[v]
    BY <1>0, <1>5 DEF AutoUnban, RefreshUser, RefreshLock, Goto, Finish
  <2>3. \/ req'[w].since = 0 /\ req'[w].stage = "idle"
        \/ /\ req'[w].since = req[w].since /\ req'[w].tok = req[w].tok
           /\ req[w].stage \in Refreshing
    <3>1. CASE Finish(w)
      BY <1>0, <3>1 DEF Finish, Idle
    <3>2. CASE AutoUnban(w)
      BY <1>0, <3>2 DEF AutoUnban, Goto, Request, Refreshing
    <3>3. CASE RefreshUser(w) /\ ~Finish(w)
      BY <1>0, <3>3 DEF RefreshUser, Request, Refreshing
    <3>4. CASE RefreshLock(w) /\ ~Finish(w)
      BY <1>0, <3>4 DEF RefreshLock, Goto, Request, Refreshing
    <3> QED
      BY <1>5, <3>1, <3>2, <3>3, <3>4
  <2> QED
    BY <1>0, <2>1, <2>2, <2>3, ChainFrame
<1>6. ASSUME NEW w \in Worker, RefreshReply(w) \/ SweepRows(w) \/ Abort(w) PROVE ChainInv'
  <2>1. UNCHANGED <<now, owner, replacedBy, expires, session>>
    BY <1>6 DEF RefreshReply, SweepRows, Abort, rows, hist
  <2>2. \A t \in Token : revoked[t] => revoked'[t]
    BY <1>6 DEF RefreshReply, SweepRows, Abort, rows
  <2>3. \A v \in Worker : IF v = w THEN req'[v].since = 0 /\ req'[v].stage = "idle"
                                   ELSE req'[v] = req[v]
    BY <1>0, <1>6 DEF RefreshReply, SweepRows, Abort, Finish, Idle
  <2> QED
    BY <1>0, <2>1, <2>2, <2>3, ChainFrame
<1>7. ASSUME NEW t \in Token, Logout(t) PROVE ChainInv'
  <2>1. UNCHANGED <<now, owner, replacedBy, expires, session, req>>
    BY <1>7 DEF Logout, hist
  <2>2. \A s \in Token : revoked[s] => revoked'[s]
    BY <1>0, <1>7 DEF Logout, TypeOK, RowsOK
  <2> QED
    BY <1>0, <2>1, <2>2, ChainFrame
<1>8. CASE \/ \E u \in User, e \in Time \cup {NoTime} : AdminBanUser(u, e)
           \/ \E u \in User : AdminUnbanUser(u)
           \/ \E u \in User, r \in Role : AdminChangeUserRole(u, r)
  <2>1. UNCHANGED <<now, owner, replacedBy, expires, revoked, session, req>>
    BY <1>8 DEF AdminBanUser, AdminUnbanUser, AdminChangeUserRole, rows
  <2> QED
    BY <1>0, <2>1, ChainFrame
<1>9. CASE Tick
  <2>1. UNCHANGED <<owner, replacedBy, expires, revoked, session, req>> /\ now' = now + 1
    BY <1>9 DEF Tick, rows, hist
  <2> QED
    BY <1>0, <2>1, ChainFrame
<1>10. CASE UNCHANGED vars
  <2>1. UNCHANGED <<now, owner, replacedBy, expires, revoked, session, req>>
    BY <1>10 DEF vars, rows, hist
  <2> QED
    BY <1>0, <2>1, ChainFrame
<1> QED
  BY <1>1, <1>2, <1>3, <1>4, <1>5, <1>6, <1>7, <1>8, <1>9, <1>10 DEF Next

\* The rows of a login form one chain of rotations (auth.go:203-223).
THEOREM RotationIsChain == Spec => []RotationChain
<1>1. ChainInv => RotationChain
  BY DEF ChainInv
<1> QED
  BY <1>1, ChainInit, ChainNext, PTL DEF Spec

-----------------------------------------------------------------------------
(***************************************************************************)
(* Sessions implements Logins: a step of Sessions is a step of Logins on   *)
(* the holders of the logins, or leaves them alone.                        *)
(***************************************************************************)

(* Rows of one login, and rows of one sweep, belong to one user.           *)

\* Few statements write refresh_tokens.
LEMMA RowWriters ==
  ASSUME [Next]_vars
  PROVE  \/ UNCHANGED <<rows, session>>
         \/ \E w \in Worker : IssueTokens(w) \/ RefreshCommit(w) \/ SweepRows(w)
         \/ \E t \in Token : Logout(t)
<1>1. ASSUME NEW w \in Worker, NEW u \in User, Register(w, u) \/ Login(w, u) \/ LogoutAll(w, u)
      PROVE  UNCHANGED <<rows, session>>
  BY <1>1 DEF Register, Login, LogoutAll, hist
<1>2. ASSUME NEW w \in Worker, \/ \E t \in Token : RefreshRead(w, t)
                               \/ AutoUnban(w) \/ RefreshUser(w) \/ RefreshLock(w)
                               \/ RefreshReply(w) \/ Abort(w)
      PROVE  UNCHANGED <<rows, session>>
  BY <1>2 DEF RefreshRead, AutoUnban, RefreshUser, RefreshLock, RefreshReply, Abort, hist
<1>3. ASSUME NEW u \in User, \/ \E e \in Time \cup {NoTime} : AdminBanUser(u, e)
                             \/ AdminUnbanUser(u)
                             \/ \E r \in Role : AdminChangeUserRole(u, r)
      PROVE  UNCHANGED <<rows, session>>
  BY <1>3 DEF AdminBanUser, AdminUnbanUser, AdminChangeUserRole
<1>4. Tick \/ UNCHANGED vars => UNCHANGED <<rows, session>>
  BY DEF Tick, vars, hist
<1> QED
  BY <1>1, <1>2, <1>3, <1>4 DEF Next

\* A worker about to sweep has just taken its snapshot or had it before.
LEMMA SweepStarts ==
  ASSUME TypeOK, [Next]_vars, NEW w \in Worker, req'[w].stage = "sweep"
  PROVE  req'[w] = req[w] \/ \E u \in User : LogoutAll(w, u)
<1>1. ASSUME NEW v \in Worker, NEW u \in User, Register(v, u) \/ Login(v, u)
      PROVE  req'[w] = req[w]
  BY <1>1 DEF Register, Login, Idle, TypeOK
<1>2. ASSUME NEW v \in Worker, NEW u \in User, LogoutAll(v, u)
      PROVE  v = w \/ req'[w] = req[w]
  BY <1>2 DEF LogoutAll, TypeOK
<1>3. ASSUME NEW v \in Worker, NEW t \in Token, RefreshRead(v, t)
      PROVE  req'[w] = req[w]
  BY <1>3 DEF RefreshRead, Idle, TypeOK
<1>4. ASSUME NEW v \in Worker, AutoUnban(v) \/ RefreshUser(v) \/ RefreshLock(v) \/ RefreshCommit(v)
      PROVE  req'[w] = req[w]
  <2>1. CASE v # w
    BY <1>4, <2>1 DEF AutoUnban, RefreshUser, RefreshLock, RefreshCommit, Goto, Finish, TypeOK
  <2>2. AutoUnban(w) => req'[w].stage \in {"issue", "lock"}
    BY DEF AutoUnban, Goto, TypeOK, Request
  <2>3. RefreshUser(w) => req'[w].stage \in {"idle", "unban", "lock"}
    <3>1. Finish(w) => req'[w].stage = "idle"
      BY DEF Finish, Idle, TypeOK
    <3>2. ASSUME NEW g, NEW r, req' = [req EXCEPT ![w] = [@ EXCEPT !.stage = g, !.role = r]]
          PROVE  req'[w].stage = g
      BY <3>2 DEF TypeOK, Request
    <3> QED
      BY <3>1, <3>2 DEF RefreshUser
  <2>4. RefreshLock(w) => req'[w].stage \in {"idle", "tx"}
    BY DEF RefreshLock, Goto, Finish, Idle, TypeOK, Request
  <2>5. RefreshCommit(w) => req'[w].stage = "reply"
    BY DEF RefreshCommit, Goto, TypeOK, Request
  <2> QED
    BY <1>4, <2>1, <2>2, <2>3, <2>4, <2>5
<1>5. ASSUME NEW v \in Worker, IssueTokens(v) \/ RefreshReply(v) \/ SweepRows(v) \/ Abort(v)
      PROVE  req'[w] = req[w]
  BY <1>5 DEF IssueTokens, RefreshReply, SweepRows, Abort, Finish, Idle, TypeOK
<1>6. ASSUME NEW t \in Token, Logout(t)
      PROVE  req'[w] = req[w]
  BY <1>6 DEF Logout
<1>7. ASSUME NEW u \in User, \/ \E e \in Time \cup {NoTime} : AdminBanUser(u, e)
                             \/ AdminUnbanUser(u)
                             \/ \E r \in Role : AdminChangeUserRole(u, r)
      PROVE  req'[w] = req[w]
  BY <1>7 DEF AdminBanUser, AdminUnbanUser, AdminChangeUserRole
<1>8. Tick \/ UNCHANGED vars => req'[w] = req[w]
  BY DEF Tick, vars
<1> QED
  BY <1>1, <1>2, <1>3, <1>4, <1>5, <1>6, <1>7, <1>8 DEF Next

\* The row a login starts with.
LEMMA IssuedRow ==
  ASSUME SessionInv, NEW w \in Worker, IssueTokens(w)
  PROVE  \E n \in Token :
            /\ ~Inserted(n) /\ req[w].user \in User
            /\ owner' = [owner EXCEPT ![n] = req[w].user]
            /\ session' = [session EXCEPT ![n] = n]
            /\ revoked' = revoked
  BY DEF IssueTokens, InsertRow, SessionInv, TypeOK, RequestOK

\* The row a login is passed on to.
LEMMA RotatedRow ==
  ASSUME SessionInv, NEW w \in Worker, RefreshCommit(w)
  PROVE  \E o, n \in Token :
            /\ ~Inserted(n) /\ Live(o) /\ o # n
            /\ owner' = [owner EXCEPT ![n] = owner[o]]
            /\ session' = [session EXCEPT ![n] = session[o]]
            /\ revoked' = [revoked EXCEPT ![o] = TRUE]
<1>1. req[w].tok \in Token /\ Live(req[w].tok)
  BY DEF RefreshCommit, SessionInv, LocksExclusive, TypeOK, RequestOK
<1> QED
  BY <1>1 DEF RefreshCommit, InsertRow, Live

\* Logout and a sweep revoke rows of one user.
LEMMA RevokedRows ==
  ASSUME LoginsInv, \/ \E w \in Worker : SweepRows(w)
                   \/ \E t \in Token : Logout(t)
  PROVE  /\ UNCHANGED <<owner, session>>
         /\ \A t \in Token : revoked[t] => revoked'[t]
         /\ \A t \in Token : ~Inserted(t) => (revoked'[t] <=> revoked[t])
         /\ \E u \in User : \A t \in Token : revoked'[t] /\ ~revoked[t] => owner[t] = u
<1> USE DEF LoginsInv, SessionInv, TypeOK
<1>1. ASSUME NEW w \in Worker, SweepRows(w)
      PROVE  /\ UNCHANGED <<owner, session>>
             /\ \A t \in Token : revoked'[t] <=> revoked[t] \/ t \in req[w].seen
             /\ req[w].user \in User
             /\ \A t \in req[w].seen : owner[t] = req[w].user /\ Inserted(t)
  BY <1>1 DEF SweepRows, hist, SweepsOwned, RequestOK, SeenInserted
<1>2. ASSUME NEW x \in Token, Logout(x)
      PROVE  /\ UNCHANGED <<owner, session>>
             /\ \A t \in Token : revoked'[t] <=> revoked[t] \/ t = x
             /\ owner[x] \in User /\ Inserted(x)
  BY <1>2, SessionsAssumption DEF Logout, hist, RowsOK, Live, Inserted
<1> QED
  BY <1>1, <1>2

LEMMA LoginsInit == Init => LoginsInv
<1>1. Init => FreshRows /\ LoginsOwned /\ SweepsOwned
  BY DEF Init, FreshRows, LoginsOwned, SweepsOwned, Inserted, Idle
<1> QED
  BY <1>1, SessionInit DEF LoginsInv

LEMMA LoginsNext == LoginsInv /\ [Next]_vars => LoginsInv'
<1> SUFFICES ASSUME LoginsInv, [Next]_vars PROVE LoginsInv'
  OBVIOUS
<1>1. SessionInv' /\ SessionInv
  BY SessionNext DEF LoginsInv
<1> USE SessionsAssumption
<1>2. /\ \A t \in Token : Inserted(t) => owner'[t] = owner[t]
      /\ LoginsOwned'
  <2>1. CASE UNCHANGED <<rows, session>>
    BY <2>1 DEF rows, Inserted, LoginsInv, LoginsOwned
  <2>2. ASSUME NEW w \in Worker, IssueTokens(w)
        PROVE  /\ \A t \in Token : Inserted(t) => owner'[t] = owner[t]
               /\ LoginsOwned'
    <3>1. PICK n \in Token :
            /\ ~Inserted(n) /\ req[w].user \in User
            /\ owner' = [owner EXCEPT ![n] = req[w].user]
            /\ session' = [session EXCEPT ![n] = n]
      BY <1>1, <2>2, IssuedRow
    <3> QED
      BY <1>1, <3>1 DEF LoginsInv, LoginsOwned, SessionInv, TypeOK, RowsOK, RowsLinked, Inserted
  <2>3. ASSUME NEW w \in Worker, RefreshCommit(w)
        PROVE  /\ \A t \in Token : Inserted(t) => owner'[t] = owner[t]
               /\ LoginsOwned'
    <3>1. PICK o, n \in Token :
            /\ ~Inserted(n) /\ Live(o) /\ o # n
            /\ owner' = [owner EXCEPT ![n] = owner[o]]
            /\ session' = [session EXCEPT ![n] = session[o]]
      BY <1>1, <2>3, RotatedRow
    <3>2. Inserted(session[o]) /\ session[o] # n /\ session[o] \in Token
          /\ owner[session[o]] = owner[o]
      BY <1>1, <3>1 DEF LoginsInv, LoginsOwned, SessionInv, TypeOK, RowsOK, RowsLinked, Live
    <3>3. \A t \in Token : t # n => owner'[t] = owner[t] /\ session'[t] = session[t]
      BY <1>1, <3>1 DEF SessionInv, TypeOK, RowsOK
    <3>4. owner'[n] = owner[o] /\ session'[n] = session[o]
      BY <1>1, <3>1 DEF SessionInv, TypeOK, RowsOK
    <3>5. ASSUME NEW t \in Token, Inserted(t)' PROVE owner'[session'[t]] = owner'[t]
      <4>1. CASE t = n
        BY <3>2, <3>3, <3>4, <4>1
      <4>2. CASE t # n
        <5>1. Inserted(t) /\ Inserted(session[t]) /\ session[t] \in Token /\ owner[session[t]] = owner[t]
          BY <1>1, <3>3, <3>5, <4>2
             DEF LoginsInv, LoginsOwned, SessionInv, TypeOK, RowsOK, RowsLinked, Inserted
        <5> QED
          BY <3>1, <3>3, <4>2, <5>1
      <4> QED
        BY <4>1, <4>2
    <3> QED
      BY <3>1, <3>3, <3>5 DEF LoginsOwned
  <2>4. CASE (\E w \in Worker : SweepRows(w)) \/ (\E t \in Token : Logout(t))
    BY <2>4, RevokedRows DEF LoginsInv, LoginsOwned, Inserted
  <2> QED
    BY <2>1, <2>2, <2>3, <2>4, RowWriters
<1>3. SweepsOwned'
  <2> SUFFICES ASSUME NEW w \in Worker, req'[w].stage = "sweep", NEW t \in req'[w].seen
               PROVE  owner'[t] = req'[w].user
    BY DEF SweepsOwned
  <2>1. CASE req'[w] = req[w]
    <3>1. t \in Token /\ Inserted(t) /\ owner[t] = req[w].user
      BY <1>1, <2>1 DEF LoginsInv, SweepsOwned, SessionInv, SeenInserted, TypeOK, Request
    <3> QED
      BY <1>2, <2>1, <3>1
  <2>2. ASSUME NEW u \in User, LogoutAll(w, u) PROVE owner'[t] = req'[w].user
    BY <1>1, <2>2 DEF LogoutAll, rows, Idle, SessionInv, TypeOK
  <2> QED
    BY <1>1, <2>1, <2>2, SweepStarts DEF SessionInv
<1>4. FreshRows'
  <2>1. CASE UNCHANGED <<rows, session>>
    BY <2>1 DEF rows, Inserted, LoginsInv, FreshRows
  <2>2. ASSUME NEW w \in Worker, IssueTokens(w) PROVE FreshRows'
    BY <1>1, <1>2, <2>2, IssuedRow DEF FreshRows, LoginsInv, Inserted, SessionInv, TypeOK, RowsOK
  <2>3. ASSUME NEW w \in Worker, RefreshCommit(w) PROVE FreshRows'
    <3>1. PICK o, n \in Token :
            /\ ~Inserted(n) /\ Live(o) /\ o # n
            /\ owner' = [owner EXCEPT ![n] = owner[o]]
            /\ revoked' = [revoked EXCEPT ![o] = TRUE]
      BY <1>1, <2>3, RotatedRow
    <3>2. /\ \A t \in Token : t # n => owner'[t] = owner[t]
          /\ \A t \in Token : t # o => revoked'[t] = revoked[t]
      BY <1>1, <3>1 DEF SessionInv, TypeOK, RowsOK
    <3>3. owner'[o] # NoUser /\ ~revoked[n]
      BY <3>1, <3>2 DEF Live, Inserted, FreshRows, LoginsInv
    <3>4. \A t \in Token : ~Inserted(t)' => t # o /\ ~revoked[t]
      BY <3>1, <3>2, <3>3 DEF Inserted, FreshRows, LoginsInv
    <3> QED
      BY <3>2, <3>4 DEF FreshRows
  <2>4. CASE (\E w \in Worker : SweepRows(w)) \/ (\E t \in Token : Logout(t))
    BY <2>4, RevokedRows DEF LoginsInv, FreshRows, Inserted
  <2> QED
    BY <2>1, <2>2, <2>3, <2>4, RowWriters
<1> QED
  BY <1>1, <1>2, <1>3, <1>4 DEF LoginsInv

-----------------------------------------------------------------------------
(* The holder of a login is its one live row.                              *)

LEMMA HolderLive ==
  ASSUME SessionInv, NEW s \in Token, NEW t \in Token, Live(t), session[t] = s
  PROVE  FirstRow(s) /\ HolderOf(s) = t
<1>1. FirstRow(s) /\ SessionLive(s)
  BY DEF SessionInv, RowsLinked, Live, FirstRow, SessionLive
<1>2. \A x \in Token : Live(x) /\ session[x] = s => x = t
  BY DEF SessionInv, OneLivePerSession
<1> QED
  BY <1>1, <1>2 DEF HolderOf

LEMMA HolderLiveNext ==
  ASSUME SessionInv', NEW s \in Token, NEW t \in Token, Live(t)', session'[t] = s
  PROVE  HolderOf(s)' = t
<1>1. FirstRow(s)' /\ SessionLive(s)'
  BY DEF SessionInv, RowsLinked, Live, FirstRow, SessionLive
<1>2. \A x \in Token : Live(x)' /\ session'[x] = s => x = t
  BY DEF SessionInv, OneLivePerSession
<1> QED
  BY <1>1, <1>2 DEF HolderOf

\* A login whose rows a step leaves alone keeps its holder.
LEMMA HolderKept ==
  ASSUME SessionInv, SessionInv', NEW s \in Token, FirstRow(s)' <=> FirstRow(s),
         \A t \in Token : Live(t)' /\ session'[t] = s <=> Live(t) /\ session[t] = s
  PROVE  HolderOf(s)' = HolderOf(s)
<1>1. CASE SessionLive(s)
  <2>1. PICK t \in Token : Live(t) /\ session[t] = s
    BY <1>1 DEF SessionLive
  <2>2. Live(t)' /\ session'[t] = s
    BY <2>1
  <2> QED
    BY <2>1, <2>2, HolderLive, HolderLiveNext
<1>2. CASE ~SessionLive(s)
  <2>1. ~SessionLive(s)'
    BY <1>2 DEF SessionLive
  <2> QED
    BY <1>2, <2>1 DEF HolderOf
<1> QED
  BY <1>1, <1>2

-----------------------------------------------------------------------------
(* Every step of Sessions is a step of Logins, or none of its business.    *)

LEMMA OpensLogin ==
  ASSUME LoginsInv, SessionInv', NEW w \in Worker, IssueTokens(w)
  PROVE  \E s \in Token, u \in User : L!Open(s, u)
<1> USE SessionsAssumption DEF LoginsInv
<1>1. PICK n \in Token :
        /\ ~Inserted(n) /\ req[w].user \in User
        /\ owner' = [owner EXCEPT ![n] = req[w].user]
        /\ session' = [session EXCEPT ![n] = n]
        /\ revoked' = revoked
  BY IssuedRow
<1>2. /\ \A t \in Token : t # n => owner'[t] = owner[t] /\ session'[t] = session[t]
      /\ owner'[n] = req[w].user /\ session'[n] = n
  BY <1>1 DEF SessionInv, TypeOK, RowsOK
<1>3. Live(n)' /\ FirstRow(n)' /\ ~Live(n) /\ ~FirstRow(n)
  BY <1>1, <1>2 DEF Live, Inserted, FirstRow, FreshRows
<1>4. \A s \in Token : s # n => (FirstRow(s)' <=> FirstRow(s)) /\ (Live(s)' <=> Live(s))
  BY <1>1, <1>2 DEF FirstRow, Live, Inserted
<1>5. HolderOf(n)' = n
  BY <1>2, <1>3, HolderLiveNext
<1>6. ASSUME NEW s \in Token, s # n PROVE HolderOf(s)' = HolderOf(s)
  <2>1. \A t \in Token : Live(t)' /\ session'[t] = s <=> Live(t) /\ session[t] = s
    BY <1>2, <1>3, <1>4, <1>6
  <2> QED
    BY <1>4, <1>6, <2>1, HolderKept
<1>7. {t \in Token : Inserted(t)}' = {t \in Token : Inserted(t)} \cup {n}
  BY <1>1, <1>2 DEF Inserted
<1>8. [s \in Token |-> IF FirstRow(s) THEN owner[s] ELSE NoUser]'
      = [[s \in Token |-> IF FirstRow(s) THEN owner[s] ELSE NoUser] EXCEPT ![n] = req[w].user]
  BY <1>2, <1>3, <1>4
<1>9. [s \in Token |-> HolderOf(s)]' = [[s \in Token |-> HolderOf(s)] EXCEPT ![n] = n]
  BY <1>5, <1>6
<1>10. PICK u \in User : u = req[w].user
  BY <1>1
<1>11. L!Open(n, u)
  BY <1>1, <1>7, <1>8, <1>9, <1>10 DEF L!Open
<1> QED
  BY <1>11

LEMMA PassesLoginOn ==
  ASSUME LoginsInv, SessionInv', NEW w \in Worker, RefreshCommit(w)
  PROVE  \E s, t \in Token : L!PassOn(s, t)
<1> USE SessionsAssumption DEF LoginsInv
<1>1. PICK o, n \in Token :
        /\ ~Inserted(n) /\ Live(o) /\ o # n
        /\ owner' = [owner EXCEPT ![n] = owner[o]]
        /\ session' = [session EXCEPT ![n] = session[o]]
        /\ revoked' = [revoked EXCEPT ![o] = TRUE]
  BY RotatedRow
<1>2. PICK c \in Token : c = session[o]
  BY <1>1 DEF SessionInv, TypeOK, RowsOK, Live
<1>3. /\ \A t \in Token : t # n => owner'[t] = owner[t] /\ session'[t] = session[t]
      /\ \A t \in Token : t # o => revoked'[t] = revoked[t]
      /\ owner'[n] = owner[o] /\ session'[n] = c /\ revoked'[o] = TRUE
  BY <1>1, <1>2 DEF SessionInv, TypeOK, RowsOK
<1>4. Inserted(c) /\ c # n /\ Inserted(n)'
  BY <1>1, <1>2, <1>3 DEF SessionInv, RowsLinked, Live, Inserted
<1>5. Live(n)' /\ ~Live(n) /\ ~Live(o)'
  BY <1>1, <1>3, <1>4 DEF Live, FreshRows
<1>6. \A t \in Token : t # n /\ t # o => (Live(t)' <=> Live(t))
  BY <1>3 DEF Live, Inserted
<1>7. \A s \in Token : FirstRow(s)' <=> FirstRow(s)
  <2>1. ~FirstRow(n)' /\ ~FirstRow(n)
    BY <1>1, <1>3, <1>4 DEF FirstRow
  <2>2. \A s \in Token : s # n => (FirstRow(s)' <=> FirstRow(s))
    BY <1>3 DEF FirstRow, Inserted
  <2> QED
    BY <2>1, <2>2
<1>8. HolderOf(c) = o /\ HolderOf(c)' = n
  BY <1>1, <1>2, <1>3, <1>5, HolderLive, HolderLiveNext
<1>9. ASSUME NEW s \in Token, s # c PROVE HolderOf(s)' = HolderOf(s)
  <2>1. \A t \in Token : Live(t)' /\ session'[t] = s <=> Live(t) /\ session[t] = s
    BY <1>1, <1>2, <1>3, <1>5, <1>6, <1>9
  <2> QED
    BY <1>7, <2>1, HolderKept
<1>10. {t \in Token : Inserted(t)}' = {t \in Token : Inserted(t)} \cup {n}
  BY <1>3, <1>4 DEF Inserted
<1>11. [s \in Token |-> IF FirstRow(s) THEN owner[s] ELSE NoUser]'
       = [s \in Token |-> IF FirstRow(s) THEN owner[s] ELSE NoUser]
  <2>1. \A s \in Token : FirstRow(s) => owner'[s] = owner[s]
    BY <1>1, <1>3 DEF FirstRow
  <2> QED
    BY <1>7, <2>1
<1>12. [s \in Token |-> HolderOf(s)]' = [[s \in Token |-> HolderOf(s)] EXCEPT ![c] = n]
  BY <1>8, <1>9
<1>13. L!PassOn(c, n)
  BY <1>1, <1>8, <1>10, <1>11, <1>12 DEF L!PassOn
<1> QED
  BY <1>13

LEMMA EndsLogins ==
  ASSUME LoginsInv, SessionInv', \/ \E w \in Worker : SweepRows(w)
                                 \/ \E t \in Token : Logout(t)
  PROVE  \E u \in User : L!End(u)
<1> USE DEF LoginsInv
<1>1. /\ UNCHANGED <<owner, session>>
      /\ \A t \in Token : revoked[t] => revoked'[t]
  BY RevokedRows
<1>2. PICK u \in User : \A t \in Token : revoked'[t] /\ ~revoked[t] => owner[t] = u
  BY RevokedRows
<1>3. \A s \in Token : (Inserted(s)' <=> Inserted(s)) /\ (FirstRow(s)' <=> FirstRow(s))
  BY <1>1 DEF Inserted, FirstRow
<1>4. ASSUME NEW s \in Token, HolderOf(s)' # HolderOf(s)
      PROVE  /\ FirstRow(s) /\ owner[s] = u
             /\ HolderOf(s) \in Token /\ HolderOf(s)' = "over"
  <2>1. \A t \in Token : Live(t)' => Live(t)
    BY <1>1 DEF Live, Inserted
  <2>2. PICK t \in Token : /\ Live(t) /\ session[t] = s
                           /\ ~(Live(t)' /\ session'[t] = s)
    BY <1>1, <1>3, <1>4, <2>1, HolderKept
  <2>3. FirstRow(s) /\ HolderOf(s) = t
    BY <2>2, HolderLive
  <2>4. owner[t] = u /\ owner[s] = owner[t]
    BY <1>1, <1>2, <2>2 DEF Live, Inserted, LoginsOwned
  <2>5. ~SessionLive(s)'
    BY <1>1, <2>1, <2>2 DEF SessionLive, SessionInv, OneLivePerSession
  <2>6. HolderOf(s)' = "over"
    BY <1>3, <2>3, <2>5 DEF HolderOf
  <2> QED
    BY <2>3, <2>4, <2>6
<1>5. \A s \in Token : HolderOf(s)' \in Token \cup {"unmade", "over"}
  <2> SUFFICES ASSUME NEW s \in Token PROVE HolderOf(s)' \in Token \cup {"unmade", "over"}
    OBVIOUS
  <2>1. CASE SessionLive(s)'
    BY <2>1, HolderLiveNext DEF SessionLive
  <2>2. CASE ~SessionLive(s)'
    BY <2>2 DEF HolderOf
  <2> QED
    BY <2>1, <2>2
<1>6. [s \in Token |-> IF FirstRow(s) THEN owner[s] ELSE NoUser]'
      = [s \in Token |-> IF FirstRow(s) THEN owner[s] ELSE NoUser]
  BY <1>1, <1>3
<1>7. {t \in Token : Inserted(t)}' = {t \in Token : Inserted(t)}
  BY <1>3
<1>8. L!End(u)
  BY <1>4, <1>5, <1>6, <1>7 DEF L!End
<1> QED
  BY <1>8

\* Tables, statements and locks keep the promise of Logins: a login is held by
\* one token at a time, passed on only to new tokens, and over for good
\* (auth.go:119, 190-226, 255-257, 268-270).
THEOREM SessionsImplementLogins == Spec => ImplementsLogins
<1>1. Init => L!Init
  BY DEF Init, L!Init, Inserted, FirstRow, HolderOf
<1>2. ASSUME LoginsInv, [Next]_vars PROVE [L!Next]_(L!loginVars)
  <2>1. SessionInv'
    BY <1>2, SessionNext DEF LoginsInv
  <2>2. CASE UNCHANGED <<rows, session>>
    <3>1. /\ \A s \in Token : (Inserted(s)' <=> Inserted(s)) /\ (FirstRow(s)' <=> FirstRow(s))
          /\ \A s \in Token : Live(s)' <=> Live(s)
      BY <2>2 DEF rows, Inserted, FirstRow, Live
    <3>2. \A s \in Token : HolderOf(s)' = HolderOf(s)
      BY <1>2, <2>1, <2>2, <3>1, HolderKept DEF LoginsInv
    <3> QED
      BY <2>2, <3>1, <3>2 DEF L!loginVars, rows
  <2>3. ASSUME NEW w \in Worker, IssueTokens(w) PROVE L!Next
    BY <1>2, <2>1, <2>3, OpensLogin DEF L!Next
  <2>4. ASSUME NEW w \in Worker, RefreshCommit(w) PROVE L!Next
    BY <1>2, <2>1, <2>4, PassesLoginOn DEF L!Next
  <2>5. CASE (\E w \in Worker : SweepRows(w)) \/ (\E t \in Token : Logout(t))
    BY <1>2, <2>1, <2>5, EndsLogins DEF L!Next
  <2> QED
    BY <1>2, <2>2, <2>3, <2>4, <2>5, RowWriters
<1> QED
  BY <1>1, <1>2, LoginsInit, LoginsNext, PTL DEF Spec, ImplementsLogins, L!Spec

-----------------------------------------------------------------------------
(* Access tokens of banned users and of lost roles: how long a ban or the  *)
(* loss of a role can go unnoticed.                                        *)

LEMMA SignInit == Init => SignInv
<1> SUFFICES ASSUME Init PROVE SignInv
  OBVIOUS
<1>1. TypeOK
  BY TypeInit
<1>2. \A w \in Worker : PendingOK(req[w])
  BY DEF Init, Idle, PendingOK
<1>3. PastTimes /\ BanBoundsAccess /\ StaleRoleBound
  BY SessionsAssumption DEF Init, PastTimes, BanBoundsAccess, StaleRoleBound, BanInForce, NoTime
<1> QED
  BY <1>1, <1>2, <1>3 DEF SignInv

\* A step that changes neither the users, nor the clock, nor an access token.
LEMMA SignQuiet ==
  ASSUME SignInv, TypeOK', UNCHANGED <<now, users, access, leftRole>>,
         \A w \in Worker : req'[w] = req[w] \/ PendingOK(req'[w])
  PROVE  SignInv'
<1>1. \A u \in User : BanInForce(u)' <=> BanInForce(u)
  BY DEF users, BanInForce, BanExpired
<1>2. ASSUME NEW w \in Worker PROVE PendingOK(req[w])'
  <2>1. PendingOK(req'[w])
    BY DEF SignInv
  <2>2. req'[w].stage # "idle" => req'[w].user \in User
    BY DEF TypeOK, RequestOK
  <2> QED
    BY <1>1, <2>1, <2>2 DEF PendingOK, users
<1>3. PastTimes' /\ BanBoundsAccess' /\ StaleRoleBound'
  BY <1>1 DEF SignInv, PastTimes, BanBoundsAccess, StaleRoleBound, users, Registered
<1> QED
  BY <1>2, <1>3 DEF SignInv

\* A worker signs an access token and ends.
LEMMA SignStep ==
  ASSUME SignInv, TypeOK', NEW w \in Worker, req[w].stage \in Signing,
         Sign(req[w].user, req[w].role), Finish(w), UNCHANGED <<now, users, leftRole>>
  PROVE  SignInv'
<1> DEFINE u == req[w].user
<1> DEFINE r == req[w].role
<1>1. u \in User /\ r \in Role /\ req[w].since \in Int /\ now \in Int /\ access \in [User -> [Role -> Nat]]
  BY DEF SignInv, TypeOK, RequestOK, Signing, Request, Time
<1>2. \A v \in User : (BanInForce(v)' <=> BanInForce(v))
  BY DEF users, BanInForce, BanExpired
<1>3. \A v \in User, q \in Role : access'[v][q] = IF v = u /\ q = r THEN now + AccessTTL ELSE access[v][q]
  BY <1>1 DEF Sign
<1>4. now <= req[w].since + Latency
      /\ (BanInForce(u) => req[w].since <= bannedAt[u])
      /\ (role[u] = r \/ (leftRole[u][r] # NoTime /\ req[w].since <= leftRole[u][r]))
  BY DEF SignInv, PendingOK, Signing
<1>5. \A v \in User : bannedAt[v] \in Int /\ \A q \in Role : leftRole[v][q] \in Int
  BY DEF SignInv, TypeOK, UsersOK, Time, NoTime
<1> HIDE DEF u, r
<1>6. BanBoundsAccess'
  BY <1>1, <1>2, <1>3, <1>4, <1>5, SessionsAssumption DEF SignInv, BanBoundsAccess, users
<1>7. StaleRoleBound'
  BY <1>1, <1>3, <1>4, <1>5, SessionsAssumption DEF SignInv, StaleRoleBound, users
<1>8. PastTimes'
  BY <1>1, <1>3, SessionsAssumption DEF SignInv, PastTimes, users, Registered
<1>9. ASSUME NEW v \in Worker PROVE PendingOK(req[v])'
  <2>1. CASE v = w
    BY <2>1 DEF Finish, PendingOK, Idle, SignInv, TypeOK
  <2>2. CASE v # w
    <3>1. req'[v] = req[v] /\ PendingOK(req[v]) /\ (req[v].stage # "idle" => req[v].user \in User)
      BY <2>2 DEF Finish, SignInv, TypeOK, RequestOK
    <3> QED
      BY <1>2, <3>1 DEF PendingOK, users
  <2> QED
    BY <2>1, <2>2
<1> QED
  BY <1>6, <1>7, <1>8, <1>9 DEF SignInv

\* The clock moves only while no request is older than Latency.
LEMMA SignTick ==
  ASSUME SignInv, TypeOK', Tick
  PROVE  SignInv'
<1>1. now \in Int /\ now' = now + 1 /\ UNCHANGED <<users, access, req, leftRole>>
  BY DEF Tick, hist, SignInv, TypeOK, Time
<1>2. \A u \in User : BanInForce(u)' => BanInForce(u)
  <2>1. \A u \in User : banExp[u] \in Int
    BY DEF SignInv, TypeOK, UsersOK, Time, NoTime
  <2> QED
    BY <1>1, <2>1 DEF users, BanInForce, BanExpired
<1>3. PastTimes'
  <2>1. \A u \in User : bannedAt[u] \in Int /\ \A r \in Role : leftRole[u][r] \in Int /\ access[u][r] \in Int
    BY DEF SignInv, TypeOK, UsersOK, Time, NoTime
  <2> QED
    BY <1>1, <2>1, SessionsAssumption DEF SignInv, PastTimes, users, Registered
<1>4. BanBoundsAccess' /\ StaleRoleBound'
  BY <1>1, <1>2 DEF SignInv, BanBoundsAccess, StaleRoleBound, users
<1>5. ASSUME NEW w \in Worker PROVE PendingOK(req[w])'
  <2>1. /\ PendingOK(req[w]) /\ req[w].since \in Int
        /\ req[w].stage # "idle" => req[w].user \in User /\ now < req[w].since + Latency
    BY DEF SignInv, TypeOK, RequestOK, Request, Time, Tick
  <2> QED
    BY <1>1, <1>2, <2>1, SessionsAssumption DEF PendingOK, users
<1> QED
  BY <1>3, <1>4, <1>5 DEF SignInv

\* A step that changes the users, the clock and the access tokens staying.
LEMMA SignUsers ==
  ASSUME SignInv, TypeOK', UNCHANGED <<now, access>>,
         \A u \in User : /\ BanInForce(u)' => \/ bannedAt'[u] = now
                                              \/ BanInForce(u) /\ bannedAt'[u] = bannedAt[u]
                         /\ bannedAt'[u] \in {bannedAt[u], now, NoTime}
                         /\ banned'[u] => Registered(u)',
         \A u \in User, r \in Role :
            \/ leftRole'[u][r] = now
            \/ leftRole'[u][r] = leftRole[u][r] /\ (role[u] = r => role'[u] = r),
         \A w \in Worker : \/ /\ req'[w].stage \in Signing => req[w].stage \in Signing
                              /\ req[w].stage # "idle"
                              /\ req'[w] = [req[w] EXCEPT !.stage = req'[w].stage]
                           \/ req'[w] = req[w]
                           \/ PendingOK(req[w])'
  PROVE  SignInv'
<1>1. now \in Int /\ 0 <= now
  BY DEF SignInv, TypeOK, Time
<1>2. \A u \in User : bannedAt[u] \in Int /\ \A r \in Role : leftRole[u][r] \in Int /\ access[u][r] \in Int
  BY DEF SignInv, TypeOK, UsersOK, Time, NoTime
<1>3. PastTimes'
  BY <1>1, <1>2 DEF SignInv, PastTimes, NoTime
<1>4. BanBoundsAccess'
  BY <1>1, <1>2, SessionsAssumption DEF SignInv, BanBoundsAccess, PastTimes
<1>5. StaleRoleBound'
  BY <1>1, <1>2, SessionsAssumption DEF SignInv, StaleRoleBound, PastTimes, NoTime
<1>6. ASSUME NEW w \in Worker PROVE PendingOK(req[w])'
  <2>1. CASE PendingOK(req[w])'
    BY <2>1
  <2>2. CASE /\ req'[w].stage \in Signing => req[w].stage \in Signing
             /\ req'[w].stage # "idle" => req[w].stage # "idle"
             /\ req'[w].user = req[w].user /\ req'[w].role = req[w].role
             /\ req'[w].since = req[w].since
    <3>1. /\ PendingOK(req[w]) /\ req[w].since \in Int
          /\ req[w].stage # "idle" => req[w].user \in User
          /\ req[w].stage \in Signing => req[w].role \in Role
      BY DEF SignInv, TypeOK, RequestOK, Request, Time, Signing
    <3>2. req[w].stage # "idle" => req[w].since <= now /\ now <= req[w].since + Latency
      BY <3>1 DEF PendingOK
    <3>3. req[w].stage \in Signing => req[w].stage # "idle"
      BY DEF Signing
    <3>4. req[w].stage \in Signing =>
             /\ BanInForce(req[w].user)' => req[w].since <= bannedAt'[req[w].user]
             /\ \/ role'[req[w].user] = req[w].role
                \/ /\ leftRole'[req[w].user][req[w].role] # NoTime
                   /\ req[w].since <= leftRole'[req[w].user][req[w].role]
      <4> SUFFICES ASSUME req[w].stage \in Signing
                   PROVE  /\ BanInForce(req[w].user)' => req[w].since <= bannedAt'[req[w].user]
                          /\ \/ role'[req[w].user] = req[w].role
                             \/ /\ leftRole'[req[w].user][req[w].role] # NoTime
                                /\ req[w].since <= leftRole'[req[w].user][req[w].role]
        BY <2>2
      <4>1. PICK u \in User, r \in Role : u = req[w].user /\ r = req[w].role
        BY <3>1, <3>3
      <4>2. PICK b : b = req[w].since
        OBVIOUS
      <4>3. /\ b <= now
            /\ BanInForce(u) => b <= bannedAt[u]
            /\ role[u] = r \/ (leftRole[u][r] # NoTime /\ b <= leftRole[u][r])
        BY <3>1, <3>2, <3>3, <4>1, <4>2 DEF PendingOK
      <4>4. BanInForce(u)' => b <= bannedAt'[u]
        BY <4>1, <4>3
      <4>5. role'[u] = r \/ (leftRole'[u][r] # NoTime /\ b <= leftRole'[u][r])
        BY <1>1, <4>1, <4>3 DEF NoTime
      <4> QED
        BY <2>2, <4>1, <4>2, <4>4, <4>5 DEF BanInForce, BanExpired
    <3> QED
      BY <2>2, <3>2, <3>4 DEF PendingOK
  <2>3. CASE /\ req'[w].stage \in Signing => req[w].stage \in Signing
             /\ req[w].stage # "idle"
             /\ req'[w] = [req[w] EXCEPT !.stage = req'[w].stage]
    <3>1. req[w] \in Request
      BY DEF SignInv, TypeOK
    <3>2. /\ req'[w].user = req[w].user /\ req'[w].role = req[w].role
          /\ req'[w].since = req[w].since
      BY <2>3, <3>1 DEF Request
    <3> QED
      BY <2>2, <2>3, <3>2
  <2> QED
    BY <2>1, <2>2, <2>3
<1> QED
  BY <1>3, <1>4, <1>5, <1>6 DEF SignInv

LEMMA SignNext == SignInv /\ [Next]_vars => SignInv'
<1> SUFFICES ASSUME SignInv, [Next]_vars PROVE SignInv'
  OBVIOUS
<1>0. TypeOK /\ TypeOK' /\ now \in Int /\ 0 <= now
  BY TypeNext DEF SignInv, TypeOK, Time
<1> USE SessionsAssumption
<1>1. ASSUME NEW w \in Worker, NEW u \in User, Register(w, u) PROVE SignInv'
  <2>1. ~banned[u] /\ ~BanInForce(u)'
    BY <1>1 DEF SignInv, PastTimes, Register, BanInForce
  <2>2. \A v \in User : (BanInForce(v)' => BanInForce(v)) /\ (Registered(v) => Registered(v)')
    BY <1>0, <1>1 DEF Register, BanInForce, BanExpired, Registered, TypeOK, UsersOK
  <2>3. \A v \in User, r \in Role : role[v] = r => role'[v] = r
    BY <1>0, <1>1 DEF Register, Registered, TypeOK, UsersOK
  <2>4. req'[w] = [Idle EXCEPT !.stage = "issue", !.user = u, !.role = "user", !.since = now]
    BY <1>0, <1>1 DEF Register, TypeOK
  <2>5. role'[u] = "user"
    BY <1>0, <1>1 DEF Register, TypeOK, UsersOK
  <2>6. PendingOK(req[w])'
    BY <1>0, <1>1, <2>1, <2>4, <2>5 DEF PendingOK, Idle, Register
  <2>7. \A v \in Worker : v # w => req'[v] = req[v]
    BY <1>0, <1>1 DEF Register, TypeOK
  <2> QED
    BY <1>0, <1>1, <2>2, <2>3, <2>6, <2>7, SignUsers DEF Register, hist, SignInv, PastTimes
<1>2. ASSUME NEW w \in Worker, NEW u \in User, Login(w, u) PROVE SignInv'
  <2>1. req'[w] = [Idle EXCEPT !.stage = IF banned[u] THEN "unban" ELSE "issue",
                               !.user = u, !.role = role[u], !.since = now]
    BY <1>0, <1>2 DEF Login, TypeOK
  <2>2. PendingOK(req'[w])
    BY <1>0, <1>2, <2>1 DEF PendingOK, Idle, Login
  <2> QED
    BY <1>0, <1>2, <2>2, SignQuiet DEF Login, hist, TypeOK
<1>3. ASSUME NEW w \in Worker, NEW u \in User, LogoutAll(w, u) PROVE SignInv'
  <2>1. req'[w].stage = "sweep" /\ req'[w].since = now
    BY <1>0, <1>3 DEF LogoutAll, TypeOK, Idle
  <2>2. PendingOK(req'[w])
    BY <1>0, <2>1 DEF PendingOK, Signing
  <2> QED
    BY <1>0, <1>3, <2>2, SignQuiet DEF LogoutAll, hist, TypeOK
<1>4. ASSUME NEW w \in Worker, NEW t \in Token, RefreshRead(w, t) PROVE SignInv'
  <2>1. req'[w].stage = "user" /\ req'[w].since = now
    BY <1>0, <1>4 DEF RefreshRead, TypeOK, Idle
  <2>2. PendingOK(req'[w])
    BY <1>0, <2>1 DEF PendingOK, Signing
  <2> QED
    BY <1>0, <1>4, <2>2, SignQuiet DEF RefreshRead, hist, TypeOK
<1>5. ASSUME NEW w \in Worker, IssueTokens(w) PROVE SignInv'
  BY <1>0, <1>5, SignStep DEF IssueTokens, Signing
<1>6. ASSUME NEW w \in Worker, AutoUnban(w) PROVE SignInv'
  <2>1. req[w].user \in User /\ Registered(req[w].user)
    BY <1>0, <1>6 DEF AutoUnban, TypeOK, RequestOK
  <2>2. \A v \in User : /\ BanInForce(v)' => BanInForce(v) /\ bannedAt'[v] = bannedAt[v]
                        /\ bannedAt'[v] \in {bannedAt[v], NoTime}
                        /\ banned'[v] => Registered(v)'
    BY <1>0, <1>6, <2>1
       DEF AutoUnban, BanInForce, BanExpired, Registered, TypeOK, UsersOK, SignInv, PastTimes
  <2>3. \A v \in Worker : v # w => req'[v] = req[v]
    BY <1>0, <1>6 DEF AutoUnban, Goto, TypeOK
  <2>4. req'[w] = [req[w] EXCEPT !.stage = req'[w].stage] /\ req[w].stage \in Signing
    BY <1>0, <1>6 DEF AutoUnban, Goto, TypeOK, Request, Signing
  <2> QED
    BY <1>0, <1>6, <2>2, <2>3, <2>4, SignUsers DEF AutoUnban
<1>7. ASSUME NEW w \in Worker, RefreshUser(w) PROVE SignInv'
  <2>1. CASE Finish(w)
    <3>1. PendingOK(req'[w])
      BY <1>0, <2>1 DEF Finish, PendingOK, Idle, TypeOK
    <3> QED
      BY <1>0, <1>7, <2>1, <3>1, SignQuiet DEF RefreshUser, Finish, hist, TypeOK
  <2>2. CASE /\ ~BanInForce(req[w].user)
             /\ req' = [req EXCEPT ![w] = [@ EXCEPT !.stage = IF banned[req[w].user] THEN "unban" ELSE "lock",
                                                    !.role = role[req[w].user]]]
    <3>1. /\ req'[w].user = req[w].user /\ req'[w].since = req[w].since
          /\ req'[w].role = role[req[w].user]
      BY <1>0, <2>2 DEF TypeOK, Request
    <3>2. req[w].since <= now /\ now <= req[w].since + Latency
      BY <1>7 DEF RefreshUser, SignInv, PendingOK
    <3>3. PendingOK(req'[w])
      BY <2>2, <3>1, <3>2 DEF PendingOK
    <3> QED
      BY <1>0, <1>7, <2>2, <3>3, SignQuiet DEF RefreshUser, hist, TypeOK
  <2> QED
    BY <1>7, <2>1, <2>2 DEF RefreshUser
<1>8. ASSUME NEW w \in Worker, RefreshLock(w) PROVE SignInv'
  <2>1. PendingOK(req'[w])
    <3>1. CASE Finish(w)
      BY <1>0, <3>1 DEF Finish, PendingOK, Idle, TypeOK
    <3>2. CASE Goto(w, "tx")
      <4>1. req'[w] = [req[w] EXCEPT !.stage = "tx"] /\ req[w] \in Request
        BY <1>0, <3>2 DEF Goto, TypeOK
      <4> QED
        BY <1>8, <4>1 DEF RefreshLock, SignInv, PendingOK, Signing, Request
    <3> QED
      BY <1>8, <3>1, <3>2 DEF RefreshLock
  <2> QED
    BY <1>0, <1>8, <2>1, SignQuiet DEF RefreshLock, Finish, Goto, hist, TypeOK
<1>9. ASSUME NEW w \in Worker, RefreshCommit(w) PROVE SignInv'
  <2>1. req'[w] = [req[w] EXCEPT !.stage = "reply"] /\ req[w] \in Request
    BY <1>0, <1>9 DEF RefreshCommit, Goto, TypeOK
  <2>2. PendingOK(req'[w])
    BY <1>9, <2>1 DEF RefreshCommit, SignInv, PendingOK, Signing, Request
  <2> QED
    BY <1>0, <1>9, <2>2, SignQuiet DEF RefreshCommit, Goto, TypeOK
<1>10. ASSUME NEW w \in Worker, RefreshReply(w) PROVE SignInv'
  BY <1>0, <1>10, SignStep DEF RefreshReply, hist, Signing
<1>11. ASSUME NEW t \in Token, Logout(t) PROVE SignInv'
  BY <1>0, <1>11, SignQuiet DEF Logout, hist
<1>12. ASSUME NEW w \in Worker, SweepRows(w) \/ Abort(w) PROVE SignInv'
  <2>1. Finish(w) /\ UNCHANGED <<now, users, access, leftRole>>
    BY <1>12 DEF SweepRows, Abort, hist
  <2>2. PendingOK(req'[w])
    BY <1>0, <2>1 DEF Finish, PendingOK, Idle, TypeOK
  <2> QED
    BY <1>0, <2>1, <2>2, SignQuiet DEF Finish, TypeOK
<1>13. ASSUME NEW u \in User, NEW e \in Time \cup {NoTime}, AdminBanUser(u, e) PROVE SignInv'
  <2>1. \A v \in User : /\ v # u => (BanInForce(v)' <=> BanInForce(v)) /\ bannedAt'[v] = bannedAt[v]
                        /\ v = u => bannedAt'[v] = now
                        /\ banned'[v] => Registered(v)'
    BY <1>0, <1>13
       DEF AdminBanUser, BanInForce, BanExpired, Registered, TypeOK, UsersOK, SignInv, PastTimes
  <2> QED
    BY <1>0, <1>13, <2>1, SignUsers DEF AdminBanUser
<1>14. ASSUME NEW u \in User, AdminUnbanUser(u) PROVE SignInv'
  <2>1. \A v \in User : /\ BanInForce(v)' => BanInForce(v) /\ bannedAt'[v] = bannedAt[v]
                        /\ bannedAt'[v] \in {bannedAt[v], NoTime}
                        /\ banned'[v] => Registered(v)'
    BY <1>0, <1>14
       DEF AdminUnbanUser, BanInForce, BanExpired, Registered, TypeOK, UsersOK, SignInv, PastTimes
  <2> QED
    BY <1>0, <1>14, <2>1, SignUsers DEF AdminUnbanUser
<1>15. ASSUME NEW u \in User, NEW r \in Role, AdminChangeUserRole(u, r) PROVE SignInv'
  <2>1. \A v \in User : /\ BanInForce(v)' <=> BanInForce(v)
                        /\ banned'[v] => Registered(v)'
    BY <1>0, <1>15
       DEF AdminChangeUserRole, BanInForce, BanExpired, Registered, TypeOK, UsersOK, SignInv, PastTimes
  <2>2. \A v \in User, q \in Role :
            \/ leftRole'[v][q] = now
            \/ leftRole'[v][q] = leftRole[v][q] /\ (role[v] = q => role'[v] = q)
    BY <1>0, <1>15 DEF AdminChangeUserRole, Registered, TypeOK, UsersOK
  <2> QED
    BY <1>0, <1>15, <2>1, <2>2, SignUsers DEF AdminChangeUserRole
<1>16. CASE Tick
  BY <1>0, <1>16, SignTick
<1>17. CASE UNCHANGED vars
  BY <1>0, <1>17, SignQuiet DEF vars, hist
<1> QED
  BY <1>1, <1>2, <1>3, <1>4, <1>5, <1>6, <1>7, <1>8, <1>9, <1>10, <1>11, <1>12,
     <1>13, <1>14, <1>15, <1>16, <1>17 DEF Next

\* A banned user's access tokens run out within Latency + AccessTTL of the ban
\* (auth.go:230, 278; middleware/auth.go:24).
THEOREM BannedAccess == Spec => []BanBoundsAccess
<1>1. SignInv => BanBoundsAccess
  BY DEF SignInv
<1> QED
  BY <1>1, SignInit, SignNext, PTL DEF Spec

\* A lost role lives on in access tokens for at most Latency + AccessTTL
\* (auth.go:180, 230).
THEOREM StaleRole == Spec => []StaleRoleBound
<1>1. SignInv => StaleRoleBound
  BY DEF SignInv
<1> QED
  BY <1>1, SignInit, SignNext, PTL DEF Spec

\* Only a ban set while the request ran is lifted by the expiry of an earlier one
\* (auth.go:373-380 against 97 and 180).
THEOREM BannedLifted == Spec => BanLiftedOnlyByRace
<1>1. ASSUME SignInv
      PROVE  \A w \in Worker : req[w].stage = "unban" /\ BanInForce(req[w].user)
                                  => bannedAt[req[w].user] >= req[w].since
  <2> SUFFICES ASSUME NEW w \in Worker, req[w].stage = "unban", BanInForce(req[w].user)
               PROVE  bannedAt[req[w].user] >= req[w].since
    OBVIOUS
  <2>1. bannedAt[req[w].user] \in Int /\ req[w].since \in Int
    BY <1>1 DEF SignInv, TypeOK, RequestOK, Request, UsersOK, Time, NoTime
  <2>2. req[w].since <= bannedAt[req[w].user]
    BY <1>1 DEF SignInv, PendingOK, Signing
  <2> QED
    BY <2>1, <2>2
<1>2. ASSUME SignInv, [Next]_vars
      PROVE  [\A w \in Worker : LET u == req[w].user IN
                req[w].stage = "unban" /\ req'[w] # req[w] /\ BanInForce(u) /\ ~banned'[u]
                   => bannedAt[u] >= req[w].since]_vars
  BY <1>1, <1>2
<1> QED
  BY <1>2, SignInit, SignNext, PTL DEF Spec, BanLiftedOnlyByRace

-----------------------------------------------------------------------------
(* Refresh tokens created after a ban.                                     *)

\* The requests past the ban check are some of the workers.
LEMMA PassedFinite ==
  ASSUME NEW u \in User
  PROVE  /\ IsFiniteSet(Passed(u)) /\ Cardinality(Passed(u)) \in Nat
         /\ Cardinality(Worker) \in Nat /\ Cardinality(Passed(u)) <= Cardinality(Worker)
<1>1. Passed(u) \subseteq Worker
  BY DEF Passed
<1> QED
  BY <1>1, SessionsAssumption, FS_Subset, FS_CardinalityType

\* The same one step later.
LEMMA PassedFiniteNext ==
  ASSUME NEW u \in User
  PROVE  /\ IsFiniteSet(Passed(u)') /\ Cardinality(Passed(u)') \in Nat
         /\ Cardinality(Passed(u)') <= Cardinality(Worker)
<1>1. Passed(u)' \subseteq Worker
  BY DEF Passed
<1> QED
  BY <1>1, SessionsAssumption, FS_Subset, FS_CardinalityType

\* A step in which no banned user gains a row or a request past the check,
\* except at the ban itself.
LEMMA IssueQuiet ==
  ASSUME IssueInv, TypeOK',
         \A u \in User : banned'[u] => Registered(u)',
         \A u \in User : BanInForce(u)' =>
            \/ issued'[u] = 0
            \/ BanInForce(u) /\ issued'[u] = issued[u] /\ Passed(u)' \subseteq Passed(u)
  PROVE  IssueInv'
<1> SUFFICES ASSUME NEW u \in User, BanInForce(u)'
             PROVE  issued'[u] + Cardinality(Passed(u)') <= Cardinality(Worker)
  BY DEF IssueInv
<1>1. CASE issued'[u] = 0
  BY <1>1, PassedFinite, PassedFiniteNext
<1>2. CASE BanInForce(u) /\ issued'[u] = issued[u] /\ Passed(u)' \subseteq Passed(u)
  <2>1. Cardinality(Passed(u)') <= Cardinality(Passed(u))
    BY <1>2, PassedFinite, FS_Subset
  <2>2. issued[u] \in Nat /\ issued[u] + Cardinality(Passed(u)) <= Cardinality(Worker)
    BY <1>2 DEF IssueInv, TypeOK, UsersOK
  <2> QED
    BY <1>2, <2>1, <2>2, PassedFinite, PassedFiniteNext
<1> QED
  BY <1>1, <1>2

\* A worker past the check creates its row and is done.
LEMMA IssueRow ==
  ASSUME IssueInv, TypeOK', NEW w \in Worker, req[w].user \in User, w \in Passed(req[w].user),
         UNCHANGED <<now, users>>,
         issued' = [issued EXCEPT ![req[w].user] = @ + IF BanInForce(req[w].user) THEN 1 ELSE 0],
         req'[w].stage \in {"idle", "reply"}, \A v \in Worker : v # w => req'[v] = req[v]
  PROVE  IssueInv'
<1>1. \A u \in User : (BanInForce(u)' <=> BanInForce(u)) /\ (banned'[u] => Registered(u)')
  BY DEF users, BanInForce, BanExpired, IssueInv, Registered
<1>2. \A u \in User : Passed(u)' \subseteq Passed(u) \ {w}
  BY DEF Passed
<1> SUFFICES ASSUME NEW u \in User, BanInForce(u)
             PROVE  issued'[u] + Cardinality(Passed(u)') <= Cardinality(Worker)
  BY <1>1 DEF IssueInv
<1>3. issued[u] \in Nat /\ issued[u] + Cardinality(Passed(u)) <= Cardinality(Worker)
  BY DEF IssueInv, TypeOK, UsersOK
<1>4. CASE u = req[w].user
  <2>1. issued'[u] = issued[u] + 1
    BY <1>4 DEF IssueInv, TypeOK, UsersOK
  <2>2. IsFiniteSet(Passed(u) \ {w}) /\ Cardinality(Passed(u) \ {w}) = Cardinality(Passed(u)) - 1
    BY <1>4, PassedFinite, FS_RemoveElement
  <2>3. Cardinality(Passed(u)') <= Cardinality(Passed(u)) - 1
    BY <1>2, <2>2, FS_Subset
  <2> QED
    BY <1>3, <2>1, <2>3, PassedFinite, PassedFiniteNext
<1>5. CASE u # req[w].user
  <2>1. issued'[u] = issued[u]
    BY <1>5 DEF IssueInv, TypeOK, UsersOK
  <2>2. Cardinality(Passed(u)') <= Cardinality(Passed(u))
    BY <1>2, PassedFinite, FS_Subset
  <2> QED
    BY <1>3, <2>1, <2>2, PassedFinite, PassedFiniteNext
<1> QED
  BY <1>4, <1>5

LEMMA IssueNext == IssueInv /\ [Next]_vars => IssueInv'
<1> SUFFICES ASSUME IssueInv, [Next]_vars PROVE IssueInv'
  OBVIOUS
<1>0. TypeOK /\ TypeOK'
  BY TypeNext DEF IssueInv
<1> USE SessionsAssumption
<1>1. ASSUME NEW w \in Worker, NEW u \in User, Register(w, u) PROVE IssueInv'
  <2>1. ~banned[u] /\ ~BanInForce(u)'
    BY <1>1 DEF IssueInv, Register, BanInForce
  <2>2. \A v \in User : /\ BanInForce(v)' => BanInForce(v)
                        /\ banned'[v] => Registered(v)'
    BY <1>0, <1>1 DEF Register, BanInForce, BanExpired, Registered, TypeOK, UsersOK, IssueInv
  <2>3. \A v \in User : v # u => Passed(v)' \subseteq Passed(v)
    BY <1>0, <1>1 DEF Register, Passed, Idle, TypeOK
  <2> QED
    BY <1>0, <1>1, <2>1, <2>2, <2>3, IssueQuiet DEF Register, hist
<1>2. ASSUME UNCHANGED <<now, users, issued>>,
             \A u \in User : BanInForce(u) => Passed(u)' \subseteq Passed(u)
      PROVE  IssueInv'
  <2>1. \A u \in User : (BanInForce(u)' <=> BanInForce(u)) /\ (banned'[u] => Registered(u)')
    BY <1>2 DEF users, BanInForce, BanExpired, IssueInv, Registered
  <2> QED
    BY <1>0, <1>2, <2>1, IssueQuiet
<1>3. ASSUME NEW w \in Worker, NEW u \in User, Login(w, u) PROVE IssueInv'
  <2>1. \A v \in User : BanInForce(v) => Passed(v)' \subseteq Passed(v)
    BY <1>0, <1>3 DEF Login, Passed, Idle, TypeOK
  <2> QED
    BY <1>2, <1>3, <2>1 DEF Login, hist
<1>4. ASSUME NEW w \in Worker, NEW u \in User, LogoutAll(w, u) PROVE IssueInv'
  <2>1. \A v \in User : Passed(v)' \subseteq Passed(v)
    BY <1>0, <1>4 DEF LogoutAll, Passed, Idle, TypeOK
  <2> QED
    BY <1>2, <1>4, <2>1 DEF LogoutAll, hist
<1>5. ASSUME NEW w \in Worker, NEW t \in Token, RefreshRead(w, t) PROVE IssueInv'
  <2>1. \A v \in User : Passed(v)' \subseteq Passed(v)
    BY <1>0, <1>5 DEF RefreshRead, Passed, Idle, TypeOK
  <2> QED
    BY <1>2, <1>5, <2>1 DEF RefreshRead, hist
<1>6. ASSUME NEW w \in Worker, IssueTokens(w) PROVE IssueInv'
  <2>1. req[w].user \in User /\ w \in Passed(req[w].user)
    BY <1>0, <1>6 DEF IssueTokens, TypeOK, RequestOK, Passed
  <2> QED
    BY <1>0, <1>6, <2>1, IssueRow DEF IssueTokens, InsertRow, Finish, Idle, TypeOK
<1>7. ASSUME NEW w \in Worker, AutoUnban(w) PROVE IssueInv'
  <2>1. issued'[req[w].user] \in {0, issued[req[w].user]}
    BY <1>0, <1>7 DEF AutoUnban, TypeOK, RequestOK, UsersOK
  <2>2. \A v \in User : /\ BanInForce(v)' => BanInForce(v)
                        /\ banned'[v] => Registered(v)'
                        /\ v # req[w].user => issued'[v] = issued[v]
    BY <1>0, <1>7 DEF AutoUnban, BanInForce, BanExpired, Registered, TypeOK, UsersOK, IssueInv
  <2>3. \A v \in User : Passed(v)' \subseteq Passed(v)
    BY <1>0, <1>7 DEF AutoUnban, Goto, Passed, TypeOK, Request
  <2> QED
    BY <1>0, <2>1, <2>2, <2>3, IssueQuiet
<1>8. ASSUME NEW w \in Worker, RefreshUser(w) PROVE IssueInv'
  <2>1. \A v \in User : BanInForce(v) => Passed(v)' \subseteq Passed(v)
    <3>1. CASE Finish(w)
      BY <1>0, <3>1 DEF Finish, Passed, Idle, TypeOK
    <3>2. CASE ~Finish(w)
      <4>1. ~BanInForce(req[w].user)
        BY <1>8, <3>2 DEF RefreshUser
      <4>2. req'[w].user = req[w].user /\ \A v \in Worker : v # w => req'[v] = req[v]
        <5>1. req' = [req EXCEPT ![w] =
                        [@ EXCEPT !.stage = IF banned[req[w].user] THEN "unban" ELSE "lock",
                                  !.role = role[req[w].user]]]
          BY <1>8, <3>2 DEF RefreshUser
        <5> QED
          BY <1>0, <5>1 DEF TypeOK, Request
      <4> QED
        BY <4>1, <4>2 DEF Passed
    <3> QED
      BY <3>1, <3>2
  <2> QED
    BY <1>2, <1>8, <2>1 DEF RefreshUser, hist
<1>9. ASSUME NEW w \in Worker, RefreshLock(w) PROVE IssueInv'
  <2>1. \A v \in User : Passed(v)' \subseteq Passed(v)
    BY <1>0, <1>9 DEF RefreshLock, Finish, Goto, Passed, Idle, TypeOK, Request
  <2> QED
    BY <1>2, <1>9, <2>1 DEF RefreshLock, hist
<1>10. ASSUME NEW w \in Worker, RefreshCommit(w) PROVE IssueInv'
  <2>1. req[w].user \in User /\ owner[req[w].tok] = req[w].user /\ w \in Passed(req[w].user)
    BY <1>0, <1>10 DEF RefreshCommit, TypeOK, RequestOK, Passed
  <2>2. issued' = [issued EXCEPT ![req[w].user] = @ + IF BanInForce(req[w].user) THEN 1 ELSE 0]
    BY <1>10, <2>1 DEF RefreshCommit, InsertRow
  <2>3. req'[w].stage = "reply" /\ \A v \in Worker : v # w => req'[v] = req[v]
    BY <1>0, <1>10 DEF RefreshCommit, Goto, TypeOK, Request
  <2> QED
    BY <1>0, <1>10, <2>1, <2>2, <2>3, IssueRow DEF RefreshCommit
<1>11. ASSUME NEW w \in Worker, RefreshReply(w) \/ SweepRows(w) \/ Abort(w) PROVE IssueInv'
  <2>1. \A v \in User : Passed(v)' \subseteq Passed(v)
    BY <1>0, <1>11 DEF RefreshReply, SweepRows, Abort, Finish, Passed, Idle, TypeOK
  <2> QED
    BY <1>2, <1>11, <2>1 DEF RefreshReply, SweepRows, Abort, hist
<1>12. ASSUME NEW t \in Token, Logout(t) PROVE IssueInv'
  <2>1. \A v \in User : Passed(v)' \subseteq Passed(v)
    BY <1>12 DEF Logout, Passed
  <2> QED
    BY <1>2, <1>12, <2>1 DEF Logout, hist
<1>13. ASSUME NEW u \in User, \/ \E e \in Time \cup {NoTime} : AdminBanUser(u, e)
                              \/ AdminUnbanUser(u)
       PROVE  IssueInv'
  <2>1. /\ issued'[u] = 0 /\ req' = req
        /\ \A v \in User : v # u => issued'[v] = issued[v] /\ (BanInForce(v)' <=> BanInForce(v))
        /\ \A v \in User : banned'[v] => Registered(v)'
    BY <1>0, <1>13
       DEF AdminBanUser, AdminUnbanUser, BanInForce, BanExpired, Registered, TypeOK, UsersOK, IssueInv
  <2>2. \A v \in User : Passed(v)' \subseteq Passed(v)
    BY <2>1 DEF Passed
  <2> QED
    BY <1>0, <2>1, <2>2, IssueQuiet
<1>14. ASSUME NEW u \in User, NEW r \in Role, AdminChangeUserRole(u, r) PROVE IssueInv'
  <2>1. /\ UNCHANGED <<issued, req>>
        /\ \A v \in User : (BanInForce(v)' <=> BanInForce(v)) /\ (banned'[v] => Registered(v)')
    BY <1>0, <1>14
       DEF AdminChangeUserRole, BanInForce, BanExpired, Registered, TypeOK, UsersOK, IssueInv
  <2>2. \A v \in User : Passed(v)' \subseteq Passed(v)
    BY <2>1 DEF Passed
  <2> QED
    BY <1>0, <2>1, <2>2, IssueQuiet
<1>15. CASE Tick
  <2>1. /\ UNCHANGED <<issued, req>>
        /\ \A v \in User : (BanInForce(v)' => BanInForce(v)) /\ (banned'[v] => Registered(v)')
    <3>1. now \in Int /\ \A v \in User : banExp[v] \in Int
      BY <1>0 DEF TypeOK, UsersOK, Time, NoTime
    <3> QED
      BY <1>15, <3>1 DEF Tick, hist, users, BanInForce, BanExpired, Registered, IssueInv
  <2>2. \A v \in User : Passed(v)' \subseteq Passed(v)
    BY <2>1 DEF Passed
  <2> QED
    BY <1>0, <2>1, <2>2, IssueQuiet
<1>16. CASE UNCHANGED vars
  <2>1. \A v \in User : Passed(v)' \subseteq Passed(v)
    BY <1>16 DEF vars, Passed
  <2> QED
    BY <1>2, <1>16, <2>1 DEF vars, hist
<1> QED
  BY <1>1, <1>3, <1>4, <1>5, <1>6, <1>7, <1>8, <1>9, <1>10, <1>11, <1>12,
     <1>13, <1>14, <1>15, <1>16 DEF Next

\* After a ban at most one refresh token per request in progress is still
\* created for the user, however many requests there are (auth.go:108, 183).
THEOREM BannedIssue == Spec => []BanBoundsIssue
<1>1. Init => IssueInv
  BY TypeInit DEF Init, IssueInv, BanInForce
<1>2. IssueInv => BanBoundsIssue
  BY PassedFinite DEF IssueInv, BanBoundsIssue, TypeOK, UsersOK
<1> QED
  BY <1>1, <1>2, IssueNext, PTL DEF Spec
=============================================================================
